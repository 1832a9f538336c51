-------------------------- MODULE JpegFile_proofs --------------------------
(***************************************************************************)
(* Proofs about JpegFile, for buffers of any length above one, any         *)
(* pictures, files and disks: JPG_write reports what is on the disk, the   *)
(* source manager is a plain stream of bytes to its decoder, no buffer     *)
(* runs over, and the mark is seen in every file whose header has it and   *)
(* in no other.                                                            *)
(***************************************************************************)
EXTENDS JpegFile, SequenceTheorems, Induction

-----------------------------------------------------------------------------
(* Bytes.                                                                  *)

Bytes == 0 .. ByteValues - 1

(* Sequences of bytes are sequences of numbers.                            *)
LEMMA BytesAreNumbers ==
  /\ \A p \in Pictures \cup Foreign : p.bytes \in Seq(Nat)
  /\ Rooms \subseteq Nat
  /\ FF \in Nat /\ D9 \in Nat /\ ByteValues \in Nat /\ MARKER_CONST \in Seq(Nat)
<1>1. /\ ByteValues \in Nat /\ FF \in Nat /\ D9 \in Nat /\ Bytes \subseteq Nat
  BY FileAssumption, SMT DEF Bytes
<1>2. Seq(Bytes) \subseteq Seq(Nat)
  BY <1>1, SeqMonotonic
<1>3. \A p \in Pictures \cup Foreign : p.bytes \in Seq(Bytes)
  BY FileAssumption DEF Bytes
<1> QED BY <1>1, <1>2, <1>3, FileAssumption

(* A byte of the stream is a byte.                                         *)
LEMMA ByteAtType ==
  ASSUME NEW f \in Seq(Bytes), NEW i \in Nat, i > 0
  PROVE  ByteAt(f, i) \in Bytes /\ (i > Len(f) => ByteAt(f, i) \in {FF, D9})
<1>1. Len(f) \in Nat
  BY LenProperties
<1>2. CASE i <= Len(f)
  <2>1. i \in 1 .. Len(f)
    BY <1>1, <1>2, SMT
  <2>2. f[i] \in Bytes
    BY <2>1, ElementOfSeq
  <2> QED BY <1>1, <1>2, <2>2 DEF ByteAt
<1>3. CASE ~(i <= Len(f))
  <2>1. ((i - Len(f) - 1) % 2) + 1 \in {1, 2}
    BY <1>1, <1>3, SMT
  <2>2. FF \in Bytes /\ D9 \in Bytes
    BY FileAssumption DEF Bytes
  <2>3. \A j \in {1, 2} : <<FF, D9>>[j] \in {FF, D9}
    OBVIOUS
  <2>4. ByteAt(f, i) = <<FF, D9>>[((i - Len(f) - 1) % 2) + 1]
    BY <1>3 DEF ByteAt
  <2> QED BY <2>1, <2>2, <2>3, <2>4
<1> QED BY <1>2, <1>3

-----------------------------------------------------------------------------
(* Writing.                                                                *)

(* The beginning of the picture that has been written.                     *)
Begun(n) == SubSeq(made, 1, n)

(* What is on the disk and what is in the buffer is what libjpeg has made. *)
WriteInv ==
  /\ made \in Seq(Nat) /\ file \in Seq(Nat) /\ out \in Seq(Nat)
  /\ emitted \in 0 .. Len(made)
  /\ room \in Nat
  /\ wrote \in {"no", "writing", "true", "false"}
  /\ wrote = "writing" => file \o out = Begun(emitted)
  /\ wrote = "true" => file = made
  /\ wrote = "false" => \E n \in 0 .. Len(made) : n < Len(made) /\ file = Begun(n)

(* A sequence cut anywhere.                                                *)
LEMMA CutType ==
  ASSUME NEW s \in Seq(Nat), NEW n \in 0 .. Len(s)
  PROVE  /\ SubSeq(s, 1, n) \in Seq(Nat)
         /\ Len(SubSeq(s, 1, n)) = n
         /\ \A i \in 1 .. n : SubSeq(s, 1, n)[i] = s[i]
<1>1. /\ Len(s) \in Nat /\ n \in Int /\ 1 \in Int
      /\ \A i \in 1 .. Len(s) : s[i] \in Nat
      /\ 1 .. n \subseteq 1 .. Len(s)
  BY LenProperties, ElementOfSeq, SMT
<1>2. /\ SubSeq(s, 1, n) \in Seq(Nat)
      /\ Len(SubSeq(s, 1, n)) = IF 1 <= n THEN n - 1 + 1 ELSE 0
      /\ \A i \in 1 .. n - 1 + 1 : SubSeq(s, 1, n)[i] = s[1 + i - 1]
  BY <1>1, SubSeqProperties
<1> QED BY <1>1, <1>2, SMT

(* A beginning and the byte after it.                                      *)
LEMMA BegunNext ==
  ASSUME NEW s \in Seq(Nat), NEW n \in Nat, n < Len(s)
  PROVE  SubSeq(s, 1, n + 1) = SubSeq(s, 1, n) \o <<s[n + 1]>>
<1>1. Len(s) \in Nat /\ n + 1 \in 1 .. Len(s) /\ 1 \in 1 .. Len(s) /\ n + 1 - 1 = n
  BY LenProperties, SMT
<1>2. SubSeq(s, 1, n + 1) = SubSeq(s, 1, n + 1 - 1) \o <<s[n + 1]>>
  BY <1>1, SubSeqRecursiveSecond
<1> QED BY <1>1, <1>2

(* What was written before and a beginning of what comes next is a         *)
(* beginning of both together.                                             *)
LEMMA PartWritten ==
  ASSUME NEW f \in Seq(Nat), NEW b \in Seq(Nat), NEW n \in 0 .. Len(b)
  PROVE  /\ f \o SubSeq(b, 1, n) = SubSeq(f \o b, 1, Len(f) + n)
         /\ f \o SubSeq(b, 1, n) \in Seq(Nat)
         /\ Len(f) + n \in 0 .. Len(f \o b)
         /\ Len(f \o b) = Len(f) + Len(b)
<1> DEFINE part == SubSeq(b, 1, n)
           both == f \o b
<1>1. Len(f) \in Nat /\ Len(b) \in Nat /\ n \in Nat /\ n <= Len(b)
  BY LenProperties, SMT
<1>2. part \in Seq(Nat) /\ Len(part) = n /\ (\A i \in 1 .. n : part[i] = b[i])
  BY CutType
<1>3. /\ both \in Seq(Nat) /\ Len(both) = Len(f) + Len(b)
      /\ \A i \in 1 .. Len(f) + Len(b) : both[i] = IF i <= Len(f) THEN f[i] ELSE b[i - Len(f)]
  BY ConcatProperties
<1>4. Len(f) + n \in 0 .. Len(both)
  BY <1>1, <1>3, SMT
<1> HIDE DEF part, both
<1>5. /\ SubSeq(both, 1, Len(f) + n) \in Seq(Nat) /\ Len(SubSeq(both, 1, Len(f) + n)) = Len(f) + n
      /\ \A i \in 1 .. Len(f) + n : SubSeq(both, 1, Len(f) + n)[i] = both[i]
  BY <1>3, <1>4, CutType
<1>6. /\ f \o part \in Seq(Nat) /\ Len(f \o part) = Len(f) + Len(part)
      /\ \A i \in 1 .. Len(f) + Len(part) :
           (f \o part)[i] = IF i <= Len(f) THEN f[i] ELSE part[i - Len(f)]
  <2>1. part \in Seq(Nat)
    BY <1>2
  <2> QED BY <2>1, ConcatProperties
<1>7. ASSUME NEW i \in 1 .. Len(f) + n
      PROVE  (f \o part)[i] = SubSeq(both, 1, Len(f) + n)[i]
  <2>1. i \in 1 .. Len(f) + Len(part) /\ i \in 1 .. Len(f) + Len(b)
    BY <1>1, <1>2, SMT
  <2>2. ~(i <= Len(f)) => i - Len(f) \in 1 .. n
    BY <1>1, SMT
  <2>3. ~(i <= Len(f)) => part[i - Len(f)] = b[i - Len(f)]
    BY <1>2, <2>2
  <2> QED BY <1>3, <1>5, <1>6, <2>1, <2>3
<1>8. f \o part = SubSeq(both, 1, Len(f) + n)
  <2>1. Len(f \o part) = Len(f) + n
    BY <1>2, <1>6
  <2> QED BY <1>5, <1>6, <1>7, <2>1, SeqEqual
<1> QED BY <1>3, <1>4, <1>6, <1>8 DEF part, both

(* A beginning of a beginning.                                             *)
LEMMA BegunTwice ==
  ASSUME NEW s \in Seq(Nat), NEW e \in 0 .. Len(s), NEW n \in 0 .. e
  PROVE  SubSeq(SubSeq(s, 1, e), 1, n) = SubSeq(s, 1, n)
<1> DEFINE t == SubSeq(s, 1, e)
<1>1. t \in Seq(Nat) /\ Len(t) = e /\ \A i \in 1 .. e : t[i] = s[i]
  BY CutType
<1>2. Len(s) \in Nat
  BY LenProperties
<1>3. n \in 0 .. Len(t) /\ n \in 0 .. Len(s) /\ 1 .. n \subseteq 1 .. e
  BY <1>1, <1>2, SMT
<1> HIDE DEF t
<1>4. /\ SubSeq(t, 1, n) \in Seq(Nat) /\ Len(SubSeq(t, 1, n)) = n
      /\ \A i \in 1 .. n : SubSeq(t, 1, n)[i] = t[i]
  BY <1>1, <1>3, CutType
<1>5. /\ SubSeq(s, 1, n) \in Seq(Nat) /\ Len(SubSeq(s, 1, n)) = n
      /\ \A i \in 1 .. n : SubSeq(s, 1, n)[i] = s[i]
  BY <1>3, CutType
<1>6. \A i \in 1 .. n : SubSeq(t, 1, n)[i] = SubSeq(s, 1, n)[i]
  BY <1>1, <1>3, <1>4, <1>5
<1>7. SubSeq(t, 1, n) = SubSeq(s, 1, n)
  BY <1>4, <1>5, <1>6, SeqEqual
<1> QED BY <1>7 DEF t

(* gwrite of bytes that come next, whole or in part.                       *)
LEMMA WriteOutKeeps ==
  ASSUME made \in Seq(Nat), file \in Seq(Nat), room \in Nat,
         NEW bytes \in Seq(Nat), NEW e \in 0 .. Len(made), file \o bytes = Begun(e),
         NEW done \in {"writing", "true"}, done = "true" => e = Len(made),
         WriteOut(bytes, done), made' = made, emitted' = e
  PROVE  WriteInv'
<1> DEFINE n == IF Len(bytes) <= room THEN Len(bytes) ELSE room
<1>1. Len(bytes) \in Nat /\ Len(file) \in Nat /\ Len(made) \in Nat
  BY LenProperties
<1>2. n \in 0 .. Len(bytes) /\ room - n \in Nat
  BY <1>1, SMT
<1>3. /\ file' = file \o SubSeq(bytes, 1, n) /\ room' = room - n /\ out' = << >>
      /\ wrote' = IF n = Len(bytes) THEN done ELSE "false"
  BY DEF WriteOut
<1> HIDE DEF n
<1>4. /\ file \o SubSeq(bytes, 1, n) = SubSeq(Begun(e), 1, Len(file) + n)
      /\ file \o SubSeq(bytes, 1, n) \in Seq(Nat)
      /\ Len(file) + n \in 0 .. Len(Begun(e)) /\ Len(Begun(e)) = Len(file) + Len(bytes)
  BY <1>2, PartWritten, SMTT(40)
<1>5. Len(Begun(e)) = e /\ Begun(e) \in Seq(Nat)
  BY CutType DEF Begun
<1>6. << >> \in Seq(Nat) /\ room' \in Nat /\ file' \in Seq(Nat)
  BY <1>2, <1>3, <1>4, EmptySeq
<1>7. CASE n = Len(bytes)
  <2>1. SubSeq(bytes, 1, n) = bytes
    BY <1>7, SubSeqFull
  <2>2. file' = Begun(e) /\ file' \o << >> = file'
    BY <1>3, <1>6, <2>1, ConcatEmptySeq
  <2>3. Begun(Len(made)) = made
    BY SubSeqFull DEF Begun
  <2>4. Begun(e)' = Begun(e)
    BY DEF Begun
  <2>5. file' \o out' = Begun(e)'
    BY <1>3, <2>2, <2>4
  <2>6. wrote' = done /\ (wrote' = "true" => file' = made')
    BY <1>3, <1>7, <2>2, <2>3
  <2>7. Begun(emitted)' = Begun(e)'
    BY DEF Begun
  <2> QED BY <1>3, <1>6, <2>5, <2>6, <2>7 DEF WriteInv
<1>8. CASE n # Len(bytes)
  <2>1. /\ Len(file) + n \in 0 .. e /\ Len(file) + n \in 0 .. Len(made)
        /\ Len(file) + n < Len(made)
    BY <1>1, <1>2, <1>4, <1>5, <1>8, SMTT(40)
  <2>2. file' = Begun(Len(file) + n)
    BY <1>3, <1>4, <2>1, BegunTwice DEF Begun
  <2>3. \E k \in 0 .. Len(made) : k < Len(made) /\ file' = SubSeq(made, 1, k)
    BY <2>1, <2>2 DEF Begun
  <2>4. wrote' = "false"
    BY <1>3, <1>8
  <2> QED BY <1>3, <1>6, <2>3, <2>4 DEF WriteInv, Begun
<1> QED BY <1>7, <1>8

LEMMA EmitByteStep == ASSUME WriteInv, EmitByte PROVE WriteInv'
<1> DEFINE byte == made[emitted + 1]
           next == Append(out, byte)
<1>1. /\ wrote = "writing" /\ emitted < Len(made) /\ emitted' = emitted + 1 /\ made' = made
      /\ IF Len(next) = BufferLength THEN WriteOut(next, "writing")
         ELSE out' = next /\ file' = file /\ room' = room /\ wrote' = wrote
  BY DEF EmitByte
<1>2. /\ emitted \in Nat /\ Len(made) \in Nat /\ emitted + 1 \in 0 .. Len(made)
      /\ emitted + 1 \in 1 .. Len(made)
      /\ made \in Seq(Nat) /\ file \in Seq(Nat) /\ out \in Seq(Nat) /\ room \in Nat
      /\ file \o out = Begun(emitted)
  <2>1. made \in Seq(Nat) /\ emitted \in 0 .. Len(made)
    BY DEF WriteInv
  <2>2. Len(made) \in Nat
    BY <2>1, LenProperties
  <2>3. /\ emitted \in Nat /\ emitted + 1 \in 0 .. Len(made) /\ emitted + 1 \in 1 .. Len(made)
    BY <1>1, <2>1, <2>2, SMT
  <2> QED BY <1>1, <2>1, <2>2, <2>3 DEF WriteInv
<1>3. byte \in Nat
  BY <1>2, ElementOfSeq
<1>4. next \in Seq(Nat) /\ next = out \o <<byte>> /\ <<byte>> \in Seq(Nat)
  <2> HIDE DEF byte
  <2>1. next \in Seq(Nat) /\ next = out \o <<byte>>
    BY <1>2, <1>3, AppendProperties, AppendIsConcat
  <2>2. <<byte>> \in Seq(Nat)
    BY <1>3, SMT
  <2> QED BY <2>1, <2>2
<1>5. file \o next = Begun(emitted + 1)
  <2>1. file \o (out \o <<byte>>) = (file \o out) \o <<byte>>
    <3> HIDE DEF byte
    <3>1. file \in Seq(Nat) /\ out \in Seq(Nat) /\ <<byte>> \in Seq(Nat)
      BY <1>2, <1>4
    <3> QED BY <3>1, ConcatAssociative, SMTT(60)
  <2>2. Begun(emitted + 1) = Begun(emitted) \o <<byte>>
    BY <1>1, <1>2, BegunNext DEF Begun
  <2> QED BY <1>2, <1>4, <2>1, <2>2
<1> HIDE DEF next, byte
<1>6. CASE Len(next) = BufferLength
  <2>1. WriteOut(next, "writing")
    BY <1>1, <1>6
  <2> QED BY <1>1, <1>2, <1>4, <1>5, <2>1, WriteOutKeeps
<1>7. CASE Len(next) # BufferLength
  <2>1. out' = next /\ file' = file /\ room' = room /\ wrote' = wrote
    BY <1>1, <1>7
  <2>2. Begun(emitted)' = Begun(emitted + 1)
    BY <1>1 DEF Begun
  <2> QED BY <1>1, <1>2, <1>4, <1>5, <2>1, <2>2 DEF WriteInv
<1> QED BY <1>6, <1>7

LEMMA FinishCompressStep == ASSUME WriteInv, FinishCompress PROVE WriteInv'
<1>1. /\ wrote = "writing" /\ emitted = Len(made) /\ WriteOut(out, "true")
      /\ made' = made /\ emitted' = emitted
  BY DEF FinishCompress
<1>2. /\ made \in Seq(Nat) /\ file \in Seq(Nat) /\ out \in Seq(Nat) /\ room \in Nat
      /\ emitted \in 0 .. Len(made) /\ file \o out = Begun(emitted)
  BY <1>1 DEF WriteInv
<1> QED BY <1>1, <1>2, WriteOutKeeps

(* The error exit leaves the buffer, and what the disk has is less than    *)
(* the picture.                                                            *)
LEMMA CompressFailsStep == ASSUME WriteInv, CompressFails PROVE WriteInv'
<1>1. /\ wrote = "writing" /\ emitted < Len(made) /\ wrote' = "false"
      /\ made' = made /\ emitted' = emitted /\ out' = out /\ file' = file /\ room' = room
  BY DEF CompressFails
<1>2. /\ made \in Seq(Nat) /\ file \in Seq(Nat) /\ out \in Seq(Nat) /\ room \in Nat
      /\ emitted \in 0 .. Len(made) /\ file \o out = Begun(emitted)
  BY <1>1 DEF WriteInv
<1>3. Begun(emitted) \in Seq(Nat) /\ Len(Begun(emitted)) = emitted
  BY <1>2, CutType DEF Begun
<1>4. /\ Len(out) \in Nat /\ Len(file) \in Nat /\ Len(made) \in Nat
      /\ SubSeq(out, 1, 0) = << >> /\ file \o << >> = file
  <2>1. SubSeq(out, 1, 0) = << >>
    BY SubSeqEmpty, SMT
  <2> QED BY <1>2, <2>1, LenProperties, ConcatEmptySeq
<1>5. 0 \in 0 .. Len(out)
  BY <1>4, SMT
<1>6. /\ file \o SubSeq(out, 1, 0) = SubSeq(file \o out, 1, Len(file) + 0)
      /\ Len(file) + 0 \in 0 .. Len(file \o out)
  BY <1>2, <1>5, PartWritten
<1>7. file = SubSeq(Begun(emitted), 1, Len(file)) /\ Len(file) \in 0 .. emitted
  <2>1. Len(file) + 0 = Len(file)
    BY <1>4, SMT
  <2> QED BY <1>2, <1>3, <1>4, <1>6, <2>1
<1>8. file = Begun(Len(file)) /\ Len(file) \in 0 .. Len(made) /\ Len(file) < Len(made)
  <2>1. file = SubSeq(made, 1, Len(file))
    BY <1>2, <1>7, BegunTwice DEF Begun
  <2> QED BY <1>1, <1>2, <1>4, <1>7, <2>1, SMTT(40) DEF Begun
<1>9. \E n \in 0 .. Len(made)' : n < Len(made)' /\ file' = Begun(n)'
  BY <1>1, <1>8 DEF Begun
<1> QED BY <1>1, <1>2, <1>9 DEF WriteInv

-----------------------------------------------------------------------------
(* Reading: the buffer.                                                    *)

(* What is left in the buffer are the bytes of the stream that come next;  *)
(* all of the file comes before the first end mark.                        *)
BufferInv ==
  /\ buffer \in Seq(Nat)
  /\ bytes_in_buffer \in 0 .. Len(buffer)
  /\ fetched \in 0 .. Len(file)
  /\ filled \in Nat /\ bytes_in_buffer <= filled
  /\ \E k \in Nat : filled = fetched + 2 * k /\ (k = 0 \/ fetched = Len(file))
  /\ \A i \in 1 .. bytes_in_buffer :
       buffer[Len(buffer) - bytes_in_buffer + i] = ByteAt(file, filled - bytes_in_buffer + i)

(* What a refill puts into the buffer is what comes next in the stream.    *)
LEMMA FilledBytes ==
  ASSUME BufferInv, file \in Seq(Nat)
  PROVE  /\ Filled \in Seq(Nat) /\ Len(Filled) \in Nat /\ Len(Filled) > 0
         /\ \A j \in 1 .. Len(Filled) : Filled[j] = ByteAt(file, filled + j)
         /\ fetched + Len(Chunk) \in 0 .. Len(file)
         /\ \E k \in Nat : /\ filled + Len(Filled) = fetched + Len(Chunk) + 2 * k
                           /\ k = 0 \/ fetched + Len(Chunk) = Len(file)
<1> DEFINE to == IF fetched + BufferLength > Len(file) THEN Len(file) ELSE fetched + BufferLength
<1>1. Len(file) \in Nat /\ fetched \in Nat /\ fetched <= Len(file) /\ BufferLength \in Nat /\ BufferLength > 0
      /\ filled \in Nat
  <2>1. Len(file) \in Nat
    BY LenProperties
  <2> QED BY <2>1, BufferAssumption, SMT DEF BufferInv
<1>2. to \in Nat /\ fetched <= to /\ to <= Len(file) /\ (to = fetched => fetched = Len(file))
  BY <1>1, SMT
<1>3. Chunk = SubSeq(file, fetched + 1, to)
  BY DEF Chunk
<1> HIDE DEF to
<1>4. /\ fetched + 1 \in Int /\ to \in Int
      /\ \A i \in fetched + 1 .. to : file[i] \in Nat
  <2>1. \A i \in 1 .. Len(file) : file[i] \in Nat
    BY ElementOfSeq
  <2>2. fetched + 1 .. to \subseteq 1 .. Len(file)
    BY <1>1, <1>2, SMT
  <2> QED BY <1>1, <1>2, <2>1, <2>2, SMT
<1>5. /\ Chunk \in Seq(Nat)
      /\ Len(Chunk) = IF fetched + 1 <= to THEN to - (fetched + 1) + 1 ELSE 0
      /\ \A i \in 1 .. to - (fetched + 1) + 1 : Chunk[i] = file[fetched + 1 + i - 1]
  BY <1>3, <1>4, SubSeqProperties
<1>6. Len(Chunk) = to - fetched /\ Len(Chunk) \in Nat /\ fetched + Len(Chunk) \in 0 .. Len(file)
  BY <1>1, <1>2, <1>5, SMT
<1>7. PICK k \in Nat : filled = fetched + 2 * k /\ (k = 0 \/ fetched = Len(file))
  BY DEF BufferInv
<1>8. CASE Chunk = << >>
  <2>1. fetched = Len(file) /\ Len(Chunk) = 0
    <3>1. Len(Chunk) = 0
      BY <1>8, EmptySeq
    <3> QED BY <1>1, <1>2, <1>6, <3>1, SMT
  <2>2. Filled = <<FF, D9>>
    BY <1>8 DEF Filled
  <2>3. <<FF, D9>> \in Seq(Nat) /\ Len(<<FF, D9>>) = 2
    BY BytesAreNumbers, SMT
  <2>4. ASSUME NEW j \in 1 .. 2 PROVE <<FF, D9>>[j] = ByteAt(file, filled + j)
    <3>1. ~(filled + j <= Len(file))
      BY <1>1, <1>7, <2>1, SMT
    <3>2. (filled + j) - Len(file) - 1 = 2 * k + (j - 1)
      BY <1>1, <1>7, <2>1, SMT
    <3>3. ((2 * k + (j - 1)) % 2) + 1 = j
      BY <1>7, SMT
    <3>4. ByteAt(file, filled + j) = <<FF, D9>>[(((filled + j) - Len(file) - 1) % 2) + 1]
      BY <3>1 DEF ByteAt
    <3> QED BY <3>2, <3>3, <3>4
  <2>5. /\ k + 1 \in Nat /\ filled + 2 = fetched + Len(Chunk) + 2 * (k + 1)
        /\ fetched + Len(Chunk) = Len(file)
    BY <1>1, <1>7, <2>1, SMT
  <2>6. \E l \in Nat : /\ filled + Len(Filled) = fetched + Len(Chunk) + 2 * l
                       /\ l = 0 \/ fetched + Len(Chunk) = Len(file)
    BY <2>2, <2>3, <2>5
  <2>7. Len(Filled) \in Nat /\ Len(Filled) > 0
    BY <2>2, <2>3, SMT
  <2> QED BY <1>6, <2>2, <2>3, <2>4, <2>6, <2>7
<1>9. CASE Chunk # << >>
  <2>1. Len(Chunk) > 0
    <3>1. Len(Chunk) # 0
      BY <1>5, <1>9, EmptySeq
    <3> QED BY <1>6, <3>1, SMT
  <2>2. k = 0 /\ filled = fetched
    BY <1>1, <1>2, <1>6, <1>7, <2>1, SMT
  <2>3. Filled = Chunk
    BY <1>9 DEF Filled
  <2>4. ASSUME NEW j \in 1 .. Len(Chunk) PROVE Chunk[j] = ByteAt(file, filled + j)
    <3>1. /\ filled + j <= Len(file) /\ fetched + 1 + j - 1 = filled + j
          /\ j \in 1 .. to - (fetched + 1) + 1
      BY <1>1, <1>2, <1>6, <2>2, SMT
    <3> QED BY <1>5, <3>1 DEF ByteAt
  <2>5. filled + Len(Filled) = fetched + Len(Chunk) + 2 * 0 /\ 0 \in Nat
    BY <1>1, <1>6, <2>2, <2>3, SMTT(40)
  <2> QED BY <1>5, <1>6, <2>1, <2>3, <2>4, <2>5
<1> QED BY <1>8, <1>9

(* A refill, of which some bytes may have been taken already.              *)
LEMMA FillKeeps ==
  ASSUME BufferInv, file \in Seq(Nat), file' = file,
         NEW left \in 0 .. Len(Filled), FillInputBuffer(left)
  PROVE  BufferInv' /\ filled' = filled + Len(Filled) /\ bytes_in_buffer' = left
<1>1. /\ Filled \in Seq(Nat) /\ Len(Filled) \in Nat
      /\ \A j \in 1 .. Len(Filled) : Filled[j] = ByteAt(file, filled + j)
      /\ fetched + Len(Chunk) \in 0 .. Len(file)
      /\ \E k \in Nat : /\ filled + Len(Filled) = fetched + Len(Chunk) + 2 * k
                        /\ k = 0 \/ fetched + Len(Chunk) = Len(file)
  BY FilledBytes
<1>2. /\ buffer' = Filled /\ bytes_in_buffer' = left /\ fetched' = fetched + Len(Chunk)
      /\ filled' = filled + Len(Filled)
  BY DEF FillInputBuffer
<1>3. filled \in Nat
  BY DEF BufferInv
<1>4. filled' \in Nat /\ left <= filled'
  BY <1>1, <1>2, <1>3, SMT
<1>6. ASSUME NEW i \in 1 .. left
      PROVE  Filled[Len(Filled) - left + i] = ByteAt(file, (filled + Len(Filled)) - left + i)
  <2>1. Len(Filled) - left + i \in 1 .. Len(Filled)
    BY <1>1, SMT
  <2>2. filled + (Len(Filled) - left + i) = (filled + Len(Filled)) - left + i
    BY <1>1, <1>3, SMT
  <2>3. Filled[Len(Filled) - left + i] = ByteAt(file, filled + (Len(Filled) - left + i))
    BY <1>1, <2>1
  <2> QED BY <2>2, <2>3
<1>7. \A i \in 1 .. bytes_in_buffer' :
        buffer'[Len(buffer') - bytes_in_buffer' + i] = ByteAt(file', filled' - bytes_in_buffer' + i)
  <2> SUFFICES ASSUME NEW i \in 1 .. bytes_in_buffer'
               PROVE  buffer'[Len(buffer') - bytes_in_buffer' + i] =
                        ByteAt(file', filled' - bytes_in_buffer' + i)
    OBVIOUS
  <2>1. i \in 1 .. left
    BY <1>2
  <2>2. Filled[Len(Filled) - left + i] = ByteAt(file, (filled + Len(Filled)) - left + i)
    BY <1>6, <2>1
  <2>3. buffer'[Len(buffer') - bytes_in_buffer' + i] = Filled[Len(Filled) - left + i]
    BY <1>2
  <2>4. ByteAt(file', filled' - bytes_in_buffer' + i) = ByteAt(file, (filled + Len(Filled)) - left + i)
    BY <1>2
  <2> QED BY <2>2, <2>3, <2>4
<1>8. /\ buffer' \in Seq(Nat) /\ bytes_in_buffer' \in 0 .. Len(buffer')
      /\ fetched' \in 0 .. Len(file') /\ filled' \in Nat /\ bytes_in_buffer' <= filled'
      /\ \E k \in Nat : filled' = fetched' + 2 * k /\ (k = 0 \/ fetched' = Len(file'))
  BY <1>1, <1>2, <1>4
<1> QED BY <1>2, <1>7, <1>8 DEF BufferInv

(* A byte taken is the next of the stream.                                 *)
LEMMA TakeKeeps ==
  ASSUME BufferInv, file \in Seq(Nat), file' = file, NEW at, TakeByte(at)
  PROVE  /\ BufferInv'
         /\ filled' - bytes_in_buffer' = filled - bytes_in_buffer + 1
         /\ last' = ByteAt(file, filled - bytes_in_buffer + 1)
         /\ last' \in Nat
<1>1. /\ buffer \in Seq(Nat) /\ bytes_in_buffer \in 0 .. Len(buffer) /\ Len(buffer) \in Nat
      /\ filled \in Nat /\ bytes_in_buffer <= filled
  <2>1. buffer \in Seq(Nat)
    BY DEF BufferInv
  <2>2. Len(buffer) \in Nat
    BY <2>1, LenProperties
  <2> QED BY <2>2 DEF BufferInv
<1>2. CASE bytes_in_buffer = 0
  <2>1. /\ Filled \in Seq(Nat) /\ Len(Filled) \in Nat /\ Len(Filled) > 0
        /\ \A j \in 1 .. Len(Filled) : Filled[j] = ByteAt(file, filled + j)
    BY FilledBytes
  <2>2. last' = Filled[Len(Filled) - Len(Filled) + 1] /\ FillInputBuffer(Len(Filled) - 1)
    BY <1>2 DEF TakeByte, NextByte, Buffer, Available
  <2>3. /\ Len(Filled) - Len(Filled) + 1 = 1 /\ 1 \in 1 .. Len(Filled)
        /\ Len(Filled) - 1 \in 0 .. Len(Filled)
    BY <2>1, SMT
  <2>4. BufferInv' /\ filled' = filled + Len(Filled) /\ bytes_in_buffer' = Len(Filled) - 1
    BY <2>2, <2>3, FillKeeps
  <2>5. last' = ByteAt(file, filled + 1) /\ last' \in Nat
    <3>1. Filled[1] \in Nat
      BY <2>1, <2>3, ElementOfSeq
    <3> QED BY <2>1, <2>2, <2>3, <3>1
  <2>6. /\ filled' - bytes_in_buffer' = filled - bytes_in_buffer + 1
        /\ filled + 1 = filled - bytes_in_buffer + 1
    BY <1>1, <1>2, <2>1, <2>4, SMT
  <2> QED BY <2>4, <2>5, <2>6
<1>3. CASE bytes_in_buffer # 0
  <2>1. /\ last' = buffer[Len(buffer) - bytes_in_buffer + 1]
        /\ bytes_in_buffer' = bytes_in_buffer - 1
        /\ buffer' = buffer /\ fetched' = fetched /\ filled' = filled
    BY <1>3 DEF TakeByte, NextByte, Buffer, Available
  <2>2. /\ 1 \in 1 .. bytes_in_buffer /\ bytes_in_buffer - 1 \in 0 .. Len(buffer)
        /\ Len(buffer) - bytes_in_buffer + 1 \in 1 .. Len(buffer)
        /\ bytes_in_buffer - 1 <= filled
        /\ filled - (bytes_in_buffer - 1) = filled - bytes_in_buffer + 1
    BY <1>1, <1>3, SMT
  <2>3. last' = ByteAt(file, filled - bytes_in_buffer + 1) /\ last' \in Nat
    <3>1. buffer[Len(buffer) - bytes_in_buffer + 1] \in Nat
      BY <1>1, <2>2, ElementOfSeq
    <3> QED BY <2>1, <2>2, <3>1 DEF BufferInv
  <2>5. ASSUME NEW i \in 1 .. bytes_in_buffer - 1
        PROVE  buffer[Len(buffer) - (bytes_in_buffer - 1) + i] =
                 ByteAt(file, filled - (bytes_in_buffer - 1) + i)
    <3>1. /\ i + 1 \in 1 .. bytes_in_buffer
          /\ Len(buffer) - (bytes_in_buffer - 1) + i = Len(buffer) - bytes_in_buffer + (i + 1)
          /\ filled - (bytes_in_buffer - 1) + i = filled - bytes_in_buffer + (i + 1)
      BY <1>1, <1>3, SMT
    <3>2. buffer[Len(buffer) - bytes_in_buffer + (i + 1)] =
            ByteAt(file, filled - bytes_in_buffer + (i + 1))
      BY <3>1 DEF BufferInv
    <3> QED BY <3>1, <3>2
  <2>6. BufferInv'
    BY <1>1, <2>1, <2>2, <2>5 DEF BufferInv
  <2> QED BY <2>1, <2>2, <2>3, <2>6
<1> QED BY <1>2, <1>3

(* Skipping goes over bytes that are in the buffer.                        *)
LEMMA DropKeeps ==
  ASSUME BufferInv, file' = file, NEW n \in 0 .. bytes_in_buffer,
         bytes_in_buffer' = bytes_in_buffer - n,
         buffer' = buffer, fetched' = fetched, filled' = filled
  PROVE  BufferInv' /\ filled' - bytes_in_buffer' = filled - bytes_in_buffer + n
<1>1. /\ buffer \in Seq(Nat) /\ bytes_in_buffer \in 0 .. Len(buffer) /\ Len(buffer) \in Nat
      /\ filled \in Nat /\ bytes_in_buffer <= filled
  <2>1. buffer \in Seq(Nat)
    BY DEF BufferInv
  <2>2. Len(buffer) \in Nat
    BY <2>1, LenProperties
  <2> QED BY <2>2 DEF BufferInv
<1>2. /\ bytes_in_buffer - n \in 0 .. Len(buffer) /\ bytes_in_buffer - n <= filled
      /\ filled - (bytes_in_buffer - n) = filled - bytes_in_buffer + n
  BY <1>1, SMT
<1>3. ASSUME NEW i \in 1 .. bytes_in_buffer - n
      PROVE  buffer[Len(buffer) - (bytes_in_buffer - n) + i] =
               ByteAt(file, filled - (bytes_in_buffer - n) + i)
  <2>1. /\ i + n \in 1 .. bytes_in_buffer
        /\ Len(buffer) - (bytes_in_buffer - n) + i = Len(buffer) - bytes_in_buffer + (i + n)
        /\ filled - (bytes_in_buffer - n) + i = filled - bytes_in_buffer + (i + n)
    BY <1>1, SMT
  <2>2. buffer[Len(buffer) - bytes_in_buffer + (i + n)] =
          ByteAt(file, filled - bytes_in_buffer + (i + n))
    BY <2>1 DEF BufferInv
  <2> QED BY <2>1, <2>2
<1>4. BufferInv'
  BY <1>1, <1>2, <1>3 DEF BufferInv
<1> QED BY <1>2, <1>4

-----------------------------------------------------------------------------
(* The invariant, and the plain stream.                                    *)

Resting == pc \in {"idle", "failed"}

(* The buffer, the counts of the parser, and a source of which nothing has *)
(* been read while nobody reads.                                           *)
SourceInv ==
  /\ BufferInv
  /\ length \in Nat
  /\ remaining \in Nat
  /\ read_marker \in Seq(Nat)
  /\ Resting => filled = 0 /\ fetched = 0

(* Nobody reads a file that is being written.                              *)
Alone == wrote = "writing" => Resting

FileInv == WriteInv /\ SourceInv /\ Alone

LEMMA WriteSame == ASSUME WriteInv, UNCHANGED writeVars PROVE WriteInv'
<1>1. /\ made' = made /\ emitted' = emitted /\ out' = out /\ file' = file /\ room' = room
      /\ wrote' = wrote
  BY DEF writeVars
<1>2. /\ made' \in Seq(Nat) /\ file' \in Seq(Nat) /\ out' \in Seq(Nat)
      /\ emitted' \in 0 .. Len(made') /\ room' \in Nat
      /\ wrote' \in {"no", "writing", "true", "false"}
      /\ wrote' = "true" => file' = made'
  BY <1>1 DEF WriteInv
<1>3. wrote' = "writing" => file' \o out' = SubSeq(made', 1, emitted')
  BY <1>1 DEF WriteInv, Begun
<1>4. wrote' = "false" => \E n \in 0 .. Len(made') : n < Len(made') /\ file' = SubSeq(made', 1, n)
  BY <1>1 DEF WriteInv, Begun
<1> QED BY <1>2, <1>3, <1>4 DEF WriteInv, Begun

(* The file may change while nobody reads it.                              *)
LEMMA ChangeStep ==
  ASSUME FileInv, Resting, UNCHANGED readVars, file' \in Seq(Nat)
  PROVE  SourceInv' /\ Stream!Write
<1>1. /\ pc' = pc /\ buffer' = buffer /\ bytes_in_buffer' = bytes_in_buffer
      /\ fetched' = fetched /\ filled' = filled /\ last' = last /\ length' = length
      /\ remaining' = remaining /\ read_marker' = read_marker
  BY DEF readVars
<1>2. filled = 0 /\ fetched = 0 /\ bytes_in_buffer = 0
  <2>1. filled = 0 /\ fetched = 0
    BY DEF FileInv, SourceInv
  <2>2. bytes_in_buffer \in 0 .. Len(buffer) /\ bytes_in_buffer <= filled /\ Len(buffer) \in Nat
    BY LenProperties DEF FileInv, SourceInv, BufferInv
  <2> QED BY <2>1, <2>2, SMT
<1>3. BufferInv'
  <2>1. Len(file') \in Nat
    BY LenProperties
  <2>2. 0 \in 0 .. Len(file') /\ 0 = 0 + 2 * 0 /\ 0 \in Nat
    BY <2>1, SMT
  <2>3. fetched' \in 0 .. Len(file') /\ filled' \in Nat /\ bytes_in_buffer' <= filled'
    BY <1>1, <1>2, <2>2, SMT
  <2>4. \E k \in Nat : filled' = fetched' + 2 * k /\ (k = 0 \/ fetched' = Len(file'))
    BY <1>1, <1>2, <2>2
  <2>5. 1 .. bytes_in_buffer' = {}
    BY <1>1, <1>2, SMT
  <2>6. buffer' \in Seq(Nat) /\ bytes_in_buffer' \in 0 .. Len(buffer')
    BY <1>1 DEF FileInv, SourceInv, BufferInv
  <2> QED BY <2>3, <2>4, <2>5, <2>6 DEF BufferInv
<1>4. SourceInv'
  BY <1>1, <1>2, <1>3 DEF FileInv, SourceInv, Resting
<1>5. Stream!Write
  BY <1>1, <1>2 DEF Stream!Write, Resting
<1> QED BY <1>4, <1>5

(* A source is opened or given up.                                         *)
LEMMA OpenStep ==
  ASSUME FileInv, NewSource, UNCHANGED writeVars, wrote # "writing",
         pc' \in {"scan", "idle", "failed"}
  PROVE  FileInv' /\ Stream!Open
<1>1. /\ fetched' = 0 /\ buffer' = << >> /\ bytes_in_buffer' = 0 /\ filled' = 0 /\ last' = 0
      /\ length' = 0 /\ remaining' = 0 /\ read_marker' = << >>
  BY DEF NewSource
<1>2. file' = file /\ wrote' = wrote /\ file \in Seq(Nat)
  BY DEF writeVars, FileInv, WriteInv
<1>3. BufferInv'
  <2>1. Len(file') \in Nat
    BY <1>2, LenProperties
  <2>2. 0 \in 0 .. Len(file') /\ 0 = 0 + 2 * 0 /\ 0 \in Nat /\ 0 \in 0 .. 0 /\ 0 <= 0
    BY <2>1, SMT
  <2>3. << >> \in Seq(Nat) /\ Len(<< >>) = 0
    BY EmptySeq
  <2>4. \E k \in Nat : filled' = fetched' + 2 * k /\ (k = 0 \/ fetched' = Len(file'))
    BY <1>1, <2>2
  <2>5. 1 .. bytes_in_buffer' = {}
    BY <1>1, SMT
  <2>6. /\ buffer' \in Seq(Nat) /\ bytes_in_buffer' \in 0 .. Len(buffer')
        /\ fetched' \in 0 .. Len(file') /\ filled' \in Nat /\ bytes_in_buffer' <= filled'
    BY <1>1, <2>2, <2>3
  <2> QED BY <2>4, <2>5, <2>6 DEF BufferInv
<1>4. SourceInv'
  BY <1>1, <1>3, EmptySeq DEF SourceInv
<1>5. WriteInv' /\ Alone'
  BY <1>2, WriteSame DEF FileInv, Alone
<1>6. Stream!Open
  BY <1>1, <1>2 DEF Stream!Open
<1> QED BY <1>4, <1>5, <1>6 DEF FileInv

(* A byte is taken: the next one of the stream.                            *)
LEMMA TakeStep ==
  ASSUME FileInv, NEW at \in Taking, TakeByte(at), UNCHANGED writeVars,
         pc' \notin {"skipping", "idle", "failed"},
         length' \in Nat, remaining' \in Nat, read_marker' \in Seq(Nat)
  PROVE  FileInv' /\ Stream!Read
<1>1. file' = file /\ wrote' = wrote /\ file \in Seq(Nat) /\ BufferInv
  BY DEF writeVars, FileInv, WriteInv, SourceInv
<1>2. /\ BufferInv'
      /\ filled' - bytes_in_buffer' = filled - bytes_in_buffer + 1
      /\ last' = ByteAt(file, filled - bytes_in_buffer + 1)
  BY <1>1, TakeKeeps
<1>3. pc = at /\ pc # "skip" /\ pc # "skipping" /\ ~Resting
  BY DEF TakeByte, Taking, Resting
<1>4. SourceInv'
  BY <1>2 DEF SourceInv, Resting
<1>5. WriteInv' /\ Alone'
  BY <1>1, <1>3, WriteSame DEF FileInv, Alone
<1>6. /\ filled \in Nat /\ bytes_in_buffer \in Nat /\ filled' \in Nat /\ bytes_in_buffer' \in Nat
  <2>1. buffer \in Seq(Nat) /\ buffer' \in Seq(Nat)
    BY <1>1, <1>2 DEF BufferInv
  <2>2. Len(buffer) \in Nat /\ Len(buffer') \in Nat
    BY <2>1, LenProperties
  <2>3. /\ filled \in Nat /\ bytes_in_buffer \in 0 .. Len(buffer)
        /\ filled' \in Nat /\ bytes_in_buffer' \in 0 .. Len(buffer')
    BY <1>1, <1>2 DEF BufferInv
  <2> QED BY <2>2, <2>3, SMT
<1>7. /\ filled - bytes_in_buffer + (IF pc = "skipping" THEN remaining ELSE 0) =
           filled - bytes_in_buffer
      /\ filled' - bytes_in_buffer' + (IF pc' = "skipping" THEN remaining' ELSE 0) =
           filled' - bytes_in_buffer'
  BY <1>3, <1>6, SMT
<1>8. /\ (IF pc = "skip" THEN remaining ELSE 0) = 0
      /\ (IF pc' = "skip" THEN remaining' ELSE 0) \in Nat
  BY <1>3
<1>9. Stream!Byte(filled - bytes_in_buffer + 1) = ByteAt(file, filled - bytes_in_buffer + 1)
  BY DEF Stream!Byte, ByteAt
<1>10. Stream!Read
  BY <1>1, <1>2, <1>7, <1>8, <1>9 DEF Stream!Read
<1> QED BY <1>4, <1>5, <1>10 DEF FileInv

(* A skip, one turn after the other.                                       *)
LEMMA SkipStep ==
  ASSUME FileInv, UNCHANGED writeVars, StartSkip \/ SkipBuffer \/ SkipInBuffer
  PROVE  FileInv' /\ (Stream!Skip \/ UNCHANGED Stream!vars)
<1>1. /\ file' = file /\ wrote' = wrote /\ file \in Seq(Nat) /\ BufferInv
      /\ remaining \in Nat
  BY DEF writeVars, FileInv, WriteInv, SourceInv
<1>2. /\ filled \in Nat /\ bytes_in_buffer \in Nat /\ Len(buffer) \in Nat
      /\ bytes_in_buffer \in 0 .. Len(buffer)
  <2>1. buffer \in Seq(Nat) /\ filled \in Nat /\ bytes_in_buffer \in 0 .. Len(buffer)
    BY <1>1 DEF BufferInv
  <2>2. Len(buffer) \in Nat
    BY <2>1, LenProperties
  <2> QED BY <2>1, <2>2, SMT
<1>3. CASE StartSkip
  <2>1. /\ pc = "skip" /\ pc' = "skipping" /\ buffer' = buffer /\ fetched' = fetched
        /\ bytes_in_buffer' = bytes_in_buffer /\ filled' = filled /\ last' = last
        /\ length' = length /\ remaining' = remaining /\ read_marker' = read_marker
    BY <1>3 DEF StartSkip
  <2>2. SourceInv' /\ ~Resting /\ ~Resting'
    BY <1>1, <2>1 DEF FileInv, SourceInv, BufferInv, Resting
  <2>3. WriteInv' /\ Alone'
    BY <1>1, <2>2, WriteSame DEF FileInv, Alone
  <2>4. /\ filled - bytes_in_buffer + (IF pc = "skipping" THEN remaining ELSE 0) =
             filled - bytes_in_buffer
        /\ filled - bytes_in_buffer + (IF pc' = "skipping" THEN remaining ELSE 0) =
             filled - bytes_in_buffer + remaining
    BY <1>2, <2>1, SMT
  <2>5. /\ (IF pc = "skip" THEN remaining ELSE 0) = remaining
        /\ (IF pc' = "skip" THEN remaining' ELSE 0) = 0
    BY <2>1
  <2>6. Stream!Skip
    BY <1>1, <2>1, <2>4, <2>5 DEF Stream!Skip
  <2> QED BY <2>2, <2>3, <2>6 DEF FileInv
<1>4. CASE SkipBuffer
  <2>1. /\ pc = "skipping" /\ pc' = pc /\ last' = last /\ length' = length
        /\ remaining > bytes_in_buffer /\ remaining' = remaining - bytes_in_buffer
        /\ read_marker' = read_marker /\ FillInputBuffer(Len(Filled))
    BY <1>4 DEF SkipBuffer
  <2>2. Len(Filled) \in Nat
    BY <1>1, FilledBytes
  <2>3. /\ BufferInv' /\ filled' = filled + Len(Filled) /\ bytes_in_buffer' = Len(Filled)
    <3>1. Len(Filled) \in 0 .. Len(Filled)
      BY <2>2, SMT
    <3> QED BY <1>1, <2>1, <3>1, FillKeeps
  <2>4. remaining' \in Nat
    BY <1>1, <1>2, <2>1, SMT
  <2>5. SourceInv' /\ ~Resting /\ ~Resting'
    BY <2>1, <2>3, <2>4 DEF FileInv, SourceInv, Resting
  <2>6. WriteInv' /\ Alone'
    BY <1>1, <2>5, WriteSame DEF FileInv, Alone
  <2>7. /\ filled' - bytes_in_buffer' + (IF pc' = "skipping" THEN remaining' ELSE 0) =
             filled - bytes_in_buffer + (IF pc = "skipping" THEN remaining ELSE 0)
    BY <1>1, <1>2, <2>1, <2>2, <2>3, SMT
  <2>8. UNCHANGED Stream!vars
    BY <1>1, <2>1, <2>7 DEF Stream!vars
  <2> QED BY <2>5, <2>6, <2>8 DEF FileInv
<1>5. CASE SkipInBuffer
  <2>1. /\ pc = "skipping" /\ pc' = "scan" /\ last' = last /\ length' = length
        /\ remaining <= bytes_in_buffer /\ bytes_in_buffer' = bytes_in_buffer - remaining
        /\ remaining' = 0 /\ read_marker' = read_marker
        /\ buffer' = buffer /\ fetched' = fetched /\ filled' = filled
    BY <1>5 DEF SkipInBuffer
  <2>2. remaining \in 0 .. bytes_in_buffer
    BY <1>1, <1>2, <2>1, SMT
  <2>3. BufferInv' /\ filled' - bytes_in_buffer' = filled - bytes_in_buffer + remaining
    BY <1>1, <2>1, <2>2, DropKeeps
  <2>4. SourceInv' /\ ~Resting /\ ~Resting'
    BY <2>1, <2>3 DEF FileInv, SourceInv, Resting
  <2>5. WriteInv' /\ Alone'
    BY <1>1, <2>4, WriteSame DEF FileInv, Alone
  <2>6. /\ filled' - bytes_in_buffer' + (IF pc' = "skipping" THEN remaining' ELSE 0) =
             filled - bytes_in_buffer + (IF pc = "skipping" THEN remaining ELSE 0)
    BY <1>1, <1>2, <2>1, <2>2, SMT
  <2>7. UNCHANGED Stream!vars
    BY <1>1, <2>1, <2>6 DEF Stream!vars
  <2> QED BY <2>4, <2>5, <2>7 DEF FileInv
<1> QED BY <1>3, <1>4, <1>5

(* Every byte that libjpeg or the parser of the marker takes.              *)
LEMMA ParserStep ==
  ASSUME FileInv, UNCHANGED writeVars,
         ScanByte \/ CodeByte \/ OtherHigh \/ OtherLow \/ MarkHigh \/ MarkLow \/ MarkByte
  PROVE  FileInv' /\ Stream!Read
<1>1. /\ file' = file /\ file \in Seq(Nat) /\ BufferInv /\ length \in Nat /\ remaining \in Nat
      /\ read_marker \in Seq(Nat)
  BY DEF writeVars, FileInv, WriteInv, SourceInv
<1>2. \A at : TakeByte(at) => last' \in Nat
  BY <1>1, TakeKeeps
<1>3. ByteValues \in Nat
  BY BytesAreNumbers
<1>4. CASE ScanByte
  <2>1. /\ TakeByte("scan") /\ pc' \in {"code", "scan"}
        /\ length' = length /\ remaining' = remaining /\ read_marker' = read_marker
    BY <1>4 DEF ScanByte
  <2>2. pc' \notin {"skipping", "idle", "failed"} /\ "scan" \in Taking
    BY <2>1 DEF Taking
  <2> QED BY <1>1, <2>1, <2>2, TakeStep
<1>5. CASE CodeByte
  <2>1. /\ TakeByte("code")
        /\ length' = length /\ remaining' = remaining /\ read_marker' = read_marker
    BY <1>5 DEF CodeByte
  <2>2. pc' \in {"code", "headless", "ended", "markHi", "otherHi", "scan"}
    BY <1>5 DEF CodeByte
  <2>3. pc' \notin {"skipping", "idle", "failed"} /\ "code" \in Taking
    BY <2>2 DEF Taking
  <2> QED BY <1>1, <2>1, <2>3, TakeStep
<1>6. CASE OtherHigh
  <2>1. /\ TakeByte("otherHi") /\ pc' = "otherLo" /\ length' = last' * ByteValues
        /\ remaining' = remaining /\ read_marker' = read_marker
    BY <1>6 DEF OtherHigh
  <2>2. length' \in Nat
    BY <1>2, <1>3, <2>1, SMT
  <2>3. pc' \notin {"skipping", "idle", "failed"} /\ "otherHi" \in Taking
    BY <2>1 DEF Taking
  <2> QED BY <1>1, <2>1, <2>2, <2>3, TakeStep
<1>7. CASE OtherLow
  <2>1. /\ TakeByte("otherLo") /\ pc' = "skip" /\ length' = length + last'
        /\ remaining' = (IF length' > 2 THEN length' - 2 ELSE 0) /\ read_marker' = read_marker
    BY <1>7 DEF OtherLow
  <2>2. length' \in Nat
    BY <1>1, <1>2, <2>1, SMT
  <2>3. remaining' \in Nat
    BY <2>1, <2>2, SMT
  <2>4. pc' \notin {"skipping", "idle", "failed"} /\ "otherLo" \in Taking
    BY <2>1 DEF Taking
  <2> QED BY <1>1, <2>1, <2>2, <2>3, <2>4, TakeStep
<1>8. CASE MarkHigh
  <2>1. /\ TakeByte("markHi") /\ pc' = "markLo" /\ length' = last' * ByteValues
        /\ remaining' = remaining /\ read_marker' = << >>
    BY <1>8 DEF MarkHigh
  <2>2. length' \in Nat
    BY <1>2, <1>3, <2>1, SMT
  <2>3. pc' \notin {"skipping", "idle", "failed"} /\ "markHi" \in Taking
    BY <2>1 DEF Taking
  <2>4. read_marker' \in Seq(Nat)
    BY <2>1, EmptySeq
  <2> QED BY <1>1, <2>1, <2>2, <2>3, <2>4, TakeStep
<1>9. CASE MarkLow
  <2>1. /\ TakeByte("markLo") /\ length' = length + last' /\ read_marker' = read_marker
        /\ \/ pc' = "mark" /\ remaining' = remaining
           \/ pc' = "skip" /\ ~(length' < 2) /\ remaining' = length' - 2
    BY <1>9 DEF MarkLow
  <2>2. length' \in Nat
    BY <1>1, <1>2, <2>1, SMT
  <2>3. remaining' \in Nat
    BY <1>1, <2>1, <2>2, SMT
  <2>4. pc' \notin {"skipping", "idle", "failed"} /\ "markLo" \in Taking
    BY <2>1 DEF Taking
  <2> QED BY <1>1, <2>1, <2>2, <2>3, <2>4, TakeStep
<1>10. CASE MarkByte
  <2>1. /\ TakeByte("mark") /\ pc = "mark" /\ length' = length
        /\ read_marker' = Append(read_marker, last')
        /\ \/ /\ pc' = "skip"
              /\ remaining' = IF length > 2 + Len(MARKER_CONST)
                                THEN length - 2 - Len(MARKER_CONST) ELSE 0
           \/ pc' = pc /\ remaining' = remaining
    BY <1>10 DEF MarkByte, TakeByte
  <2>2. read_marker' \in Seq(Nat)
    BY <1>1, <1>2, <2>1, AppendProperties
  <2>3. Len(MARKER_CONST) \in Nat
    BY BytesAreNumbers, LenProperties
  <2>4. remaining' \in Nat
    BY <1>1, <2>1, <2>3, SMT
  <2>5. pc' \notin {"skipping", "idle", "failed"} /\ "mark" \in Taking
    BY <2>1 DEF Taking
  <2> QED BY <1>1, <2>1, <2>2, <2>4, <2>5, TakeStep
<1> QED BY <1>4, <1>5, <1>6, <1>7, <1>8, <1>9, <1>10

LEMMA Starts == Init => FileInv /\ Stream!Init
<1> SUFFICES ASSUME Init PROVE FileInv /\ Stream!Init
  OBVIOUS
<1>1. /\ made = << >> /\ emitted = 0 /\ out = << >> /\ file = << >> /\ room = 0 /\ wrote = "no"
      /\ pc = "idle" /\ fetched = 0 /\ buffer = << >> /\ bytes_in_buffer = 0 /\ filled = 0
      /\ last = 0 /\ length = 0 /\ remaining = 0 /\ read_marker = << >>
  BY DEF Init
<1>2. << >> \in Seq(Nat) /\ Len(<< >>) = 0 /\ 0 \in 0 .. 0 /\ 0 = 0 + 2 * 0 /\ 0 <= 0 /\ 0 \in Nat
  BY EmptySeq, SMT
<1>3. WriteInv
  BY <1>1, <1>2 DEF WriteInv
<1>4. BufferInv
  <2>1. \E k \in Nat : filled = fetched + 2 * k /\ (k = 0 \/ fetched = Len(file))
    BY <1>1, <1>2
  <2>2. 1 .. bytes_in_buffer = {}
    BY <1>1, SMT
  <2> QED BY <1>1, <1>2, <2>1, <2>2 DEF BufferInv
<1>5. SourceInv /\ Alone
  BY <1>1, <1>2, <1>4 DEF SourceInv, Alone, Resting
<1>6. Stream!Init
  <2>1. filled - bytes_in_buffer + (IF pc = "skipping" THEN remaining ELSE 0) = 0
    BY <1>1, SMT
  <2> QED BY <1>1, <2>1 DEF Stream!Init
<1> QED BY <1>3, <1>5, <1>6 DEF FileInv

LEMMA EveryStep == FileInv /\ [Next]_vars => FileInv' /\ [Stream!Next]_(Stream!vars)
<1> SUFFICES ASSUME FileInv, [Next]_vars PROVE FileInv' /\ [Stream!Next]_(Stream!vars)
  OBVIOUS
<1>1. ASSUME NEW p \in Pictures, StartCompress(p) PROVE FileInv' /\ Stream!Write
  <2>1. /\ Between /\ made' = p.bytes /\ emitted' = 0 /\ out' = << >> /\ file' = << >>
        /\ room' \in Rooms /\ wrote' = "writing" /\ UNCHANGED readVars
    BY <1>1 DEF StartCompress
  <2>2. p.bytes \in Seq(Nat) /\ << >> \in Seq(Nat) /\ room' \in Nat
    BY <2>1, BytesAreNumbers, EmptySeq
  <2>3. Resting /\ pc' = pc
    BY <2>1 DEF Between, Resting, readVars
  <2>4. /\ SubSeq(p.bytes, 1, 0) = << >> /\ << >> \o << >> = << >>
        /\ 0 \in 0 .. Len(p.bytes)
    <3>1. Len(p.bytes) \in Nat
      BY <2>2, LenProperties
    <3> QED BY <2>2, <3>1, SubSeqEmpty, ConcatEmptySeq, SMT
  <2>5. WriteInv'
    BY <2>1, <2>2, <2>4 DEF WriteInv, Begun
  <2>6. file' \in Seq(Nat)
    BY <2>1, <2>2
  <2>7. SourceInv' /\ Stream!Write
    BY <2>1, <2>3, <2>6, ChangeStep
  <2> QED BY <2>3, <2>5, <2>7 DEF FileInv, Alone, Resting
<1>2. ASSUME NEW f \in Foreign, FindFile(f) PROVE FileInv' /\ Stream!Write
  <2>1. /\ Between /\ made' = << >> /\ emitted' = 0 /\ out' = << >> /\ file' = f.bytes
        /\ room' = 0 /\ wrote' = "no" /\ UNCHANGED readVars
    BY <1>2 DEF FindFile
  <2>2. f.bytes \in Seq(Nat) /\ << >> \in Seq(Nat) /\ Len(<< >>) = 0 /\ 0 \in 0 .. 0
    BY BytesAreNumbers, EmptySeq, SMT
  <2>3. WriteInv'
    BY <2>1, <2>2 DEF WriteInv
  <2>4. Resting
    BY <2>1 DEF Between, Resting
  <2>5. file' \in Seq(Nat)
    BY <2>1, <2>2
  <2>6. SourceInv' /\ Stream!Write
    BY <2>1, <2>4, <2>5, ChangeStep
  <2> QED BY <2>1, <2>3, <2>6 DEF FileInv, Alone
<1>3. ASSUME Compress PROVE FileInv' /\ Stream!Write
  <2>1. (EmitByte \/ CompressFails \/ FinishCompress) /\ UNCHANGED readVars
    BY <1>3 DEF Compress
  <2>2. WriteInv'
    BY <2>1, EmitByteStep, CompressFailsStep, FinishCompressStep DEF FileInv
  <2>3. wrote = "writing"
    BY <2>1 DEF EmitByte, CompressFails, FinishCompress
  <2>4. Resting /\ pc' = pc
    BY <2>1, <2>3 DEF FileInv, Alone, readVars
  <2>5. file' \in Seq(Nat)
    BY <2>2 DEF WriteInv
  <2>6. SourceInv' /\ Stream!Write
    BY <2>1, <2>4, <2>5, ChangeStep
  <2> QED BY <2>2, <2>4, <2>6 DEF FileInv, Alone, Resting
<1>4. ASSUME CallInfo PROVE FileInv' /\ Stream!Open
  <2>1. wrote # "writing" /\ NewSource /\ pc' = "scan" /\ UNCHANGED writeVars
    BY <1>4 DEF CallInfo, StreamSrc, Between
  <2>2. pc' \in {"scan", "idle", "failed"}
    BY <2>1
  <2> QED BY <2>1, <2>2, OpenStep
<1>5. ASSUME Decompress PROVE FileInv' /\ [Stream!Next]_(Stream!vars)
  <2>1. Decode /\ UNCHANGED writeVars
    BY <1>5 DEF Decompress
  <2>2. CASE ErrorExit \/ InfoReturns \/ ReadReturns
    <3>1. /\ NewSource /\ pc' \in {"scan", "idle", "failed"}
          /\ pc \in {"scan", "code", "headless", "ended"}
      BY <2>2 DEF ErrorExit, InfoReturns, ReadReturns, StreamSrc
    <3>2. wrote # "writing"
      BY <3>1 DEF FileInv, Alone, Resting
    <3>3. FileInv' /\ Stream!Open
      BY <2>1, <3>1, <3>2, OpenStep
    <3> QED BY <3>3 DEF Stream!Next
  <2>3. CASE ScanByte \/ CodeByte \/ OtherHigh \/ OtherLow \/ MarkHigh \/ MarkLow \/ MarkByte
    BY <2>1, <2>3, ParserStep DEF Stream!Next
  <2>4. CASE StartSkip \/ SkipBuffer \/ SkipInBuffer
    BY <2>1, <2>4, SkipStep DEF Stream!Next
  <2> QED BY <2>1, <2>2, <2>3, <2>4 DEF Decode
<1>6. ASSUME UNCHANGED vars PROVE FileInv' /\ UNCHANGED Stream!vars
  <2>1. UNCHANGED writeVars /\ UNCHANGED readVars
    BY <1>6 DEF vars
  <2>2. WriteInv'
    BY <2>1, WriteSame DEF FileInv
  <2>3. SourceInv' /\ Alone' /\ UNCHANGED Stream!vars
    BY <2>1 DEF writeVars, readVars, FileInv, SourceInv, BufferInv, Alone, Resting, Stream!vars
  <2> QED BY <2>2, <2>3 DEF FileInv
<1> QED BY <1>1, <1>2, <1>3, <1>4, <1>5, <1>6 DEF Next, Stream!Next

-----------------------------------------------------------------------------
(* Types.                                                                  *)

(* What the types say beyond FileInv: what is on the disk, in the buffers  *)
(* and in the length of a marker are bytes, the buffers do not run over,   *)
(* a mark that is not complete has a place for one more byte, and a pass   *)
(* that has come to the end has had a header.                              *)
WriteTypes ==
  /\ made \in Seq(Bytes) /\ file \in Seq(Bytes) /\ out \in Seq(Bytes)
  /\ Len(out) < BufferLength
  /\ kind \in {"argb", "plain", "short"}
  /\ files \in 0 .. MaxFiles

ReadTypes ==
  /\ pc \in Taking \cup {"skip", "skipping", "headless", "ended", "idle", "failed"}
  /\ header \in BOOLEAN
  /\ pc = "ended" => ~header
  /\ pass \in {"info", "read"}
  /\ Len(buffer) <= BufferLength
  /\ gimex_initial \in BOOLEAN
  /\ last \in Bytes
  /\ length \in 0 .. ByteValues * ByteValues - 1
  /\ pc \in {"markLo", "otherLo"} => length <= (ByteValues - 1) * ByteValues
  /\ Len(read_marker) <= Len(MARKER_CONST)
  /\ pc = "markLo" => read_marker = << >>
  /\ pc = "mark" => Len(read_marker) < Len(MARKER_CONST)
  /\ JPG_readgimexmarker \in BOOLEAN
  /\ gimex_marker \in BOOLEAN
  /\ sub_type \in BOOLEAN

(* The beginning of a sequence of bytes, written after another one.        *)
LEMMA WriteOutTypes ==
  ASSUME file \in Seq(Bytes), NEW bytes \in Seq(Bytes), room \in Nat,
         NEW done, WriteOut(bytes, done)
  PROVE  file' \in Seq(Bytes) /\ out' = << >>
<1> DEFINE n == IF Len(bytes) <= room THEN Len(bytes) ELSE room
<1>1. file' = file \o SubSeq(bytes, 1, n) /\ out' = << >>
  BY DEF WriteOut
<1>2. Len(bytes) \in Nat /\ (\A i \in 1 .. Len(bytes) : bytes[i] \in Bytes)
  BY LenProperties, ElementOfSeq
<1>3. n \in Int /\ 1 \in Int /\ 1 .. n \subseteq 1 .. Len(bytes)
  BY <1>2, SMT
<1> HIDE DEF n
<1>4. \A i \in 1 .. n : bytes[i] \in Bytes
  BY <1>2, <1>3
<1>5. SubSeq(bytes, 1, n) \in Seq(Bytes)
  BY <1>3, <1>4, SubSeqProperties
<1> QED BY <1>1, <1>5, ConcatProperties

LEMMA WriteTypesStep ==
  ASSUME FileInv, WriteTypes, [Next]_vars
  PROVE  WriteTypes'
<1>1. << >> \in Seq(Bytes) /\ Len(<< >>) = 0 /\ 0 < BufferLength
  BY EmptySeq, BufferAssumption, SMT
<1>2. files \in Nat /\ MaxFiles \in Nat /\ room \in Nat
  BY FileAssumption, SMT DEF WriteTypes, FileInv, WriteInv
<1>3. files < MaxFiles => files + 1 \in 0 .. MaxFiles
  BY <1>2, SMT
<1>4. ASSUME NEW p \in Pictures, StartCompress(p) PROVE WriteTypes'
  BY <1>1, <1>3, <1>4, FileAssumption DEF StartCompress, WriteTypes, Bytes
<1>5. ASSUME NEW f \in Foreign, FindFile(f) PROVE WriteTypes'
  BY <1>1, <1>3, <1>5, FileAssumption DEF FindFile, WriteTypes, Bytes
<1>6. ASSUME EmitByte, UNCHANGED <<kind, files>> PROVE WriteTypes'
  <2> DEFINE byte == made[emitted + 1]
             next == Append(out, byte)
  <2>1. /\ emitted < Len(made) /\ made' = made
        /\ IF Len(next) = BufferLength THEN WriteOut(next, "writing")
           ELSE out' = next /\ file' = file
    BY <1>6 DEF EmitByte
  <2>2. byte \in Bytes
    <3>1. made \in Seq(Bytes) /\ emitted \in 0 .. Len(made)
      BY DEF WriteTypes, FileInv, WriteInv
    <3>2. Len(made) \in Nat
      BY <3>1, LenProperties
    <3>3. emitted + 1 \in 1 .. Len(made)
      BY <2>1, <3>1, <3>2, SMT
    <3> QED BY <3>1, <3>3, ElementOfSeq
  <2> HIDE DEF byte
  <2>3. next \in Seq(Bytes) /\ Len(next) = Len(out) + 1
    BY <2>2, AppendProperties DEF WriteTypes
  <2> HIDE DEF next
  <2>4. Len(out) \in Nat /\ Len(out) < BufferLength /\ BufferLength \in Nat
    BY LenProperties, BufferAssumption DEF WriteTypes
  <2>5. CASE Len(next) = BufferLength
    <3>1. file' \in Seq(Bytes) /\ out' = << >>
      BY <1>2, <2>1, <2>3, <2>5, WriteOutTypes DEF WriteTypes
    <3> QED BY <1>1, <1>6, <2>1, <3>1 DEF WriteTypes
  <2>6. CASE Len(next) # BufferLength
    <3>1. out' = next /\ file' = file
      BY <2>1, <2>6
    <3>2. Len(next) < BufferLength
      BY <2>3, <2>4, <2>6, SMT
    <3> QED BY <1>6, <2>1, <2>3, <3>1, <3>2 DEF WriteTypes
  <2> QED BY <2>5, <2>6
<1>7. ASSUME CompressFails, UNCHANGED <<kind, files>> PROVE WriteTypes'
  BY <1>7 DEF CompressFails, WriteTypes
<1>8. ASSUME FinishCompress, UNCHANGED <<kind, files>> PROVE WriteTypes'
  <2>1. WriteOut(out, "true") /\ made' = made
    BY <1>8 DEF FinishCompress
  <2>2. file' \in Seq(Bytes) /\ out' = << >>
    BY <1>2, <2>1, WriteOutTypes DEF WriteTypes
  <2> QED BY <1>1, <1>8, <2>1, <2>2 DEF WriteTypes
<1>9. ASSUME UNCHANGED <<writeVars, kind, files>> PROVE WriteTypes'
  BY <1>9 DEF writeVars, WriteTypes
<1> QED
  BY <1>4, <1>5, <1>6, <1>7, <1>8, <1>9 DEF Next, vars, Compress, CallInfo, Decompress

(* A refill is no longer than the buffer.                                  *)
LEMMA FilledLength ==
  ASSUME file \in Seq(Nat), fetched \in 0 .. Len(file)
  PROVE  Len(Filled) <= BufferLength
<1> DEFINE to == IF fetched + BufferLength > Len(file) THEN Len(file) ELSE fetched + BufferLength
<1>1. /\ Len(file) \in Nat /\ fetched \in Nat /\ fetched <= Len(file)
      /\ BufferLength \in Nat /\ BufferLength >= 2
  BY LenProperties, BufferAssumption, SMT
<1>2. to \in Nat /\ fetched <= to /\ to <= Len(file) /\ to - fetched <= BufferLength
  BY <1>1, SMT
<1>3. Chunk = SubSeq(file, fetched + 1, to)
  BY DEF Chunk
<1> HIDE DEF to
<1>4. \A i \in fetched + 1 .. to : file[i] \in Nat
  <2>1. fetched + 1 .. to \subseteq 1 .. Len(file)
    BY <1>1, <1>2, SMT
  <2> QED BY <2>1, ElementOfSeq
<1>5. fetched + 1 \in Int /\ to \in Int
  BY <1>1, <1>2, SMT
<1>6. Len(Chunk) = IF fetched + 1 <= to THEN to - (fetched + 1) + 1 ELSE 0
  BY <1>3, <1>4, <1>5, SubSeqProperties
<1>7. Len(Chunk) <= BufferLength
  BY <1>1, <1>2, <1>6, SMT
<1>8. Len(<<FF, D9>>) = 2
  OBVIOUS
<1> QED BY <1>1, <1>7, <1>8 DEF Filled

(* How many bytes have gone by, and where the parser's segment begins.     *)
Place == filled - bytes_in_buffer
MarkPlace == Place - 2 - Len(read_marker)

(* The places, and what they mean, of a byte that is taken.                *)
LEMMA TakePlace ==
  ASSUME FileInv, WriteTypes, file' = file, NEW at, TakeByte(at)
  PROVE  /\ Place \in Nat /\ Place' = Place + 1 /\ Place' - 1 = Place
         /\ last' = ByteAt(file, Place + 1)
         /\ file \in Seq(Bytes) /\ pc = at /\ pass' = pass /\ sub_type' = sub_type
         /\ pc' \notin {"idle", "failed"} => ~Resting'
<1>1. BufferInv /\ file \in Seq(Nat) /\ file \in Seq(Bytes)
  BY DEF FileInv, SourceInv, WriteInv, WriteTypes
<1>2. filled \in Nat /\ bytes_in_buffer \in Nat /\ bytes_in_buffer <= filled
  <2>1. buffer \in Seq(Nat) /\ bytes_in_buffer \in 0 .. Len(buffer)
    BY <1>1 DEF BufferInv
  <2>2. Len(buffer) \in Nat
    BY <2>1, LenProperties
  <2>3. bytes_in_buffer \in Nat
    BY <2>1, <2>2, SMT
  <2> QED BY <1>1, <2>3 DEF BufferInv
<1>3. /\ filled' - bytes_in_buffer' = filled - bytes_in_buffer + 1
      /\ last' = ByteAt(file, filled - bytes_in_buffer + 1)
  BY <1>1, TakeKeeps
<1>4. Place \in Nat
  BY <1>2, SMT DEF Place
<1>5. Place' = Place + 1 /\ last' = ByteAt(file, Place + 1)
  BY <1>3 DEF Place
<1>6. Place' - 1 = Place
  <2> HIDE DEF Place
  <2> QED BY <1>4, <1>5, SMT
<1> QED BY <1>1, <1>4, <1>5, <1>6 DEF TakeByte, Resting

(* A byte taken is a byte, and leaves a buffer that does not run over.     *)
LEMMA TakeTypes ==
  ASSUME FileInv, WriteTypes, ReadTypes, file' = file, NEW at, TakeByte(at)
  PROVE  /\ last' \in Bytes /\ Len(buffer') <= BufferLength
         /\ gimex_initial' \in BOOLEAN /\ pass' \in {"info", "read"} /\ sub_type' \in BOOLEAN
<1>1. file \in Seq(Nat) /\ BufferInv
  BY DEF FileInv, WriteInv, SourceInv
<1>2. last' \in Bytes
  <2>1. Place \in Nat /\ last' = ByteAt(file, Place + 1) /\ file \in Seq(Bytes)
    BY TakePlace
  <2> HIDE DEF Place
  <2>2. Place + 1 \in Nat /\ Place + 1 > 0
    BY <2>1, SMT
  <2> QED BY <2>1, <2>2, ByteAtType
<1>3. Len(buffer') <= BufferLength /\ gimex_initial' \in BOOLEAN
  <2>1. Len(Filled) <= BufferLength
    BY <1>1, FilledLength DEF BufferInv
  <2> QED BY <2>1 DEF TakeByte, FillInputBuffer, ReadTypes
<1> QED BY <1>2, <1>3 DEF TakeByte, ReadTypes

(* A length of two bytes.                                                  *)
LEMMA TwoBytes ==
  /\ \A b \in Bytes : b * ByteValues \in Nat /\ b * ByteValues <= (ByteValues - 1) * ByteValues
  /\ \A n \in Nat : \A b \in Bytes : n <= (ByteValues - 1) * ByteValues
                                        => n + b \in 0 .. ByteValues * ByteValues - 1
  /\ \A n \in Nat : n <= (ByteValues - 1) * ByteValues => n \in 0 .. ByteValues * ByteValues - 1
  /\ 0 \in 0 .. ByteValues * ByteValues - 1 /\ 0 \in Bytes
<1>1. ByteValues \in Nat /\ ByteValues > 0
  BY FileAssumption, SMT
<1>2. (ByteValues - 1) * ByteValues = ByteValues * ByteValues - ByteValues
  BY <1>1, SMT
<1>3. ASSUME NEW b \in Bytes
      PROVE  b * ByteValues \in Nat /\ b * ByteValues <= (ByteValues - 1) * ByteValues
  <2>1. b \in Nat /\ b <= ByteValues - 1
    BY <1>1, SMT DEF Bytes
  <2>2. \A d \in Nat : d * ByteValues \in Nat
    BY <1>1, SMT
  <2>3. (ByteValues - 1 - b) * ByteValues = (ByteValues - 1) * ByteValues - b * ByteValues
    BY <1>1, <2>1, SMT
  <2>4. ByteValues - 1 - b \in Nat
    BY <1>1, <2>1, SMT
  <2>5. (ByteValues - 1 - b) * ByteValues \in Nat
    BY <2>2, <2>4
  <2>6. b * ByteValues \in Nat
    BY <2>1, <2>2
  <2>7. (ByteValues - 1) * ByteValues \in Int
    BY <1>1, SMT
  <2> DEFINE x == (ByteValues - 1 - b) * ByteValues
             y == (ByteValues - 1) * ByteValues
             z == b * ByteValues
  <2>8. x \in Nat /\ z \in Nat /\ y \in Int /\ x = y - z
    BY <2>3, <2>5, <2>6, <2>7
  <2> HIDE DEF x, y, z
  <2>9. z <= y
    BY <2>8, SMT
  <2> QED BY <2>6, <2>9 DEF y, z
<1> DEFINE square == ByteValues * ByteValues
<1>4. square \in Nat
  BY <1>1, SMT
<1>5. square >= ByteValues
  <2>1. 0 <= 0 * ByteValues
    BY <1>1, SMT
  <2>2. 0 \in Bytes
    BY <1>1, SMT DEF Bytes
  <2>3. 0 * ByteValues <= (ByteValues - 1) * ByteValues /\ 0 * ByteValues = 0
    BY <1>1, <1>3, <2>2, SMT
  <2>4. 0 <= square - ByteValues
    BY <1>2, <2>3
  <2> HIDE DEF square
  <2> QED BY <1>1, <1>4, <2>4, SMT
<1>6. (ByteValues - 1) * ByteValues = square - ByteValues
  BY <1>2
<1> HIDE DEF square
<1>7. /\ \A n \in Nat : \A b \in 0 .. ByteValues - 1 :
           n <= square - ByteValues => n + b \in 0 .. square - 1
      /\ \A n \in Nat : n <= square - ByteValues => n \in 0 .. square - 1
      /\ 0 \in 0 .. square - 1 /\ 0 \in 0 .. ByteValues - 1
  BY <1>1, <1>4, <1>5, SMT
<1> QED BY <1>3, <1>6, <1>7 DEF square, Bytes

(* Nothing is left of the source before.                                   *)
LEMMA NewSourceTypes ==
  ASSUME ReadTypes, NewSource, pc' \in {"scan", "idle", "failed"},
         pass' \in {"info", "read"}, JPG_readgimexmarker' \in BOOLEAN, sub_type' \in BOOLEAN,
         gimex_marker' = gimex_marker
  PROVE  ReadTypes'
<1>1. /\ header' = TRUE /\ buffer' = << >> /\ gimex_initial' = TRUE /\ last' = 0 /\ length' = 0
      /\ read_marker' = << >>
  BY DEF NewSource
<1>2. Len(MARKER_CONST) \in Nat /\ BufferLength \in Nat
  BY BytesAreNumbers, LenProperties, BufferAssumption
<1>3. Len(<< >>) <= BufferLength /\ Len(<< >>) <= Len(MARKER_CONST)
  BY <1>2, SMT
<1>4. pc' \notin {"markLo", "otherLo", "mark", "ended"}
  OBVIOUS
<1>5. pc' \in Taking \cup {"skip", "skipping", "headless", "ended", "idle", "failed"}
  BY DEF Taking
<1> QED BY <1>1, <1>3, <1>4, <1>5, TwoBytes DEF ReadTypes

(* A byte that libjpeg or the parser of the marker takes.                  *)
LEMMA ParserTypes ==
  ASSUME FileInv, WriteTypes, ReadTypes, file' = file,
         ScanByte \/ CodeByte \/ OtherHigh \/ OtherLow \/ MarkHigh \/ MarkLow \/ MarkByte
  PROVE  ReadTypes'
<1> DEFINE Taken == /\ last' \in Bytes /\ Len(buffer') <= BufferLength
                    /\ gimex_initial' \in BOOLEAN /\ pass' \in {"info", "read"}
                    /\ sub_type' \in BOOLEAN
<1>1. \A at : TakeByte(at) => Taken
  BY TakeTypes
<1> HIDE DEF Taken
<1>2. /\ length \in Nat /\ read_marker \in Seq(Nat)
      /\ length \in 0 .. ByteValues * ByteValues - 1
      /\ Len(read_marker) <= Len(MARKER_CONST) /\ JPG_readgimexmarker \in BOOLEAN
      /\ header \in BOOLEAN /\ gimex_marker \in BOOLEAN
  BY DEF FileInv, SourceInv, ReadTypes
<1>3. /\ Len(MARKER_CONST) \in Nat /\ Len(MARKER_CONST) > 0 /\ Len(<< >>) = 0
      /\ Len(read_marker) \in Nat
  <2>1. MARKER_CONST \in Seq(Nat) /\ MARKER_CONST # << >>
    BY FileAssumption
  <2>2. Len(MARKER_CONST) # 0 /\ Len(MARKER_CONST) \in Nat
    BY <2>1, EmptySeq, LenProperties
  <2> QED BY <1>2, <2>2, LenProperties, SMT
<1>4. CASE ScanByte \/ CodeByte
  <2>1. Taken /\ UNCHANGED <<length, read_marker, JPG_readgimexmarker>>
    BY <1>1, <1>4 DEF ScanByte, CodeByte
  <2>2. pc' \in {"code", "scan", "headless", "ended", "markHi", "otherHi"}
    BY <1>4 DEF ScanByte, CodeByte
  <2>3. /\ pc' \notin {"markLo", "otherLo", "mark"}
        /\ pc' \in Taking \cup {"skip", "skipping", "headless", "ended", "idle", "failed"}
    BY <2>2 DEF Taking
  <2>4. header' \in BOOLEAN /\ gimex_marker' \in BOOLEAN
    BY <1>2, <1>4 DEF ScanByte, CodeByte
  <2>5. pc' = "ended" => ~header'
    <3>1. CASE ScanByte
      BY <3>1 DEF ScanByte
    <3>2. CASE CodeByte
      <4>1. header' = header \/ header' = FALSE
        BY <3>2 DEF CodeByte
      <4>2. pc' = "ended" => ~header
        BY <3>2 DEF CodeByte
      <4> QED BY <4>1, <4>2
    <3> QED BY <1>4, <3>1, <3>2
  <2> QED BY <1>2, <2>1, <2>3, <2>4, <2>5 DEF ReadTypes, Taken
<1>5. CASE OtherHigh
  <2>1. /\ Taken /\ pc' = "otherLo" /\ length' = last' * ByteValues
        /\ UNCHANGED <<read_marker, JPG_readgimexmarker, header, gimex_marker>>
    BY <1>1, <1>5 DEF OtherHigh
  <2>2. /\ length' \in 0 .. ByteValues * ByteValues - 1
        /\ length' <= (ByteValues - 1) * ByteValues
    BY <2>1, TwoBytes DEF Taken
  <2> QED BY <1>2, <2>1, <2>2 DEF ReadTypes, Taken, Taking
<1>6. CASE OtherLow
  <2>1. /\ Taken /\ pc = "otherLo" /\ pc' = "skip" /\ length' = length + last'
        /\ UNCHANGED <<read_marker, JPG_readgimexmarker, header, gimex_marker>>
    BY <1>1, <1>6 DEF OtherLow, TakeByte
  <2>2. length <= (ByteValues - 1) * ByteValues
    BY <2>1 DEF ReadTypes
  <2>3. length' \in 0 .. ByteValues * ByteValues - 1
    BY <1>2, <2>1, <2>2, TwoBytes DEF Taken
  <2> QED BY <1>2, <2>1, <2>3 DEF ReadTypes, Taken, Taking
<1>7. CASE MarkHigh
  <2>1. /\ Taken /\ pc' = "markLo" /\ length' = last' * ByteValues /\ read_marker' = << >>
        /\ UNCHANGED <<JPG_readgimexmarker, header, gimex_marker>>
    BY <1>1, <1>7 DEF MarkHigh
  <2>2. /\ length' \in 0 .. ByteValues * ByteValues - 1
        /\ length' <= (ByteValues - 1) * ByteValues
    BY <2>1, TwoBytes DEF Taken
  <2>3. Len(read_marker') <= Len(MARKER_CONST)
    BY <1>3, <2>1, SMT
  <2> QED BY <1>2, <2>1, <2>2, <2>3 DEF ReadTypes, Taken, Taking
<1>8. CASE MarkLow
  <2>1. /\ Taken /\ pc = "markLo" /\ length' = length + last'
        /\ UNCHANGED <<read_marker, header, gimex_marker>>
    BY <1>1, <1>8 DEF MarkLow, TakeByte
  <2>2. pc' \in {"mark", "skip"} /\ JPG_readgimexmarker' \in BOOLEAN
    BY <1>2, <1>8 DEF MarkLow
  <2>3. length <= (ByteValues - 1) * ByteValues /\ read_marker = << >>
    BY <2>1 DEF ReadTypes
  <2>4. length' \in 0 .. ByteValues * ByteValues - 1
    BY <1>2, <2>1, <2>3, TwoBytes DEF Taken
  <2>5. Len(read_marker') < Len(MARKER_CONST) /\ Len(read_marker') <= Len(MARKER_CONST)
    BY <1>3, <2>1, <2>3, SMT
  <2> QED BY <1>2, <2>1, <2>2, <2>4, <2>5 DEF ReadTypes, Taken, Taking
<1>9. CASE MarkByte
  <2>1. /\ Taken /\ pc = "mark" /\ length' = length /\ read_marker' = Append(read_marker, last')
        /\ IF Len(read_marker') = Len(MARKER_CONST)
             THEN /\ pc' = "skip"
                  /\ JPG_readgimexmarker' = (JPG_readgimexmarker \/ read_marker' = MARKER_CONST)
             ELSE UNCHANGED <<pc, JPG_readgimexmarker>>
        /\ UNCHANGED <<header, gimex_marker>>
    BY <1>1, <1>9 DEF MarkByte, TakeByte
  <2>2. Len(read_marker') = Len(read_marker) + 1
    <3>1. last' \in Nat
      BY <2>1, BytesAreNumbers, SMT DEF Taken, Bytes
    <3> QED BY <1>2, <2>1, <3>1, AppendProperties
  <2>3. Len(read_marker) < Len(MARKER_CONST)
    BY <2>1 DEF ReadTypes
  <2>4. Len(read_marker') <= Len(MARKER_CONST)
    BY <1>3, <2>2, <2>3, SMT
  <2>5. CASE Len(read_marker') = Len(MARKER_CONST)
    <3>1. pc' = "skip" /\ JPG_readgimexmarker' \in BOOLEAN
      BY <2>1, <2>5
    <3> QED BY <1>2, <2>1, <2>4, <3>1 DEF ReadTypes, Taken, Taking
  <2>6. CASE Len(read_marker') # Len(MARKER_CONST)
    <3>1. pc' = "mark" /\ JPG_readgimexmarker' = JPG_readgimexmarker
      BY <2>1, <2>6
    <3>2. Len(read_marker') < Len(MARKER_CONST)
      BY <1>3, <2>2, <2>3, <2>6, SMT
    <3> QED BY <1>2, <2>1, <2>4, <3>1, <3>2 DEF ReadTypes, Taken, Taking
  <2> QED BY <2>5, <2>6
<1> QED BY <1>4, <1>5, <1>6, <1>7, <1>8, <1>9

LEMMA SkipTypes ==
  ASSUME FileInv, ReadTypes, StartSkip \/ SkipBuffer \/ SkipInBuffer
  PROVE  ReadTypes'
<1>1. Len(Filled) <= BufferLength
  BY FilledLength DEF FileInv, WriteInv, SourceInv, BufferInv
<1>2. CASE StartSkip
  BY <1>2 DEF StartSkip, ReadTypes, Taking
<1>3. CASE SkipBuffer
  BY <1>1, <1>3 DEF SkipBuffer, FillInputBuffer, ReadTypes, Taking
<1>4. CASE SkipInBuffer
  BY <1>4 DEF SkipInBuffer, ReadTypes, Taking
<1> QED BY <1>2, <1>3, <1>4

LEMMA ReadTypesStep ==
  ASSUME FileInv, WriteTypes, ReadTypes, [Next]_vars
  PROVE  ReadTypes'
<1>1. ASSUME UNCHANGED readVars PROVE ReadTypes'
  BY <1>1 DEF readVars, ReadTypes
<1>2. ASSUME NEW p \in Pictures, StartCompress(p) PROVE ReadTypes'
  BY <1>1, <1>2 DEF StartCompress
<1>3. ASSUME NEW f \in Foreign, FindFile(f) PROVE ReadTypes'
  BY <1>1, <1>3 DEF FindFile
<1>4. ASSUME Compress PROVE ReadTypes'
  BY <1>1, <1>4 DEF Compress
<1>5. ASSUME CallInfo PROVE ReadTypes'
  BY <1>5, NewSourceTypes DEF CallInfo, StreamSrc
<1>6. ASSUME Decompress PROVE ReadTypes'
  <2>1. Decode /\ file' = file
    BY <1>6 DEF Decompress, writeVars
  <2>2. CASE ErrorExit \/ InfoReturns \/ ReadReturns
    BY <2>2, NewSourceTypes DEF ErrorExit, InfoReturns, ReadReturns, StreamSrc, ReadTypes
  <2>3. CASE ScanByte \/ CodeByte \/ OtherHigh \/ OtherLow \/ MarkHigh \/ MarkLow \/ MarkByte
    BY <2>1, <2>3, ParserTypes
  <2>4. CASE StartSkip \/ SkipBuffer \/ SkipInBuffer
    BY <2>4, SkipTypes
  <2> QED BY <2>1, <2>2, <2>3, <2>4 DEF Decode
<1>7. ASSUME UNCHANGED vars PROVE ReadTypes'
  BY <1>1, <1>7 DEF vars, readVars
<1> QED BY <1>2, <1>3, <1>4, <1>5, <1>6, <1>7 DEF Next

LEMMA TypesStart == Init => WriteTypes /\ ReadTypes
<1> SUFFICES ASSUME Init PROVE WriteTypes /\ ReadTypes
  OBVIOUS
<1>1. << >> \in Seq(Bytes) /\ Len(<< >>) = 0
  BY EmptySeq
<1>2. /\ Len(<< >>) < BufferLength /\ Len(<< >>) <= BufferLength
      /\ 0 \in 0 .. MaxFiles
  BY <1>1, FileAssumption, BufferAssumption, SMT
<1>3. WriteTypes
  BY <1>1, <1>2 DEF Init, WriteTypes
<1>4. Len(<< >>) <= Len(MARKER_CONST)
  <2>1. Len(MARKER_CONST) \in Nat
    BY BytesAreNumbers, LenProperties
  <2> QED BY <1>1, <2>1, SMT
<1>5. ReadTypes
  BY <1>1, <1>2, <1>4, TwoBytes DEF Init, ReadTypes
<1> QED BY <1>3, <1>5

-----------------------------------------------------------------------------
(* What a file means.                                                      *)

(* From place to place. *)
FromAt(f, g, i) ==
  IF i >= Len(f) THEN {}
  ELSE IF f[i + 1] # FF \/ i + 1 = Len(f) THEN g[i + 1]
  ELSE CASE f[i + 2] = FF    -> g[i + 1]
         [] f[i + 2] = D9    -> {}
         [] f[i + 2] = SOS   -> {}
         [] f[i + 2] = APP13 -> {i + 2} \cup g[PastMarker(f, i + 2)]
         [] f[i + 2] = APPn  -> g[PastSegment(f, i + 2)]
         [] OTHER            -> g[i + 2]

From(f) == CHOOSE g : g = [i \in Nat |-> FromAt(f, g, i)]

LEMMA MarkersFrom == \A f : Markers(f) = From(f)[0]
BY DEF Markers, From, FromAt

(* A decoder goes on behind the marker it was at.                          *)
LEMMA PastType ==
  ASSUME NEW f \in Seq(Bytes), NEW m \in Nat
  PROVE  /\ LengthAt(f, m) \in Nat
         /\ PastSegment(f, m) \in Nat /\ PastSegment(f, m) > m
         /\ PastMarker(f, m) \in Nat /\ PastMarker(f, m) > m
<1>1. ByteAt(f, m + 1) \in Nat /\ ByteAt(f, m + 2) \in Nat
  <2>1. Bytes \subseteq Nat
    BY SMT DEF Bytes
  <2>2. m + 1 \in Nat /\ m + 1 > 0 /\ m + 2 \in Nat /\ m + 2 > 0
    BY SMT
  <2> QED BY <2>1, <2>2, ByteAtType
<1>2. ByteValues \in Nat /\ Len(MARKER_CONST) \in Nat
  BY BytesAreNumbers, LenProperties
<1>3. LengthAt(f, m) \in Nat
  BY <1>1, <1>2, SMT DEF LengthAt
<1> QED BY <1>2, <1>3, SMT DEF PastSegment, PastMarker

(* A place's markers are those of later places, and perhaps its own.       *)
LEMMA FromLater ==
  ASSUME NEW f \in Seq(Bytes), NEW i \in Nat, NEW g, NEW h, \A j \in Nat : j > i => g[j] = h[j]
  PROVE  FromAt(f, g, i) = FromAt(f, h, i)
<1>1. /\ i + 1 \in Nat /\ i + 1 > i /\ i + 2 \in Nat /\ i + 2 > i
      /\ PastMarker(f, i + 2) \in Nat /\ PastMarker(f, i + 2) > i
      /\ PastSegment(f, i + 2) \in Nat /\ PastSegment(f, i + 2) > i
  <2>1. i + 2 \in Nat /\ i + 1 \in Nat
    BY SMT
  <2> DEFINE x == PastMarker(f, i + 2)
             y == PastSegment(f, i + 2)
  <2>2. x \in Nat /\ x > i + 2 /\ y \in Nat /\ y > i + 2
    BY <2>1, PastType
  <2>3. i + 1 > i /\ i + 2 > i
    BY SMT
  <2> HIDE DEF x, y
  <2>4. x > i /\ y > i
    BY <2>2, SMT
  <2> QED BY <2>1, <2>2, <2>3, <2>4 DEF x, y
<1>2. /\ g[i + 1] = h[i + 1] /\ g[i + 2] = h[i + 2]
      /\ g[PastMarker(f, i + 2)] = h[PastMarker(f, i + 2)]
      /\ g[PastSegment(f, i + 2)] = h[PastSegment(f, i + 2)]
  BY <1>1
<1> QED BY <1>2 DEF FromAt

LEMMA FromType ==
  ASSUME NEW f \in Seq(Bytes), NEW i \in Nat, NEW g \in [Nat -> SUBSET Nat]
  PROVE  FromAt(f, g, i) \in SUBSET Nat
<1>1. /\ i + 1 \in Nat /\ i + 2 \in Nat
      /\ PastMarker(f, i + 2) \in Nat /\ PastSegment(f, i + 2) \in Nat
  <2>1. i + 2 \in Nat /\ i + 1 \in Nat
    BY SMT
  <2> QED BY <2>1, PastType
<1>2. /\ g[i + 1] \subseteq Nat /\ g[i + 2] \subseteq Nat /\ g[PastMarker(f, i + 2)] \subseteq Nat
      /\ g[PastSegment(f, i + 2)] \subseteq Nat
  BY <1>1
<1>3. {i + 2} \cup g[PastMarker(f, i + 2)] \subseteq Nat
  BY <1>1, <1>2
<1> QED BY <1>2, <1>3 DEF FromAt

(* So there is a function of all places, from the last to the first.       *)
LEMMA FromExists ==
  ASSUME NEW f \in Seq(Bytes)
  PROVE  From(f) = [i \in Nat |-> FromAt(f, From(f), i)]
<1> DEFINE n == Len(f)
           Good(m, g) == /\ g \in [Nat -> SUBSET Nat]
                         /\ \A i \in Nat : i + m >= n => g[i] = FromAt(f, g, i)
           P == {m \in Nat : \E g : Good(m, g)}
<1>0. n \in Nat
  BY LenProperties
<1>1. 0 \in P
  <2> DEFINE g == [i \in Nat |-> {}]
  <2>1. \A i \in Nat : i + 0 >= n => FromAt(f, g, i) = {}
    BY <1>0 DEF FromAt
  <2>2. Good(0, g)
    BY <2>1
  <2> QED BY <2>2
<1>2. ASSUME NEW m \in Nat, m \in P PROVE m + 1 \in P
  <2>1. PICK g : Good(m, g)
    BY <1>2
  <2> DEFINE h == [i \in Nat |-> IF i + (m + 1) >= n THEN FromAt(f, g, i) ELSE g[i]]
  <2>2. h \in [Nat -> SUBSET Nat]
    BY <2>1, FromType
  <2>3. ASSUME NEW j \in Nat, j + m >= n PROVE h[j] = g[j]
    <3>1. j + (m + 1) >= n
      BY <1>0, <2>3, SMT
    <3> QED BY <2>1, <2>3, <3>1
  <2>4. ASSUME NEW i \in Nat, i + (m + 1) >= n PROVE h[i] = FromAt(f, h, i)
    <3>1. \A j \in Nat : j > i => j + m >= n
      BY <1>0, <2>4, SMT
    <3>2. \A j \in Nat : j > i => g[j] = h[j]
      BY <2>3, <3>1
    <3>3. h[i] = FromAt(f, g, i)
      BY <2>4
    <3> HIDE DEF h
    <3> QED BY <3>2, <3>3, FromLater
  <2>5. Good(m + 1, h)
    BY <2>2, <2>4
  <2> HIDE DEF h, Good
  <2> QED BY <2>5
<1> HIDE DEF P
<1>3. n \in P
  BY <1>0, <1>1, <1>2, SetInduction
<1> USE DEF P
<1>4. PICK g : Good(n, g)
  BY <1>3
<1>5. g = [i \in Nat |-> FromAt(f, g, i)]
  <2>1. \A i \in Nat : g[i] = FromAt(f, g, i)
    BY <1>0, <1>4
  <2> QED BY <1>4, <2>1
<1> QED BY <1>5 DEF From

LEMMA FromIs ==
  ASSUME NEW f \in Seq(Bytes), NEW i \in Nat
  PROVE  From(f)[i] = FromAt(f, From(f), i)
BY FromExists

(* After FF, with i bytes gone by.                                         *)
CodeFrom(f, i) ==
  IF i >= Len(f) THEN {}
  ELSE CASE f[i + 1] = FF    -> From(f)[i]
         [] f[i + 1] = D9    -> {}
         [] f[i + 1] = SOS   -> {}
         [] f[i + 1] = APP13 -> {i + 1} \cup From(f)[PastMarker(f, i + 1)]
         [] f[i + 1] = APPn  -> From(f)[PastSegment(f, i + 1)]
         [] OTHER            -> From(f)[i + 1]

(* What a decoder does with a byte outside the segments, also behind the   *)
(* file's end.                                                             *)
LEMMA ScanLeads ==
  ASSUME NEW f \in Seq(Bytes), NEW i \in Nat
  PROVE  From(f)[i] = IF ByteAt(f, i + 1) = FF THEN CodeFrom(f, i + 1) ELSE From(f)[i + 1]
<1>1. Len(f) \in Nat /\ i + 1 \in Nat /\ (i + 1) + 1 = i + 2
  BY LenProperties, SMT
<1>2. From(f)[i] = FromAt(f, From(f), i) /\ From(f)[i + 1] = FromAt(f, From(f), i + 1)
  BY <1>1, FromIs
<1>3. CASE i >= Len(f)
  <2>1. i + 1 >= Len(f)
    BY <1>1, <1>3, SMT
  <2> QED BY <1>2, <1>3, <2>1 DEF FromAt, CodeFrom
<1>4. CASE i < Len(f)
  <2>1. ~(i >= Len(f)) /\ i + 1 <= Len(f) /\ (i + 1 >= Len(f) <=> i + 1 = Len(f))
    BY <1>1, <1>4, SMT
  <2>2. ByteAt(f, i + 1) = f[i + 1]
    BY <2>1 DEF ByteAt
  <2>3. CASE i + 1 = Len(f)
    <3>1. From(f)[i + 1] = {} /\ CodeFrom(f, i + 1) = {}
      BY <1>2, <2>1, <2>3 DEF FromAt, CodeFrom
    <3>2. From(f)[i] = From(f)[i + 1]
      BY <1>2, <2>1, <2>3 DEF FromAt
    <3> QED BY <3>1, <3>2
  <2>4. CASE i + 1 # Len(f)
    <3>1. CASE f[i + 1] # FF
      BY <1>2, <2>1, <2>2, <2>4, <3>1 DEF FromAt
    <3>2. CASE f[i + 1] = FF
      BY <1>1, <1>2, <2>1, <2>2, <2>4, <3>2 DEF FromAt, CodeFrom
    <3> QED BY <3>1, <3>2
  <2> QED BY <2>3, <2>4
<1> QED BY <1>1, <1>3, <1>4, SMT

LEMMA CodesDiffer ==
  /\ FF # D9 /\ FF # APP13 /\ FF # APPn /\ D9 # APP13 /\ D9 # APPn /\ APP13 # APPn
  /\ SOS # FF /\ SOS # D9 /\ SOS # APP13 /\ SOS # APPn
<1> DEFINE codes == <<FF, D9, APP13, APPn, SOS>>
<1>1. 1 \in 1 .. 5 /\ 2 \in 1 .. 5 /\ 3 \in 1 .. 5 /\ 4 \in 1 .. 5 /\ 5 \in 1 .. 5
  BY SMT
<1>2. \A i, j \in 1 .. 5 : codes[i] = codes[j] => i = j
  BY FileAssumption
<1>3. codes[1] = FF /\ codes[2] = D9 /\ codes[3] = APP13 /\ codes[4] = APPn /\ codes[5] = SOS
  OBVIOUS
<1>4. /\ 1 # 2 /\ 1 # 3 /\ 1 # 4 /\ 2 # 3 /\ 2 # 4 /\ 3 # 4
      /\ 1 # 5 /\ 2 # 5 /\ 3 # 5 /\ 4 # 5
  BY SMT
<1> HIDE DEF codes
<1> QED BY <1>1, <1>2, <1>3, <1>4

LEMMA CodeLeads ==
  ASSUME NEW f \in Seq(Bytes), NEW i \in Nat
  PROVE  LET x == ByteAt(f, i + 1)
         IN  CodeFrom(f, i) =
               IF x = FF THEN CodeFrom(f, i + 1)
               ELSE IF x = D9 \/ x = SOS THEN {}
               ELSE IF x = APP13 THEN {i + 1} \cup From(f)[PastMarker(f, i + 1)]
               ELSE IF x = APPn THEN From(f)[PastSegment(f, i + 1)]
               ELSE From(f)[i + 1]
<1> DEFINE x == ByteAt(f, i + 1)
<1>1. Len(f) \in Nat /\ i + 1 \in Nat /\ i + 1 > 0
  BY LenProperties, SMT
<1>2. CASE i >= Len(f)
  <2>1. i + 1 >= Len(f) /\ i + 1 > Len(f)
    BY <1>1, <1>2, SMT
  <2>2. x \in {FF, D9}
    BY <1>1, <2>1, ByteAtType
  <2>3. CodeFrom(f, i) = {} /\ CodeFrom(f, i + 1) = {}
    BY <1>2, <2>1 DEF CodeFrom
  <2> QED BY <2>2, <2>3
<1>3. CASE i < Len(f)
  <2>1. ~(i >= Len(f)) /\ i + 1 <= Len(f)
    BY <1>1, <1>3, SMT
  <2>2. x = f[i + 1]
    BY <2>1 DEF ByteAt
  <2>3. x = FF => From(f)[i] = CodeFrom(f, i + 1)
    BY ScanLeads
  <2> HIDE DEF x
  <2>4. CodeFrom(f, i) =
          CASE x = FF    -> From(f)[i]
            [] x = D9    -> {}
            [] x = SOS   -> {}
            [] x = APP13 -> {i + 1} \cup From(f)[PastMarker(f, i + 1)]
            [] x = APPn  -> From(f)[PastSegment(f, i + 1)]
            [] OTHER     -> From(f)[i + 1]
    BY <2>1, <2>2 DEF CodeFrom
  <2>5. CASE x = FF
    BY <2>3, <2>4, <2>5, CodesDiffer DEF x
  <2>6. CASE x = D9
    BY <2>4, <2>6, CodesDiffer DEF x
  <2>7. CASE x = APP13
    BY <2>4, <2>7, CodesDiffer DEF x
  <2>8. CASE x = APPn
    BY <2>4, <2>8, CodesDiffer DEF x
  <2>9. CASE x = SOS
    BY <2>4, <2>9, CodesDiffer DEF x
  <2>10. CASE x \notin {FF, D9, SOS, APP13, APPn}
    BY <2>4, <2>10 DEF x
  <2> QED BY <2>5, <2>6, <2>7, <2>8, <2>9, <2>10
<1> QED BY <1>1, <1>2, <1>3, SMT

-----------------------------------------------------------------------------
(* The mark.                                                               *)

(* The markers that the parser has not finished.                           *)
Ahead ==
  CASE pc = "scan"                   -> From(file)[Place]
    [] pc = "code"                   -> CodeFrom(file, Place)
    [] pc = "otherHi"                -> From(file)[PastSegment(file, Place)]
    [] pc = "otherLo"                -> From(file)[PastSegment(file, Place - 1)]
    [] pc \in {"skip", "skipping"}   -> From(file)[Place + remaining]
    [] pc = "markHi"                 -> {Place} \cup From(file)[PastMarker(file, Place)]
    [] pc = "markLo"                 -> {Place - 1} \cup From(file)[PastMarker(file, Place - 1)]
    [] pc = "mark"                   -> {MarkPlace} \cup From(file)[PastMarker(file, MarkPlace)]
    [] OTHER                         -> {}

(* What has been read of a segment is what the file has there.             *)
PlaceInv ==
  /\ pc \in {"otherLo", "markLo"} => Place >= 1 /\ length = ByteAt(file, Place) * ByteValues
  /\ pc = "mark" => /\ MarkPlace >= 0 /\ length = LengthAt(file, MarkPlace)
                    /\ \A k \in 1 .. Len(read_marker) :
                         read_marker[k] = ByteAt(file, MarkPlace + 2 + k)

(* In the header the mark has been seen, or is still to come, exactly if   *)
(* the file has it; behind it the copy of the flag tells.                  *)
SeenInv ==
  kind # "short" /\ ~Resting =>
    /\ header => /\ Ahead \subseteq Markers(file)
                 /\ HasMark(file) <=> JPG_readgimexmarker \/ \E m \in Ahead : MarkAt(file, m)
    /\ ~header => (HasMark(file) <=> gimex_marker)
    /\ pass = "read" => (sub_type <=> HasMark(file))

(* Every file has a kind that it was given with.                           *)
KindInv ==
  /\ wrote # "no" => \E p \in Pictures : made = p.bytes /\ kind = p.kind
  /\ wrote = "no" /\ files > 0 => \E f \in Foreign : file = f.bytes /\ kind = f.kind
  /\ ~Resting => files > 0

LEMMA ReadKind ==
  ASSUME FileInv, KindInv, ~Resting, kind # "short"
  PROVE  OfKind(file, kind)
<1>1. wrote \in {"no", "true", "false"} /\ files > 0
  BY DEF FileInv, WriteInv, Alone, KindInv
<1>2. CASE wrote = "no"
  BY <1>1, <1>2, KindAssumption DEF KindInv
<1>3. CASE wrote # "no"
  <2>1. PICK p \in Pictures : made = p.bytes /\ kind = p.kind
    BY <1>3 DEF KindInv
  <2>2. made \in Seq(Nat) /\ Len(made) \in Nat
    BY LenProperties DEF FileInv, WriteInv
  <2>3. PICK n \in 0 .. Len(made) : file = SubSeq(made, 1, n)
    <3>1. CASE wrote = "true"
      <4>1. file = made /\ SubSeq(made, 1, Len(made)) = made
        BY <2>2, <3>1, SubSeqFull DEF FileInv, WriteInv
      <4>2. Len(made) \in 0 .. Len(made)
        BY <2>2, SMT
      <4> QED BY <4>1, <4>2
    <3>2. CASE wrote = "false"
      BY <3>2 DEF FileInv, WriteInv, Begun
    <3> QED BY <1>1, <1>3, <3>1, <3>2
  <2> QED BY <2>1, <2>3, KindAssumption
<1> QED BY <1>2, <1>3

LEMMA KindStep ==
  ASSUME FileInv, KindInv, files \in Nat, [Next]_vars
  PROVE  KindInv'
<1>1. ASSUME NEW p \in Pictures, StartCompress(p) PROVE KindInv'
  BY <1>1 DEF StartCompress, KindInv, Between, Resting, readVars
<1>2. ASSUME NEW f \in Foreign, FindFile(f) PROVE KindInv'
  BY <1>2 DEF FindFile, KindInv, Between, Resting, readVars
<1>3. ASSUME Compress PROVE KindInv'
  <2>1. wrote = "writing" /\ wrote' # "no" /\ made' = made /\ kind' = kind
        /\ files' = files /\ pc' = pc
    BY <1>3 DEF Compress, EmitByte, CompressFails, FinishCompress, WriteOut, readVars
  <2>2. Resting
    BY <2>1 DEF FileInv, Alone
  <2> QED BY <2>1, <2>2 DEF KindInv, Resting
<1>4. ASSUME CallInfo PROVE KindInv'
  BY <1>4 DEF CallInfo, writeVars, KindInv
<1>5. ASSUME Decompress PROVE KindInv'
  <2>1. UNCHANGED <<writeVars, kind, files>> /\ ~Resting
    BY <1>5 DEF Decompress, Decode, ErrorExit, ScanByte, CodeByte, OtherHigh, OtherLow, MarkHigh,
       MarkLow, MarkByte, TakeByte, StartSkip, SkipBuffer, SkipInBuffer, InfoReturns, ReadReturns, Resting
  <2> QED BY <2>1 DEF KindInv, writeVars
<1>6. ASSUME UNCHANGED vars PROVE KindInv'
  BY <1>6 DEF vars, writeVars, readVars, KindInv, Resting
<1> QED BY <1>1, <1>2, <1>3, <1>4, <1>5, <1>6 DEF Next

(* Behind the header nothing changes what has been seen.                   *)
LEMMA SeenBehind ==
  ASSUME SeenInv, ~Resting, file' = file, kind' = kind, pass' = pass, sub_type' = sub_type,
         ~header, header' = header, gimex_marker' = gimex_marker
  PROVE  SeenInv'
<1>1. HasMark(file)' = HasMark(file)
  OBVIOUS
<1> QED BY <1>1 DEF SeenInv

(* What is ahead stays ahead.                                              *)
LEMMA SeenSame ==
  ASSUME SeenInv, ~Resting, file' = file, kind' = kind, Ahead' = Ahead, pass' = pass,
         sub_type' = sub_type, JPG_readgimexmarker' = JPG_readgimexmarker,
         header' = header, gimex_marker' = gimex_marker
  PROVE  SeenInv'
<1>1. Markers(file)' = Markers(file) /\ HasMark(file)' = HasMark(file)
  OBVIOUS
<1>2. \A m : MarkAt(file, m)' = MarkAt(file, m)
  OBVIOUS
<1> QED BY <1>1, <1>2 DEF SeenInv

LEMMA ScanSeen ==
  ASSUME FileInv, WriteTypes, SeenInv, UNCHANGED <<writeVars, kind>>, ScanByte
  PROVE  SeenInv' /\ PlaceInv'
<1>1. /\ TakeByte("scan") /\ pc' = (IF last' = FF THEN "code" ELSE "scan")
      /\ JPG_readgimexmarker' = JPG_readgimexmarker /\ file' = file /\ kind' = kind
      /\ header' = header /\ gimex_marker' = gimex_marker
  BY DEF ScanByte, writeVars
<1>2. /\ Place \in Nat /\ Place' = Place + 1 /\ last' = ByteAt(file, Place + 1)
      /\ file \in Seq(Bytes) /\ pc = "scan" /\ pass' = pass /\ sub_type' = sub_type
  BY <1>1, TakePlace
<1>3. From(file)[Place] =
        IF last' = FF THEN CodeFrom(file, Place + 1) ELSE From(file)[Place + 1]
  BY <1>2, ScanLeads
<1>4. Ahead = From(file)[Place]
  BY <1>2 DEF Ahead
<1>5. Ahead' = Ahead
  <2>1. CASE last' = FF
    <3>1. Ahead' = CodeFrom(file', Place')
      BY <1>1, <2>1 DEF Ahead
    <3> QED BY <1>1, <1>2, <1>3, <1>4, <2>1, <3>1
  <2>2. CASE last' # FF
    <3>1. Ahead' = From(file')[Place']
      BY <1>1, <2>2 DEF Ahead
    <3> QED BY <1>1, <1>2, <1>3, <1>4, <2>2, <3>1
  <2> QED BY <2>1, <2>2
<1>6. ~Resting
  BY <1>2 DEF Resting
<1> QED BY <1>1, <1>2, <1>5, <1>6, SeenSame DEF PlaceInv

LEMMA CodeSeen ==
  ASSUME FileInv, WriteTypes, ReadTypes, SeenInv, UNCHANGED <<writeVars, kind>>, CodeByte
  PROVE  SeenInv' /\ PlaceInv'
<1>1. /\ TakeByte("code")
      /\ JPG_readgimexmarker' = JPG_readgimexmarker /\ file' = file /\ kind' = kind
  BY DEF CodeByte, writeVars
<1>2. /\ Place \in Nat /\ Place' = Place + 1 /\ last' = ByteAt(file, Place + 1)
      /\ file \in Seq(Bytes) /\ pc = "code" /\ pass' = pass /\ sub_type' = sub_type
  BY <1>1, TakePlace
<1>3. CodeFrom(file, Place) =
        IF last' = FF THEN CodeFrom(file, Place + 1)
        ELSE IF last' = D9 \/ last' = SOS THEN {}
        ELSE IF last' = APP13 THEN {Place + 1} \cup From(file)[PastMarker(file, Place + 1)]
        ELSE IF last' = APPn THEN From(file)[PastSegment(file, Place + 1)]
        ELSE From(file)[Place + 1]
  BY <1>2, CodeLeads
<1>4. pc' = IF last' = FF THEN "code"
            ELSE IF last' = D9 THEN (IF header THEN "headless" ELSE "ended")
            ELSE IF last' = APP13 THEN "markHi"
            ELSE IF last' = APPn THEN "otherHi"
            ELSE "scan"
  <2>1. pc' = CASE last' = FF    -> "code"
                [] last' = D9    -> IF header THEN "headless" ELSE "ended"
                [] last' = APP13 -> "markHi"
                [] last' = APPn  -> "otherHi"
                [] OTHER         -> "scan"
    BY DEF CodeByte
  <2> QED BY <2>1, CodesDiffer
<1>5. Ahead = CodeFrom(file, Place)
  BY <1>2 DEF Ahead
<1>6. last' # SOS => Ahead' = Ahead
  <2> SUFFICES ASSUME last' # SOS PROVE Ahead' = Ahead
    OBVIOUS
  <2>1. CASE pc' = "code"
    <3>1. Ahead' = CodeFrom(file', Place')
      BY <2>1 DEF Ahead
    <3> QED BY <1>1, <1>2, <1>3, <1>4, <1>5, <2>1, <3>1
  <2>2. CASE pc' \in {"headless", "ended"}
    <3>1. Ahead' = {}
      BY <2>2 DEF Ahead
    <3> QED BY <1>3, <1>4, <1>5, <2>2, <3>1
  <2>3. CASE pc' = "markHi"
    <3>1. Ahead' = {Place'} \cup From(file')[PastMarker(file', Place')]
      BY <2>3 DEF Ahead
    <3> QED BY <1>1, <1>2, <1>3, <1>4, <1>5, <2>3, <3>1
  <2>4. CASE pc' = "otherHi"
    <3>1. Ahead' = From(file')[PastSegment(file', Place')]
      BY <2>4 DEF Ahead
    <3> QED BY <1>1, <1>2, <1>3, <1>4, <1>5, <2>4, <3>1
  <2>5. CASE pc' = "scan"
    <3>1. Ahead' = From(file')[Place']
      BY <2>5 DEF Ahead
    <3> QED BY <1>1, <1>2, <1>3, <1>4, <1>5, <2>5, <3>1
  <2> QED BY <1>4, <2>1, <2>2, <2>3, <2>4, <2>5
<1>7. ~Resting /\ pc' \notin {"otherLo", "markLo", "mark"}
  BY <1>2, <1>4 DEF Resting
<1>8. PlaceInv'
  BY <1>7 DEF PlaceInv
<1>9. CASE last' = SOS /\ header
  <2>1. header' = FALSE /\ gimex_marker' = JPG_readgimexmarker
    BY <1>9 DEF CodeByte
  <2>2. Ahead = {}
    BY <1>3, <1>5, <1>9, CodesDiffer
  <2>3. HasMark(file)' = HasMark(file)
    BY <1>1
  <2>4. kind # "short" => (HasMark(file) <=> JPG_readgimexmarker)
    BY <1>7, <1>9, <2>2 DEF SeenInv
  <2>5. kind # "short" => (HasMark(file) <=> gimex_marker')
    BY <2>1, <2>4
  <2>6. kind # "short" /\ pass = "read" => (sub_type <=> HasMark(file))
    BY <1>7 DEF SeenInv
  <2>7. SeenInv'
    BY <1>1, <1>2, <2>1, <2>3, <2>5, <2>6 DEF SeenInv
  <2> QED BY <1>8, <2>7
<1>10. CASE ~(last' = SOS /\ header)
  <2>1. header' = header /\ gimex_marker' = gimex_marker
    BY <1>10 DEF CodeByte
  <2>2. CASE last' = SOS
    <3>1. ~header
      BY <1>10, <2>2
    <3> QED BY <1>1, <1>2, <1>7, <1>8, <2>1, <3>1, SeenBehind
  <2>3. CASE last' # SOS
    BY <1>1, <1>2, <1>6, <1>7, <1>8, <2>1, <2>3, SeenSame
  <2> QED BY <2>2, <2>3
<1> QED BY <1>9, <1>10

LEMMA OtherHighSeen ==
  ASSUME FileInv, WriteTypes, SeenInv, UNCHANGED <<writeVars, kind>>, OtherHigh
  PROVE  SeenInv' /\ PlaceInv'
<1>1. /\ TakeByte("otherHi") /\ pc' = "otherLo" /\ length' = last' * ByteValues
      /\ JPG_readgimexmarker' = JPG_readgimexmarker /\ file' = file /\ kind' = kind
      /\ header' = header /\ gimex_marker' = gimex_marker
  BY DEF OtherHigh, writeVars
<1>2. /\ Place \in Nat /\ Place' = Place + 1 /\ Place' - 1 = Place /\ last' = ByteAt(file, Place + 1)
      /\ file \in Seq(Bytes) /\ pc = "otherHi" /\ pass' = pass /\ sub_type' = sub_type
  BY <1>1, TakePlace
<1>3. Ahead = From(file)[PastSegment(file, Place)]
  BY <1>2 DEF Ahead
<1>4. Ahead' = From(file')[PastSegment(file', Place' - 1)]
  BY <1>1 DEF Ahead
<1>5. Ahead' = Ahead
  BY <1>1, <1>2, <1>3, <1>4
<1>6. ~Resting
  BY <1>2 DEF Resting
<1>7. Place' >= 1
  <2> HIDE DEF Place
  <2> QED BY <1>2, SMT
<1> QED BY <1>1, <1>2, <1>5, <1>6, <1>7, SeenSame DEF PlaceInv

LEMMA OtherLowSeen ==
  ASSUME FileInv, WriteTypes, SeenInv, PlaceInv, UNCHANGED <<writeVars, kind>>, OtherLow
  PROVE  SeenInv' /\ PlaceInv'
<1>1. /\ TakeByte("otherLo") /\ pc' = "skip" /\ length' = length + last'
      /\ remaining' = (IF length' > 2 THEN length' - 2 ELSE 0)
      /\ JPG_readgimexmarker' = JPG_readgimexmarker /\ file' = file /\ kind' = kind
      /\ header' = header /\ gimex_marker' = gimex_marker
  BY DEF OtherLow, writeVars
<1>2. /\ Place \in Nat /\ Place' = Place + 1 /\ last' = ByteAt(file, Place + 1)
      /\ file \in Seq(Bytes) /\ pc = "otherLo" /\ pass' = pass /\ sub_type' = sub_type
  BY <1>1, TakePlace
<1>3. Place >= 1 /\ length = ByteAt(file, Place) * ByteValues
  BY <1>2 DEF PlaceInv
<1> DEFINE m == Place - 1
<1>4. m \in Nat /\ m + 1 = Place /\ m + 2 = Place + 1
  <2> HIDE DEF Place
  <2> QED BY <1>2, <1>3, SMT
<1>5. length' = LengthAt(file, m)
  <2> HIDE DEF m
  <2> QED BY <1>1, <1>2, <1>3, <1>4 DEF LengthAt
<1>6. LengthAt(file, m) \in Nat
  BY <1>2, <1>4, PastType
<1>7. Place' + remaining' = PastSegment(file, m)
  <2> DEFINE l == LengthAt(file, m)
             q == Place'
  <2>1. q = m + 2 /\ l \in Nat /\ remaining' = (IF l > 2 THEN l - 2 ELSE 0)
    BY <1>1, <1>2, <1>4, <1>5, <1>6
  <2>2. PastSegment(file, m) = m + (IF l > 2 THEN l ELSE 2)
    BY DEF PastSegment
  <2> HIDE DEF l, m, q
  <2>3. q + remaining' = m + (IF l > 2 THEN l ELSE 2)
    BY <1>4, <2>1, SMT
  <2> QED BY <2>2, <2>3 DEF q
<1>8. Ahead = From(file)[PastSegment(file, m)]
  BY <1>2 DEF Ahead
<1>9. Ahead' = From(file')[Place' + remaining']
  BY <1>1 DEF Ahead
<1>10. Ahead' = Ahead
  BY <1>1, <1>7, <1>8, <1>9
<1>11. ~Resting
  BY <1>2 DEF Resting
<1> QED BY <1>1, <1>2, <1>10, <1>11, SeenSame DEF PlaceInv

LEMMA MarkHighSeen ==
  ASSUME FileInv, WriteTypes, SeenInv, UNCHANGED <<writeVars, kind>>, MarkHigh
  PROVE  SeenInv' /\ PlaceInv'
<1>1. /\ TakeByte("markHi") /\ pc' = "markLo" /\ length' = last' * ByteValues
      /\ JPG_readgimexmarker' = JPG_readgimexmarker /\ file' = file /\ kind' = kind
      /\ header' = header /\ gimex_marker' = gimex_marker
  BY DEF MarkHigh, writeVars
<1>2. /\ Place \in Nat /\ Place' = Place + 1 /\ Place' - 1 = Place /\ last' = ByteAt(file, Place + 1)
      /\ file \in Seq(Bytes) /\ pc = "markHi" /\ pass' = pass /\ sub_type' = sub_type
  BY <1>1, TakePlace
<1>3. Ahead = {Place} \cup From(file)[PastMarker(file, Place)]
  BY <1>2 DEF Ahead
<1>4. Ahead' = {Place' - 1} \cup From(file')[PastMarker(file', Place' - 1)]
  BY <1>1 DEF Ahead
<1>5. Ahead' = Ahead
  BY <1>1, <1>2, <1>3, <1>4
<1>6. ~Resting
  BY <1>2 DEF Resting
<1>7. Place' >= 1
  <2> HIDE DEF Place
  <2> QED BY <1>2, SMT
<1> QED BY <1>1, <1>2, <1>5, <1>6, <1>7, SeenSame DEF PlaceInv

LEMMA MarkLowSeen ==
  ASSUME FileInv, WriteTypes, ReadTypes, KindInv, SeenInv, PlaceInv,
         UNCHANGED <<writeVars, kind>>, MarkLow
  PROVE  SeenInv' /\ PlaceInv'
<1>1. /\ TakeByte("markLo") /\ length' = length + last' /\ read_marker' = read_marker
      /\ file' = file /\ kind' = kind
      /\ header' = header /\ gimex_marker' = gimex_marker
  BY DEF MarkLow, writeVars
<1>2. /\ Place \in Nat /\ Place' = Place + 1 /\ last' = ByteAt(file, Place + 1)
      /\ file \in Seq(Bytes) /\ pc = "markLo" /\ pass' = pass /\ sub_type' = sub_type
  BY <1>1, TakePlace
<1>3. Place >= 1 /\ length = ByteAt(file, Place) * ByteValues /\ read_marker = << >>
  BY <1>2 DEF PlaceInv, ReadTypes
<1> DEFINE m == Place - 1
<1>4. m \in Nat /\ m + 1 = Place /\ m + 2 = Place + 1
  <2> HIDE DEF Place
  <2> QED BY <1>2, <1>3, SMT
<1>5. length' = LengthAt(file, m)
  <2> HIDE DEF m
  <2> QED BY <1>1, <1>2, <1>3, <1>4 DEF LengthAt
<1>6. LengthAt(file, m) \in Nat
  BY <1>2, <1>4, PastType
<1>7. Ahead = {m} \cup From(file)[PastMarker(file, m)] /\ ~Resting
  BY <1>2 DEF Ahead, Resting
<1>8. Len(MARKER_CONST) \in Nat /\ Len(<< >>) = 0
  BY BytesAreNumbers, LenProperties
<1>9. CASE length' < 2 \/ length' - 2 >= Len(MARKER_CONST)
  <2>1. pc' = "mark" /\ JPG_readgimexmarker' = JPG_readgimexmarker
    BY <1>9 DEF MarkLow
  <2>2. MarkPlace' = m
    <3>1. MarkPlace' = Place' - 2 - Len(read_marker')
      BY DEF MarkPlace
    <3>2. Place' = m + 2 /\ Len(read_marker') = 0
      BY <1>1, <1>2, <1>3, <1>4, <1>8
    <3> DEFINE q == Place'
               l == Len(read_marker')
    <3>3. q = m + 2 /\ l = 0
      BY <3>2
    <3> HIDE DEF q, l, m
    <3>4. q - 2 - l = m
      BY <1>4, <3>3, SMT
    <3> QED BY <3>1, <3>4 DEF q, l
  <2>3. Ahead' = {MarkPlace'} \cup From(file')[PastMarker(file', MarkPlace')]
    BY <2>1 DEF Ahead
  <2>4. Ahead' = Ahead
    BY <1>1, <1>7, <2>2, <2>3
  <2>5. PlaceInv'
    <3>1. m >= 0
      <4> HIDE DEF m
      <4> QED BY <1>4, SMT
    <3>2. Len(read_marker') = 0 /\ \A k \in 1 .. 0 : FALSE
      BY <1>1, <1>3, <1>8, SMT
    <3> HIDE DEF m
    <3> QED BY <1>1, <1>5, <2>1, <2>2, <3>1, <3>2 DEF PlaceInv
  <2> QED BY <1>1, <1>2, <1>7, <2>1, <2>4, <2>5, SeenSame
<1>10. CASE ~(length' < 2 \/ length' - 2 >= Len(MARKER_CONST))
  <2>1. pc' = "skip"
    BY <1>10 DEF MarkLow
  <2>2. header => kind = "short"
    <3> SUFFICES ASSUME header, kind # "short" PROVE FALSE
      OBVIOUS
    <3>1. OfKind(file, kind) /\ m \in Markers(file)
      BY <1>7, ReadKind DEF SeenInv
    <3>2. LengthAt(file, m) < 2 \/ LengthAt(file, m) >= 2 + Len(MARKER_CONST)
      BY <3>1 DEF OfKind
    <3> HIDE DEF m
    <3> QED BY <1>5, <1>6, <1>8, <1>10, <3>2, SMT
  <2>3. PlaceInv'
    BY <2>1 DEF PlaceInv
  <2>4. CASE kind = "short"
    BY <1>1, <2>3, <2>4 DEF SeenInv
  <2>5. CASE ~header
    BY <1>1, <1>2, <1>7, <2>3, <2>5, SeenBehind
  <2> QED BY <2>2, <2>4, <2>5
<1> QED BY <1>9, <1>10

(* A marker that the parser has finished is no longer ahead.               *)
LEMMA SeenOne ==
  ASSUME SeenInv, ~Resting, file' = file, kind' = kind, pass' = pass, sub_type' = sub_type,
         NEW m, Ahead = {m} \cup Ahead',
         JPG_readgimexmarker' = (JPG_readgimexmarker \/ MarkAt(file, m)),
         header' = header, gimex_marker' = gimex_marker
  PROVE  SeenInv'
<1>1. Markers(file)' = Markers(file) /\ HasMark(file)' = HasMark(file)
  OBVIOUS
<1>2. \A n : MarkAt(file, n)' = MarkAt(file, n)
  OBVIOUS
<1> QED BY <1>1, <1>2 DEF SeenInv

LEMMA MarkByteSeen ==
  ASSUME FileInv, WriteTypes, ReadTypes, KindInv, SeenInv, PlaceInv,
         UNCHANGED <<writeVars, kind>>, MarkByte
  PROVE  SeenInv' /\ PlaceInv'
<1>1. /\ TakeByte("mark") /\ read_marker' = Append(read_marker, last') /\ length' = length
      /\ file' = file /\ kind' = kind
      /\ header' = header /\ gimex_marker' = gimex_marker
  BY DEF MarkByte, writeVars
<1>2. /\ Place \in Nat /\ Place' = Place + 1 /\ last' = ByteAt(file, Place + 1)
      /\ file \in Seq(Bytes) /\ pc = "mark" /\ pass' = pass /\ sub_type' = sub_type
  BY <1>1, TakePlace
<1> DEFINE m == MarkPlace
           n == Len(read_marker)
           w == Len(MARKER_CONST)
<1>3. /\ m >= 0 /\ length = LengthAt(file, m) /\ n < w
      /\ \A k \in 1 .. n : read_marker[k] = ByteAt(file, m + 2 + k)
  BY <1>2 DEF PlaceInv, ReadTypes
<1>4. read_marker \in Seq(Nat) /\ n \in Nat /\ w \in Nat /\ MARKER_CONST \in Seq(Nat)
  BY BytesAreNumbers, LenProperties DEF FileInv, SourceInv
<1>5. m \in Nat /\ m + 2 + (n + 1) = Place + 1
  <2>1. m = Place - 2 - n
    BY DEF MarkPlace
  <2> HIDE DEF Place, m, n
  <2> QED BY <1>2, <1>3, <1>4, <2>1, SMT
<1>6. last' = ByteAt(file, m + 2 + (n + 1)) /\ last' \in Nat
  <2>1. Place + 1 \in Nat /\ Place + 1 > 0
    <3> HIDE DEF Place
    <3> QED BY <1>2, SMT
  <2>2. ByteAt(file, Place + 1) \in Bytes
    BY <1>2, <2>1, ByteAtType
  <2>3. Bytes \subseteq Nat
    BY SMT DEF Bytes
  <2> QED BY <1>2, <1>5, <2>2, <2>3
<1>7. /\ read_marker' \in Seq(Nat) /\ Len(read_marker') = n + 1
      /\ \A k \in 1 .. n : read_marker'[k] = read_marker[k]
      /\ read_marker'[n + 1] = last'
  BY <1>1, <1>4, <1>6, AppendProperties
<1>8. \A k \in 1 .. n + 1 : read_marker'[k] = ByteAt(file, m + 2 + k)
  <2> SUFFICES ASSUME NEW k \in 1 .. n + 1 PROVE read_marker'[k] = ByteAt(file, m + 2 + k)
    OBVIOUS
  <2>1. k \in 1 .. n \/ k = n + 1
    <3> HIDE DEF n
    <3> QED BY <1>4, SMT
  <2> HIDE DEF m, n
  <2> QED BY <1>3, <1>6, <1>7, <2>1
<1>9. MarkPlace' = m
  <2>1. MarkPlace' = Place' - 2 - Len(read_marker')
    BY DEF MarkPlace
  <2> DEFINE q == Place'
             l == Len(read_marker')
  <2>2. q = m + 2 + (n + 1) /\ l = n + 1
    BY <1>2, <1>5, <1>7
  <2> HIDE DEF q, l, m, n
  <2>3. q - 2 - l = m
    BY <1>4, <1>5, <2>2, SMT
  <2> QED BY <2>1, <2>3 DEF q, l
<1>10. Ahead = {m} \cup From(file)[PastMarker(file, m)] /\ ~Resting
  BY <1>2 DEF Ahead, Resting
<1>11. CASE n + 1 # w
  <2>1. pc' = "mark" /\ JPG_readgimexmarker' = JPG_readgimexmarker
    BY <1>2, <1>7, <1>11 DEF MarkByte
  <2>2. Ahead' = {MarkPlace'} \cup From(file')[PastMarker(file', MarkPlace')]
    BY <2>1 DEF Ahead
  <2>3. Ahead' = Ahead
    BY <1>1, <1>9, <1>10, <2>2
  <2>4. PlaceInv'
    <3> HIDE DEF m, n
    <3> QED BY <1>1, <1>3, <1>7, <1>8, <1>9, <2>1 DEF PlaceInv
  <2> QED BY <1>1, <1>2, <1>10, <2>1, <2>3, <2>4, SeenSame
<1>12. CASE n + 1 = w
  <2>1. /\ pc' = "skip" /\ remaining' = (IF length > 2 + w THEN length - 2 - w ELSE 0)
        /\ JPG_readgimexmarker' = (JPG_readgimexmarker \/ read_marker' = MARKER_CONST)
    BY <1>7, <1>12 DEF MarkByte
  <2>2. PlaceInv'
    BY <2>1 DEF PlaceInv
  <2>3. read_marker' = MARKER_CONST <=> MarkAt(file, m)
    <3>1. read_marker' = MARKER_CONST <=> \A k \in 1 .. w : read_marker'[k] = MARKER_CONST[k]
      BY <1>4, <1>7, <1>12, SeqEqual
    <3> HIDE DEF m
    <3> QED BY <1>8, <1>12, <3>1 DEF MarkAt
  <2>4. CASE kind = "short"
    BY <1>1, <2>2, <2>4 DEF SeenInv
  <2>5. CASE ~header
    BY <1>1, <1>2, <1>10, <2>2, <2>5, SeenBehind
  <2>6. CASE kind # "short" /\ header
    <3>1. OfKind(file, kind) /\ m \in Markers(file)
      BY <1>10, <2>6, ReadKind DEF SeenInv
    <3> DEFINE l == LengthAt(file, m)
               q == Place'
    <3>2. l < 2 \/ l >= 2 + w
      BY <3>1 DEF OfKind
    <3>3. l \in Nat /\ length = l /\ q = m + 2 + w
      BY <1>2, <1>3, <1>5, <1>12, PastType
    <3>4. PastMarker(file, m) = m + (IF l < 2 THEN 2 + w ELSE l)
      BY DEF PastMarker
    <3> HIDE DEF l, q, m, w
    <3>5. q + remaining' = m + (IF l < 2 THEN 2 + w ELSE l)
      BY <1>4, <1>5, <2>1, <3>2, <3>3, SMT
    <3>6. Ahead' = From(file')[Place' + remaining']
      BY <2>1 DEF Ahead
    <3>7. Ahead' = From(file)[PastMarker(file, m)]
      BY <1>1, <3>4, <3>5, <3>6 DEF q
    <3>8. Ahead = {m} \cup Ahead'
      BY <1>10, <3>7
    <3>9. JPG_readgimexmarker' = (JPG_readgimexmarker \/ MarkAt(file, m))
      BY <2>1, <2>3
    <3> QED BY <1>1, <1>2, <1>10, <2>2, <3>8, <3>9, SeenOne
  <2> QED BY <2>4, <2>5, <2>6
<1> QED BY <1>11, <1>12

(* What is skipped and what is left to skip end at the same place.         *)
LEMMA SkipSeen ==
  ASSUME FileInv, SeenInv, UNCHANGED <<writeVars, kind>>, StartSkip \/ SkipBuffer \/ SkipInBuffer
  PROVE  SeenInv' /\ PlaceInv'
<1>1. /\ file' = file /\ kind' = kind /\ pass' = pass /\ sub_type' = sub_type
      /\ JPG_readgimexmarker' = JPG_readgimexmarker /\ header' = header
      /\ gimex_marker' = gimex_marker
  BY DEF StartSkip, SkipBuffer, SkipInBuffer, writeVars
<1>2. /\ filled \in Nat /\ bytes_in_buffer \in Nat /\ remaining \in Nat /\ Len(Filled) \in Nat
  <2>1. BufferInv /\ file \in Seq(Nat) /\ remaining \in Nat
    BY DEF FileInv, WriteInv, SourceInv
  <2>2. buffer \in Seq(Nat) /\ filled \in Nat /\ bytes_in_buffer \in 0 .. Len(buffer)
    BY <2>1 DEF BufferInv
  <2>3. Len(buffer) \in Nat
    BY <2>2, LenProperties
  <2>4. bytes_in_buffer \in Nat
    BY <2>2, <2>3, SMT
  <2> QED BY <2>1, <2>2, <2>4, FilledBytes
<1>3. /\ ~Resting /\ pc \in {"skip", "skipping"} /\ pc' \in {"skipping", "scan"}
  BY DEF StartSkip, SkipBuffer, SkipInBuffer, Resting
<1>4. PlaceInv'
  BY <1>3 DEF PlaceInv
<1>5. Ahead = From(file)[Place + remaining]
  BY <1>3 DEF Ahead
<1>6. CASE StartSkip
  <2>1. /\ Place' = Place /\ remaining' = remaining /\ pc' = "skipping"
    BY <1>6 DEF StartSkip, Place
  <2>2. Ahead' = From(file')[Place' + remaining']
    BY <2>1 DEF Ahead
  <2>3. Ahead' = Ahead
    BY <1>1, <1>5, <2>1, <2>2
  <2> QED BY <1>1, <1>3, <1>4, <2>3, SeenSame
<1>7. CASE SkipBuffer
  <2>1. /\ pc' = "skipping" /\ remaining' = remaining - bytes_in_buffer
        /\ filled' = filled + Len(Filled) /\ bytes_in_buffer' = Len(Filled)
    BY <1>3, <1>7 DEF SkipBuffer, FillInputBuffer
  <2>2. (filled' - bytes_in_buffer') + remaining' = (filled - bytes_in_buffer) + remaining
    BY <1>2, <2>1, SMT
  <2>3. Ahead' = From(file')[Place' + remaining']
    BY <2>1 DEF Ahead
  <2>4. Ahead' = Ahead
    BY <1>1, <1>5, <2>2, <2>3 DEF Place
  <2> QED BY <1>1, <1>3, <1>4, <2>4, SeenSame
<1>8. CASE SkipInBuffer
  <2>1. /\ pc' = "scan" /\ filled' = filled /\ bytes_in_buffer' = bytes_in_buffer - remaining
    BY <1>8 DEF SkipInBuffer
  <2>2. filled' - bytes_in_buffer' = (filled - bytes_in_buffer) + remaining
    BY <1>2, <2>1, SMT
  <2>3. Ahead' = From(file')[Place']
    BY <2>1 DEF Ahead
  <2>4. Ahead' = Ahead
    BY <1>1, <1>5, <2>2, <2>3 DEF Place
  <2> QED BY <1>1, <1>3, <1>4, <2>4, SeenSame
<1> QED BY <1>6, <1>7, <1>8

(* A new pass has all of the file ahead; JPG_read's knows what JPG_info's  *)
(* has seen.                                                               *)
LEMMA OpenSeen ==
  ASSUME SeenInv, UNCHANGED <<writeVars, kind>>, NEW which, StreamSrc(which),
         which = "read" => pc = "ended" /\ ~header /\ sub_type' = gimex_marker
  PROVE  SeenInv' /\ PlaceInv'
<1>1. /\ file' = file /\ kind' = kind /\ pass' = which /\ pc' = "scan"
      /\ JPG_readgimexmarker' = FALSE /\ filled' = 0 /\ bytes_in_buffer' = 0 /\ header' = TRUE
  BY DEF writeVars, StreamSrc, NewSource
<1>2. Place' = 0
  <2>1. Place' = 0 - 0 /\ 0 - 0 = 0
    BY <1>1, SMT DEF Place
  <2> QED BY <2>1
<1>3. Ahead' = Markers(file)
  <2>1. Ahead' = From(file')[Place']
    BY <1>1 DEF Ahead
  <2> QED BY <1>1, <1>2, <2>1, MarkersFrom
<1>4. Markers(file)' = Markers(file) /\ HasMark(file)' = HasMark(file)
  BY <1>1
<1>5. \A n : MarkAt(file, n)' = MarkAt(file, n)
  BY <1>1
<1>6. which = "read" /\ kind # "short" => (sub_type' <=> HasMark(file))
  <2> SUFFICES ASSUME which = "read", kind # "short" PROVE sub_type' <=> HasMark(file)
    OBVIOUS
  <2>1. pc = "ended" /\ ~header /\ sub_type' = gimex_marker
    OBVIOUS
  <2>2. ~Resting
    BY <2>1 DEF Resting
  <2> QED BY <2>1, <2>2 DEF SeenInv
<1> QED BY <1>1, <1>3, <1>4, <1>5, <1>6 DEF SeenInv, PlaceInv, HasMark

LEMMA SeenStep ==
  ASSUME FileInv, WriteTypes, ReadTypes, KindInv, SeenInv, PlaceInv, [Next]_vars
  PROVE  SeenInv' /\ PlaceInv'
<1>1. ASSUME Resting, pc' = pc PROVE SeenInv' /\ PlaceInv'
  BY <1>1 DEF SeenInv, PlaceInv, Resting
<1>2. ASSUME NEW p \in Pictures, StartCompress(p) PROVE SeenInv' /\ PlaceInv'
  BY <1>1, <1>2 DEF StartCompress, Between, Resting, readVars
<1>3. ASSUME NEW f \in Foreign, FindFile(f) PROVE SeenInv' /\ PlaceInv'
  BY <1>1, <1>3 DEF FindFile, Between, Resting, readVars
<1>4. ASSUME Compress PROVE SeenInv' /\ PlaceInv'
  <2>1. wrote = "writing" /\ pc' = pc
    BY <1>4 DEF Compress, EmitByte, CompressFails, FinishCompress, readVars
  <2> QED BY <1>1, <2>1 DEF FileInv, Alone
<1>5. ASSUME CallInfo PROVE SeenInv' /\ PlaceInv'
  <2>1. StreamSrc("info") /\ UNCHANGED <<writeVars, kind>>
    BY <1>5 DEF CallInfo
  <2> QED BY <2>1, OpenSeen
<1>6. ASSUME Decompress PROVE SeenInv' /\ PlaceInv'
  <2>1. Decode /\ UNCHANGED <<writeVars, kind>>
    BY <1>6 DEF Decompress
  <2>2. CASE ErrorExit \/ ReadReturns
    <3>1. pc' \in {"idle", "failed"}
      BY <2>2 DEF ErrorExit, ReadReturns
    <3> QED BY <3>1 DEF SeenInv, PlaceInv, Resting
  <2>3. CASE ScanByte
    BY <2>1, <2>3, ScanSeen
  <2>4. CASE CodeByte
    BY <2>1, <2>4, CodeSeen
  <2>5. CASE OtherHigh
    BY <2>1, <2>5, OtherHighSeen
  <2>6. CASE OtherLow
    BY <2>1, <2>6, OtherLowSeen
  <2>7. CASE MarkHigh
    BY <2>1, <2>7, MarkHighSeen
  <2>8. CASE MarkLow
    BY <2>1, <2>8, MarkLowSeen
  <2>9. CASE MarkByte
    BY <2>1, <2>9, MarkByteSeen
  <2>10. CASE StartSkip \/ SkipBuffer \/ SkipInBuffer
    BY <2>1, <2>10, SkipSeen
  <2>11. CASE InfoReturns
    <3>1. StreamSrc("read") /\ pc = "ended" /\ ~header /\ sub_type' = gimex_marker
      BY <2>11 DEF InfoReturns, ReadTypes
    <3> QED BY <2>1, <3>1, OpenSeen
  <2> QED BY <2>1, <2>2, <2>3, <2>4, <2>5, <2>6, <2>7, <2>8, <2>9, <2>10, <2>11 DEF Decode
<1>7. ASSUME UNCHANGED vars PROVE SeenInv' /\ PlaceInv'
  <2>1. /\ file' = file /\ kind' = kind /\ pass' = pass /\ sub_type' = sub_type
        /\ JPG_readgimexmarker' = JPG_readgimexmarker /\ pc' = pc /\ filled' = filled
        /\ header' = header /\ gimex_marker' = gimex_marker
        /\ bytes_in_buffer' = bytes_in_buffer /\ length' = length /\ remaining' = remaining
        /\ read_marker' = read_marker
    BY <1>7 DEF vars, writeVars, readVars
  <2>2. Place' = Place /\ MarkPlace' = MarkPlace
    BY <2>1 DEF Place, MarkPlace
  <2>3. Ahead' = Ahead
    BY <2>1, <2>2 DEF Ahead
  <2>4. PlaceInv'
    BY <2>1, <2>2 DEF PlaceInv
  <2>5. CASE Resting
    BY <1>1, <2>1, <2>5
  <2>6. CASE ~Resting
    BY <2>1, <2>3, <2>4, <2>6, SeenSame
  <2> QED BY <2>5, <2>6
<1> QED BY <1>2, <1>3, <1>4, <1>5, <1>6, <1>7 DEF Next

-----------------------------------------------------------------------------
(* The theorems.                                                           *)

(* What JPG_write reports is what is on the disk: all of the picture, or a *)
(* proper part of it.                                                      *)
THEOREM WritesWhole == Spec => []WrittenWhole
<1>1. FileInv => WrittenWhole
  <2> SUFFICES ASSUME FileInv, wrote = "false" PROVE IsStrictPrefix(file, made)
    BY DEF FileInv, WriteInv, WrittenWhole
  <2>1. PICK n \in 0 .. Len(made) : n < Len(made) /\ file = Begun(n)
    BY DEF FileInv, WriteInv
  <2>2. made \in Seq(Nat)
    BY DEF FileInv, WriteInv
  <2>3. Len(file) = n /\ Len(made) \in Nat
    BY <2>1, <2>2, CutType, LenProperties DEF Begun
  <2>4. Len(file) <= Len(made) /\ file # made
    BY <2>1, <2>3, SMT
  <2>5. file = SubSeq(made, 1, Len(file))
    BY <2>1, <2>3 DEF Begun
  <2> QED BY <2>4, <2>5 DEF IsStrictPrefix, IsPrefix
<1> QED BY <1>1, Starts, EveryStep, PTL DEF Spec

(* The source manager of jpeggimex.c implements the plain stream of bytes. *)
THEOREM SourceIsStream == Spec => ImplementsByteStream
BY Starts, EveryStep, PTL DEF Spec, ImplementsByteStream, Stream!Spec

(* Every variable keeps to its type: the buffers of the source and the     *)
(* destination never run over, and neither does the array that the mark is *)
(* read into.                                                              *)
THEOREM FileTypes == Spec => []TypeOK
<1>1. Init => WriteTypes /\ ReadTypes
  BY TypesStart
<1>2. FileInv /\ WriteTypes /\ ReadTypes => TypeOK
  <2> SUFFICES ASSUME FileInv, WriteTypes, ReadTypes PROVE TypeOK
    OBVIOUS
  <2>1. WriteTypeOK
    BY DEF WriteTypeOK, FileInv, WriteInv, WriteTypes
  <2>2. ReadTypeOK
    BY DEF ReadTypeOK, FileInv, SourceInv, BufferInv, ReadTypes, Bytes
  <2> QED BY <2>1, <2>2 DEF TypeOK, WriteTypes
<1>3. FileInv /\ WriteTypes /\ ReadTypes /\ [Next]_vars => (WriteTypes /\ ReadTypes)'
  BY WriteTypesStep, ReadTypesStep
<1> QED BY <1>1, <1>2, <1>3, Starts, EveryStep, PTL DEF Spec

(* What JPG_info and JPG_read go by at the end of a pass is set exactly    *)
(* when the file's header has the mark.                                    *)
THEOREM MarkSeen == Spec => []MarkRecognised
<1> DEFINE IInv == FileInv /\ WriteTypes /\ ReadTypes /\ KindInv /\ SeenInv /\ PlaceInv
<1>1. Init => KindInv /\ SeenInv /\ PlaceInv
  BY DEF Init, KindInv, SeenInv, PlaceInv, Resting
<1>2. IInv /\ [Next]_vars => KindInv' /\ SeenInv' /\ PlaceInv'
  <2> SUFFICES ASSUME IInv, [Next]_vars PROVE KindInv' /\ SeenInv' /\ PlaceInv'
    OBVIOUS
  <2>1. files \in Nat
    BY FileAssumption, SMT DEF WriteTypes
  <2> QED BY <2>1, KindStep, SeenStep
<1>3. IInv => MarkRecognised
  <2> SUFFICES ASSUME IInv, pc = "ended", kind # "short"
               PROVE  /\ gimex_marker = Marked
                      /\ pass = "read" => sub_type = Marked
    BY DEF MarkRecognised
  <2>1. ~header /\ ~Resting
    BY DEF ReadTypes, Resting
  <2>2. HasMark(file) <=> Marked
    BY <2>1, ReadKind DEF OfKind, Marked
  <2>3. /\ HasMark(file) <=> gimex_marker
        /\ pass = "read" => (sub_type <=> HasMark(file))
    BY <2>1 DEF SeenInv
  <2>4. gimex_marker \in BOOLEAN /\ sub_type \in BOOLEAN
    BY DEF ReadTypes
  <2>5. Marked \in BOOLEAN
    BY DEF Marked
  <2> QED BY <2>2, <2>3, <2>4, <2>5
<1>4. Init => WriteTypes /\ ReadTypes
  BY TypesStart
<1>5. FileInv /\ WriteTypes /\ ReadTypes /\ [Next]_vars => (WriteTypes /\ ReadTypes)'
  BY WriteTypesStep, ReadTypesStep
<1> QED BY <1>1, <1>2, <1>3, <1>4, <1>5, Starts, EveryStep, PTL DEF Spec
=============================================================================
