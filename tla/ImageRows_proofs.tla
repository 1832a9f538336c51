-------------------------- MODULE ImageRows_proofs --------------------------
(***************************************************************************)
(* Proofs about ImageRows, for any images, any limits of a packet and any  *)
(* way a Targa file keeps a pixel: an image that a packer gets through is  *)
(* read back as it was written, from whatever of the file belongs to it,   *)
(* though nothing in the file says where a row of a Targa image begins and *)
(* a bitmap's reader looks for no end of a line; of a bitmap, as far as    *)
(* its reader goes on, which a row of nothing but runs decides.  An        *)
(* invariant of each format follows the packets through the file, the      *)
(* Targa's first.                                                          *)
(***************************************************************************)
EXTENDS ImageRows, SequenceTheorems, Induction

-----------------------------------------------------------------------------
(* The lengths that the Targa writer chooses.                              *)

(* Whatever the line and the limits, a run is a run, and inside the line.  *)
LEMMA RunLengthOf ==
  ASSUME NEW line, NEW from \in Nat, NEW max \in Nat, NEW limit \in Nat
  PROVE  LET n == RunLength(line, from, max, limit)
         IN  /\ n \in 0 .. max /\ n <= limit
             /\ max > 0 /\ limit > 0 => n > 0
             /\ \A k \in 0 .. n - 1 : line[from + k] = line[from]
<1> DEFINE m == IF max > limit THEN limit ELSE max
           IsRun(n) == /\ \A k \in 0 .. n - 1 : line[from + k] = line[from]
                       /\ n = m \/ line[from + n] # line[from]
           ends == {n \in 0 .. m : n = m \/ line[from + n] # line[from]}
<1>1. PICK n \in ends : \A k \in ends : n <= k
  <2>1. ends \subseteq Nat /\ m \in ends
    OBVIOUS
  <2> QED BY <2>1, LeastExists
<1>2. IsRun(n)
  <2>1. ASSUME NEW k \in 0 .. n - 1 PROVE line[from + k] = line[from]
    <3>1. k \notin ends /\ k \in 0 .. m
      BY <1>1
    <3> QED BY <3>1
  <2> QED BY <1>1, <2>1
<1>3. RunLength(line, from, max, limit) = CHOOSE x \in 0 .. m : IsRun(x)
  BY DEF RunLength
<1>4. n \in 0 .. m
  BY <1>1
<1> HIDE DEF IsRun
<1>5. /\ RunLength(line, from, max, limit) \in 0 .. m
      /\ IsRun(RunLength(line, from, max, limit))
  BY <1>2, <1>3, <1>4
<1> DEFINE run == RunLength(line, from, max, limit)
<1>6. run \in 0 .. m /\ (\A k \in 0 .. run - 1 : line[from + k] = line[from])
      /\ (run = m \/ line[from + run] # line[from])
  BY <1>5 DEF IsRun
<1> HIDE DEF run
<1>7. max > 0 /\ limit > 0 => run > 0
  <2>1. from + 0 = from
    OBVIOUS
  <2> QED BY <1>6, <2>1
<1>8. run \in 0 .. max /\ run <= limit
  BY <1>6
<1> QED BY <1>6, <1>7, <1>8 DEF run

(* A literal has a pixel at least, and no more than the limit or the line. *)
LEMMA LiteralLengthOf ==
  ASSUME NEW left \in Nat, left > 0
  PROVE  LiteralLength(left) \in 1 .. left /\ LiteralLength(left) <= MaxPacket
<1> DEFINE ends == {n \in 1 .. left :
                      n = left \/ n = MaxPacket \/ WorthRepeating(TGA_rlecount(at + 1 + n, left - n))}
<1>1. LiteralEnds(left) = CHOOSE n \in ends : \A k \in ends : n <= k
  BY DEF LiteralEnds
<1>2. ends \subseteq Nat /\ left \in ends /\ ends \subseteq 1 .. left
  OBVIOUS
<1> HIDE DEF ends
<1>3. LiteralEnds(left) \in 1 .. left
  BY <1>1, <1>2, LeastExists
<1> QED BY <1>3, PacketAssumption DEF LiteralLength

-----------------------------------------------------------------------------
(* Heads.                                                                  *)

LEMMA RepeatHeadOf ==
  ASSUME NEW n \in Nat, n > 0, n <= MaxPacket
  PROVE  RepeatHead(n) \in Nat /\ IsRepeat(RepeatHead(n)) /\ Count(RepeatHead(n)) = n
<1>1. (n - 1) % MaxPacket = n - 1
  BY PacketAssumption, SMT
<1>2. (MaxPacket + (n - 1)) % MaxPacket = n - 1
  BY PacketAssumption, SMT
<1> QED BY <1>1, <1>2, PacketAssumption, SMT DEF RepeatHead, IsRepeat, Count

LEMMA LiteralHeadOf ==
  ASSUME NEW n \in Nat, n > 0, n <= MaxPacket
  PROVE  LiteralHead(n) \in Nat /\ ~IsRepeat(LiteralHead(n)) /\ Count(LiteralHead(n)) = n
<1>1. (n - 1) % (2 * MaxPacket) = n - 1
  BY PacketAssumption, SMT
<1>2. (n - 1) % MaxPacket = n - 1
  BY PacketAssumption, SMT
<1> QED BY <1>1, <1>2, PacketAssumption, SMT DEF LiteralHead, IsRepeat, Count

-----------------------------------------------------------------------------
(* The file as a chain of places <<t, r, a>>: t bytes into the file, the   *)
(* next packet is of row r and begins after a pixels.                      *)

Places == Nat \X Nat \X Nat

Size(f, t) == IF IsRepeat(f[t + 1]) THEN 2 ELSE Count(f[t + 1]) + 1

PixelAt(f, t, k) == IF IsRepeat(f[t + 1]) THEN f[t + 2] ELSE f[t + 1 + k]

(* There is a whole packet of pixels of the row.                           *)
PacketAt(f, im, t, r, a) ==
  /\ Count(f[t + 1]) \in Nat /\ Count(f[t + 1]) > 0
  /\ a + Count(f[t + 1]) <= Len(im[1])
  /\ t + Size(f, t) <= Len(f)
  /\ \A k \in 1 .. Count(f[t + 1]) : PixelAt(f, t, k) = Stored[im[r][a + k]]

(* A place leads to another of S.                                          *)
LeadsOn(S, f, im, t, r, a) ==
  /\ t <= Len(f) /\ r \in 1 .. Len(im)
  /\ \/ a < Len(im[1]) /\ PacketAt(f, im, t, r, a)
          /\ <<t + Size(f, t), r, a + Count(f[t + 1])>> \in S
     \/ a = Len(im[1]) /\ r > 1 /\ <<t, r - 1, 0>> \in S

(* Every place leads on, but for the one that the writer has come to.      *)
Written ==
  \E S \in SUBSET Places :
    /\ <<0, Height, 0>> \in S
    /\ <<Len(file), row, at>> \in S
    /\ \A t, r, a \in Nat :
         <<t, r, a>> \in S /\ <<t, r, a>> # <<Len(file), row, at>> =>
           LeadsOn(S, file, image, t, r, a)

(* The reader is at one of them, and the last is the end of the file.      *)
Reading ==
  \E S \in SUBSET Places :
    /\ <<taken, row, at>> \in S
    /\ \A t, r, a \in Nat : <<t, r, a>> \in S =>
         LeadsOn(S, file, image, t, r, a) \/ <<t, r, a>> = <<Len(file), 1, Width>>

(* The pixels of a row up to one, as the file keeps them.                  *)
Upto(im, r, a) == [i \in 1 .. a |-> Stored[im[r][i]]]

TgaInv ==
  /\ image \in Images
  /\ phase \in {"write", "read", "done"}
  /\ row \in 1 .. Height /\ at \in 0 .. Width
  /\ file \in Seq(Nat) /\ taken \in Nat
  /\ phase = "write" => /\ Written
                        /\ taken = 0
                        /\ got = [r \in 1 .. Height |-> <<>>]
  /\ phase = "read" => /\ Reading
                       /\ got = [r \in 1 .. Height |->
                                  IF r > row THEN Upto(image, r, Width)
                                  ELSE IF r = row THEN Upto(image, r, at) ELSE <<>>]
  /\ phase = "done" => /\ taken = Len(file)
                       /\ got = [r \in 1 .. Height |-> Upto(image, r, Width)]

-----------------------------------------------------------------------------
(* An image has rows, of one length, of numbers.                           *)
LEMMA ImageType ==
  ASSUME NEW im \in Images
  PROVE  /\ im \in Seq(Seq(Nat))
         /\ Len(im) \in Nat /\ Len(im) > 0
         /\ Len(im[1]) \in Nat /\ Len(im[1]) > 0
         /\ \A r \in 1 .. Len(im) : /\ im[r] \in Seq(Nat)
                                    /\ Len(im[r]) = Len(im[1])
                                    /\ \A i \in 1 .. Len(im[1]) : Stored[im[r][i]] \in Nat
<1>1. /\ im \in Seq(Seq(Nat)) /\ Len(im) > 0 /\ Len(im[1]) > 0
      /\ \A r \in 1 .. Len(im) : Len(im[r]) = Len(im[1])
      /\ \A r \in DOMAIN im : \A i \in DOMAIN im[r] : Stored[im[r][i]] \in Nat
  BY ImagesAssumption, StoredAssumption
<1>2. Len(im) \in Nat /\ DOMAIN im = 1 .. Len(im)
  BY <1>1
<1>3. \A r \in 1 .. Len(im) : im[r] \in Seq(Nat)
  BY <1>1, <1>2
<1>4. \A r \in 1 .. Len(im) : DOMAIN im[r] = 1 .. Len(im[r]) /\ Len(im[r]) \in Nat
  BY <1>3
<1>5. 1 \in 1 .. Len(im)
  BY <1>1, <1>2
<1>6. \A r \in 1 .. Len(im) : \A i \in 1 .. Len(im[1]) : Stored[im[r][i]] \in Nat
  BY <1>1, <1>2, <1>4
<1> QED BY <1>1, <1>2, <1>3, <1>4, <1>5, <1>6

LEMMA UptoOf ==
  ASSUME NEW im \in Images, NEW r \in 1 .. Len(im), NEW a \in 0 .. Len(im[1])
  PROVE  /\ Upto(im, r, a) \in Seq(Nat) /\ Len(Upto(im, r, a)) = a
         /\ \A i \in 1 .. a : Upto(im, r, a)[i] = Stored[im[r][i]]
<1>1. a \in Nat /\ \A i \in 1 .. a : i \in 1 .. Len(im[1])
  BY ImageType
<1>2. \A i \in 1 .. a : Stored[im[r][i]] \in Nat
  BY <1>1, ImageType
<1> QED BY <1>1, <1>2 DEF Upto

(* What comes after it in the file changes nothing of a packet.            *)
LEMMA PacketStays ==
  ASSUME NEW im \in Images, NEW f \in Seq(Nat), NEW more \in Seq(Nat),
         NEW t \in Nat, NEW r \in 1 .. Len(im), NEW a \in Nat, PacketAt(f, im, t, r, a)
  PROVE  /\ PacketAt(f \o more, im, t, r, a)
         /\ Size(f \o more, t) = Size(f, t)
         /\ Count((f \o more)[t + 1]) = Count(f[t + 1])
<1> DEFINE g == f \o more
<1>1. /\ g \in Seq(Nat) /\ Len(g) = Len(f) + Len(more)
      /\ \A i \in 1 .. Len(f) : g[i] = f[i]
      /\ Len(f) \in Nat /\ Len(more) \in Nat
  OBVIOUS
<1>2. Count(f[t + 1]) \in Nat /\ Count(f[t + 1]) > 0 /\ t + Size(f, t) <= Len(f)
  BY DEF PacketAt
<1> HIDE DEF g
<1>3. Size(f, t) \in Nat /\ Size(f, t) >= 2 /\ t + 1 <= Len(f) /\ g[t + 1] = f[t + 1]
  <2>1. Size(f, t) \in Nat /\ Size(f, t) >= 2
    <3>1. CASE IsRepeat(f[t + 1])
      BY <3>1 DEF Size
    <3>2. CASE ~IsRepeat(f[t + 1])
      <4>1. Size(f, t) = Count(f[t + 1]) + 1
        BY <3>2 DEF Size
      <4>2. \A x \in Nat : x > 0 => x + 1 \in Nat /\ x + 1 >= 2
        BY SMT
      <4> QED BY <1>2, <4>1, <4>2, Zenon
    <3> QED BY <3>1, <3>2
  <2>2. t + 1 \in 1 .. Len(f)
    <3>1. \A x, y, z \in Nat : x + y <= z /\ y >= 2 => x + 1 \in 1 .. z
      BY SMT
    <3> QED BY <1>1, <1>2, <2>1, <3>1
  <2>3. g[t + 1] = f[t + 1]
    BY <1>1, <2>2
  <2> QED BY <2>1, <2>2, <2>3
<1>4. Size(g, t) = Size(f, t) /\ Count(g[t + 1]) = Count(f[t + 1])
  BY <1>3 DEF Size
<1>5. ASSUME NEW k \in 1 .. Count(f[t + 1]) PROVE PixelAt(g, t, k) = PixelAt(f, t, k)
  <2>1. CASE IsRepeat(f[t + 1])
    <3>1. Size(f, t) = 2
      BY <2>1 DEF Size
    <3>2. g[t + 2] = f[t + 2]
      BY <1>1, <1>2, <3>1
    <3> QED BY <1>3, <2>1, <3>2 DEF PixelAt
  <2>2. CASE ~IsRepeat(f[t + 1])
    <3>1. Size(f, t) = Count(f[t + 1]) + 1
      BY <2>2 DEF Size
    <3>2. g[t + 1 + k] = f[t + 1 + k]
      <4>1. t + 1 + k \in 1 .. Len(f)
        BY <1>1, <1>2, <3>1
      <4> QED BY <1>1, <4>1
    <3>3. ~IsRepeat(g[t + 1])
      BY <1>3, <2>2
    <3> QED BY <2>2, <3>2, <3>3, Zenon DEF PixelAt
  <2> QED BY <2>1, <2>2
<1>6. t + Size(g, t) <= Len(g)
  BY <1>1, <1>2, <1>3, <1>4
<1> QED BY <1>4, <1>5, <1>6 DEF PacketAt, g

LEMMA LeadsStay ==
  ASSUME NEW im \in Images, NEW f \in Seq(Nat), NEW more \in Seq(Nat),
         NEW S, NEW T, S \subseteq T,
         NEW t \in Nat, NEW r \in Nat, NEW a \in Nat, LeadsOn(S, f, im, t, r, a)
  PROVE  LeadsOn(T, f \o more, im, t, r, a)
<1>1. t <= Len(f \o more) /\ r \in 1 .. Len(im)
  <2>1. Len(f \o more) = Len(f) + Len(more) /\ Len(f) \in Nat /\ Len(more) \in Nat
    OBVIOUS
  <2> QED BY <2>1 DEF LeadsOn
<1>2. CASE a < Len(im[1]) /\ PacketAt(f, im, t, r, a) /\ <<t + Size(f, t), r, a + Count(f[t + 1])>> \in S
  <2>1. /\ PacketAt(f \o more, im, t, r, a)
        /\ Size(f \o more, t) = Size(f, t)
        /\ Count((f \o more)[t + 1]) = Count(f[t + 1])
    BY <1>1, <1>2, PacketStays
  <2> QED BY <1>1, <1>2, <2>1 DEF LeadsOn
<1>3. CASE a = Len(im[1]) /\ r > 1 /\ <<t, r - 1, 0>> \in S
  BY <1>1, <1>3 DEF LeadsOn
<1> QED BY <1>2, <1>3 DEF LeadsOn

-----------------------------------------------------------------------------
(* Writing.                                                                *)

(* A packet of the next pixels of the row leads the chain on.              *)
LEMMA EmitStep ==
  ASSUME TgaInv, phase = "write", at < Width,
         NEW packet \in Seq(Nat), NEW n \in Nat, Emit(packet, n),
         PacketAt(file \o packet, image, Len(file), row, at),
         Size(file \o packet, Len(file)) = Len(packet),
         Count((file \o packet)[Len(file) + 1]) = n
  PROVE  TgaInv'
<1> DEFINE new == <<Len(file'), row, at + n>>
<1>1. /\ file' = file \o packet /\ at' = at + n
      /\ image' = image /\ phase' = phase /\ row' = row /\ taken' = taken /\ got' = got
  BY DEF Emit
<1>2. /\ image \in Images /\ row \in 1 .. Height /\ at \in 0 .. Width
      /\ file \in Seq(Nat) /\ taken = 0 /\ got = [r \in 1 .. Height |-> <<>>]
  BY DEF TgaInv
<1>3. /\ Height = Len(image) /\ Width = Len(image[1]) /\ Height \in Nat /\ Width \in Nat
      /\ Height' = Height /\ Width' = Width
  BY <1>1, <1>2, ImageType DEF Height, Width
<1>4. /\ file' \in Seq(Nat) /\ Len(file') = Len(file) + Len(packet)
      /\ Len(file) \in Nat /\ Len(file') \in Nat /\ Len(packet) \in Nat
  BY <1>1, <1>2
<1>5. at + n <= Width /\ at' \in 0 .. Width
  BY <1>1, <1>2, <1>3 DEF PacketAt
<1>6. PICK S \in SUBSET Places :
        /\ <<0, Height, 0>> \in S
        /\ <<Len(file), row, at>> \in S
        /\ \A t, r, a \in Nat :
             <<t, r, a>> \in S /\ <<t, r, a>> # <<Len(file), row, at>> =>
               LeadsOn(S, file, image, t, r, a)
  BY DEF TgaInv, Written
<1> DEFINE T == S \cup {new}
<1>7. T \in SUBSET Places /\ <<0, Height, 0>> \in T /\ new \in T
  <2>1. Len(file') \in Nat /\ row \in Nat /\ at + n \in Nat
    BY <1>2, <1>3, <1>4
  <2>2. new \in Places
    BY <2>1 DEF Places
  <2> HIDE DEF new
  <2> QED BY <1>6, <2>2
<1>8. LeadsOn(T, file', image, Len(file), row, at)
  <2>1. <<Len(file) + Size(file', Len(file)), row, at + Count(file'[Len(file) + 1])>> = new
    BY <1>1, <1>4
  <2>2. Len(file) <= Len(file') /\ row \in 1 .. Len(image) /\ at < Len(image[1])
    BY <1>2, <1>3, <1>4
  <2>3. PacketAt(file', image, Len(file), row, at)
    BY <1>1
  <2> HIDE DEF T, new
  <2> QED BY <1>7, <2>1, <2>2, <2>3 DEF LeadsOn
<1>9. ASSUME NEW t \in Nat, NEW r \in Nat, NEW a \in Nat, <<t, r, a>> \in T, <<t, r, a>> # new
      PROVE  LeadsOn(T, file', image, t, r, a)
  <2>1. CASE <<t, r, a>> = <<Len(file), row, at>>
    BY <1>8, <2>1
  <2>2. CASE <<t, r, a>> # <<Len(file), row, at>>
    <3>1. LeadsOn(S, file, image, t, r, a)
      BY <1>6, <1>9, <2>2
    <3>2. S \subseteq T
      OBVIOUS
    <3> HIDE DEF T
    <3> QED BY <1>1, <1>2, <3>1, <3>2, LeadsStay
  <2> QED BY <2>1, <2>2
<1> HIDE DEF T
<1>10. Written'
  BY <1>1, <1>3, <1>7, <1>9 DEF Written
<1> QED BY <1>1, <1>2, <1>3, <1>4, <1>5, <1>10 DEF TgaInv

(* A repeat of n equal pixels is a packet of n pixels.                     *)
LEMMA RepeatPacket ==
  ASSUME TgaInv, NEW n \in Nat, n > 0, n <= MaxPacket, at + n <= Width,
         \A k \in 1 .. n : image[row][at + k] = image[row][at + 1]
  PROVE  LET packet == <<RepeatHead(n), Stored[image[row][at + 1]]>>
         IN  /\ packet \in Seq(Nat)
             /\ PacketAt(file \o packet, image, Len(file), row, at)
             /\ Size(file \o packet, Len(file)) = Len(packet)
             /\ Count((file \o packet)[Len(file) + 1]) = n
<1> DEFINE pixel == Stored[image[row][at + 1]]
           packet == <<RepeatHead(n), pixel>>
           g == file \o packet
           L == Len(file)
<1>1. /\ image \in Images /\ row \in 1 .. Len(image) /\ at \in 0 .. Width
      /\ file \in Seq(Nat) /\ Width = Len(image[1]) /\ Width \in Nat
  BY ImageType DEF TgaInv, Height, Width
<1>2. pixel \in Nat
  <2>1. at + 1 \in 1 .. Len(image[1])
    BY <1>1
  <2> QED BY <1>1, <2>1, ImageType
<1>3. RepeatHead(n) \in Nat /\ IsRepeat(RepeatHead(n)) /\ Count(RepeatHead(n)) = n
  BY RepeatHeadOf
<1> HIDE DEF pixel
<1>4. packet \in Seq(Nat) /\ Len(packet) = 2
  BY <1>2, <1>3
<1>5. g[L + 1] = RepeatHead(n) /\ g[L + 2] = pixel /\ Len(g) = L + 2 /\ L \in Nat
  BY <1>1, <1>2, <1>3, <1>4
<1> HIDE DEF g, packet, L
<1>6. Size(g, L) = 2 /\ Count(g[L + 1]) = n
  BY <1>3, <1>5 DEF Size
<1>7. \A k \in 1 .. n : PixelAt(g, L, k) = Stored[image[row][at + k]]
  BY <1>3, <1>5 DEF PixelAt, pixel
<1>8. PacketAt(g, image, L, row, at)
  BY <1>1, <1>5, <1>6, <1>7 DEF PacketAt
<1> QED BY <1>4, <1>6, <1>8 DEF g, packet, L, pixel

(* A literal is a packet of its pixels.                                    *)
LEMMA LiteralPacket ==
  ASSUME TgaInv, NEW n \in Nat, n > 0, n <= MaxPacket, at + n <= Width,
         NEW pixels \in Seq(Nat), Len(pixels) = n,
         \A k \in 1 .. n : pixels[k] = Stored[image[row][at + k]]
  PROVE  LET packet == <<LiteralHead(n)>> \o pixels
         IN  /\ packet \in Seq(Nat)
             /\ PacketAt(file \o packet, image, Len(file), row, at)
             /\ Size(file \o packet, Len(file)) = Len(packet)
             /\ Count((file \o packet)[Len(file) + 1]) = n
<1> DEFINE packet == <<LiteralHead(n)>> \o pixels
           g == file \o packet
           L == Len(file)
<1>1. /\ image \in Images /\ row \in 1 .. Len(image) /\ at \in 0 .. Width
      /\ file \in Seq(Nat) /\ Width = Len(image[1]) /\ Width \in Nat
  BY ImageType DEF TgaInv, Height, Width
<1>2. LiteralHead(n) \in Nat /\ ~IsRepeat(LiteralHead(n)) /\ Count(LiteralHead(n)) = n
  BY LiteralHeadOf
<1>3. /\ packet \in Seq(Nat) /\ Len(packet) = n + 1
      /\ packet[1] = LiteralHead(n)
      /\ \A k \in 1 .. n : packet[k + 1] = pixels[k]
  BY <1>2
<1> HIDE DEF packet
<1>4. /\ L \in Nat /\ Len(g) = L + (n + 1)
      /\ \A j \in 1 .. n + 1 : g[L + j] = packet[j]
  <2>1. Len(file) \in Nat
    BY <1>1
  <2>2. \A j \in 1 .. Len(packet) : (file \o packet)[Len(file) + j] = packet[j]
    BY <1>1, <1>3, ConcatProperties
  <2>3. Len(file \o packet) = Len(file) + Len(packet)
    <3>1. file \in Seq(Nat) /\ packet \in Seq(Nat)
      BY <1>1, <1>3
    <3> QED BY <3>1
  <2> QED BY <1>3, <2>1, <2>2, <2>3
<1> HIDE DEF g, L
<1>5. g[L + 1] = LiteralHead(n)
  BY <1>3, <1>4
<1>6. ASSUME NEW k \in 1 .. n PROVE g[L + 1 + k] = pixels[k]
  <2>1. k + 1 \in 1 .. n + 1 /\ L + (k + 1) = L + 1 + k
    BY <1>4
  <2> QED BY <1>3, <1>4, <2>1
<1>7. Size(g, L) = n + 1 /\ Count(g[L + 1]) = n
  BY <1>2, <1>5 DEF Size
<1>8. \A k \in 1 .. n : PixelAt(g, L, k) = Stored[image[row][at + k]]
  BY <1>2, <1>5, <1>6 DEF PixelAt
<1>9. PacketAt(g, image, L, row, at)
  BY <1>1, <1>4, <1>7, <1>8 DEF PacketAt
<1> QED BY <1>3, <1>7, <1>9 DEF g, packet, L

(* The rest of the line, as the file keeps it.                             *)
LEMMA LineHere ==
  ASSUME TgaInv, at < Width
  PROVE  LET left == Width - at
             here == [i \in 1 .. left |-> Stored[image[row][at + i]]]
         IN  left \in Nat /\ left > 0 /\ here \in Seq(Nat) /\ Len(here) = left
<1> DEFINE left == Width - at
           here == [i \in 1 .. left |-> Stored[image[row][at + i]]]
<1>1. /\ image \in Images /\ row \in 1 .. Len(image) /\ at \in 0 .. Width
      /\ Width = Len(image[1]) /\ Width \in Nat /\ left \in Nat /\ left > 0
  BY ImageType DEF TgaInv, Height, Width
<1>2. \A i \in 1 .. left : at + i \in 1 .. Len(image[1])
  BY <1>1
<1>3. \A i \in 1 .. left : Stored[image[row][at + i]] \in Nat
  BY <1>1, <1>2, ImageType
<1> HIDE DEF left
<1>4. here \in Seq(Nat) /\ Len(here) = left
  BY <1>1, <1>3
<1> QED BY <1>1, <1>4 DEF left

LEMMA TgaWritePacketStep == ASSUME TgaInv, TgaWritePacket PROVE TgaInv'
<1> DEFINE left == Width - at
           here == [i \in 1 .. left |-> Stored[image[row][at + i]]]
<1>1. /\ image \in Images /\ row \in 1 .. Len(image) /\ at \in 0 .. Width /\ at < Width
      /\ phase = "write" /\ Width = Len(image[1]) /\ Width \in Nat /\ left \in Nat /\ left > 0
  <2>1. phase = "write" /\ at < Width
    BY DEF TgaWritePacket
  <2>2. /\ image \in Images /\ row \in 1 .. Len(image) /\ at \in 0 .. Width
        /\ Width = Len(image[1]) /\ Width \in Nat
    BY ImageType DEF TgaInv, Height, Width
  <2> QED BY <2>1, <2>2
<1>4. \A i \in 1 .. left : here[i] = Stored[image[row][at + i]]
  OBVIOUS
<1> HIDE DEF here
<1>5. here \in Seq(Nat) /\ Len(here) = left
  BY <1>1, LineHere DEF here
<1>6. CASE RepeatsHere(left)
  <2> DEFINE n == TGA_rlecount(at + 1, left)
  <2>1. /\ n \in 0 .. left /\ n <= MaxPacket
        /\ \A k \in 0 .. n - 1 : image[row][at + 1 + k] = image[row][at + 1]
    <3>1. at + 1 \in Nat /\ left \in Nat /\ MaxPacket \in Nat
      BY <1>1, PacketAssumption
    <3>2. n = RunLength(image[row], at + 1, left, MaxPacket)
      BY DEF TGA_rlecount
    <3> HIDE DEF n, left
    <3> QED BY <3>1, <3>2, RunLengthOf
  <2>2. n >= 2
    BY <1>6, <2>1 DEF RepeatsHere, WorthRepeating
  <2>3. Emit(<<RepeatHead(n), here[1]>>, n)
    BY <1>6 DEF TgaWritePacket, here
  <2>4. here[1] = Stored[image[row][at + 1]]
    BY <1>1, <1>4
  <2> HIDE DEF n
  <2>5. ASSUME NEW k \in 1 .. n PROVE image[row][at + k] = image[row][at + 1]
    <3>1. k - 1 \in 0 .. n - 1 /\ at + 1 + (k - 1) = at + k
      BY <1>1, <2>1
    <3> QED BY <2>1, <3>1
  <2>6. n \in Nat /\ n > 0 /\ at + n <= Width
    BY <1>1, <2>1, <2>2
  <2> QED BY <1>1, <2>1, <2>3, <2>4, <2>5, <2>6, RepeatPacket, EmitStep
<1>7. CASE ~RepeatsHere(left)
  <2> DEFINE n == LiteralLength(left)
             pixels == SubSeq(here, 1, n)
  <2>1. n \in 1 .. left /\ n <= MaxPacket
    BY <1>1, LiteralLengthOf
  <2>2. Emit(<<LiteralHead(n)>> \o pixels, n)
    BY <1>7 DEF TgaWritePacket, here
  <2> HIDE DEF n
  <2>3. pixels \in Seq(Nat) /\ Len(pixels) = n /\ \A k \in 1 .. n : pixels[k] = here[k]
    BY <1>5, <2>1
  <2>4. n \in Nat /\ n > 0 /\ at + n <= Width
    BY <1>1, <2>1
  <2>5. \A k \in 1 .. n : pixels[k] = Stored[image[row][at + k]]
    <3>1. \A k \in 1 .. n : k \in 1 .. left
      BY <1>1, <2>1
    <3> HIDE DEF left
    <3> QED BY <1>4, <2>3, <3>1
  <2> HIDE DEF pixels
  <2> QED BY <1>1, <2>1, <2>2, <2>3, <2>4, <2>5, LiteralPacket, EmitStep
<1> QED BY <1>6, <1>7

(* The next row begins where the last one ended; from the bottom of the    *)
(* image the reader begins.                                                *)
LEMMA TgaWriteRowDoneStep == ASSUME TgaInv, TgaWriteRowDone PROVE TgaInv'
<1>1. /\ phase = "write" /\ at = Width /\ at' = 0
      /\ image' = image /\ file' = file /\ taken' = taken /\ got' = got
      /\ IF row > 1 THEN row' = row - 1 /\ phase' = phase
         ELSE row' = Height /\ phase' = "read"
  BY DEF TgaWriteRowDone, RowDone
<1>2. /\ image \in Images /\ row \in 1 .. Height /\ file \in Seq(Nat)
      /\ taken = 0 /\ got = [r \in 1 .. Height |-> <<>>]
  BY <1>1 DEF TgaInv
<1>3. /\ Height = Len(image) /\ Width = Len(image[1]) /\ Height \in Nat /\ Width \in Nat
      /\ Height > 0 /\ Width > 0 /\ Height' = Height /\ Width' = Width /\ Len(file) \in Nat
  BY <1>1, <1>2, ImageType DEF Height, Width
<1>4. PICK S \in SUBSET Places :
        /\ <<0, Height, 0>> \in S
        /\ <<Len(file), row, at>> \in S
        /\ \A t, r, a \in Nat :
             <<t, r, a>> \in S /\ <<t, r, a>> # <<Len(file), row, at>> =>
               LeadsOn(S, file, image, t, r, a)
  BY <1>1 DEF TgaInv, Written
<1>5. CASE row > 1
  <2> DEFINE new == <<Len(file), row - 1, 0>>
             T == S \cup {new}
  <2>1. T \in SUBSET Places /\ new \in T /\ <<0, Height, 0>> \in T /\ S \subseteq T
    <3>1. row - 1 \in Nat
      BY <1>2, <1>3, <1>5
    <3>2. new \in Places
      BY <1>3, <3>1 DEF Places
    <3> HIDE DEF new
    <3> QED BY <1>4, <3>2
  <2>2. LeadsOn(T, file, image, Len(file), row, at)
    <3>1. Len(file) <= Len(file) /\ row \in 1 .. Len(image) /\ at = Len(image[1])
      BY <1>1, <1>2, <1>3
    <3> HIDE DEF T
    <3> QED BY <1>5, <2>1, <3>1 DEF LeadsOn
  <2>3. ASSUME NEW t \in Nat, NEW r \in Nat, NEW a \in Nat, <<t, r, a>> \in T, <<t, r, a>> # new
        PROVE  LeadsOn(T, file, image, t, r, a)
    <3>1. CASE <<t, r, a>> = <<Len(file), row, at>>
      BY <2>2, <3>1
    <3>2. CASE <<t, r, a>> # <<Len(file), row, at>>
      <4>1. LeadsOn(S, file, image, t, r, a)
        BY <1>4, <2>3, <3>2
      <4> HIDE DEF T
      <4> QED BY <2>1, <4>1 DEF LeadsOn
    <3> QED BY <3>1, <3>2
  <2> HIDE DEF T
  <2>4. Written'
    BY <1>1, <1>3, <1>5, <2>1, <2>3 DEF Written
  <2>5. row' \in 1 .. Height /\ at' \in 0 .. Width
    BY <1>1, <1>2, <1>3, <1>5
  <2> QED BY <1>1, <1>2, <1>3, <1>5, <2>4, <2>5 DEF TgaInv
<1>6. CASE ~(row > 1)
  <2>1. row = 1 /\ row' = Height /\ phase' = "read"
    BY <1>1, <1>2, <1>3, <1>6
  <2>2. \A t, r, a \in Nat :
          <<t, r, a>> \in S =>
            LeadsOn(S, file, image, t, r, a) \/ <<t, r, a>> = <<Len(file), 1, Width>>
    BY <1>1, <1>4, <2>1
  <2>3. Reading'
    BY <1>1, <1>2, <1>3, <1>4, <2>1, <2>2 DEF Reading
  <2>4. \A r : Upto(image, r, 0) = <<>>
    BY DEF Upto
  <2>5. got' = [r \in 1 .. Height' |->
                  IF r > row' THEN Upto(image', r, Width')
                  ELSE IF r = row' THEN Upto(image', r, at') ELSE <<>>]
    BY <1>1, <1>2, <1>3, <2>1, <2>4
  <2>6. row' \in 1 .. Height' /\ at' \in 0 .. Width'
    BY <1>1, <1>3, <2>1
  <2> QED BY <1>1, <1>2, <1>3, <2>1, <2>3, <2>5, <2>6 DEF TgaInv
<1> QED BY <1>5, <1>6

-----------------------------------------------------------------------------
(* Reading.                                                                *)

LEMMA ConcatIs ==
  ASSUME NEW u \in Seq(Nat), NEW v \in Seq(Nat), NEW w \in Seq(Nat),
         Len(w) = Len(u) + Len(v),
         \A i \in 1 .. Len(u) : u[i] = w[i],
         \A k \in 1 .. Len(v) : v[k] = w[Len(u) + k]
  PROVE  u \o v = w
<1>1. Len(u) \in Nat /\ Len(v) \in Nat
  OBVIOUS
<1>2. /\ u \o v \in Seq(Nat) /\ Len(u \o v) = Len(w)
      /\ \A i \in 1 .. Len(w) : (u \o v)[i] = IF i <= Len(u) THEN u[i] ELSE v[i - Len(u)]
  BY ConcatProperties
<1>3. ASSUME NEW i \in 1 .. Len(w) PROVE (u \o v)[i] = w[i]
  <2>1. CASE i <= Len(u)
    BY <1>1, <1>2, <2>1
  <2>2. CASE ~(i <= Len(u))
    <3>1. i - Len(u) \in 1 .. Len(v) /\ Len(u) + (i - Len(u)) = i
      BY <1>1, <2>2
    <3>2. v[i - Len(u)] = w[i]
      BY <3>1
    <3> QED BY <1>2, <2>2, <3>2
  <2> QED BY <2>1, <2>2
<1> QED BY <1>2, <1>3, SeqEqual

LEMMA TgaReadPacketStep == ASSUME TgaInv, TgaReadPacket PROVE TgaInv'
<1> DEFINE n == Count(file[taken + 1])
           pixels == IF IsRepeat(file[taken + 1]) THEN [i \in 1 .. n |-> file[taken + 2]]
                     ELSE SubSeq(file, taken + 2, taken + 1 + n)
           read == [r \in 1 .. Height |->
                      IF r > row THEN Upto(image, r, Width)
                      ELSE IF r = row THEN Upto(image, r, at) ELSE <<>>]
<1>1. /\ phase = "read" /\ at < Width
      /\ Take(pixels, Size(file, taken))
  BY DEF TgaReadPacket, Size
<1>2. /\ image \in Images /\ row \in 1 .. Height /\ at \in 0 .. Width
      /\ file \in Seq(Nat) /\ taken \in Nat /\ got = read
  BY <1>1 DEF TgaInv
<1>3. /\ image' = image /\ phase' = phase /\ row' = row /\ file' = file
      /\ got' = [got EXCEPT ![row] = @ \o pixels]
      /\ at' = at + Len(pixels) /\ taken' = taken + Size(file, taken)
  BY <1>1 DEF Take
<1>4. /\ Height = Len(image) /\ Width = Len(image[1]) /\ Height \in Nat /\ Width \in Nat
      /\ Height' = Height /\ Width' = Width /\ Len(file) \in Nat
  BY <1>2, <1>3, ImageType DEF Height, Width
<1>5. PICK S \in SUBSET Places :
        /\ <<taken, row, at>> \in S
        /\ \A t, r, a \in Nat : <<t, r, a>> \in S =>
             LeadsOn(S, file, image, t, r, a) \/ <<t, r, a>> = <<Len(file), 1, Width>>
  BY <1>1 DEF TgaInv, Reading
<1>6. /\ PacketAt(file, image, taken, row, at)
      /\ <<taken + Size(file, taken), row, at + n>> \in S
  <2>1. LeadsOn(S, file, image, taken, row, at)
    BY <1>1, <1>2, <1>4, <1>5
  <2> QED BY <1>1, <1>4, <2>1 DEF LeadsOn
<1>7. /\ n \in Nat /\ n > 0 /\ at + n <= Width /\ taken + Size(file, taken) <= Len(file)
      /\ Size(file, taken) \in Nat
      /\ \A k \in 1 .. n : PixelAt(file, taken, k) = Stored[image[row][at + k]]
  <2>1. /\ n \in Nat /\ n > 0 /\ at + n <= Width /\ taken + Size(file, taken) <= Len(file)
        /\ \A k \in 1 .. n : PixelAt(file, taken, k) = Stored[image[row][at + k]]
    BY <1>4, <1>6 DEF PacketAt
  <2>2. CASE IsRepeat(file[taken + 1])
    BY <2>1, <2>2 DEF Size
  <2>3. CASE ~IsRepeat(file[taken + 1])
    BY <2>1, <2>3 DEF Size
  <2> QED BY <2>1, <2>2, <2>3
<1>8. pixels = [k \in 1 .. n |-> Stored[image[row][at + k]]]
  <2>1. CASE IsRepeat(file[taken + 1])
    <3>1. \A k \in 1 .. n : file[taken + 2] = Stored[image[row][at + k]]
      BY <1>7, <2>1 DEF PixelAt
    <3> HIDE DEF n
    <3> QED BY <2>1, <3>1
  <2>2. CASE ~IsRepeat(file[taken + 1])
    <3>1. \A k \in 1 .. n : file[taken + 1 + k] = Stored[image[row][at + k]]
      BY <1>7, <2>2 DEF PixelAt
    <3> DEFINE part == SubSeq(file, taken + 2, taken + 1 + n)
    <3> HIDE DEF n
    <3>2. taken + 1 + n <= Len(file)
      <4>1. Size(file, taken) = n + 1
        BY <2>2 DEF Size, n
      <4> QED BY <1>2, <1>4, <1>7, <4>1
    <3>3. part \in Seq(Nat) /\ Len(part) = n /\ \A k \in 1 .. n : part[k] = file[taken + 1 + k]
      BY <1>2, <1>4, <1>7, <3>2
    <3>4. part = [k \in 1 .. n |-> part[k]]
      BY <3>3
    <3> HIDE DEF part
    <3>5. part = [k \in 1 .. n |-> Stored[image[row][at + k]]]
      BY <3>1, <3>3, <3>4
    <3> QED BY <2>2, <3>5 DEF part
  <2> QED BY <2>1, <2>2
<1> HIDE DEF n, pixels
<1>9. Len(pixels) = n /\ pixels \in Seq(Nat)
  <2>1. \A k \in 1 .. n : Stored[image[row][at + k]] \in Nat
    <3>1. \A k \in 1 .. n : at + k \in 1 .. Len(image[1])
      BY <1>2, <1>4, <1>7
    <3> QED BY <1>2, <1>4, <3>1, ImageType
  <2> QED BY <1>7, <1>8, <2>1
<1>10. Upto(image, row, at) \o pixels = Upto(image, row, at + n)
  <2> DEFINE u == Upto(image, row, at)
             v == Upto(image, row, at + n)
  <2>1. at \in 0 .. Width /\ at + n \in 0 .. Width /\ at \in Nat
    BY <1>2, <1>4, <1>7
  <2>2. u \in Seq(Nat) /\ Len(u) = at /\ \A i \in 1 .. at : u[i] = Stored[image[row][i]]
    BY <1>2, <1>4, <2>1, UptoOf
  <2>3. v \in Seq(Nat) /\ Len(v) = at + n /\ \A i \in 1 .. at + n : v[i] = Stored[image[row][i]]
    BY <1>2, <1>4, <2>1, UptoOf
  <2> HIDE DEF u, v
  <2>4. Len(v) = Len(u) + Len(pixels)
    BY <1>9, <2>2, <2>3
  <2>5. ASSUME NEW i \in 1 .. Len(u) PROVE u[i] = v[i]
    <3>1. i \in 1 .. at /\ i \in 1 .. at + n
      BY <1>7, <2>1, <2>2
    <3> QED BY <2>2, <2>3, <3>1
  <2>6. ASSUME NEW k \in 1 .. Len(pixels) PROVE pixels[k] = v[Len(u) + k]
    <3>1. k \in 1 .. n /\ at + k \in 1 .. at + n
      BY <1>7, <1>9, <2>1
    <3>2. pixels[k] = Stored[image[row][at + k]]
      BY <1>8, <3>1
    <3>3. v[at + k] = Stored[image[row][at + k]]
      BY <2>3, <3>1
    <3> QED BY <2>2, <3>2, <3>3
  <2> HIDE DEF u, v
  <2>7. u \o pixels = v
    BY <1>9, <2>2, <2>3, <2>4, <2>5, <2>6, ConcatIs
  <2> QED BY <2>7 DEF u, v
<1>11. got' = [r \in 1 .. Height |->
                 IF r > row THEN Upto(image, r, Width)
                 ELSE IF r = row THEN Upto(image, r, at') ELSE <<>>]
  <2>1. ~(row > row)
    BY <1>2, <1>4
  <2>2. got[row] = Upto(image, row, at)
    BY <1>2, <2>1
  <2>3. got' = [read EXCEPT ![row] = Upto(image, row, at + n)] /\ at' = at + n
    BY <1>2, <1>3, <1>9, <1>10, <2>2
  <2> QED BY <2>1, <2>3
<1>12. Reading'
  <2>1. <<taken', row', at'>> \in S
    BY <1>3, <1>6, <1>9 DEF n
  <2> QED BY <1>3, <1>4, <1>5, <2>1 DEF Reading
<1>13. at' \in 0 .. Width /\ taken' \in Nat
  BY <1>2, <1>3, <1>4, <1>7, <1>9
<1> QED BY <1>1, <1>2, <1>3, <1>4, <1>11, <1>12, <1>13 DEF TgaInv

LEMMA TgaReadRowDoneStep == ASSUME TgaInv, TgaReadRowDone PROVE TgaInv'
<1>1. /\ phase = "read" /\ at >= Width /\ at' = 0
      /\ image' = image /\ file' = file /\ taken' = taken /\ got' = got
      /\ IF row > 1 THEN row' = row - 1 /\ phase' = phase
         ELSE row' = Height /\ phase' = "done"
  BY DEF TgaReadRowDone, RowDone
<1>2. /\ image \in Images /\ row \in 1 .. Height /\ at \in 0 .. Width
      /\ file \in Seq(Nat) /\ taken \in Nat
      /\ got = [r \in 1 .. Height |->
                  IF r > row THEN Upto(image, r, Width)
                  ELSE IF r = row THEN Upto(image, r, at) ELSE <<>>]
  BY <1>1 DEF TgaInv
<1>3. /\ Height = Len(image) /\ Width = Len(image[1]) /\ Height \in Nat /\ Width \in Nat
      /\ Height > 0 /\ Height' = Height /\ Width' = Width /\ Len(file) \in Nat /\ at = Width
  BY <1>1, <1>2, ImageType DEF Height, Width
<1>4. PICK S \in SUBSET Places :
        /\ <<taken, row, at>> \in S
        /\ \A t, r, a \in Nat : <<t, r, a>> \in S =>
             LeadsOn(S, file, image, t, r, a) \/ <<t, r, a>> = <<Len(file), 1, Width>>
  BY <1>1 DEF TgaInv, Reading
<1>5. LeadsOn(S, file, image, taken, row, at) \/ <<taken, row, at>> = <<Len(file), 1, Width>>
  BY <1>2, <1>3, <1>4
<1>6. CASE row > 1
  <2>1. <<taken, row - 1, 0>> \in S
    BY <1>3, <1>5, <1>6 DEF LeadsOn
  <2>2. Reading'
    BY <1>1, <1>3, <1>4, <1>6, <2>1 DEF Reading
  <2>3. \A r : Upto(image, r, 0) = <<>>
    BY DEF Upto
  <2>4. \A r \in 1 .. Height : /\ r > row - 1 <=> r > row \/ r = row
                              /\ r = row - 1 => ~(r > row) /\ r # row
    BY <1>2, <1>3
  <2>5. got' = [r \in 1 .. Height |->
                  IF r > row - 1 THEN Upto(image, r, Width)
                  ELSE IF r = row - 1 THEN Upto(image, r, 0) ELSE <<>>]
    BY <1>1, <1>2, <1>3, <2>3, <2>4
  <2>6. row' \in 1 .. Height /\ at' \in 0 .. Width
    BY <1>1, <1>2, <1>3, <1>6
  <2> QED BY <1>1, <1>2, <1>3, <1>6, <2>2, <2>5, <2>6 DEF TgaInv
<1>7. CASE ~(row > 1)
  <2>1. row = 1 /\ row' = Height /\ phase' = "done"
    BY <1>1, <1>2, <1>3, <1>7
  <2>2. taken = Len(file)
    BY <1>3, <1>5, <2>1 DEF LeadsOn
  <2>3. \A r \in 1 .. Height : r > row \/ r = row
    BY <1>3, <2>1
  <2>4. got' = [r \in 1 .. Height |-> Upto(image, r, Width)]
    BY <1>1, <1>2, <1>3, <2>3
  <2>5. row' \in 1 .. Height /\ at' \in 0 .. Width
    BY <1>1, <1>3, <2>1
  <2> QED BY <1>1, <1>2, <1>3, <2>1, <2>2, <2>4, <2>5 DEF TgaInv
<1> QED BY <1>6, <1>7

LEMMA TgaInitInv == Init => TgaInv
<1> SUFFICES ASSUME Init PROVE TgaInv
  OBVIOUS
<1>1. /\ image \in Images /\ phase = "write" /\ row = Height /\ at = 0 /\ file = <<>>
      /\ taken = 0 /\ got = [r \in 1 .. Height |-> <<>>]
  BY DEF Init, StreamInit
<1>2. Height \in Nat /\ Height > 0 /\ Width \in Nat /\ Len(file) = 0 /\ file \in Seq(Nat)
  BY <1>1, ImageType DEF Height, Width
<1>3. Written
  <2> DEFINE S == {<<0, Height, 0>>}
  <2>1. S \in SUBSET Places
    BY <1>2 DEF Places
  <2>2. <<0, Height, 0>> \in S /\ <<Len(file), row, at>> = <<0, Height, 0>>
    BY <1>1, <1>2
  <2>3. \A x \in S : x = <<0, Height, 0>>
    OBVIOUS
  <2> HIDE DEF S
  <2> QED BY <2>1, <2>2, <2>3, Zenon DEF Written
<1> QED BY <1>1, <1>2, <1>3 DEF TgaInv

LEMMA TgaNextInv == ASSUME TgaInv, TgaNext PROVE TgaInv'
BY TgaWritePacketStep, TgaWriteRowDoneStep, TgaReadPacketStep, TgaReadRowDoneStep DEF TgaNext

LEMMA TgaInvStutters == ASSUME TgaInv, UNCHANGED streamVars PROVE TgaInv'
BY DEF streamVars, TgaInv, Written, Reading, Height, Width

(* A reader gets numbers, and is never past the end of the file.           *)
LEMMA TgaTypes ==
  ASSUME TgaInv PROVE StreamTypeOK
<1>1. /\ image \in Images /\ phase \in {"write", "read", "done"}
      /\ row \in 1 .. Height /\ at \in 0 .. Width /\ file \in Seq(Nat) /\ taken \in Nat
  BY DEF TgaInv
<1>2. /\ image \in Seq(Seq(Nat)) /\ Height = Len(image) /\ Width = Len(image[1])
      /\ Height \in Nat /\ Width \in Nat /\ Len(file) \in Nat
  BY <1>1, ImageType DEF Height, Width
<1>3. taken <= Len(file)
  <2>1. CASE phase = "write"
    BY <1>2, <2>1 DEF TgaInv
  <2>2. CASE phase = "read"
    <3>1. PICK S \in SUBSET Places :
            /\ <<taken, row, at>> \in S
            /\ \A t, r, a \in Nat : <<t, r, a>> \in S =>
                 LeadsOn(S, file, image, t, r, a) \/ <<t, r, a>> = <<Len(file), 1, Width>>
      BY <2>2 DEF TgaInv, Reading
    <3>2. \/ LeadsOn(S, file, image, taken, row, at)
          \/ <<taken, row, at>> = <<Len(file), 1, Width>>
      BY <1>1, <1>2, <3>1
    <3> QED BY <1>2, <3>2 DEF LeadsOn
  <2>3. CASE phase = "done"
    BY <1>2, <2>3 DEF TgaInv
  <2> QED BY <1>1, <2>1, <2>2, <2>3
<1>4. \A r \in 1 .. Height, a \in 0 .. Width : Upto(image, r, a) \in Seq(Nat)
  BY <1>1, <1>2, UptoOf
<1>5. Width \in 0 .. Width /\ <<>> \in Seq(Nat)
  BY <1>2
<1>6. got \in [1 .. Height -> Seq(Nat)]
  <2>1. CASE phase = "write"
    BY <1>5, <2>1 DEF TgaInv
  <2>2. CASE phase = "read"
    <3>1. got = [r \in 1 .. Height |->
                   IF r > row THEN Upto(image, r, Width)
                   ELSE IF r = row THEN Upto(image, r, at) ELSE <<>>]
      BY <2>2 DEF TgaInv
    <3> QED BY <1>1, <1>4, <1>5, <3>1
  <2>3. CASE phase = "done"
    <3>1. got = [r \in 1 .. Height |-> Upto(image, r, Width)]
      BY <2>3 DEF TgaInv
    <3> QED BY <1>4, <1>5, <3>1
  <2> QED BY <1>1, <2>1, <2>2, <2>3
<1>7. row \in 0 .. Height /\ taken \in 0 .. Len(file)
  BY <1>1, <1>2, <1>3
<1> QED BY <1>1, <1>2, <1>6, <1>7 DEF StreamTypeOK


-----------------------------------------------------------------------------
(* A bitmap as a chain of places, as a Targa is one: a run, a literal,     *)
(* or, when the row is full, the end of the line.                          *)

BmpSize(f, t) ==
  IF f[t + 1] # 0 THEN 2
  ELSE 2 + (IF Even(f[t + 2]) THEN f[t + 2] ELSE f[t + 2] + 1)

BmpCount(f, t) == IF f[t + 1] # 0 THEN f[t + 1] ELSE f[t + 2]

BmpPixelAt(f, t, k) == IF f[t + 1] # 0 THEN f[t + 2] ELSE f[t + 2 + k]

(* What a reader takes for a literal has three pixels at least.            *)
BmpPacketAt(f, im, t, r, a) ==
  /\ f[t + 1] = 0 => f[t + 2] >= 3
  /\ BmpCount(f, t) \in Nat /\ BmpCount(f, t) > 0
  /\ a + BmpCount(f, t) <= Len(im[1])
  /\ t + BmpSize(f, t) <= Len(f)
  /\ \A k \in 1 .. BmpCount(f, t) : BmpPixelAt(f, t, k) = im[r][a + k]

LineEndAt(f, t) == t + 2 <= Len(f) /\ f[t + 1] = 0 /\ f[t + 2] = 0

(* With a place of a bitmap goes the number of the 0s that a reader of the *)
(* row has met on its way there.                                           *)
BmpPlaces == Nat \X Nat \X Nat \X Nat

Escape(f, t) == IF f[t + 1] = 0 THEN 1 ELSE 0

Aligned(t) == IF t % 4 = 0 THEN 1 ELSE 0

BmpLeadsOn(S, f, im, t, r, a, e) ==
  /\ r \in 1 .. Len(im)
  /\ \/ a < Len(im[1]) /\ BmpPacketAt(f, im, t, r, a)
          /\ <<t + BmpSize(f, t), r, a + BmpCount(f, t), e + Escape(f, t)>> \in S
     \/ a = Len(im[1]) /\ r > 1 /\ LineEndAt(f, t) /\ <<t + 2, r - 1, 0, Aligned(t)>> \in S

LastAt(f, im, t, r, a) ==
  r = 1 /\ a = Len(im[1]) /\ t + 2 = Len(f) /\ LineEndAt(f, t)

(* A full row has met one exactly if the history says so.                  *)
Tells(S) == \A t, r, e \in Nat : <<t, r, Width, e>> \in S => (e > 0 <=> r \in escapes)

(* The places so far are those of the rows down to this one, and full only *)
(* below it or at the end.                                                 *)
Behind(S) ==
  \A t, r, a, e \in Nat : <<t, r, a, e>> \in S => r >= row /\ (a = Width => r > row \/ at = Width)

BmpWritten ==
  \E S \in SUBSET BmpPlaces, now \in Nat :
    /\ <<0, Height, 0, 0>> \in S
    /\ <<Len(file), row, at, now>> \in S /\ (now > 0 <=> row \in escapes)
    /\ Tells(S) /\ Behind(S)
    /\ \A t, r, a, e \in Nat :
         <<t, r, a, e>> \in S /\ <<t, r, a, e>> # <<Len(file), row, at, now>> =>
           BmpLeadsOn(S, file, image, t, r, a, e)

Chained(S) ==
  \A t, r, a, e \in Nat : <<t, r, a, e>> \in S =>
    BmpLeadsOn(S, file, image, t, r, a, e) \/ LastAt(file, image, t, r, a)

(* The reader is at one of the places, or still before the end of the line *)
(* of the row before.                                                      *)
AtPlace(S) ==
  \E e \in Nat : /\ <<taken, row, at, e>> \in S
                 /\ IF bytes_read = 0 THEN e = 0 /\ at = 0 ELSE (retval <=> e > 0)

BeforeLineEnd(S) ==
  /\ at = 0 /\ bytes_read = 0 /\ row < Height
  /\ \E e \in Nat : <<taken, row + 1, Width, e>> \in S

BmpReading ==
  \E S \in SUBSET BmpPlaces : Tells(S) /\ Chained(S) /\ (AtPlace(S) \/ BeforeLineEnd(S))

PixelsTo(im, r, a) == [i \in 1 .. a |-> im[r][i]]

Met(r) == \A q \in r + 1 .. Height : q \in escapes

(* The rows that have been read, those that are passed over, and this one. *)
GotSo ==
  got = [r \in 1 .. Height |->
          IF r > row THEN (IF Met(r) THEN PixelsTo(image, r, Width) ELSE <<>>)
          ELSE IF r = row THEN PixelsTo(image, r, at) ELSE <<>>]

BmpInv ==
  /\ image \in Images
  /\ phase \in {"write", "read", "done"}
  /\ row \in 1 .. Height /\ at \in 0 .. Width
  /\ file \in Seq(Nat) /\ taken \in Nat
  /\ bytes_read \in Nat /\ Even(bytes_read)
  /\ retval \in BOOLEAN /\ escapes \subseteq 0 .. Height
  /\ phase = "write" => /\ BmpWritten
                        /\ taken = 0 /\ bytes_read = 0 /\ retval
                        /\ \A q \in escapes : q >= row
                        /\ got = [r \in 1 .. Height |-> <<>>]
  /\ phase = "read" => /\ GotSo
                       /\ IF Met(row)
                            THEN /\ BmpReading /\ taken % 4 = bytes_read % 4
                                 /\ bytes_read = 0 => retval
                            ELSE /\ at = 0 /\ bytes_read = 0 /\ ~retval
                                 /\ taken <= Len(file)
  /\ phase = "done" => /\ got = [r \in 1 .. Height |->
                                  IF Met(r) THEN PixelsTo(image, r, Width) ELSE <<>>]
                       /\ retval <=> Met(0)
                       /\ taken <= Len(file)
                       /\ Met(1) => \/ taken = Len(file)
                                    \/ taken + 2 = Len(file) /\ LineEndAt(file, taken)

-----------------------------------------------------------------------------
(* The lengths that the writer chooses.                                    *)

LEMMA RunHereLengthOf ==
  ASSUME BmpInv, NEW left \in Nat, left > 0, left <= Width - at
  PROVE  LET n == RunHereLength(left)
         IN  /\ n \in 1 .. left
             /\ \A k \in 1 .. n : image[row][at + k] = image[row][at + 1]
<1>1. at \in Nat /\ Width \in Nat /\ MaxRun \in Nat /\ MaxRun > 0
  BY ImageType, LiteralAssumption DEF BmpInv, Width
<1>2. CASE left >= 3
  <2> DEFINE n == RunLength(image[row], at + 1, left, MaxRun)
  <2>1. RunHereLength(left) = n
    BY <1>2 DEF RunHereLength, BMP_runcount
  <2>2. /\ n \in 0 .. left /\ n > 0
        /\ \A k \in 0 .. n - 1 : image[row][at + 1 + k] = image[row][at + 1]
    <3>1. at + 1 \in Nat
      BY <1>1
    <3>2. n = RunLength(image[row], at + 1, left, MaxRun) /\ MaxRun \in Nat
      BY <1>1
    <3> HIDE DEF n
    <3>3. n \in 0 .. left
      BY <3>1, <3>2, RunLengthOf
    <3>4. MaxRun > 0 /\ left > 0 => n > 0
      BY <3>1, <3>2, RunLengthOf
    <3>5. \A k \in 0 .. n - 1 : image[row][at + 1 + k] = image[row][at + 1]
      BY <3>1, <3>2, RunLengthOf
    <3> QED BY <1>1, <3>3, <3>4, <3>5
  <2> HIDE DEF n
  <2>3. ASSUME NEW k \in 1 .. n PROVE image[row][at + k] = image[row][at + 1]
    <3>1. k - 1 \in 0 .. n - 1 /\ at + 1 + (k - 1) = at + k
      BY <1>1, <2>2
    <3> QED BY <2>2, <3>1
  <2>4. n \in 1 .. left
    BY <2>2
  <2> QED BY <2>1, <2>3, <2>4
<1>3. CASE left = 2 /\ image[row][at + 1] = image[row][at + 2]
  <2>1. RunHereLength(left) = 2
    BY <1>3 DEF RunHereLength
  <2>2. \A k \in 1 .. 2 : k = 1 \/ k = 2
    OBVIOUS
  <2> QED BY <1>3, <2>1, <2>2
<1>4. CASE ~(left >= 3) /\ ~(left = 2 /\ image[row][at + 1] = image[row][at + 2])
  <2>1. RunHereLength(left) = 1
    BY <1>4 DEF RunHereLength
  <2>2. 1 \in 1 .. left /\ \A k \in 1 .. 1 : k = 1
    OBVIOUS
  <2> QED BY <2>1, <2>2
<1> QED BY <1>2, <1>3, <1>4

LEMMA BmpLiteralLengthOf ==
  ASSUME NEW left \in Nat, left > 0
  PROVE  BmpLiteralLength(left) \in Nat /\ BmpLiteralLength(left) <= left
<1> DEFINE Pays(n) ==
             LET second == BMP_runcount(at + 1 + n, left - n)
                 third  == BMP_runcount(at + 1 + second, left - (n + second))
             IN  (second >= 3 /\ third >= 5) \/ second >= 5
           ends == {n \in 4 .. left + 4 : Even(n) /\ (n >= left \/ n >= MaxLiteral \/ Pays(n))}
<1>1. LiteralEnd(left) = CHOOSE n \in ends : \A k \in ends : n <= k
  BY DEF LiteralEnd
<1>2. ends \subseteq Nat /\ ends # {}
  <2>1. Even(left + 4) \/ Even(left + 3)
    BY SMT DEF Even
  <2>2. left + 4 \in 4 .. left + 4 /\ left + 3 \in 4 .. left + 4 /\ left + 4 >= left /\ left + 3 >= left
    OBVIOUS
  <2> HIDE DEF Pays
  <2>3. left + 4 \in ends \/ left + 3 \in ends
    BY <2>1, <2>2
  <2>4. 4 .. left + 4 \subseteq Nat
    OBVIOUS
  <2> QED BY <2>3, <2>4
<1>3. \A n \in ends : n \in 4 .. left + 4
  OBVIOUS
<1> HIDE DEF ends
<1>4. LiteralEnd(left) \in 4 .. left + 4
  BY <1>1, <1>2, <1>3, LeastExists
<1> QED BY <1>4, LiteralAssumption DEF BmpLiteralLength

-----------------------------------------------------------------------------
(* Even numbers of bytes: packets and ends of lines have them, so that the *)
(* reader's alignment is by an end of a line or by nothing.                *)

LEMMA EvenSum ==
  ASSUME NEW x \in Nat, NEW y \in Nat, Even(x), Even(y) PROVE Even(x + y)
BY SMT DEF Even

LEMMA SkipOf ==
  ASSUME NEW b \in Nat, Even(b) PROVE Skip(b) = 0 \/ Skip(b) = 2
BY SMT DEF Even, Skip

LEMMA BmpSizeOf ==
  ASSUME NEW f \in Seq(Nat), NEW t \in Nat, t + 2 <= Len(f)
  PROVE  BmpSize(f, t) \in Nat /\ BmpSize(f, t) >= 2 /\ Even(BmpSize(f, t))
<1>1. f[t + 1] \in Nat /\ f[t + 2] \in Nat
  <2>1. Len(f) \in Nat /\ t + 1 \in 1 .. Len(f) /\ t + 2 \in 1 .. Len(f)
    OBVIOUS
  <2> QED BY <2>1
<1>2. CASE f[t + 1] # 0
  <2>1. BmpSize(f, t) = 2
    BY <1>2 DEF BmpSize
  <2>2. Even(2)
    BY SMT DEF Even
  <2> QED BY <2>1, <2>2
<1>3. CASE f[t + 1] = 0
  <2> DEFINE m == f[t + 2]
  <2>1. BmpSize(f, t) = 2 + (IF Even(m) THEN m ELSE m + 1)
    BY <1>3 DEF BmpSize
  <2>2. \A x \in Nat : LET y == 2 + (IF Even(x) THEN x ELSE x + 1)
                       IN  y \in Nat /\ y >= 2 /\ Even(y)
    BY SMT DEF Even
  <2>3. m \in Nat
    BY <1>1
  <2> HIDE DEF m
  <2> QED BY <2>1, <2>2, <2>3
<1> QED BY <1>2, <1>3

(* There are two bytes at least where there is a packet.                   *)
LEMMA BmpPacketHas ==
  ASSUME NEW im \in Images, NEW f \in Seq(Nat), NEW t \in Nat, NEW r \in 1 .. Len(im),
         NEW a \in Nat, BmpPacketAt(f, im, t, r, a)
  PROVE  /\ t + 2 <= Len(f) /\ f[t + 1] \in Nat /\ f[t + 2] \in Nat
         /\ BmpSize(f, t) \in Nat /\ BmpSize(f, t) >= 2 /\ Even(BmpSize(f, t))
<1>1. /\ BmpCount(f, t) \in Nat /\ BmpCount(f, t) > 0 /\ t + BmpSize(f, t) <= Len(f)
      /\ Len(f) \in Nat
  BY DEF BmpPacketAt
<1>2. BmpSize(f, t) \in Nat /\ BmpSize(f, t) >= 2
  <2>1. CASE f[t + 1] # 0
    <3>1. BmpSize(f, t) = 2
      BY <2>1 DEF BmpSize
    <3> QED BY <3>1
  <2>2. CASE f[t + 1] = 0
    <3> DEFINE m == f[t + 2]
    <3>1. m \in Nat /\ BmpSize(f, t) = 2 + (IF Even(m) THEN m ELSE m + 1)
      BY <1>1, <2>2 DEF BmpSize, BmpCount
    <3>2. \A x \in Nat : 2 + (IF Even(x) THEN x ELSE x + 1) \in Nat
                         /\ 2 + (IF Even(x) THEN x ELSE x + 1) >= 2
      BY SMT
    <3> HIDE DEF m
    <3> QED BY <3>1, <3>2
  <2> QED BY <2>1, <2>2
<1>3. t + 2 <= Len(f)
  <2>1. \A x, y, z \in Nat : x + y <= z /\ y >= 2 => x + 2 <= z
    BY SMT
  <2> QED BY <1>1, <1>2, <2>1
<1>4. f[t + 1] \in Nat /\ f[t + 2] \in Nat
  <2>1. t + 1 \in 1 .. Len(f) /\ t + 2 \in 1 .. Len(f)
    BY <1>1, <1>3
  <2> QED BY <2>1
<1> QED BY <1>2, <1>3, <1>4, BmpSizeOf

LEMMA BmpPacketStays ==
  ASSUME NEW im \in Images, NEW f \in Seq(Nat), NEW more \in Seq(Nat),
         NEW t \in Nat, NEW r \in 1 .. Len(im), NEW a \in Nat, BmpPacketAt(f, im, t, r, a)
  PROVE  /\ BmpPacketAt(f \o more, im, t, r, a)
         /\ BmpSize(f \o more, t) = BmpSize(f, t)
         /\ BmpCount(f \o more, t) = BmpCount(f, t)
<1> DEFINE g == f \o more
<1>1. /\ g \in Seq(Nat) /\ Len(g) = Len(f) + Len(more)
      /\ \A i \in 1 .. Len(f) : g[i] = f[i]
      /\ Len(f) \in Nat /\ Len(more) \in Nat
  OBVIOUS
<1> HIDE DEF g
<1>2. /\ t + 2 <= Len(f) /\ BmpSize(f, t) \in Nat /\ t + BmpSize(f, t) <= Len(f)
      /\ BmpCount(f, t) \in Nat
  BY BmpPacketHas DEF BmpPacketAt
<1>3. g[t + 1] = f[t + 1] /\ g[t + 2] = f[t + 2]
  <2>1. t + 1 \in 1 .. Len(f) /\ t + 2 \in 1 .. Len(f)
    BY <1>1, <1>2
  <2> QED BY <1>1, <2>1
<1>4. BmpSize(g, t) = BmpSize(f, t) /\ BmpCount(g, t) = BmpCount(f, t)
  BY <1>3 DEF BmpSize, BmpCount
<1>5. ASSUME NEW k \in 1 .. BmpCount(f, t) PROVE BmpPixelAt(g, t, k) = BmpPixelAt(f, t, k)
  <2>1. CASE f[t + 1] # 0
    BY <1>3, <2>1 DEF BmpPixelAt
  <2>2. CASE f[t + 1] = 0
    <3> DEFINE m == f[t + 2]
    <3>1. m = BmpCount(f, t) /\ BmpSize(f, t) = 2 + (IF Even(m) THEN m ELSE m + 1)
      BY <2>2 DEF BmpSize, BmpCount
    <3> HIDE DEF m
    <3>2. t + 2 + k \in 1 .. Len(f)
      <4>1. m \in Nat /\ BmpSize(f, t) >= 2 + m
        BY <1>2, <3>1
      <4>2. \A x, y, z, j \in Nat : x + y <= z /\ y >= 2 + j => \A i \in 1 .. j : x + 2 + i \in 1 .. z
        BY SMT
      <4> QED BY <1>1, <1>2, <3>1, <4>1, <4>2
    <3>3. g[t + 2 + k] = f[t + 2 + k]
      BY <1>1, <3>2
    <3>4. g[t + 1] = 0
      BY <1>3, <2>2
    <3> QED BY <2>2, <3>3, <3>4, Zenon DEF BmpPixelAt
  <2> QED BY <2>1, <2>2
<1>6. t + BmpSize(g, t) <= Len(g)
  BY <1>1, <1>2, <1>4
<1>7. \A k \in 1 .. BmpCount(g, t) : BmpPixelAt(g, t, k) = im[r][a + k]
  BY <1>4, <1>5 DEF BmpPacketAt
<1> QED BY <1>3, <1>4, <1>6, <1>7 DEF BmpPacketAt, g

LEMMA LineEndStays ==
  ASSUME NEW f \in Seq(Nat), NEW more \in Seq(Nat), NEW t \in Nat, LineEndAt(f, t)
  PROVE  LineEndAt(f \o more, t)
<1>1. /\ Len(f \o more) = Len(f) + Len(more) /\ Len(f) \in Nat /\ Len(more) \in Nat
      /\ \A i \in 1 .. Len(f) : (f \o more)[i] = f[i]
  OBVIOUS
<1>2. t + 1 \in 1 .. Len(f) /\ t + 2 \in 1 .. Len(f)
  BY <1>1 DEF LineEndAt
<1> QED BY <1>1, <1>2 DEF LineEndAt

LEMMA BmpLeadsStay ==
  ASSUME NEW im \in Images, NEW f \in Seq(Nat), NEW more \in Seq(Nat),
         NEW S, NEW T, S \subseteq T,
         NEW t \in Nat, NEW r \in Nat, NEW a \in Nat, NEW e \in Nat, BmpLeadsOn(S, f, im, t, r, a, e)
  PROVE  BmpLeadsOn(T, f \o more, im, t, r, a, e)
<1>1. r \in 1 .. Len(im)
  BY DEF BmpLeadsOn
<1>2. CASE /\ a < Len(im[1]) /\ BmpPacketAt(f, im, t, r, a)
           /\ <<t + BmpSize(f, t), r, a + BmpCount(f, t), e + Escape(f, t)>> \in S
  <2>1. /\ BmpPacketAt(f \o more, im, t, r, a)
        /\ BmpSize(f \o more, t) = BmpSize(f, t)
        /\ BmpCount(f \o more, t) = BmpCount(f, t)
    BY <1>1, <1>2, BmpPacketStays
  <2>2. Escape(f \o more, t) = Escape(f, t)
    <3>1. t + 1 \in 1 .. Len(f)
      BY <1>1, <1>2, BmpPacketHas
    <3>2. (f \o more)[t + 1] = f[t + 1]
      BY <3>1
    <3> QED BY <3>2 DEF Escape
  <2>3. <<t + BmpSize(f, t), r, a + BmpCount(f, t), e + Escape(f, t)>> \in T
    BY <1>2
  <2> QED BY <1>1, <1>2, <2>1, <2>2, <2>3, Zenon DEF BmpLeadsOn
<1>3. CASE a = Len(im[1]) /\ r > 1 /\ LineEndAt(f, t) /\ <<t + 2, r - 1, 0, Aligned(t)>> \in S
  <2>1. LineEndAt(f \o more, t)
    BY <1>3, LineEndStays
  <2> QED BY <1>1, <1>3, <2>1 DEF BmpLeadsOn
<1> QED BY <1>2, <1>3 DEF BmpLeadsOn

-----------------------------------------------------------------------------
(* Writing a bitmap.                                                       *)

LEMMA BmpEmitStep ==
  ASSUME BmpInv, phase = "write", at < Width, bytes_read' = bytes_read, retval' = retval,
         NEW packet \in Seq(Nat), NEW n \in Nat, Emit(packet, n),
         BmpPacketAt(file \o packet, image, Len(file), row, at),
         BmpSize(file \o packet, Len(file)) = Len(packet),
         BmpCount(file \o packet, Len(file)) = n,
         escapes' = IF Escape(file \o packet, Len(file)) = 1 THEN escapes \cup {row} ELSE escapes
  PROVE  BmpInv'
<1> DEFINE mark == Escape(file \o packet, Len(file))
<1>1. /\ file' = file \o packet /\ at' = at + n
      /\ image' = image /\ phase' = phase /\ row' = row /\ taken' = taken /\ got' = got
  BY DEF Emit
<1>2. /\ image \in Images /\ row \in 1 .. Height /\ at \in 0 .. Width
      /\ file \in Seq(Nat) /\ taken = 0 /\ got = [r \in 1 .. Height |-> <<>>]
      /\ bytes_read = 0 /\ Even(bytes_read) /\ bytes_read \in Nat
      /\ retval \in BOOLEAN /\ retval /\ escapes \subseteq 0 .. Height
      /\ \A q \in escapes : q >= row
  BY DEF BmpInv
<1>3. /\ Height = Len(image) /\ Width = Len(image[1]) /\ Height \in Nat /\ Width \in Nat
      /\ Height' = Height /\ Width' = Width
  BY <1>1, <1>2, ImageType DEF Height, Width
<1>4. /\ file' \in Seq(Nat) /\ Len(file') = Len(file) + Len(packet)
      /\ Len(file) \in Nat /\ Len(file') \in Nat /\ Len(packet) \in Nat
  BY <1>1, <1>2
<1>5. at + n <= Width /\ at' \in 0 .. Width /\ n > 0
  BY <1>1, <1>2, <1>3 DEF BmpPacketAt
<1>6. PICK S \in SUBSET BmpPlaces, now \in Nat :
        /\ <<0, Height, 0, 0>> \in S
        /\ <<Len(file), row, at, now>> \in S /\ (now > 0 <=> row \in escapes)
        /\ Tells(S) /\ Behind(S)
        /\ \A t, r, a, e \in Nat :
             <<t, r, a, e>> \in S /\ <<t, r, a, e>> # <<Len(file), row, at, now>> =>
               BmpLeadsOn(S, file, image, t, r, a, e)
  BY DEF BmpInv, BmpWritten
<1>0. /\ mark \in Nat /\ now + mark \in Nat /\ (now + mark > 0 <=> row \in escapes')
      /\ \A q : q # row => (q \in escapes' <=> q \in escapes)
      /\ mark = Escape(file', Len(file))
      /\ escapes' \subseteq 0 .. Height /\ \A q \in escapes' : q >= row
  <2>1. mark = 0 \/ mark = 1
    BY DEF Escape
  <2>2. escapes' = IF mark = 1 THEN escapes \cup {row} ELSE escapes
    OBVIOUS
  <2>3. mark = Escape(file', Len(file))
    BY <1>1
  <2> HIDE DEF mark
  <2>4. row \in Nat /\ row \in 0 .. Height
    BY <1>2, <1>3
  <2>5. CASE mark = 0
    <3>1. escapes' = escapes /\ now + mark = now
      BY <1>6, <2>2, <2>5
    <3> QED BY <1>2, <1>6, <2>3, <2>5, <3>1
  <2>6. CASE mark = 1
    <3>1. escapes' = escapes \cup {row}
      BY <2>2, <2>6
    <3>2. now + mark \in Nat /\ now + mark > 0
      BY <1>6, <2>6
    <3>3. escapes' \subseteq 0 .. Height
      BY <1>2, <2>4, <3>1
    <3>4. \A q \in escapes' : q >= row
      BY <1>2, <2>4, <3>1
    <3> QED BY <2>3, <2>6, <3>1, <3>2, <3>3, <3>4
  <2> QED BY <2>1, <2>5, <2>6
<1> HIDE DEF mark
<1> DEFINE new == <<Len(file'), row, at + n, now + mark>>
           T == S \cup {new}
<1>7. T \in SUBSET BmpPlaces /\ <<0, Height, 0, 0>> \in T /\ new \in T
  <2>1. Len(file') \in Nat /\ row \in Nat /\ at + n \in Nat
    BY <1>2, <1>3, <1>4
  <2>2. new \in BmpPlaces
    BY <1>0, <2>1 DEF BmpPlaces
  <2> HIDE DEF new
  <2> QED BY <1>6, <2>2
<1>8. BmpLeadsOn(T, file', image, Len(file), row, at, now)
  <2>1. <<Len(file) + BmpSize(file', Len(file)), row, at + BmpCount(file', Len(file)),
          now + Escape(file', Len(file))>> = new
    BY <1>0, <1>1, <1>4
  <2>2. row \in 1 .. Len(image) /\ at < Len(image[1])
    BY <1>2, <1>3, <1>4
  <2>3. BmpPacketAt(file', image, Len(file), row, at)
    BY <1>1
  <2> HIDE DEF T, new
  <2> QED BY <1>7, <2>1, <2>2, <2>3 DEF BmpLeadsOn
<1>9. ASSUME NEW t \in Nat, NEW r \in Nat, NEW a \in Nat, NEW e \in Nat,
             <<t, r, a, e>> \in T, <<t, r, a, e>> # new
      PROVE  BmpLeadsOn(T, file', image, t, r, a, e)
  <2>1. CASE <<t, r, a, e>> = <<Len(file), row, at, now>>
    BY <1>8, <2>1
  <2>2. CASE <<t, r, a, e>> # <<Len(file), row, at, now>>
    <3>1. BmpLeadsOn(S, file, image, t, r, a, e)
      BY <1>6, <1>9, <2>2
    <3>2. S \subseteq T
      OBVIOUS
    <3> HIDE DEF T
    <3> QED BY <1>1, <1>2, <3>1, <3>2, BmpLeadsStay
  <2> QED BY <2>1, <2>2
<1>10. ASSUME NEW t \in Nat, NEW r \in Nat, NEW a \in Nat, NEW e \in Nat, <<t, r, a, e>> \in T
       PROVE  /\ r >= row /\ (a = Width => r > row \/ at' = Width)
              /\ a = Width => (e > 0 <=> r \in escapes')
  <2>1. CASE <<t, r, a, e>> = new
    <3>1. r = row /\ a = at' /\ e = now + mark
      BY <1>1, <2>1
    <3>2. row >= row
      BY <1>2, <1>3
    <3> QED BY <1>0, <3>1, <3>2, Zenon
  <2>2. CASE <<t, r, a, e>> # new
    <3>1. <<t, r, a, e>> \in S
      BY <1>10, <2>2
    <3>2. r >= row /\ (a = Width => r > row)
      <4>1. at # Width
        BY <1>2, <1>3
      <4> QED BY <1>6, <3>1, <4>1, Zenon DEF Behind
    <3>3. a = Width => (e > 0 <=> r \in escapes)
      BY <1>6, <3>1, Zenon DEF Tells
    <3>4. a = Width => r # row
      BY <1>2, <1>3, <3>2
    <3> QED BY <1>0, <3>2, <3>3, <3>4, Zenon
  <2> QED BY <2>1, <2>2
<1> HIDE DEF T
<1>11. /\ \A t, r, e \in Nat : <<t, r, Width', e>> \in T => (e > 0 <=> r \in escapes')
       /\ \A t, r, a, e \in Nat : <<t, r, a, e>> \in T =>
            r >= row' /\ (a = Width' => r > row' \/ at' = Width')
  <2> HIDE DEF new
  <2>1. Width' = Width /\ Width \in Nat /\ row' = row
    BY <1>1, <1>3
  <2> QED BY <2>1, <1>10, Zenon
<1>12. BmpWritten'
  <2>1. \A t, r, a, e \in Nat :
          <<t, r, a, e>> \in T /\ <<t, r, a, e>> # <<Len(file'), row', at', now + mark>> =>
            BmpLeadsOn(T, file', image', t, r, a, e)
    BY <1>1, <1>9
  <2>2. <<0, Height', 0, 0>> \in T /\ <<Len(file'), row', at', now + mark>> \in T
    BY <1>1, <1>3, <1>7
  <2>3. now + mark \in Nat /\ (now + mark > 0 <=> row' \in escapes')
    BY <1>0, <1>1
  <2>4. T \in SUBSET BmpPlaces
    BY <1>7
  <2> HIDE DEF new
  <2> QED BY <1>11, <2>1, <2>2, <2>3, <2>4 DEF BmpWritten, Tells, Behind
<1> QED BY <1>0, <1>1, <1>2, <1>3, <1>4, <1>5, <1>12 DEF BmpInv, Even

LEMMA RunPacket ==
  ASSUME BmpInv, NEW n \in Nat, n > 0, at + n <= Width,
         \A k \in 1 .. n : image[row][at + k] = image[row][at + 1]
  PROVE  LET packet == <<n, image[row][at + 1]>>
         IN  /\ packet \in Seq(Nat)
             /\ BmpPacketAt(file \o packet, image, Len(file), row, at)
             /\ BmpSize(file \o packet, Len(file)) = Len(packet)
             /\ BmpCount(file \o packet, Len(file)) = n
             /\ Escape(file \o packet, Len(file)) = 0
<1> DEFINE pixel == image[row][at + 1]
           packet == <<n, pixel>>
           g == file \o packet
           L == Len(file)
<1>1. /\ image \in Images /\ row \in 1 .. Len(image) /\ at \in 0 .. Width
      /\ file \in Seq(Nat) /\ Width = Len(image[1]) /\ Width \in Nat
  BY ImageType DEF BmpInv, Height, Width
<1>2. pixel \in Nat
  <2>1. image[row] \in Seq(Nat) /\ Len(image[row]) = Width
    BY <1>1, ImageType
  <2>2. at + 1 \in 1 .. Width
    BY <1>1
  <2> QED BY <2>1, <2>2
<1> HIDE DEF pixel
<1>3. packet \in Seq(Nat) /\ Len(packet) = 2
  BY <1>2
<1>4. g[L + 1] = n /\ g[L + 2] = pixel /\ Len(g) = L + 2 /\ L \in Nat
  BY <1>1, <1>2, <1>3
<1> HIDE DEF g, packet, L
<1>5. BmpSize(g, L) = 2 /\ BmpCount(g, L) = n /\ Escape(g, L) = 0
  BY <1>4 DEF BmpSize, BmpCount, Escape
<1>6. \A k \in 1 .. n : BmpPixelAt(g, L, k) = image[row][at + k]
  BY <1>4 DEF BmpPixelAt, pixel
<1>7. BmpPacketAt(g, image, L, row, at)
  BY <1>1, <1>4, <1>5, <1>6 DEF BmpPacketAt
<1> QED BY <1>3, <1>5, <1>7 DEF g, packet, L, pixel

(* The padding of a literal is in its size.                                *)
LEMMA BmpLiteralPacket ==
  ASSUME BmpInv, NEW n \in Nat, n >= 3, at + n <= Width,
         NEW pixels \in Seq(Nat), Len(pixels) = n,
         \A k \in 1 .. n : pixels[k] = image[row][at + k]
  PROVE  LET packet == Literal(pixels)
         IN  /\ packet \in Seq(Nat)
             /\ BmpPacketAt(file \o packet, image, Len(file), row, at)
             /\ BmpSize(file \o packet, Len(file)) = Len(packet)
             /\ BmpCount(file \o packet, Len(file)) = n
             /\ Escape(file \o packet, Len(file)) = 1
<1> DEFINE pad == IF Even(n) THEN <<>> ELSE <<0>>
           body == <<0, n>> \o pixels
           packet == Literal(pixels)
           g == file \o packet
           L == Len(file)
           size == 2 + (IF Even(n) THEN n ELSE n + 1)
<1>1. /\ image \in Images /\ row \in 1 .. Len(image) /\ at \in 0 .. Width
      /\ file \in Seq(Nat) /\ Width = Len(image[1]) /\ Width \in Nat /\ L \in Nat
  BY ImageType DEF BmpInv, Height, Width
<1>2. /\ body \in Seq(Nat) /\ Len(body) = n + 2 /\ body[1] = 0 /\ body[2] = n
      /\ \A k \in 1 .. n : body[k + 2] = pixels[k]
  OBVIOUS
<1>3. pad \in Seq(Nat) /\ n + 2 + Len(pad) = size /\ Len(pad) \in Nat
  <2>1. CASE Even(n)
    BY <2>1
  <2>2. CASE ~Even(n)
    BY <2>2
  <2> QED BY <2>1, <2>2
<1>4. packet = body \o pad
  BY DEF Literal
<1> HIDE DEF packet, body, pad
<1>5. /\ packet \in Seq(Nat) /\ Len(packet) = size
      /\ \A j \in 1 .. n + 2 : packet[j] = body[j]
  BY <1>2, <1>3, <1>4
<1>6. Len(packet) >= n + 2 /\ Len(packet) \in Nat
  BY <1>3, <1>5
<1>7. /\ Len(g) = L + Len(packet)
      /\ \A j \in 1 .. n + 2 : g[L + j] = packet[j]
  <2>1. Len(g) = L + Len(packet)
    <3>1. file \in Seq(Nat) /\ packet \in Seq(Nat)
      BY <1>1, <1>5
    <3> QED BY <3>1
  <2>2. \A j \in 1 .. Len(packet) : g[L + j] = packet[j]
    BY <1>1, <1>5
  <2>3. \A j \in 1 .. n + 2 : j \in 1 .. Len(packet)
    BY <1>6
  <2> QED BY <2>1, <2>2, <2>3
<1> HIDE DEF g, L
<1>8. g[L + 1] = 0 /\ g[L + 2] = n
  <2>1. 1 \in 1 .. n + 2 /\ 2 \in 1 .. n + 2
    OBVIOUS
  <2> QED BY <1>2, <1>5, <1>7, <2>1
<1>9. ASSUME NEW k \in 1 .. n PROVE g[L + 2 + k] = pixels[k]
  <2>1. k + 2 \in 1 .. n + 2 /\ L + (k + 2) = L + 2 + k
    BY <1>1
  <2> QED BY <1>2, <1>5, <1>7, <2>1
<1>10. BmpSize(g, L) = size /\ BmpCount(g, L) = n /\ Escape(g, L) = 1
  BY <1>8 DEF BmpSize, BmpCount, Escape
<1>11. \A k \in 1 .. n : BmpPixelAt(g, L, k) = image[row][at + k]
  BY <1>8, <1>9 DEF BmpPixelAt
<1>12. BmpPacketAt(g, image, L, row, at)
  BY <1>1, <1>5, <1>7, <1>8, <1>10, <1>11 DEF BmpPacketAt
<1> QED BY <1>5, <1>10, <1>12 DEF g, packet, L

(* A stretch of a sequence, place by place.                                *)
LEMMA SubSeqOf ==
  ASSUME NEW f, NEW lo \in Int, NEW hi \in Int, \A i \in lo .. hi : f[i] \in Nat
  PROVE  /\ SubSeq(f, lo, hi) \in Seq(Nat)
         /\ Len(SubSeq(f, lo, hi)) = IF lo <= hi THEN hi - lo + 1 ELSE 0
         /\ \A i \in 1 .. hi - lo + 1 : SubSeq(f, lo, hi)[i] = f[lo + i - 1]
BY SubSeqProperties

LEMMA PartOf ==
  ASSUME NEW f, NEW lo \in Int, NEW hi \in Int, \A i \in lo .. hi : f[i] \in Nat,
         NEW n \in Nat, hi - lo + 1 = n, NEW part, part = SubSeq(f, lo, hi)
  PROVE  /\ part \in Seq(Nat) /\ Len(part) = n
         /\ \A i \in 1 .. n : part[i] = f[lo + i - 1]
<1>1. /\ part \in Seq(Nat)
      /\ Len(part) = IF lo <= hi THEN hi - lo + 1 ELSE 0
      /\ \A i \in 1 .. hi - lo + 1 : part[i] = f[lo + i - 1]
  BY SubSeqOf, Zenon
<1>2. Len(part) = n
  BY <1>1
<1> QED BY <1>1, <1>2

LEMMA SubSeqIs ==
  ASSUME NEW f \in Seq(Nat), NEW s \in Nat, NEW n \in Nat, s + n <= Len(f)
  PROVE  SubSeq(f, s + 1, s + n) = [k \in 1 .. n |-> f[s + k]]
<1> DEFINE lo == s + 1
           hi == s + n
           part == SubSeq(f, lo, hi)
<1>1. /\ lo \in Int /\ hi \in Int /\ hi - lo + 1 = n
      /\ \A k \in 1 .. n : lo + k - 1 = s + k
      /\ Len(f) \in Nat /\ \A i \in lo .. hi : i \in 1 .. Len(f)
  OBVIOUS
<1>2. part = SubSeq(f, lo, hi)
  OBVIOUS
<1> HIDE DEF lo, hi, part
<1>3. \A i \in lo .. hi : f[i] \in Nat
  BY <1>1
<1>4. part \in Seq(Nat) /\ Len(part) = n /\ \A i \in 1 .. n : part[i] = f[lo + i - 1]
  BY <1>1, <1>2, <1>3, PartOf
<1>5. part = [k \in 1 .. n |-> part[k]]
  BY <1>4
<1>6. part = [k \in 1 .. n |-> f[s + k]]
  BY <1>1, <1>4, <1>5
<1> QED BY <1>6 DEF part, lo, hi

LEMMA BmpInvStutters == ASSUME BmpInv, UNCHANGED streamVars, UNCHANGED bmpVars PROVE BmpInv'
<1>1. /\ image' = image /\ phase' = phase /\ row' = row /\ at' = at /\ file' = file
      /\ taken' = taken /\ got' = got
      /\ bytes_read' = bytes_read /\ retval' = retval /\ escapes' = escapes
  BY DEF streamVars, bmpVars
<1>2. Height' = Height /\ Width' = Width
  BY <1>1 DEF Height, Width
<1>3. BmpWritten' <=> BmpWritten
  BY <1>1, <1>2 DEF BmpWritten, Tells, Behind
<1>4. BmpReading' <=> BmpReading
  BY <1>1, <1>2 DEF BmpReading, Tells, Chained, AtPlace, BeforeLineEnd
<1>5. GotSo' <=> GotSo
  BY <1>1, <1>2 DEF GotSo, Met
<1>6. /\ Met(0)' <=> Met(0)
      /\ Met(1)' <=> Met(1)
      /\ Met(row)' <=> Met(row)
      /\ \A r : Met(r)' <=> Met(r)
  BY <1>1, <1>2 DEF Met
<1>7. [r \in 1 .. Height |-> IF Met(r) THEN PixelsTo(image, r, Width) ELSE <<>>]' =
        [r \in 1 .. Height |-> IF Met(r) THEN PixelsTo(image, r, Width) ELSE <<>>]
  BY <1>1, <1>2 DEF Met
<1> QED BY <1>1, <1>2, <1>3, <1>4, <1>5, <1>6, <1>7 DEF BmpInv, Even

(* A turn of the loop that writes nothing leaves everything as it is.      *)
LEMMA BmpWritePacketStep == ASSUME BmpInv, BmpWritePacket PROVE BmpInv'
<1> DEFINE left == Width - at
<1>1. /\ image \in Images /\ row \in 1 .. Len(image) /\ at \in 0 .. Width /\ at < Width
      /\ phase = "write" /\ Width = Len(image[1]) /\ Width \in Nat /\ left \in Nat /\ left > 0
      /\ bytes_read' = bytes_read /\ retval' = retval
  <2>1. phase = "write" /\ at < Width /\ bytes_read' = bytes_read /\ retval' = retval
    BY DEF BmpWritePacket
  <2>2. /\ image \in Images /\ row \in 1 .. Len(image) /\ at \in 0 .. Width
        /\ Width = Len(image[1]) /\ Width \in Nat
    BY ImageType DEF BmpInv, Height, Width
  <2> QED BY <2>1, <2>2
<1>2. CASE RunHere(left)
  <2> DEFINE n == RunHereLength(left)
  <2>1. n \in 1 .. left /\ \A k \in 1 .. n : image[row][at + k] = image[row][at + 1]
    <3>1. left <= Width - at
      BY <1>1
    <3> HIDE DEF left
    <3> QED BY <1>1, <3>1, RunHereLengthOf
  <2>2. Emit(<<n, image[row][at + 1]>>, n) /\ escapes' = escapes
    BY <1>2 DEF BmpWritePacket
  <2> HIDE DEF n
  <2>3. n \in Nat /\ n > 0 /\ at + n <= Width
    BY <1>1, <2>1
  <2> DEFINE packet == <<n, image[row][at + 1]>>
  <2>4. /\ packet \in Seq(Nat)
        /\ BmpPacketAt(file \o packet, image, Len(file), row, at)
        /\ BmpSize(file \o packet, Len(file)) = Len(packet)
        /\ BmpCount(file \o packet, Len(file)) = n
        /\ Escape(file \o packet, Len(file)) = 0
    BY <2>1, <2>3, RunPacket
  <2>5. Emit(packet, n)
    BY <2>2
  <2> HIDE DEF packet
  <2>6. escapes' = IF Escape(file \o packet, Len(file)) = 1 THEN escapes \cup {row} ELSE escapes
    <3>1. Escape(file \o packet, Len(file)) # 1
      BY <2>4
    <3> QED BY <2>2, <3>1, Zenon
  <2> QED BY <1>1, <2>3, <2>4, <2>5, <2>6, BmpEmitStep
<1>3. CASE ~RunHere(left) /\ BmpLiteralLength(left) >= 3
  <2> DEFINE n == BmpLiteralLength(left)
             pixels == SubSeq(image[row], at + 1, at + n)
  <2>1. n \in Nat /\ n <= left
    BY <1>1, BmpLiteralLengthOf
  <2>3. n >= 3 /\ ~(n < 3)
    BY <1>3, <2>1
  <2>2. Emit(Literal(pixels), n) /\ escapes' = escapes \cup {row}
    BY <1>3, <2>3, Zenon DEF BmpWritePacket
  <2> HIDE DEF n
  <2>4. at + n <= Width /\ at \in Nat
    BY <1>1, <2>1
  <2>5. image[row] \in Seq(Nat) /\ Len(image[row]) = Width
    BY <1>1, ImageType
  <2>6. pixels \in Seq(Nat) /\ Len(pixels) = n /\ \A k \in 1 .. n : pixels[k] = image[row][at + k]
    <3>1. pixels = [k \in 1 .. n |-> image[row][at + k]]
      BY <2>1, <2>4, <2>5, SubSeqIs
    <3>2. \A k \in 1 .. n : image[row][at + k] \in Nat
      BY <2>1, <2>4, <2>5
    <3> HIDE DEF pixels
    <3> QED BY <2>1, <3>1, <3>2
  <2> HIDE DEF pixels
  <2> DEFINE packet == Literal(pixels)
  <2>7. /\ packet \in Seq(Nat)
        /\ BmpPacketAt(file \o packet, image, Len(file), row, at)
        /\ BmpSize(file \o packet, Len(file)) = Len(packet)
        /\ BmpCount(file \o packet, Len(file)) = n
        /\ Escape(file \o packet, Len(file)) = 1
    BY <2>1, <2>3, <2>4, <2>6, BmpLiteralPacket
  <2>8. Emit(packet, n)
    BY <2>2
  <2> HIDE DEF packet
  <2>9. escapes' = IF Escape(file \o packet, Len(file)) = 1 THEN escapes \cup {row} ELSE escapes
    BY <2>2, <2>7
  <2> QED BY <1>1, <2>1, <2>7, <2>8, <2>9, BmpEmitStep
<1>4. CASE ~RunHere(left) /\ ~(BmpLiteralLength(left) >= 3)
  <2>1. UNCHANGED streamVars /\ UNCHANGED bmpVars
    BY <1>1, <1>4 DEF BmpWritePacket, bmpVars
  <2> QED BY <2>1, BmpInvStutters
<1> QED BY <1>2, <1>3, <1>4

LEMMA BmpWriteRowDoneStep == ASSUME BmpInv, BmpWriteRowDone PROVE BmpInv'
<1>1. /\ phase = "write" /\ at = Width /\ at' = 0 /\ file' = file \o <<0, 0>>
      /\ image' = image /\ taken' = taken /\ got' = got /\ bytes_read' = bytes_read
      /\ retval' = retval
      /\ escapes' = IF Len(file) % 4 = 0 THEN escapes \cup {row - 1} ELSE escapes
      /\ IF row > 1 THEN row' = row - 1 /\ phase' = phase
         ELSE row' = Height /\ phase' = "read"
  BY DEF BmpWriteRowDone, RowDone
<1>2. /\ image \in Images /\ row \in 1 .. Height /\ file \in Seq(Nat)
      /\ taken = 0 /\ bytes_read = 0 /\ Even(bytes_read) /\ bytes_read \in Nat
      /\ retval \in BOOLEAN /\ retval /\ escapes \subseteq 0 .. Height
      /\ \A q \in escapes : q >= row
      /\ got = [r \in 1 .. Height |-> <<>>]
  BY <1>1 DEF BmpInv
<1>3. /\ Height = Len(image) /\ Width = Len(image[1]) /\ Height \in Nat /\ Width \in Nat
      /\ Height > 0 /\ Width > 0 /\ Height' = Height /\ Width' = Width
  BY <1>1, <1>2, ImageType DEF Height, Width
<1>4. /\ file' \in Seq(Nat) /\ Len(file') = Len(file) + 2 /\ Len(file) \in Nat
      /\ LineEndAt(file', Len(file)) /\ <<0, 0>> \in Seq(Nat)
  <2>1. /\ file' \in Seq(Nat) /\ Len(file') = Len(file) + 2 /\ Len(file) \in Nat
        /\ file'[Len(file) + 1] = 0 /\ file'[Len(file) + 2] = 0 /\ <<0, 0>> \in Seq(Nat)
    BY <1>1, <1>2
  <2> QED BY <2>1 DEF LineEndAt
<1>5. PICK S \in SUBSET BmpPlaces, now \in Nat :
        /\ <<0, Height, 0, 0>> \in S
        /\ <<Len(file), row, at, now>> \in S /\ (now > 0 <=> row \in escapes)
        /\ Tells(S) /\ Behind(S)
        /\ \A t, r, a, e \in Nat :
             <<t, r, a, e>> \in S /\ <<t, r, a, e>> # <<Len(file), row, at, now>> =>
               BmpLeadsOn(S, file, image, t, r, a, e)
  BY <1>1 DEF BmpInv, BmpWritten
<1> DEFINE mark == Aligned(Len(file))
           above == row - 1
<1>6. /\ mark \in Nat /\ above \in Nat /\ above < row /\ row \in Nat
      /\ mark > 0 <=> above \in escapes'
      /\ \A q : q # above => (q \in escapes' <=> q \in escapes)
      /\ escapes' \subseteq 0 .. Height /\ \A q \in escapes' : q >= above
  <2>1. above \in 0 .. Height /\ above \in Nat /\ above < row /\ row \in Nat
    BY <1>2, <1>3
  <2>2. above \notin escapes
    BY <1>2, <1>3, <2>1
  <2>3. CASE Len(file) % 4 = 0
    <3>1. mark = 1
      BY <2>3 DEF Aligned
    <3>2. escapes' = escapes \cup {above}
      BY <1>1, <2>3
    <3> HIDE DEF mark, above
    <3> QED BY <1>2, <1>3, <2>1, <3>1, <3>2
  <2>4. CASE Len(file) % 4 # 0
    <3>1. mark = 0
      BY <2>4 DEF Aligned
    <3>2. escapes' = escapes
      BY <1>1, <2>4
    <3> HIDE DEF mark, above
    <3> QED BY <1>2, <1>3, <2>1, <2>2, <3>1, <3>2
  <2> QED BY <2>3, <2>4
<1>7. \A t, r, e \in Nat : <<t, r, Width, e>> \in S => (e > 0 <=> r \in escapes')
  <2> SUFFICES ASSUME NEW t \in Nat, NEW r \in Nat, NEW e \in Nat, <<t, r, Width, e>> \in S
               PROVE  e > 0 <=> r \in escapes'
    OBVIOUS
  <2>1. r >= row
    BY <1>3, <1>5, Zenon DEF Behind
  <2>2. e > 0 <=> r \in escapes
    BY <1>5, Zenon DEF Tells
  <2>3. r # above
    BY <1>6, <2>1
  <2> HIDE DEF above
  <2> QED BY <1>6, <2>2, <2>3, Zenon
<1>8. CASE row > 1
  <2> DEFINE new == <<Len(file'), above, 0, mark>>
             T == S \cup {new}
  <2>0. above > 0 /\ above = row - 1 /\ mark = Aligned(Len(file))
    BY <1>2, <1>3, <1>8
  <2>1. T \in SUBSET BmpPlaces /\ new \in T /\ <<0, Height, 0, 0>> \in T /\ S \subseteq T
    <3>1. Len(file') \in Nat
      BY <1>4
    <3> HIDE DEF mark, above
    <3>2. new \in BmpPlaces
      BY <1>6, <3>1 DEF BmpPlaces
    <3> HIDE DEF new
    <3> QED BY <1>5, <3>2
  <2> HIDE DEF mark, above
  <2>2. BmpLeadsOn(T, file', image, Len(file), row, at, now)
    <3>1. row \in 1 .. Len(image) /\ at = Len(image[1])
      BY <1>1, <1>2, <1>3
    <3>2. <<Len(file) + 2, row - 1, 0, Aligned(Len(file))>> \in T
      BY <1>4, <2>0, <2>1
    <3> HIDE DEF T
    <3> QED BY <1>4, <1>8, <3>1, <3>2 DEF BmpLeadsOn
  <2>3. ASSUME NEW t \in Nat, NEW r \in Nat, NEW a \in Nat, NEW e \in Nat,
               <<t, r, a, e>> \in T, <<t, r, a, e>> # new
        PROVE  BmpLeadsOn(T, file', image, t, r, a, e)
    <3>1. CASE <<t, r, a, e>> = <<Len(file), row, at, now>>
      BY <2>2, <3>1
    <3>2. CASE <<t, r, a, e>> # <<Len(file), row, at, now>>
      <4>1. BmpLeadsOn(S, file, image, t, r, a, e)
        BY <1>5, <2>3, <3>2
      <4> HIDE DEF T
      <4> QED BY <1>1, <1>2, <1>4, <2>1, <4>1, BmpLeadsStay
    <3> QED BY <3>1, <3>2
  <2>4. \A t, r, e \in Nat : <<t, r, Width', e>> \in T => (e > 0 <=> r \in escapes')
    <3> SUFFICES ASSUME NEW t \in Nat, NEW r \in Nat, NEW e \in Nat, <<t, r, Width, e>> \in T
                 PROVE  e > 0 <=> r \in escapes'
      BY <1>3
    <3>1. <<t, r, Width, e>> # new
      BY <1>3
    <3> QED BY <1>7, <3>1
  <2>5. \A t, r, a, e \in Nat : <<t, r, a, e>> \in T =>
          r >= row' /\ (a = Width' => r > row' \/ at' = Width')
    <3> SUFFICES ASSUME NEW t \in Nat, NEW r \in Nat, NEW a \in Nat, NEW e \in Nat,
                        <<t, r, a, e>> \in T
                 PROVE  r >= above /\ (a = Width => r > above)
      BY <1>1, <1>3, <1>8, <2>0
    <3>1. CASE <<t, r, a, e>> = new
      BY <1>3, <1>6, <3>1
    <3>2. CASE <<t, r, a, e>> # new
      <4>1. r >= row
        BY <1>5, <3>2, Zenon DEF Behind
      <4> QED BY <1>6, <4>1
    <3> QED BY <3>1, <3>2
  <2>6. /\ <<Len(file'), row', at', mark>> \in T /\ <<0, Height', 0, 0>> \in T
        /\ mark > 0 <=> row' \in escapes'
        /\ \A t, r, a, e \in Nat :
             <<t, r, a, e>> \in T /\ <<t, r, a, e>> # <<Len(file'), row', at', mark>> =>
               BmpLeadsOn(T, file', image', t, r, a, e)
    <3>1. row' = above /\ at' = 0 /\ image' = image /\ Height' = Height
      BY <1>1, <1>3, <1>8, <2>0
    <3> HIDE DEF T
    <3> QED BY <1>6, <2>1, <2>3, <3>1
  <2> HIDE DEF T, new
  <2>7. BmpWritten'
    BY <1>6, <2>1, <2>4, <2>5, <2>6 DEF BmpWritten, Tells, Behind
  <2>8. row' \in 1 .. Height /\ at' \in 0 .. Width /\ row' = above /\ phase' = "write"
    BY <1>1, <1>2, <1>3, <1>8, <2>0
  <2> QED BY <1>1, <1>2, <1>3, <1>4, <1>6, <2>7, <2>8 DEF BmpInv, Even
<1>9. CASE ~(row > 1)
  <2> HIDE DEF mark, above
  <2>1. row = 1 /\ row' = Height /\ phase' = "read"
    BY <1>1, <1>2, <1>3, <1>9
  <2>2. ASSUME NEW t \in Nat, NEW r \in Nat, NEW a \in Nat, NEW e \in Nat, <<t, r, a, e>> \in S
        PROVE  BmpLeadsOn(S, file', image, t, r, a, e) \/ LastAt(file', image, t, r, a)
    <3>1. CASE <<t, r, a, e>> = <<Len(file), row, at, now>>
      BY <1>1, <1>3, <1>4, <2>1, <3>1 DEF LastAt
    <3>2. CASE <<t, r, a, e>> # <<Len(file), row, at, now>>
      <4>1. BmpLeadsOn(S, file, image, t, r, a, e)
        BY <1>5, <2>2, <3>2
      <4> QED BY <1>1, <1>2, <1>4, <4>1, BmpLeadsStay
    <3> QED BY <3>1, <3>2
  <2>3. BmpReading'
    <3>1. <<taken', row', at', 0>> \in S /\ bytes_read' = 0 /\ at' = 0
      BY <1>1, <1>2, <1>5, <2>1
    <3>2. AtPlace(S)'
      BY <3>1 DEF AtPlace
    <3>3. Tells(S)' /\ Chained(S)'
      BY <1>1, <1>3, <1>7, <2>2 DEF Tells, Chained
    <3> QED BY <1>5, <3>2, <3>3 DEF BmpReading
  <2>4. \A r : PixelsTo(image, r, 0) = <<>>
    BY DEF PixelsTo
  <2>5. \A r \in 1 .. Height : ~(r > row')
    BY <1>3, <2>1
  <2>6. GotSo'
    <3>1. got' = [r \in 1 .. Height |->
                    IF r > row' THEN (IF Met(r)' THEN PixelsTo(image, r, Width) ELSE <<>>)
                    ELSE IF r = row' THEN PixelsTo(image, r, 0) ELSE <<>>]
      BY <1>1, <1>2, <2>4, <2>5
    <3> QED BY <1>1, <1>3, <3>1 DEF GotSo, Met
  <2>7. Met(row)'
    <3>1. \A q \in row' + 1 .. Height' : FALSE
      BY <1>3, <2>1
    <3> QED BY <3>1 DEF Met
  <2>8. row' \in 1 .. Height' /\ at' \in 0 .. Width' /\ taken' % 4 = bytes_read' % 4
    BY <1>1, <1>2, <1>3, <2>1
  <2> QED BY <1>1, <1>2, <1>3, <1>4, <1>6, <2>1, <2>3, <2>6, <2>7, <2>8 DEF BmpInv, Even
<1> QED BY <1>8, <1>9

-----------------------------------------------------------------------------
(* Reading a bitmap.                                                       *)

LEMMA PixelsToOf ==
  ASSUME NEW im \in Images, NEW r \in 1 .. Len(im), NEW a \in 0 .. Len(im[1])
  PROVE  /\ PixelsTo(im, r, a) \in Seq(Nat) /\ Len(PixelsTo(im, r, a)) = a
         /\ \A i \in 1 .. a : PixelsTo(im, r, a)[i] = im[r][i]
<1>1. im[r] \in Seq(Nat) /\ Len(im[r]) = Len(im[1])
  BY ImageType
<1>2. a \in Nat /\ \A i \in 1 .. a : i \in 1 .. Len(im[1])
  BY ImageType
<1>3. \A i \in 1 .. a : im[r][i] \in Nat
  BY <1>1, <1>2
<1> QED BY <1>2, <1>3 DEF PixelsTo

LEMMA FullRowLeadsOn ==
  ASSUME NEW S, NEW f, NEW im, NEW t, NEW r, NEW a, NEW e,
         BmpLeadsOn(S, f, im, t, r, a, e), ~(a < Len(im[1]))
  PROVE  r > 1 /\ LineEndAt(f, t) /\ <<t + 2, r - 1, 0, Aligned(t)>> \in S
BY Zenon DEF BmpLeadsOn

(* What the file says at the reader's place, when that is a packet's.      *)
LEMMA BmpPixelsHere ==
  ASSUME image \in Images, file \in Seq(Nat), taken \in Nat, row \in 1 .. Len(image),
         at \in Nat, BmpPacketAt(file, image, taken, row, at)
  PROVE  LET n == BmpCount(file, taken)
             pixels == IF file[taken + 1] # 0 THEN [i \in 1 .. n |-> file[taken + 2]]
                       ELSE SubSeq(file, taken + 3, taken + 2 + n)
         IN  pixels = [k \in 1 .. n |-> image[row][at + k]]
<1> DEFINE n == BmpCount(file, taken)
<1>1. /\ n \in Nat /\ taken + BmpSize(file, taken) <= Len(file) /\ Len(file) \in Nat
      /\ \A k \in 1 .. n : BmpPixelAt(file, taken, k) = image[row][at + k]
      /\ BmpSize(file, taken) \in Nat
  BY BmpPacketHas DEF BmpPacketAt
<1>2. n = BmpCount(file, taken)
  OBVIOUS
<1> HIDE DEF n
<1>3. CASE file[taken + 1] # 0
  <2>1. \A k \in 1 .. n : file[taken + 2] = image[row][at + k]
    BY <1>1, <1>3 DEF BmpPixelAt
  <2>2. [i \in 1 .. n |-> file[taken + 2]] = [k \in 1 .. n |-> image[row][at + k]]
    BY <2>1
  <2> QED BY <1>2, <1>3, <2>2
<1>4. CASE file[taken + 1] = 0
  <2>1. \A k \in 1 .. n : file[taken + 2 + k] = image[row][at + k]
    BY <1>1, <1>4 DEF BmpPixelAt
  <2>2. BmpSize(file, taken) = 2 + (IF Even(n) THEN n ELSE n + 1)
    BY <1>2, <1>4 DEF BmpSize, BmpCount
  <2> DEFINE part == SubSeq(file, taken + 3, taken + 2 + n)
  <2>3. taken + 2 + n <= Len(file)
    <3>1. BmpSize(file, taken) >= 2 + n
      BY <1>1, <2>2
    <3>2. \A x, y, z, j \in Nat : x + y <= z /\ y >= 2 + j => x + 2 + j <= z
      BY SMT
    <3> QED BY <1>1, <3>1, <3>2
  <2>4. part = SubSeq(file, (taken + 2) + 1, (taken + 2) + n) /\ taken + 2 \in Nat
    BY <1>1
  <2> HIDE DEF part
  <2>5. part = [k \in 1 .. n |-> file[taken + 2 + k]]
    BY <1>1, <2>3, <2>4, SubSeqIs
  <2>6. part = [k \in 1 .. n |-> image[row][at + k]]
    BY <2>1, <2>5
  <2> QED BY <1>2, <1>4, <2>6 DEF part
<1> QED BY <1>3, <1>4

LEMMA BmpReadPacketStep == ASSUME BmpInv, BmpReadPacket PROVE BmpInv'
<1> DEFINE read == [r \in 1 .. Height |->
                      IF r > row THEN (IF Met(r) THEN PixelsTo(image, r, Width) ELSE <<>>)
                      ELSE IF r = row THEN PixelsTo(image, r, at) ELSE <<>>]
           first == file[taken + 1]
           second == file[taken + 2]
           size == IF first = 0 /\ second >= 3
                     THEN 2 + (IF Even(second) THEN second ELSE second + 1) ELSE 2
<1>1. /\ phase = "read" /\ at < Width /\ bytes_read' = bytes_read + size
      /\ bytes_read = 0 => retval
      /\ retval' = (first = 0 \/ (bytes_read # 0 /\ retval)) /\ escapes' = escapes
      /\ \/ first # 0 /\ Take([i \in 1 .. first |-> second], size)
         \/ first = 0 /\ second >= 3 /\ Take(SubSeq(file, taken + 3, taken + 2 + second), size)
         \/ first = 0 /\ second < 3 /\ at = 0 /\ Take(<<>>, size)
  BY DEF BmpReadPacket
<1>2. /\ image \in Images /\ row \in 1 .. Height /\ at \in 0 .. Width
      /\ file \in Seq(Nat) /\ taken \in Nat /\ got = read
      /\ bytes_read \in Nat /\ Even(bytes_read) /\ retval \in BOOLEAN /\ escapes \subseteq 0 .. Height
      /\ Met(row) /\ BmpReading /\ taken % 4 = bytes_read % 4
  BY <1>1 DEF BmpInv, GotSo
<1>3. image' = image /\ phase' = phase /\ row' = row /\ file' = file
  BY <1>1 DEF Take
<1>4. /\ Height = Len(image) /\ Width = Len(image[1]) /\ Height \in Nat /\ Width \in Nat
      /\ Height' = Height /\ Width' = Width /\ Len(file) \in Nat /\ \A r : Met(r)' = Met(r)
  <2>1. /\ Height = Len(image) /\ Width = Len(image[1]) /\ Height \in Nat /\ Width \in Nat
        /\ Height' = Height /\ Width' = Width /\ Len(file) \in Nat
    BY <1>2, <1>3, ImageType DEF Height, Width
  <2> QED BY <1>1, <2>1, Zenon DEF Met
<1>5. PICK S \in SUBSET BmpPlaces : Tells(S) /\ Chained(S) /\ (AtPlace(S) \/ BeforeLineEnd(S))
  BY <1>2 DEF BmpReading
<1>6. ~(row > row) /\ got[row] = PixelsTo(image, row, at)
  <2>1. ~(row > row)
    BY <1>2, <1>4
  <2> QED BY <1>2, <2>1
<1>7. ASSUME NEW n \in Nat, NEW pixels, NEW bytes \in Nat, bytes > 0, Even(bytes), Take(pixels, bytes),
             Len(pixels) = n, at + n <= Width, bytes_read' = bytes_read + bytes,
             PixelsTo(image, row, at) \o pixels = PixelsTo(image, row, at + n),
             NEW e \in Nat, <<taken + bytes, row, at + n, e>> \in S, retval' <=> e > 0
      PROVE  BmpInv'
  <2>1. /\ got' = [got EXCEPT ![row] = @ \o pixels] /\ at' = at + n /\ taken' = taken + bytes
    BY <1>7 DEF Take
  <2>2. got' = [read EXCEPT ![row] = PixelsTo(image, row, at + n)]
    BY <1>2, <1>6, <1>7, <2>1
  <2>3. got' = [r \in 1 .. Height |->
                  IF r > row THEN (IF Met(r) THEN PixelsTo(image, r, Width) ELSE <<>>)
                  ELSE IF r = row THEN PixelsTo(image, r, at') ELSE <<>>]
    BY <1>6, <2>1, <2>2
  <2>4. GotSo'
    BY <1>3, <1>4, <2>3 DEF GotSo
  <2>5. at' \in 0 .. Width /\ taken' \in Nat /\ bytes_read' \in Nat /\ bytes_read' # 0
    BY <1>2, <1>4, <1>7, <2>1
  <2>6. BmpReading'
    <3>1. AtPlace(S)'
      BY <1>3, <1>7, <2>1, <2>5 DEF AtPlace
    <3>2. Tells(S)' /\ Chained(S)'
      BY <1>1, <1>3, <1>4, <1>5, Zenon DEF Tells, Chained
    <3> QED BY <1>5, <3>1, <3>2, Zenon DEF BmpReading
  <2>7. Even(bytes_read)' /\ taken' % 4 = bytes_read' % 4
    <3>1. Even(bytes_read + bytes)
      BY <1>2, <1>7, EvenSum
    <3>2. \A x, y, z \in Nat : x % 4 = y % 4 => (x + z) % 4 = (y + z) % 4
      BY SMT
    <3>3. (taken + bytes) % 4 = (bytes_read + bytes) % 4
      BY <1>2, <3>2
    <3> QED BY <1>7, <2>1, <3>1, <3>3 DEF Even
  <2>8. Met(row)' /\ retval' \in BOOLEAN /\ row' \in 1 .. Height' /\ at' \in 0 .. Width'
        /\ escapes' \subseteq 0 .. Height' /\ phase' = "read"
    <3>1. retval' \in BOOLEAN
      BY <1>1, Zenon
    <3>2. Met(row)'
      BY <1>1, <1>2, <1>3, <1>4, Zenon DEF Met
    <3> QED BY <1>1, <1>2, <1>3, <1>4, <2>5, <3>1, <3>2
  <2> QED BY <1>2, <1>3, <2>4, <2>5, <2>6, <2>7, <2>8 DEF BmpInv
<1>8. CASE AtPlace(S)
  <2> DEFINE n == BmpCount(file, taken)
             pixels == IF first # 0 THEN [i \in 1 .. n |-> second]
                       ELSE SubSeq(file, taken + 3, taken + 2 + n)
  <2>0. PICK e \in Nat : /\ <<taken, row, at, e>> \in S
                        /\ IF bytes_read = 0 THEN e = 0 /\ at = 0 ELSE (retval <=> e > 0)
    BY <1>8 DEF AtPlace
  <2>1. BmpLeadsOn(S, file, image, taken, row, at, e)
    <3>1. row \in Nat /\ at \in Nat
      BY <1>2, <1>4
    <3>2. ~LastAt(file, image, taken, row, at)
      BY <1>1, <1>4 DEF LastAt
    <3> QED BY <1>2, <1>5, <2>0, <3>1, <3>2 DEF Chained
  <2>2. /\ BmpPacketAt(file, image, taken, row, at)
        /\ <<taken + BmpSize(file, taken), row, at + n, e + Escape(file, taken)>> \in S
    BY <1>1, <1>4, <2>1 DEF BmpLeadsOn
  <2>3. /\ n \in Nat /\ at + n <= Width /\ (first = 0 => second >= 3)
        /\ BmpSize(file, taken) \in Nat /\ BmpSize(file, taken) > 0 /\ Even(BmpSize(file, taken))
        /\ first \in Nat /\ second \in Nat
    <3>1. n \in Nat /\ at + n <= Width /\ (first = 0 => second >= 3)
      BY <1>4, <2>2 DEF BmpPacketAt
    <3>2. /\ BmpSize(file, taken) \in Nat /\ BmpSize(file, taken) > 0 /\ Even(BmpSize(file, taken))
          /\ first \in Nat /\ second \in Nat
      <4>1. row \in 1 .. Len(image) /\ at \in Nat
        BY <1>2, <1>4
      <4>2. /\ BmpSize(file, taken) \in Nat /\ BmpSize(file, taken) >= 2 /\ Even(BmpSize(file, taken))
            /\ first \in Nat /\ second \in Nat
        BY <1>2, <2>2, <4>1, BmpPacketHas
      <4> HIDE DEF first, second
      <4> QED BY <4>2
    <3> QED BY <3>1, <3>2
  <2>4. size = BmpSize(file, taken)
    BY <2>3 DEF BmpSize
  <2>5. ~(first = 0 /\ second < 3)
    BY <2>3
  <2>6. Take(pixels, size)
    <3>1. CASE first # 0
      <4>1. n = first
        BY <3>1 DEF BmpCount
      <4> QED BY <1>1, <3>1, <4>1
    <3>2. CASE first = 0
      <4>1. n = second
        BY <3>2 DEF BmpCount
      <4> QED BY <1>1, <2>5, <3>2, <4>1
    <3> QED BY <3>1, <3>2
  <2>7. pixels = [k \in 1 .. n |-> image[row][at + k]]
    <3>1. /\ row \in 1 .. Len(image) /\ at \in Nat /\ image \in Images
          /\ file \in Seq(Nat) /\ taken \in Nat
      BY <1>2, <1>4
    <3> QED BY <2>2, <3>1, BmpPixelsHere
  <2> DEFINE met == e + Escape(file, taken)
  <2>10. met \in Nat /\ (retval' <=> met > 0)
    <3>1. CASE first = 0
      <4>1. Escape(file, taken) = 1
        BY <3>1 DEF Escape
      <4>2. retval'
        BY <1>1, <3>1
      <4> QED BY <4>1, <4>2
    <3>2. CASE first # 0
      <4>1. Escape(file, taken) = 0
        BY <3>2 DEF Escape
      <4>2. met = e
        BY <4>1
      <4>3. retval' <=> bytes_read # 0 /\ retval
        BY <1>1, <3>2, Zenon
      <4> QED BY <2>0, <4>2, <4>3
    <3> QED BY <3>1, <3>2
  <2> HIDE DEF n, pixels, first, second, size, met
  <2>8. Len(pixels) = n /\ pixels \in Seq(Nat)
    <3>1. image[row] \in Seq(Nat) /\ Len(image[row]) = Width
      BY <1>2, <1>4, ImageType
    <3>2. \A k \in 1 .. n : at + k \in 1 .. Width
      BY <1>2, <1>4, <2>3
    <3>3. \A k \in 1 .. n : image[row][at + k] \in Nat
      BY <3>1, <3>2
    <3> QED BY <2>3, <2>7, <3>3
  <2>9. PixelsTo(image, row, at) \o pixels = PixelsTo(image, row, at + n)
    <3> DEFINE u == PixelsTo(image, row, at)
               v == PixelsTo(image, row, at + n)
    <3>1. at \in 0 .. Width /\ at + n \in 0 .. Width /\ at \in Nat
      BY <1>2, <1>4, <2>3
    <3>2. u \in Seq(Nat) /\ Len(u) = at /\ \A i \in 1 .. at : u[i] = image[row][i]
      BY <1>2, <1>4, <3>1, PixelsToOf
    <3>3. v \in Seq(Nat) /\ Len(v) = at + n /\ \A i \in 1 .. at + n : v[i] = image[row][i]
      BY <1>2, <1>4, <3>1, PixelsToOf
    <3> HIDE DEF u, v
    <3>4. Len(v) = Len(u) + Len(pixels)
      BY <2>8, <3>2, <3>3
    <3>5. ASSUME NEW i \in 1 .. Len(u) PROVE u[i] = v[i]
      <4>1. i \in 1 .. at /\ i \in 1 .. at + n
        BY <2>3, <3>1, <3>2
      <4> QED BY <3>2, <3>3, <4>1
    <3>6. ASSUME NEW k \in 1 .. Len(pixels) PROVE pixels[k] = v[Len(u) + k]
      <4>1. k \in 1 .. n /\ at + k \in 1 .. at + n
        BY <2>3, <2>8, <3>1
      <4>2. pixels[k] = image[row][at + k]
        BY <2>7, <4>1
      <4>3. v[at + k] = image[row][at + k]
        BY <3>3, <4>1
      <4> QED BY <3>2, <4>2, <4>3
    <3>7. u \o pixels = v
      BY <2>8, <3>2, <3>3, <3>4, <3>5, <3>6, ConcatIs
    <3> QED BY <3>7 DEF u, v
  <2>11. <<taken + size, row, at + n, met>> \in S
    BY <2>2, <2>4 DEF met
  <2>12. size \in Nat /\ size > 0 /\ Even(size) /\ bytes_read' = bytes_read + size
    BY <1>1, <2>3, <2>4
  <2> QED BY <1>7, <2>3, <2>6, <2>8, <2>9, <2>10, <2>11, <2>12
<1>9. CASE BeforeLineEnd(S)
  <2> DEFINE below == row + 1
  <2>0. at = 0 /\ bytes_read = 0 /\ row < Height /\ \E e \in Nat : <<taken, row + 1, Width, e>> \in S
    BY <1>9 DEF BeforeLineEnd
  <2>1. below \in Nat /\ below > 1 /\ below - 1 = row
    BY <1>2, <1>4, <2>0
  <2>2. PICK e \in Nat : <<taken, below, Width, e>> \in S
    BY <2>0, Zenon
  <2> HIDE DEF below
  <2>3. BmpLeadsOn(S, file, image, taken, below, Width, e)
    <3>1. ~LastAt(file, image, taken, below, Width)
      BY <2>1 DEF LastAt
    <3> QED BY <1>2, <1>4, <1>5, <2>1, <2>2, <3>1 DEF Chained
  <2>4. LineEndAt(file, taken) /\ <<taken + 2, row, 0, Aligned(taken)>> \in S
    <3>1. ~(Width < Len(image[1]))
      BY <1>4
    <3>2. LineEndAt(file, taken) /\ <<taken + 2, below - 1, 0, Aligned(taken)>> \in S
      BY <2>3, <3>1, FullRowLeadsOn
    <3> QED BY <2>1, <3>2
  <2>5. first = 0 /\ second = 0
    BY <2>4 DEF LineEndAt
  <2>6. size = 2 /\ Take(<<>>, 2)
    BY <1>1, <2>5
  <2>7. PixelsTo(image, row, 0) \o <<>> = PixelsTo(image, row, 0) /\ Even(2)
    <3>1. PixelsTo(image, row, 0) = <<>>
      BY DEF PixelsTo
    <3>2. <<>> \o <<>> = <<>>
      OBVIOUS
    <3>3. Even(2)
      BY SMT DEF Even
    <3> QED BY <3>1, <3>2, <3>3
  <2>8. Len(<<>>) = 0 /\ at + 0 = 0 /\ at + 0 <= Width /\ at = 0
    BY <1>4, <2>0
  <2>9. Aligned(taken) = 1
    <3>1. taken % 4 = 0
      BY <1>2, <2>0
    <3> QED BY <3>1 DEF Aligned
  <2> HIDE DEF first, second, size
  <2>10. /\ <<taken + 2, row, at + 0, 1>> \in S /\ (retval' <=> 1 > 0)
         /\ bytes_read' = bytes_read + 2
    <3>1. <<taken + 2, row, at + 0, 1>> \in S
      BY <2>4, <2>8, <2>9
    <3>2. retval'
      BY <1>1, <2>5, Zenon
    <3>3. 1 > 0
      OBVIOUS
    <3>4. bytes_read' = bytes_read + 2
      BY <1>1, <2>6
    <3> QED BY <3>1, <3>2, <3>3, <3>4
  <2>11. PixelsTo(image, row, at) \o <<>> = PixelsTo(image, row, at + 0)
    BY <2>7, <2>8
  <2>12. 2 \in Nat /\ 2 > 0 /\ 0 \in Nat /\ 1 \in Nat
    OBVIOUS
  <2> QED BY <1>7, <2>6, <2>7, <2>8, <2>10, <2>11, <2>12
<1> QED BY <1>5, <1>8, <1>9

(* Nothing in a row that was written looks like its early end; and the     *)
(* alignment passes over the end of the line, or leaves it for the next    *)
(* row's first packet, if that is read.                                    *)
LEMMA BmpReadRowDoneStep == ASSUME BmpInv, BmpReadRowDone PROVE BmpInv'
<1> DEFINE early == at # 0 /\ at < Width /\ file[taken + 1] = 0 /\ file[taken + 2] < 3
           bytes == IF early THEN 2 ELSE 0
<1>1. /\ phase = "read" /\ (at >= Width \/ early) /\ at' = 0
      /\ taken' = taken + bytes + Skip(bytes_read + bytes)
      /\ retval' = (retval \/ early)
      /\ image' = image /\ file' = file /\ got' = got /\ bytes_read' = 0 /\ escapes' = escapes
      /\ IF row > 1 THEN row' = row - 1 /\ phase' = phase
         ELSE row' = Height /\ phase' = "done"
  BY DEF BmpReadRowDone, RowDone
<1>2. /\ image \in Images /\ row \in 1 .. Height /\ at \in 0 .. Width
      /\ file \in Seq(Nat) /\ taken \in Nat /\ bytes_read \in Nat /\ Even(bytes_read)
      /\ retval \in BOOLEAN /\ escapes \subseteq 0 .. Height
      /\ got = [r \in 1 .. Height |->
                  IF r > row THEN (IF Met(r) THEN PixelsTo(image, r, Width) ELSE <<>>)
                  ELSE IF r = row THEN PixelsTo(image, r, at) ELSE <<>>]
  BY <1>1 DEF BmpInv, GotSo
<1>3. /\ Height = Len(image) /\ Width = Len(image[1]) /\ Height \in Nat /\ Width \in Nat
      /\ Height > 0 /\ Width > 0 /\ Height' = Height /\ Width' = Width /\ Len(file) \in Nat
      /\ \A r : Met(r)' = Met(r)
  <2>1. /\ Height = Len(image) /\ Width = Len(image[1]) /\ Height \in Nat /\ Width \in Nat
        /\ Height > 0 /\ Width > 0 /\ Height' = Height /\ Width' = Width /\ Len(file) \in Nat
    BY <1>1, <1>2, ImageType DEF Height, Width
  <2> QED BY <1>1, <2>1, Zenon DEF Met
<1>4. at # 0
  BY <1>1, <1>3
<1>5. Met(row) /\ BmpReading /\ taken % 4 = bytes_read % 4
  BY <1>1, <1>4 DEF BmpInv
<1>6. PICK S \in SUBSET BmpPlaces : Tells(S) /\ Chained(S) /\ (AtPlace(S) \/ BeforeLineEnd(S))
  BY <1>5 DEF BmpReading
<1>7. PICK e \in Nat : /\ <<taken, row, at, e>> \in S
                       /\ retval <=> e > 0
  BY <1>4, <1>6 DEF AtPlace, BeforeLineEnd
<1>8. BmpLeadsOn(S, file, image, taken, row, at, e) \/ LastAt(file, image, taken, row, at)
  <2>1. row \in Nat /\ at \in Nat
    BY <1>2, <1>3
  <2> HIDE DEF early, bytes
  <2> QED BY <1>2, <1>6, <1>7, <2>1 DEF Chained
<1>9. ~early
  <2> SUFFICES ASSUME early PROVE FALSE
    OBVIOUS
  <2>1. BmpPacketAt(file, image, taken, row, at)
    BY <1>3, <1>8 DEF BmpLeadsOn, LastAt
  <2>2. file[taken + 2] \in Nat /\ file[taken + 2] >= 3
    <3>1. row \in 1 .. Len(image) /\ at \in Nat
      BY <1>2, <1>3
    <3>2. file[taken + 2] \in Nat
      BY <1>2, <2>1, <3>1, BmpPacketHas
    <3> QED BY <2>1, <3>2 DEF BmpPacketAt
  <2> QED BY <2>2
<1>10. at = Width /\ taken' = taken + Skip(bytes_read) /\ retval' = retval
  <2>1. at = Width /\ bytes = 0
    BY <1>1, <1>2, <1>3, <1>9
  <2>2. retval' = retval
    BY <1>1, <1>2, <1>9, Zenon
  <2> HIDE DEF early, bytes
  <2> QED BY <1>1, <1>2, <2>1, <2>2, SkipOf
<1> HIDE DEF early, bytes
<1>11. retval' <=> row \in escapes
  <2>1. row \in Nat
    BY <1>2, <1>3
  <2>2. <<taken, row, Width, e>> \in S
    BY <1>7, <1>10
  <2>3. e > 0 <=> row \in escapes
    BY <1>2, <1>6, <2>1, <2>2, Zenon DEF Tells
  <2> QED BY <1>7, <1>10, <2>3, Zenon
<1>12. ~(at < Len(image[1]))
  BY <1>3, <1>10
<1>13. LineEndAt(file, taken) /\ taken + 2 <= Len(file)
  <2>1. CASE LastAt(file, image, taken, row, at)
    BY <2>1 DEF LastAt, LineEndAt
  <2>2. CASE BmpLeadsOn(S, file, image, taken, row, at, e)
    <3>1. LineEndAt(file, taken)
      BY <1>12, <2>2, FullRowLeadsOn
    <3> QED BY <3>1 DEF LineEndAt
  <2> QED BY <1>8, <2>1, <2>2
<1>14. /\ taken' \in Nat /\ taken' <= Len(file) /\ taken' % 4 = 0
       /\ \/ taken' = taken /\ Aligned(taken) = 1
          \/ taken' = taken + 2 /\ Aligned(taken) = 0
  <2>1. CASE bytes_read % 4 = 0
    <3>1. Skip(bytes_read) = 0
      BY <1>2, <2>1 DEF Skip
    <3>2. taken % 4 = 0 /\ taken' = taken
      BY <1>2, <1>5, <1>10, <2>1, <3>1
    <3>3. Aligned(taken) = 1
      BY <3>2 DEF Aligned
    <3> QED BY <1>2, <1>3, <1>13, <3>2, <3>3
  <2>2. CASE bytes_read % 4 # 0
    <3>1. bytes_read % 4 = 2
      BY <1>2, <2>2, SMT DEF Even
    <3>2. Skip(bytes_read) = 2
      BY <3>1 DEF Skip
    <3>3. taken % 4 = 2 /\ taken' = taken + 2
      BY <1>5, <1>10, <3>1, <3>2
    <3>4. Aligned(taken) = 0
      BY <3>3 DEF Aligned
    <3>5. (taken + 2) % 4 = 0
      BY <1>2, <3>3, SMT
    <3> QED BY <1>2, <1>3, <1>13, <3>3, <3>4, <3>5
  <2> QED BY <2>1, <2>2
<1>15. /\ bytes_read' \in Nat /\ Even(bytes_read)' /\ retval' \in BOOLEAN
       /\ taken' % 4 = bytes_read' % 4
  BY <1>1, <1>2, <1>10, <1>14 DEF Even
<1> DEFINE above == row - 1
<1>16. above \in Nat /\ above < Height /\ above + 1 = row
  BY <1>2, <1>3
<1>17. Met(above) <=> retval'
  <2>1. \A q : q \in above + 1 .. Height <=> q = row \/ q \in row + 1 .. Height
    BY <1>2, <1>3
  <2> HIDE DEF above
  <2> QED BY <1>5, <1>11, <2>1, Zenon DEF Met
<1>18. got = [r \in 1 .. Height |->
                IF r > above THEN (IF Met(r) THEN PixelsTo(image, r, Width) ELSE <<>>)
                ELSE <<>>]
  <2>1. ASSUME NEW r \in 1 .. Height
        PROVE  (IF r > row THEN (IF Met(r) THEN PixelsTo(image, r, Width) ELSE <<>>)
                ELSE IF r = row THEN PixelsTo(image, r, Width) ELSE <<>>) =
                 IF r > above THEN (IF Met(r) THEN PixelsTo(image, r, Width) ELSE <<>>)
                 ELSE <<>>
    <3>1. (r > above) <=> (r > row \/ r = row)
      BY <1>2, <1>3
    <3> HIDE DEF above
    <3>2. CASE r > row
      BY <3>1, <3>2, Zenon
    <3>3. CASE ~(r > row) /\ r = row
      BY <1>5, <3>1, <3>3, Zenon
    <3>4. CASE ~(r > row) /\ r # row
      BY <3>1, <3>4, Zenon
    <3> QED BY <3>2, <3>3, <3>4
  <2> HIDE DEF above
  <2> QED BY <1>2, <1>10, <2>1
<1>19. \A r : PixelsTo(image, r, 0) = <<>>
  BY DEF PixelsTo
<1>20. CASE row > 1
  <2>1. row' = above /\ phase' = "read" /\ above > 0
    BY <1>1, <1>2, <1>3, <1>20
  <2> HIDE DEF above
  <2>2. LineEndAt(file, taken) /\ <<taken + 2, above, 0, Aligned(taken)>> \in S
    <3>1. ~LastAt(file, image, taken, row, at)
      BY <1>2, <1>3, <1>20 DEF LastAt
    <3>2. BmpLeadsOn(S, file, image, taken, row, at, e)
      BY <1>8, <3>1
    <3> QED BY <1>12, <3>2, FullRowLeadsOn DEF above
  <2>3. BmpReading'
    <3>1. CASE taken' = taken /\ Aligned(taken) = 1
      <4>1. <<taken', row' + 1, Width', e>> \in S
        BY <1>3, <1>7, <1>10, <1>16, <2>1, <3>1
      <4>2. at' = 0 /\ bytes_read' = 0 /\ row' < Height'
        BY <1>1, <1>3, <1>16, <2>1
      <4>3. BeforeLineEnd(S)'
        BY <4>1, <4>2, Zenon DEF BeforeLineEnd
      <4>4. Tells(S)' /\ Chained(S)'
        BY <1>1, <1>3, <1>6, Zenon DEF Tells, Chained
      <4> QED BY <1>6, <4>3, <4>4, Zenon DEF BmpReading
    <3>2. CASE taken' = taken + 2 /\ Aligned(taken) = 0
      <4>1. <<taken', row', at', 0>> \in S
        BY <1>1, <2>1, <2>2, <3>2
      <4>2. at' = 0 /\ bytes_read' = 0 /\ 0 \in Nat
        BY <1>1
      <4>3. AtPlace(S)'
        BY <4>1, <4>2, Zenon DEF AtPlace
      <4>4. Tells(S)' /\ Chained(S)'
        BY <1>1, <1>3, <1>6, Zenon DEF Tells, Chained
      <4> QED BY <1>6, <4>3, <4>4, Zenon DEF BmpReading
    <3> QED BY <1>14, <3>1, <3>2
  <2>4. GotSo'
    <3>1. got' = [r \in 1 .. Height |->
                    IF r > above THEN (IF Met(r) THEN PixelsTo(image, r, Width) ELSE <<>>)
                    ELSE IF r = above THEN PixelsTo(image, r, 0) ELSE <<>>]
      BY <1>1, <1>18, <1>19
    <3> QED BY <1>1, <1>3, <2>1, <3>1 DEF GotSo
  <2>5. row' \in 1 .. Height' /\ at' \in 0 .. Width' /\ escapes' \subseteq 0 .. Height'
    BY <1>1, <1>2, <1>3, <1>16, <2>1
  <2>6. Met(row)' <=> retval'
    <3>1. Met(row)' <=> Met(above)
      BY <1>1, <1>3, <2>1, Zenon DEF Met
    <3> QED BY <1>17, <3>1, Zenon
  <2> QED BY <1>1, <1>2, <1>14, <1>15, <2>1, <2>3, <2>4, <2>5, <2>6 DEF BmpInv
<1>21. CASE ~(row > 1)
  <2>1. row = 1 /\ row' = Height /\ phase' = "done" /\ above = 0
    BY <1>1, <1>2, <1>3, <1>21
  <2> HIDE DEF above
  <2>2. LastAt(file, image, taken, row, at)
    BY <1>8, <1>12, <1>21, FullRowLeadsOn
  <2>3. \/ taken' = Len(file)
        \/ taken' + 2 = Len(file) /\ LineEndAt(file, taken')
    <3>1. taken + 2 = Len(file) /\ LineEndAt(file, taken)
      BY <2>2 DEF LastAt
    <3> QED BY <1>14, <3>1
  <2>4. \A r \in 1 .. Height : r > above
    BY <1>3, <2>1
  <2>5. got' = [r \in 1 .. Height |-> IF Met(r) THEN PixelsTo(image, r, Width) ELSE <<>>]
    BY <1>1, <1>18, <2>4
  <2>6. row' \in 1 .. Height' /\ at' \in 0 .. Width' /\ escapes' \subseteq 0 .. Height'
    BY <1>1, <1>2, <1>3, <2>1
  <2>7. retval' <=> Met(0)'
    BY <1>3, <1>17, <2>1, Zenon
  <2>8. [r \in 1 .. Height |-> IF Met(r) THEN PixelsTo(image, r, Width) ELSE <<>>]' =
          [r \in 1 .. Height |-> IF Met(r) THEN PixelsTo(image, r, Width) ELSE <<>>]
    BY <1>1, <1>3
  <2> QED BY <1>1, <1>2, <1>14, <1>15, <2>1, <2>3, <2>5, <2>6, <2>7, <2>8 DEF BmpInv
<1> QED BY <1>20, <1>21

(* Once a row is not read, none above it is.                               *)
LEMMA BmpSkipRowStep == ASSUME BmpInv, BmpSkipRow PROVE BmpInv'
<1>1. /\ phase = "read" /\ bytes_read = 0 /\ ~retval /\ at' = 0
      /\ image' = image /\ file' = file /\ taken' = taken /\ got' = got
      /\ bytes_read' = bytes_read /\ retval' = retval /\ escapes' = escapes
      /\ IF row > 1 THEN row' = row - 1 /\ phase' = phase
         ELSE row' = Height /\ phase' = "done"
  BY DEF BmpSkipRow, RowDone, bmpVars
<1>2. /\ image \in Images /\ row \in 1 .. Height /\ at = 0 /\ ~Met(row)
      /\ file \in Seq(Nat) /\ taken \in Nat /\ taken <= Len(file)
      /\ retval \in BOOLEAN /\ escapes \subseteq 0 .. Height
      /\ got = [r \in 1 .. Height |->
                  IF r > row THEN (IF Met(r) THEN PixelsTo(image, r, Width) ELSE <<>>)
                  ELSE IF r = row THEN PixelsTo(image, r, 0) ELSE <<>>]
  BY <1>1 DEF BmpInv, GotSo
<1>3. /\ Height \in Nat /\ Width \in Nat /\ Height > 0 /\ Height' = Height /\ Width' = Width
      /\ \A r : Met(r)' = Met(r)
  <2>1. /\ Height \in Nat /\ Width \in Nat /\ Height > 0 /\ Height' = Height /\ Width' = Width
    BY <1>1, <1>2, ImageType DEF Height, Width
  <2> QED BY <1>1, <2>1, Zenon DEF Met
<1>4. \A r \in Nat : r <= row => ~Met(r)
  <2> SUFFICES ASSUME NEW r \in Nat, r <= row, Met(r) PROVE FALSE
    OBVIOUS
  <2>1. \A q \in row + 1 .. Height : q \in r + 1 .. Height
    BY <1>2, <1>3
  <2> QED BY <1>2, <2>1, Zenon DEF Met
<1> DEFINE above == row - 1
<1>5. above \in Nat /\ above <= row /\ above < Height
  BY <1>2, <1>3
<1>6. got = [r \in 1 .. Height |->
               IF r > above THEN (IF Met(r) THEN PixelsTo(image, r, Width) ELSE <<>>)
               ELSE IF r = above THEN PixelsTo(image, r, 0) ELSE <<>>]
  <2>1. \A r : PixelsTo(image, r, 0) = <<>>
    BY DEF PixelsTo
  <2>2. ASSUME NEW r \in 1 .. Height
        PROVE  (IF r > row THEN (IF Met(r) THEN PixelsTo(image, r, Width) ELSE <<>>)
                ELSE IF r = row THEN PixelsTo(image, r, 0) ELSE <<>>) =
                 IF r > above THEN (IF Met(r) THEN PixelsTo(image, r, Width) ELSE <<>>)
                 ELSE IF r = above THEN PixelsTo(image, r, 0) ELSE <<>>
    <3>1. (r > above) <=> (r > row \/ r = row)
      BY <1>2, <1>3
    <3> HIDE DEF above
    <3>2. CASE r > row
      BY <3>1, <3>2, Zenon
    <3>3. CASE ~(r > row) /\ r = row
      BY <1>2, <2>1, <3>1, <3>3, Zenon
    <3>4. CASE ~(r > row) /\ r # row
      BY <2>1, <3>1, <3>4, Zenon
    <3> QED BY <3>2, <3>3, <3>4
  <2> HIDE DEF above
  <2> QED BY <1>2, <2>2
<1>7. CASE row > 1
  <2>1. row' = above /\ phase' = "read" /\ above > 0
    BY <1>1, <1>2, <1>3, <1>7
  <2> HIDE DEF above
  <2>2. GotSo'
    BY <1>1, <1>3, <1>6, <2>1 DEF GotSo
  <2>3. ~Met(row)'
    <3>1. Met(row)' <=> Met(above)
      BY <1>1, <1>3, <2>1, Zenon DEF Met
    <3> QED BY <1>4, <1>5, <3>1
  <2>4. row' \in 1 .. Height' /\ at' \in 0 .. Width' /\ escapes' \subseteq 0 .. Height'
    BY <1>1, <1>2, <1>3, <1>5, <2>1
  <2> QED BY <1>1, <1>2, <2>1, <2>2, <2>3, <2>4, SMT DEF BmpInv, Even
<1>8. CASE ~(row > 1)
  <2>1. row = 1 /\ row' = Height /\ phase' = "done" /\ above = 0
    BY <1>1, <1>2, <1>3, <1>8
  <2> HIDE DEF above
  <2>2. ~Met(0)' /\ ~Met(1)'
    BY <1>3, <1>4, <2>1
  <2>3. \A r \in 1 .. Height : r > above
    BY <1>3, <2>1
  <2>4. got' = [r \in 1 .. Height |-> IF Met(r) THEN PixelsTo(image, r, Width) ELSE <<>>]
    BY <1>1, <1>6, <2>3
  <2>5. [r \in 1 .. Height |-> IF Met(r) THEN PixelsTo(image, r, Width) ELSE <<>>]' =
          [r \in 1 .. Height |-> IF Met(r) THEN PixelsTo(image, r, Width) ELSE <<>>]
    BY <1>1, <1>3
  <2>6. row' \in 1 .. Height' /\ at' \in 0 .. Width' /\ escapes' \subseteq 0 .. Height'
    BY <1>1, <1>2, <1>3, <2>1
  <2>7. (retval' <=> Met(0)') /\ ~Met(1)' /\ retval' \in BOOLEAN
    BY <1>1, <1>2, <2>2, Zenon
  <2>8. bytes_read' \in Nat /\ Even(bytes_read)' /\ taken' \in Nat /\ taken' <= Len(file')
    BY <1>1, <1>2 DEF Even
  <2> QED BY <1>1, <1>2, <2>1, <2>4, <2>5, <2>6, <2>7, <2>8 DEF BmpInv
<1> QED BY <1>7, <1>8

(* Every place has two bytes at least after it.                            *)
LEMMA BmpPlaceInside ==
  ASSUME NEW S, NEW f \in Seq(Nat), NEW im \in Images, NEW t \in Nat, NEW r \in Nat, NEW a \in Nat,
         NEW e, BmpLeadsOn(S, f, im, t, r, a, e) \/ LastAt(f, im, t, r, a)
  PROVE  t + 2 <= Len(f)
<1>1. CASE LastAt(f, im, t, r, a)
  BY <1>1 DEF LastAt, LineEndAt
<1>2. CASE r \in 1 .. Len(im) /\ BmpPacketAt(f, im, t, r, a)
  BY <1>2, BmpPacketHas
<1>3. CASE LineEndAt(f, t)
  BY <1>3 DEF LineEndAt
<1> QED BY <1>1, <1>2, <1>3 DEF BmpLeadsOn

LEMMA BmpTypes == ASSUME BmpInv PROVE StreamTypeOK
<1>1. /\ image \in Images /\ phase \in {"write", "read", "done"}
      /\ row \in 1 .. Height /\ at \in 0 .. Width /\ file \in Seq(Nat) /\ taken \in Nat
  BY DEF BmpInv
<1>2. /\ image \in Seq(Seq(Nat)) /\ Height = Len(image) /\ Width = Len(image[1])
      /\ Height \in Nat /\ Width \in Nat /\ Len(file) \in Nat
  BY <1>1, ImageType DEF Height, Width
<1>3. taken <= Len(file)
  <2>1. CASE phase = "write"
    <3>1. taken = 0
      BY <2>1 DEF BmpInv
    <3> QED BY <1>2, <3>1
  <2>2. CASE phase = "read" /\ BmpReading
    <3>1. PICK S \in SUBSET BmpPlaces : Tells(S) /\ Chained(S) /\ (AtPlace(S) \/ BeforeLineEnd(S))
      BY <2>2 DEF BmpReading
    <3>2. PICK r \in Nat, a \in Nat, e \in Nat : <<taken, r, a, e>> \in S
      <4>1. row \in Nat /\ row + 1 \in Nat /\ at \in Nat
        BY <1>1, <1>2
      <4> QED BY <1>2, <3>1, <4>1, Zenon DEF AtPlace, BeforeLineEnd
    <3>3. BmpLeadsOn(S, file, image, taken, r, a, e) \/ LastAt(file, image, taken, r, a)
      BY <1>1, <3>1, <3>2, Zenon DEF Chained
    <3>4. taken + 2 <= Len(file)
      BY <1>1, <3>3, BmpPlaceInside
    <3> QED BY <1>1, <1>2, <3>4
  <2> QED BY <1>1, <2>1, <2>2 DEF BmpInv
<1>4. \A r \in 1 .. Height, a \in 0 .. Width : PixelsTo(image, r, a) \in Seq(Nat)
  BY <1>1, <1>2, PixelsToOf
<1>5. Width \in 0 .. Width /\ <<>> \in Seq(Nat)
  BY <1>2
<1>6. got \in [1 .. Height -> Seq(Nat)]
  <2>1. CASE phase = "write"
    BY <1>5, <2>1 DEF BmpInv
  <2>2. CASE phase = "read"
    <3>1. got = [r \in 1 .. Height |->
                   IF r > row THEN (IF Met(r) THEN PixelsTo(image, r, Width) ELSE <<>>)
                   ELSE IF r = row THEN PixelsTo(image, r, at) ELSE <<>>]
      BY <2>2 DEF BmpInv, GotSo
    <3> QED BY <1>1, <1>4, <1>5, <3>1
  <2>3. CASE phase = "done"
    <3>1. got = [r \in 1 .. Height |-> IF Met(r) THEN PixelsTo(image, r, Width) ELSE <<>>]
      BY <2>3 DEF BmpInv
    <3> QED BY <1>4, <1>5, <3>1
  <2> QED BY <1>1, <2>1, <2>2, <2>3
<1>7. row \in 0 .. Height /\ taken \in 0 .. Len(file)
  BY <1>1, <1>2, <1>3
<1> QED BY <1>1, <1>2, <1>6, <1>7 DEF StreamTypeOK

-----------------------------------------------------------------------------
(* Either format.                                                          *)

IInv ==
  /\ deep \in BOOLEAN /\ format \in {"tga", "bmp"}
  /\ format = "tga" => TgaInv /\ bytes_read = 0 /\ retval = TRUE /\ escapes = {}
  /\ format = "bmp" => BmpInv

LEMMA BmpInitInv == Init => BmpInv
<1> SUFFICES ASSUME Init PROVE BmpInv
  OBVIOUS
<1>1. /\ image \in Images /\ phase = "write" /\ row = Height /\ at = 0 /\ file = <<>>
      /\ taken = 0 /\ got = [r \in 1 .. Height |-> <<>>] /\ bytes_read = 0
      /\ retval = TRUE /\ escapes = {}
  BY DEF Init, StreamInit
<1>2. /\ Height \in Nat /\ Height > 0 /\ Width \in Nat /\ Width > 0
      /\ Len(file) = 0 /\ file \in Seq(Nat)
  BY <1>1, ImageType DEF Height, Width
<1>3. BmpWritten
  <2> DEFINE S == {<<0, Height, 0, 0>>}
  <2>1. S \in SUBSET BmpPlaces
    BY <1>2 DEF BmpPlaces
  <2>2. <<0, Height, 0, 0>> \in S /\ <<Len(file), row, at, 0>> = <<0, Height, 0, 0>>
    BY <1>1, <1>2
  <2>3. \A t, r, a, e : <<t, r, a, e>> \in S => r = Height /\ a = 0
    OBVIOUS
  <2>4. \A x \in S : x = <<0, Height, 0, 0>>
    OBVIOUS
  <2> HIDE DEF S
  <2>5. Tells(S) /\ Behind(S)
    <3>1. ~(0 = Width) /\ Height >= Height
      BY <1>2
    <3>2. Tells(S)
      BY <2>3, <3>1, Zenon DEF Tells
    <3>3. Behind(S)
      BY <1>1, <2>3, <3>1, Zenon DEF Behind
    <3> QED BY <3>2, <3>3
  <2>6. 0 \in Nat /\ (0 > 0 <=> row \in escapes)
    BY <1>1
  <2> QED BY <2>1, <2>2, <2>4, <2>5, <2>6, Zenon DEF BmpWritten
<1>4. Even(bytes_read) /\ bytes_read \in Nat
  BY <1>1, SMT DEF Even
<1> QED BY <1>1, <1>2, <1>3, <1>4 DEF BmpInv

LEMMA NextInv == ASSUME IInv, [Next]_vars PROVE IInv'
<1>1. CASE format = "tga" /\ TgaNext /\ UNCHANGED <<bmpVars, format>>
  <2>1. TgaInv'
    BY <1>1, TgaNextInv DEF IInv
  <2>2. deep' = deep
    BY <1>1 DEF TgaNext, TgaWritePacket, TgaWriteRowDone, TgaReadPacket, TgaReadRowDone
  <2>3. /\ bytes_read' = bytes_read /\ retval' = retval /\ escapes' = escapes /\ format' = format
    BY <1>1 DEF bmpVars
  <2> QED BY <1>1, <2>1, <2>2, <2>3, Zenon DEF IInv
<1>2. CASE format = "bmp" /\ BmpNext /\ UNCHANGED <<deep, format>>
  <2>1. BmpInv'
    BY <1>2, BmpWritePacketStep, BmpWriteRowDoneStep, BmpReadPacketStep, BmpReadRowDoneStep,
       BmpSkipRowStep DEF IInv, BmpNext
  <2> QED BY <1>2, <2>1 DEF IInv
<1>3. CASE UNCHANGED vars
  <2>1. UNCHANGED streamVars /\ UNCHANGED bmpVars /\ deep' = deep /\ format' = format
    BY <1>3 DEF vars
  <2>2. TgaInv => TgaInv'
    BY <2>1, TgaInvStutters
  <2>3. BmpInv => BmpInv'
    BY <2>1, BmpInvStutters
  <2>4. bytes_read' = bytes_read /\ retval' = retval /\ escapes' = escapes
    BY <2>1 DEF bmpVars
  <2> QED BY <2>1, <2>2, <2>3, <2>4, Zenon DEF IInv
<1> QED BY <1>1, <1>2, <1>3 DEF Next

LEMMA InvHolds == Spec => []IInv
<1>1. Init => IInv
  BY TgaInitInv, BmpInitInv DEF Init, IInv
<1>2. IInv /\ [Next]_vars => IInv'
  BY NextInv
<1> QED BY <1>1, <1>2, PTL DEF Spec

-----------------------------------------------------------------------------
(* The size of a Targa file.                                               *)

(* What a row takes at most, and what the rows below the current one do.   *)
RowMost == Width + Packets(Width)
RowsMost == (Height - row) * RowMost

(* With k full packets' worth of pixels behind it, the writer has spent k  *)
(* bytes on heads; one more when a literal was cut short, and then for a   *)
(* repeat that makes up for it.                                            *)
RowRoom(k, before) ==
  /\ k * MaxPacket <= at
  /\ \/ Len(file) <= before + at + k
     \/ Len(file) <= before + at + k + 1 /\ TGA_rlecount(at + 1, Width - at) >= 3

SizeInv ==
  /\ phase = "write" =>
       /\ at < Width => \E k, before \in Nat : before <= RowsMost /\ RowRoom(k, before)
       /\ at = Width => Len(file) <= RowsMost + RowMost
  /\ phase # "write" => Len(file) <= Height * RowMost

LEMMA QuotientAtLeast ==
  ASSUME NEW x \in Nat, NEW m \in Nat, m > 0, NEW k \in Nat, k * m <= x
  PROVE  x \div m \in Nat /\ k <= x \div m
<1>1. x \div m \in Nat /\ x < m * (x \div m) + m
  BY SMT
<1> DEFINE q == x \div m
<1> HIDE DEF q
<1>2. SUFFICES ASSUME q + 1 <= k PROVE FALSE
  BY <1>1 DEF q
<1>3. (q + 1) * m <= k * m
  BY <1>1, <1>2 DEF q
<1>4. (q + 1) * m = m * q + m
  BY <1>1 DEF q
<1> QED BY <1>1, <1>3, <1>4 DEF q

(* A line of w pixels has room for the head of a packet that begins in it. *)
LEMMA PacketsMost ==
  ASSUME NEW w \in Nat, NEW k \in Nat, k * MaxPacket < w
  PROVE  Packets(w) \in Nat /\ k + 1 <= Packets(w)
<1>1. MaxPacket \in Nat /\ MaxPacket > 0 /\ k * MaxPacket \in Nat
  BY PacketAssumption
<1>2. (k + 1) * MaxPacket = k * MaxPacket + MaxPacket
  BY <1>1
<1>3. w + MaxPacket - 1 \in Nat /\ (k + 1) * MaxPacket <= w + MaxPacket - 1
  BY <1>1, <1>2
<1>4. k + 1 \in Nat
  OBVIOUS
<1>5. (w + MaxPacket - 1) \div MaxPacket \in Nat /\ k + 1 <= (w + MaxPacket - 1) \div MaxPacket
  BY <1>1, <1>3, <1>4, QuotientAtLeast
<1> QED BY <1>5 DEF Packets

(* Why a literal ends where it does.                                       *)
LEMMA LiteralEndsAt ==
  ASSUME NEW left \in Nat, left > 0
  PROVE  \/ LiteralLength(left) = left
         \/ LiteralLength(left) = MaxPacket
         \/ WorthRepeating(TGA_rlecount(at + 1 + LiteralLength(left), left - LiteralLength(left)))
<1> DEFINE ends == {n \in 1 .. left :
                      n = left \/ n = MaxPacket \/ WorthRepeating(TGA_rlecount(at + 1 + n, left - n))}
<1>1. LiteralEnds(left) = CHOOSE n \in ends : \A k \in ends : n <= k
  BY DEF LiteralEnds
<1>2. ends \subseteq Nat /\ left \in ends
  OBVIOUS
<1>3. LiteralEnds(left) \in ends
  <2> HIDE DEF ends
  <2> QED BY <1>1, <1>2, LeastExists
<1>4. \/ LiteralEnds(left) = left
      \/ LiteralEnds(left) = MaxPacket
      \/ WorthRepeating(TGA_rlecount(at + 1 + LiteralEnds(left), left - LiteralEnds(left)))
  BY <1>3
<1>5. LiteralEnds(left) \in 1 .. left
  BY <1>3
<1>6. \/ LiteralLength(left) = left
      \/ LiteralLength(left) = MaxPacket
      \/ LiteralLength(left) = LiteralEnds(left)
  BY <1>5, PacketAssumption DEF LiteralLength
<1> QED BY <1>4, <1>6

(* What a turn of the writer's loop adds to the file and to the row.       *)
LEMMA PacketAdds ==
  ASSUME TgaInv, TgaWritePacket
  PROVE  LET left == Width - at
             one == TGA_rlecount(at + 1, left)
             n == LiteralLength(left)
         IN  /\ RepeatsHere(left) => /\ one \in 2 .. left
                                     /\ at' = at + one /\ Len(file') = Len(file) + 2
             /\ ~RepeatsHere(left) => /\ n \in 1 .. left
                                      /\ at' = at + n /\ Len(file') = Len(file) + (n + 1)
<1> DEFINE left == Width - at
           here == [i \in 1 .. left |-> Stored[image[row][at + i]]]
           one == TGA_rlecount(at + 1, left)
           n == LiteralLength(left)
<1>1. /\ at < Width /\ file \in Seq(Nat) /\ Len(file) \in Nat /\ at \in Nat
  BY DEF TgaInv, TgaWritePacket
<1>2. left \in Nat /\ left > 0 /\ here \in Seq(Nat) /\ Len(here) = left
  BY <1>1, LineHere
<1>3. CASE RepeatsHere(left)
  <2>1. one \in 0 .. left
    <3>1. at + 1 \in Nat /\ MaxPacket \in Nat
      BY <1>1, PacketAssumption
    <3>2. one = RunLength(image[row], at + 1, left, MaxPacket)
      BY DEF TGA_rlecount
    <3> HIDE DEF one, left
    <3> QED BY <1>2, <3>1, <3>2, RunLengthOf
  <2>2. one >= 2
    BY <1>3, <2>1 DEF RepeatsHere, WorthRepeating
  <2>3. Emit(<<RepeatHead(one), here[1]>>, one)
    BY <1>3 DEF TgaWritePacket, here
  <2> HIDE DEF one, left, here
  <2>4. one \in Nat /\ RepeatHead(one) \in Nat /\ here[1] \in Nat
    BY <1>2, <2>1, <2>2, PacketAssumption DEF RepeatHead
  <2>5. at' = at + one /\ file' = file \o <<RepeatHead(one), here[1]>>
    BY <2>3 DEF Emit
  <2>6. Len(file') = Len(file) + 2
    BY <1>1, <2>4, <2>5
  <2> QED BY <1>2, <1>3, <2>1, <2>2, <2>5, <2>6 DEF one, left
<1>4. CASE ~RepeatsHere(left)
  <2>1. n \in 1 .. left
    BY <1>2, LiteralLengthOf
  <2>2. Emit(<<LiteralHead(n)>> \o SubSeq(here, 1, n), n)
    BY <1>4 DEF TgaWritePacket, here
  <2> HIDE DEF n, left, here
  <2>3. LiteralHead(n) \in Nat
    BY <1>2, <2>1, PacketAssumption DEF LiteralHead
  <2>4. SubSeq(here, 1, n) \in Seq(Nat) /\ Len(SubSeq(here, 1, n)) = n
    BY <1>2, <2>1
  <2>5. /\ <<LiteralHead(n)>> \o SubSeq(here, 1, n) \in Seq(Nat)
        /\ Len(<<LiteralHead(n)>> \o SubSeq(here, 1, n)) = n + 1
    BY <1>2, <2>1, <2>3, <2>4
  <2>6. at' = at + n /\ file' = file \o (<<LiteralHead(n)>> \o SubSeq(here, 1, n))
    BY <2>2 DEF Emit
  <2>7. Len(file') = Len(file) + (n + 1)
    BY <1>1, <2>5, <2>6
  <2> QED BY <1>4, <2>1, <2>6, <2>7 DEF n, left
<1> QED BY <1>3, <1>4

LEMMA RowMostType ==
  ASSUME TgaInv
  PROVE  /\ Height \in Nat /\ Width \in Nat /\ Width > 0 /\ row \in 1 .. Height /\ at \in 0 .. Width
         /\ Len(file) \in Nat /\ Packets(Width) \in Nat
         /\ RowMost \in Nat /\ RowsMost \in Nat
<1>1. /\ Height \in Nat /\ Width \in Nat /\ Width > 0 /\ row \in 1 .. Height /\ at \in 0 .. Width
      /\ Len(file) \in Nat
  BY ImageType DEF TgaInv, Height, Width
<1>2. 0 * MaxPacket = 0
  BY PacketAssumption
<1>3. Packets(Width) \in Nat
  BY <1>1, <1>2, PacketsMost
<1>4. RowMost \in Nat
  BY <1>1, <1>3 DEF RowMost
<1>5. Height - row \in Nat
  BY <1>1
<1>6. (Height - row) * RowMost \in Nat
  BY <1>4, <1>5
<1> QED BY <1>1, <1>3, <1>4, <1>6 DEF RowsMost

LEMMA SizeWritePacketStep ==
  ASSUME TgaInv, SizeInv, ~deep, TgaWritePacket
  PROVE  SizeInv'
<1> DEFINE left == Width - at
           one == TGA_rlecount(at + 1, left)
           n == LiteralLength(left)
<1>1. /\ phase = "write" /\ at < Width /\ phase' = phase /\ row' = row /\ image' = image /\ deep' = deep
  BY DEF TgaWritePacket, Emit
<1>2. /\ Width' = Width /\ Height' = Height /\ RowMost' = RowMost /\ RowsMost' = RowsMost
      /\ \A from, max : TGA_rlecount(from, max)' = TGA_rlecount(from, max)
  BY <1>1 DEF Width, Height, RowMost, RowsMost, Packets, TGA_rlecount, RunLength
<1>3. /\ Width \in Nat /\ at \in Nat /\ Len(file) \in Nat /\ RowsMost \in Nat /\ RowMost \in Nat
      /\ left \in Nat /\ left > 0 /\ MaxPacket \in Nat
  BY <1>1, RowMostType, PacketAssumption
<1>4. PICK k \in Nat, before \in Nat : before <= RowsMost /\ RowRoom(k, before)
  BY <1>1 DEF SizeInv
<1>5. k * MaxPacket \in Nat /\ k * MaxPacket <= at /\ (k + 1) * MaxPacket = k * MaxPacket + MaxPacket
  BY <1>3, <1>4 DEF RowRoom
<1>6. k + 1 <= Packets(Width) /\ RowMost = Width + Packets(Width) /\ Packets(Width) \in Nat
  <2>1. k * MaxPacket < Width
    BY <1>1, <1>3, <1>5
  <2> QED BY <1>3, <2>1, PacketsMost DEF RowMost
<1>7. /\ RepeatsHere(left) => /\ one \in 2 .. left
                              /\ at' = at + one /\ Len(file') = Len(file) + 2
      /\ ~RepeatsHere(left) => /\ n \in 1 .. left
                               /\ at' = at + n /\ Len(file') = Len(file) + (n + 1)
  BY PacketAdds
<1>8. at' <= Width /\ at' \in Nat
  BY <1>3, <1>7
<1>9. ASSUME at' = Width, Len(file') <= before + Width + Packets(Width)
      PROVE  SizeInv'
  <2>1. Len(file') <= RowsMost + RowMost
    BY <1>3, <1>4, <1>6, <1>7, <1>9
  <2>2. ~(at' < Width') /\ phase' = "write"
    BY <1>1, <1>2, <1>3, <1>9
  <2> QED BY <1>2, <2>1, <2>2 DEF SizeInv
<1>10. ASSUME NEW j \in Nat, j * MaxPacket <= at', j <= Packets(Width),
              Len(file') <= before + at' + j
       PROVE  SizeInv'
  <2>1. CASE at' = Width
    <3>1. Len(file') <= before + Width + Packets(Width)
      BY <1>3, <1>6, <1>7, <1>10, <2>1
    <3> QED BY <1>9, <2>1, <3>1
  <2>2. CASE at' < Width
    <3>1. RowRoom(j, before)'
      BY <1>10 DEF RowRoom
    <3>2. before <= RowsMost' /\ phase' = "write" /\ at' # Width' /\ Width' = Width
      BY <1>1, <1>2, <1>3, <1>4, <1>8, <2>2
    <3> QED BY <3>1, <3>2 DEF SizeInv
  <2> QED BY <1>3, <1>8, <2>1, <2>2
<1>11. ASSUME at' < Width, k * MaxPacket <= at', Len(file') <= before + at' + k + 1,
              TGA_rlecount(at' + 1, Width - at') >= 3
       PROVE  SizeInv'
  <2>1. RowRoom(k, before)'
    <3>1. TGA_rlecount(at + 1, Width - at)' = TGA_rlecount(at' + 1, Width - at')
      BY <1>1, <1>2 DEF TGA_rlecount, RunLength, Width
    <3> QED BY <1>11, <3>1 DEF RowRoom
  <2>2. before <= RowsMost' /\ phase' = "write" /\ at' # Width' /\ Width' = Width
    BY <1>1, <1>2, <1>3, <1>4, <1>8, <1>11
  <2> QED BY <2>1, <2>2 DEF SizeInv
<1>12. CASE RepeatsHere(left)
  <2>1. /\ one \in 2 .. left /\ at' = at + one /\ Len(file') = Len(file) + 2
    BY <1>7, <1>12
  <2> HIDE DEF one
  <2>2. k <= Packets(Width) /\ k * MaxPacket <= at'
    BY <1>3, <1>5, <1>6, <2>1
  <2>3. CASE Len(file) <= before + at + k
    <3>1. Len(file') <= before + at' + k
      BY <1>3, <2>1, <2>3
    <3> QED BY <1>10, <2>2, <3>1
  <2>4. CASE Len(file) <= before + at + k + 1 /\ TGA_rlecount(at + 1, Width - at) >= 3
    <3>1. one >= 3
      BY <2>4 DEF one
    <3>2. Len(file') <= before + at' + k
      BY <1>3, <2>1, <2>4, <3>1
    <3> QED BY <1>10, <2>2, <3>2
  <2> QED BY <1>4, <2>3, <2>4 DEF RowRoom
<1>13. CASE ~RepeatsHere(left)
  <2>1. n \in 1 .. left /\ at' = at + n /\ Len(file') = Len(file) + (n + 1)
    BY <1>7, <1>13
  <2>2. Len(file) <= before + at + k
    BY <1>4, <1>13 DEF RowRoom, RepeatsHere, WorthRepeating
  <2>3. \/ n = left \/ n = MaxPacket
        \/ WorthRepeating(TGA_rlecount(at + 1 + n, left - n))
    BY <1>3, LiteralEndsAt
  <2> HIDE DEF n
  <2>4. Len(file') <= before + at' + k + 1
    BY <1>3, <2>1, <2>2
  <2>5. CASE n = left
    <3>1. at' = Width /\ Len(file') <= before + Width + Packets(Width)
      BY <1>3, <1>6, <2>1, <2>4, <2>5
    <3> QED BY <1>9, <3>1
  <2>6. CASE n = MaxPacket
    <3>1. (k + 1) * MaxPacket <= at' /\ Len(file') <= before + at' + (k + 1) /\ k + 1 \in Nat
      BY <1>3, <1>5, <2>1, <2>4, <2>6
    <3> QED BY <1>6, <1>10, <3>1
  <2>7. CASE n # left /\ WorthRepeating(TGA_rlecount(at + 1 + n, left - n))
    <3>1. at + 1 + n = at' + 1 /\ left - n = Width - at' /\ at' < Width /\ k * MaxPacket <= at'
      BY <1>3, <1>5, <2>1, <2>7
    <3>2. TGA_rlecount(at' + 1, Width - at') >= 3
      BY <2>7, <3>1 DEF WorthRepeating
    <3> QED BY <1>11, <2>4, <3>1, <3>2
  <2> QED BY <2>3, <2>5, <2>6, <2>7
<1> QED BY <1>12, <1>13

LEMMA SizeWriteRowDoneStep ==
  ASSUME TgaInv, SizeInv, TgaWriteRowDone
  PROVE  SizeInv'
<1>1. /\ phase = "write" /\ at = Width /\ at' = 0 /\ image' = image /\ file' = file
      /\ IF row > 1 THEN row' = row - 1 /\ phase' = phase
         ELSE row' = Height /\ phase' = "read"
  BY DEF TgaWriteRowDone, RowDone
<1>2. Width' = Width /\ Height' = Height /\ RowMost' = RowMost
  BY <1>1 DEF Width, Height, RowMost, Packets
<1>3. /\ Height \in Nat /\ row \in 1 .. Height /\ Width \in Nat /\ Width > 0
      /\ Len(file) \in Nat /\ RowMost \in Nat
  BY RowMostType
<1>4. Len(file) <= (Height - row) * RowMost + RowMost
  BY <1>1 DEF SizeInv, RowsMost
<1> DEFINE most == RowMost
<1>5. (Height - row) * most + most = (Height - (row - 1)) * most
  <2> HIDE DEF most
  <2> QED BY <1>3 DEF most
<1>6. CASE row > 1
  <2>1. Len(file) <= RowsMost'
    BY <1>1, <1>2, <1>4, <1>5, <1>6 DEF RowsMost
  <2>2. RowRoom(0, Len(file))'
    BY <1>1, <1>3, PacketAssumption DEF RowRoom
  <2> QED BY <1>1, <1>2, <1>3, <1>6, <2>1, <2>2 DEF SizeInv
<1>7. CASE ~(row > 1)
  <2>1. row = 1 /\ phase' = "read"
    BY <1>1, <1>3, <1>7
  <2>2. Height - (row - 1) = Height
    BY <1>3, <2>1
  <2>3. Len(file') <= Height * RowMost
    BY <1>1, <1>4, <1>5, <2>2
  <2> QED BY <1>2, <2>1, <2>3 DEF SizeInv
<1> QED BY <1>6, <1>7

LEMMA SizeStep ==
  ASSUME TgaInv, SizeInv, ~deep, TgaNext
  PROVE  SizeInv'
<1>1. CASE TgaReadPacket \/ TgaReadRowDone
  <2>1. phase = "read" /\ phase' # "write" /\ file' = file /\ image' = image
    BY <1>1 DEF TgaReadPacket, TgaReadRowDone, Take, RowDone
  <2> QED BY <2>1 DEF SizeInv, RowMost, Packets, Width, Height
<1> QED BY <1>1, SizeWritePacketStep, SizeWriteRowDoneStep DEF TgaNext

LEMMA SizeInit == ASSUME Init PROVE SizeInv
<1>1. phase = "write" /\ at = 0 /\ Len(file) = 0
  BY DEF Init, StreamInit
<1>2. Width > 0 /\ Width \in Nat /\ RowsMost \in Nat
  BY TgaInitInv, RowMostType
<1>3. RowRoom(0, 0)
  BY <1>1, PacketAssumption DEF RowRoom
<1> QED BY <1>1, <1>2, <1>3 DEF SizeInv

-----------------------------------------------------------------------------
(* No reader runs past the end of the file or of a row, whatever its skips *)
(* and its counts: TGA_readline and BMP_readline have no test of their own *)
(* for the row's end inside a packet.                                      *)
THEOREM TypesHold == Spec => []TypeOK
<1>1. IInv => TypeOK
  <2> SUFFICES ASSUME IInv PROVE TypeOK
    OBVIOUS
  <2>1. CASE format = "tga"
    <3>1. StreamTypeOK
      BY <2>1, TgaTypes DEF IInv
    <3>2. bytes_read \in Nat /\ retval \in BOOLEAN /\ escapes \subseteq 0 .. Height
      BY <2>1 DEF IInv
    <3> QED BY <3>1, <3>2 DEF IInv, TypeOK
  <2>2. CASE format = "bmp"
    <3>1. StreamTypeOK
      BY <2>2, BmpTypes DEF IInv
    <3> QED BY <2>2, <3>1 DEF IInv, TypeOK, BmpInv
  <2> QED BY <2>1, <2>2 DEF IInv
<1> QED BY InvHolds, <1>1, PTL

(* Whatever the image and the limits, what a packer has written its reader *)
(* gets back, every pixel in its place: TGA_writeline with TGA_readline    *)
(* all of it; BMP_writeline with BMP_readline the rows up to the first,    *)
(* from the bottom, in which there was no 0 to be met, and the result of   *)
(* BMP_read is whether there was one in every row.                         *)
THEOREM RoundTripAlways == Spec => []RoundTrip
<1>1. IInv => RoundTrip
  <2> SUFFICES ASSUME IInv, phase = "done"
               PROVE  /\ got = [r \in 1 .. Height |->
                                 IF Reached(r) THEN [i \in 1 .. Width |-> Kept(image[r][i])] ELSE <<>>]
                      /\ retval <=> Reached(0)
    BY DEF RoundTrip
  <2>1. CASE format = "tga"
    <3>1. \A r : Reached(r)
      BY <2>1 DEF Reached
    <3>2. TgaInv /\ retval
      BY <2>1 DEF IInv
    <3>3. got = [r \in 1 .. Height |-> Upto(image, r, Width)]
      BY <3>2 DEF TgaInv
    <3> QED BY <2>1, <3>1, <3>2, <3>3 DEF Kept, Upto
  <2>2. CASE format = "bmp"
    <3>1. \A r : Reached(r) <=> Met(r)
      BY <2>2 DEF Reached, Met
    <3>2. BmpInv
      BY <2>2 DEF IInv
    <3>3. /\ got = [r \in 1 .. Height |-> IF Met(r) THEN PixelsTo(image, r, Width) ELSE <<>>]
          /\ retval <=> Met(0)
      BY <3>2 DEF BmpInv
    <3> QED BY <2>2, <3>1, <3>3 DEF Kept, PixelsTo
  <2> QED BY <2>1, <2>2 DEF IInv
<1> QED BY InvHolds, <1>1, PTL

(* And a reader that has come to the top row has read the whole file, but  *)
(* for the last end of a line of a bitmap that its alignment has not       *)
(* passed over.                                                            *)
THEOREM NothingLeftAlways == Spec => []NothingLeft
<1>1. IInv => NothingLeft
  <2> SUFFICES ASSUME IInv, phase = "done", Reached(1)
               PROVE  \/ taken = Len(file)
                      \/ format = "bmp" /\ taken + 2 = Len(file) /\ file[taken + 1] = 0 /\ file[taken + 2] = 0
    BY DEF NothingLeft
  <2>1. CASE format = "tga"
    BY <2>1 DEF IInv, TgaInv
  <2>2. CASE format = "bmp"
    <3>1. BmpInv /\ Met(1)
      BY <2>2 DEF IInv, Reached, Met
    <3> QED BY <2>2, <3>1 DEF BmpInv, LineEndAt
  <2> QED BY <2>1, <2>2 DEF IInv
<1> QED BY InvHolds, <1>1, PTL

(* Packing pixels of a byte costs a byte for every full packet of a line at *)
(* worst: TGA_writeline cuts a literal short only for a repeat of three or  *)
(* more, and a repeat of two pixels costs no more than the two.             *)
THEOREM SizeBounded == Spec => []NeverExpands
<1> DEFINE Inv == format = "tga" /\ ~deep => SizeInv
<1>1. Init => Inv
  BY SizeInit
<1>2. IInv /\ Inv /\ [Next]_vars => Inv'
  <2> SUFFICES ASSUME IInv, Inv, [Next]_vars, (format = "tga" /\ ~deep)' PROVE SizeInv'
    OBVIOUS
  <2>1. CASE format = "tga" /\ TgaNext /\ UNCHANGED <<bmpVars, format>>
    <3>1. deep' = deep
      BY <2>1 DEF TgaNext, TgaWritePacket, TgaWriteRowDone, TgaReadPacket, TgaReadRowDone
    <3> QED BY <2>1, <3>1, SizeStep DEF IInv
  <2>2. CASE format = "bmp" /\ BmpNext /\ UNCHANGED <<deep, format>>
    BY <2>2
  <2>3. CASE UNCHANGED vars
    BY <2>3 DEF vars, streamVars, SizeInv, RowRoom, RowsMost, RowMost, Packets, Width, Height,
                TGA_rlecount, RunLength
  <2> QED BY <2>1, <2>2, <2>3 DEF Next
<1>3. IInv /\ Inv => NeverExpands
  BY DEF SizeInv, NeverExpands, RowMost
<1> QED BY InvHolds, <1>1, <1>2, <1>3, PTL DEF Spec
=============================================================================
