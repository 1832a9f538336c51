-------------------------- MODULE ProxyDll_proofs ---------------------------
(***************************************************************************)
(* Proofs about the hook proxy and the hash it tells the games apart by.   *)
(* For blocks of any length and any data, the block always has room for a  *)
(* byte more, and the digest is that of the whole message however it was   *)
(* cut into calls, as long as nothing is hashed after a result taken       *)
(* inside a block. For files, buffers, payloads and images of any size:    *)
(* whatever call of the system fails, a game is hooked with one payload at *)
(* all its sites or not at all, and with its own if the digest was there   *)
(* when it was compared; and when none fails, the pages are protected as   *)
(* they were exactly if the data's range is apart.                         *)
(***************************************************************************)
EXTENDS ProxyDll, SequenceTheorems, TLAPS

-----------------------------------------------------------------------------
(* The hash.                                                               *)

Engines ==
  [digest : Seq(Int), processed : Nat, unprocessed : 0 .. Block - 1, block : [1 .. Block -> Int]]

(* All the bytes that have gone into an engine: those of the blocks that   *)
(* were hashed and those that wait.                                        *)
Held(e) == SubSeq(e.block, 1, e.unprocessed)
Flow(e) == e.digest \o Held(e)

(* Whole blocks are hashed, and counted.                                   *)
WholeBlocks(e) ==
  /\ e.processed = Len(e.digest)
  /\ \E k \in Nat : e.processed = k * Block

(* The bytes that wait, which a result inside a block has forgotten.       *)
Waiting == IF m_computed THEN dropped ELSE engine.unprocessed

Seen == engine.digest \o SubSeq(engine.block, 1, Waiting)

IInv ==
  /\ ShaTypeOK
  /\ WholeBlocks(engine)
  /\ m_computed => engine.unprocessed = 0 /\ m_finalDigest = Padded(Seen)
  /\ cut => Len(Seen) < Len(message)
  /\ ~cut => Seen = message

-----------------------------------------------------------------------------
(* Sequences of zeros and lengths.                                         *)
LEMMA ZerosType == \A n \in Int : n >= 0 => Zeros(n) \in Seq(Int) /\ Len(Zeros(n)) = n
<1> SUFFICES ASSUME NEW n \in Int, n >= 0 PROVE Zeros(n) \in Seq(Int) /\ Len(Zeros(n)) = n
  OBVIOUS
<1>1. n \in Nat /\ Zeros(n) \in [1 .. n -> Int]
  BY SMT DEF Zeros
<1>2. Zeros(n) \in Seq(Int)
  BY <1>1, SeqDef
<1> QED BY <1>1, <1>2, LenProperties, SMT

LEMMA LengthFieldType ==
  \A n \in Nat : /\ LengthField(n) \in Seq(Int)
                 /\ Len(LengthField(n)) = LengthBytes
                 /\ LengthField(n)[LengthBytes] = n
<1> SUFFICES ASSUME NEW n \in Nat
             PROVE /\ LengthField(n) \in Seq(Int)
                   /\ Len(LengthField(n)) = LengthBytes
                   /\ LengthField(n)[LengthBytes] = n
  OBVIOUS
<1>1. LengthBytes - 1 \in Nat /\ LengthBytes \in Nat
  BY EngineAssumption, SMT
<1>2. Zeros(LengthBytes - 1) \in Seq(Int) /\ Len(Zeros(LengthBytes - 1)) = LengthBytes - 1
  BY <1>1, ZerosType, SMT
<1> QED BY <1>1, <1>2, AppendProperties, SMT DEF LengthField

(* A remainder is the only one.                                            *)
LEMMA Remainder ==
  ASSUME NEW z \in 0 .. Block - 1, NEW m \in Int
  PROVE  (z - m * Block) % Block = z
  BY EngineAssumption, SMT

(* The rest to the next multiple of a block is less than a block.          *)
LEMMA RemainderType == \A x \in Int : x % Block \in 0 .. Block - 1
  BY EngineAssumption, SMT

(* A number less its remainder is a number of whole blocks.                *)
LEMMA WholeMultiple ==
  \A x \in Nat : \E k \in Nat : x - (x % Block) = k * Block
<1> SUFFICES ASSUME NEW x \in Nat PROVE \E k \in Nat : x - (x % Block) = k * Block
  OBVIOUS
<1>1. x \div Block \in Nat /\ x - (x % Block) = (x \div Block) * Block
  BY EngineAssumption, SMT
<1> QED BY <1>1

(* The bytes an engine holds are a sequence, of as many as it counts.      *)
LEMMA BlockSeq ==
  ASSUME NEW block \in [1 .. Block -> Int], NEW n \in 0 .. Block
  PROVE  /\ SubSeq(block, 1, n) \in Seq(Int)
         /\ Len(SubSeq(block, 1, n)) = n
         /\ \A i \in 1 .. n : SubSeq(block, 1, n)[i] = block[i]
<1>1. \A i \in 1 .. n : block[i] \in Int
  BY EngineAssumption, SMT
<1>2. /\ SubSeq(block, 1, n) \in Seq(Int)
      /\ Len(SubSeq(block, 1, n)) = IF 1 <= n THEN n - 1 + 1 ELSE 0
      /\ \A i \in 1 .. n - 1 + 1 : SubSeq(block, 1, n)[i] = block[1 + i - 1]
  <2>1. 1 \in Int /\ n \in Int
    BY SMT
  <2> QED BY <1>1, <2>1, SubSeqProperties
<1> QED BY <1>2, SMT

(* Concatenation is associative.                                           *)
LEMMA Concat3 == \A s, t, w \in Seq(Int) : (s \o t) \o w = s \o (t \o w)
<1> TAKE s, t, w \in Seq(Int)
<1> QED BY ConcatAssociative, SMTT(60)

(* What an engine has seen is a sequence.                                  *)
LEMMA FlowType ==
  ASSUME NEW e \in Engines
  PROVE  /\ Held(e) \in Seq(Int) /\ Len(Held(e)) = e.unprocessed
         /\ Flow(e) \in Seq(Int) /\ Len(Flow(e)) = Len(e.digest) + e.unprocessed
<1>1. e.block \in [1 .. Block -> Int] /\ e.unprocessed \in 0 .. Block /\ e.digest \in Seq(Int)
  BY EngineAssumption, SMT DEF Engines
<1>2. Held(e) \in Seq(Int) /\ Len(Held(e)) = e.unprocessed
  BY <1>1, BlockSeq DEF Held
<1>3. Flow(e) \in Seq(Int) /\ Len(Flow(e)) = Len(e.digest) + Len(Held(e))
  BY <1>1, <1>2, ConcatProperties DEF Flow
<1> QED BY <1>2, <1>3

-----------------------------------------------------------------------------
(* Hashing: every step of it passes on what it is given, in order.         *)

(* Buffer, of data that fits into the block.                               *)
LEMMA BufferKeeps ==
  ASSUME NEW e \in Engines, WholeBlocks(e), NEW data \in Seq(Int),
         e.unprocessed + Len(data) <= Block
  PROVE  /\ Buffer(e, data) \in Engines
         /\ WholeBlocks(Buffer(e, data))
         /\ Flow(Buffer(e, data)) = Flow(e) \o data
         /\ e.unprocessed + Len(data) = Block => Buffer(e, data).unprocessed = 0
<1> DEFINE u == e.unprocessed
           f == Filled(e, data)
<1>1. /\ u \in 0 .. Block - 1 /\ e.digest \in Seq(Int) /\ e.block \in [1 .. Block -> Int]
      /\ e.processed \in Nat /\ Len(data) \in Nat /\ Len(e.digest) \in Nat /\ Block \in Nat
      /\ data \in [1 .. Len(data) -> Int]
  BY EngineAssumption, LenProperties, SMT DEF Engines
<1>2. f \in [1 .. Block -> Int]
  <2>1. ASSUME NEW i \in 1 .. Block, u < i, i <= u + Len(data)
        PROVE  data[i - u] \in Int
    <3>1. i - u \in 1 .. Len(data)
      BY <1>1, <2>1, SMT
    <3> QED BY <1>1, <3>1
  <2>2. \A i \in 1 .. Block : e.block[i] \in Int
    BY <1>1
  <2> QED BY <2>1, <2>2 DEF Filled
<1>3. SubSeq(f, 1, u + Len(data)) = Held(e) \o data
  <2>1. u + Len(data) \in 0 .. Block /\ u \in 0 .. Block
    BY <1>1, SMT
  <2>2. /\ SubSeq(f, 1, u + Len(data)) \in Seq(Int)
        /\ Len(SubSeq(f, 1, u + Len(data))) = u + Len(data)
        /\ \A i \in 1 .. u + Len(data) : SubSeq(f, 1, u + Len(data))[i] = f[i]
    BY <1>2, <2>1, BlockSeq
  <2>3. /\ Held(e) \in Seq(Int) /\ Len(Held(e)) = u
        /\ \A i \in 1 .. u : Held(e)[i] = e.block[i]
    BY <1>1, <2>1, BlockSeq DEF Held
  <2>4. /\ Held(e) \o data \in Seq(Int)
        /\ Len(Held(e) \o data) = u + Len(data)
        /\ \A i \in 1 .. u + Len(data) :
             (Held(e) \o data)[i] = IF i <= u THEN Held(e)[i] ELSE data[i - u]
    <3>1. /\ Held(e) \o data \in Seq(Int)
          /\ Len(Held(e) \o data) = Len(Held(e)) + Len(data)
          /\ \A i \in 1 .. Len(Held(e)) + Len(data) :
               (Held(e) \o data)[i] =
                 IF i <= Len(Held(e)) THEN Held(e)[i] ELSE data[i - Len(Held(e))]
      BY <2>3, ConcatProperties
    <3> QED BY <2>3, <3>1
  <2>5. \A i \in 1 .. u + Len(data) : f[i] = IF i <= u THEN e.block[i] ELSE data[i - u]
    BY <1>1, SMT DEF Filled
  <2>6. ASSUME NEW i \in 1 .. u + Len(data)
        PROVE  SubSeq(f, 1, u + Len(data))[i] = (Held(e) \o data)[i]
    <3>1. i <= u => i \in 1 .. u
      BY <1>1, SMT
    <3> QED BY <2>2, <2>3, <2>4, <2>5, <2>6, <3>1
  <2> QED BY <2>2, <2>4, <2>6, SeqEqual
<1>4. Held(e) \in Seq(Int) /\ e.digest \o Held(e) \o data = e.digest \o (Held(e) \o data)
  <2>1. Held(e) \in Seq(Int)
    BY FlowType
  <2> QED BY <1>1, <2>1, Concat3
<1>5. CASE u + Len(data) < Block
  <2>1. Buffer(e, data) = [e EXCEPT !.block = f, !.unprocessed = @ + Len(data)]
    BY <1>5 DEF Buffer
  <2>2. /\ Buffer(e, data) \in Engines
        /\ Buffer(e, data).digest = e.digest /\ Buffer(e, data).block = f
        /\ Buffer(e, data).processed = e.processed
        /\ Buffer(e, data).unprocessed = u + Len(data)
    <3>1. u + Len(data) \in 0 .. Block - 1
      BY <1>1, <1>5, SMT
    <3> HIDE DEF f
    <3> QED BY <1>2, <2>1, <3>1 DEF Engines
  <2>3. Flow(Buffer(e, data)) = Flow(e) \o data
    BY <1>3, <1>4, <2>2 DEF Flow, Held
  <2>4. ~(u + Len(data) = Block)
    BY <1>1, <1>5, SMT
  <2> QED BY <2>2, <2>3, <2>4 DEF WholeBlocks
<1>6. CASE u + Len(data) = Block
  <2> DEFINE b == Buffer(e, data)
  <2>0. ~(u + Len(data) < Block)
    BY <1>1, <1>6, SMT
  <2>1. b = [digest |-> e.digest \o f, processed |-> e.processed + Block,
             unprocessed |-> 0, block |-> f]
    BY <2>0 DEF Buffer
  <2>3. f \in Seq(Int) /\ Len(f) = Block
    <3>1. f \in Seq(Int)
      BY <1>1, <1>2, SeqDef
    <3> QED BY <1>1, <1>2, <3>1, LenProperties, SMT
  <2>2. f = Held(e) \o data
    <3>1. SubSeq(f, 1, Len(f)) = f
      BY <2>3, SubSeqFull
    <3> QED BY <1>3, <1>6, <2>3, <3>1
  <2> HIDE DEF f
  <2>4. e.digest \o f \in Seq(Int) /\ Len(e.digest \o f) = Len(e.digest) + Block
    <3>1. e.digest \in Seq(Int) /\ f \in Seq(Int)
      BY <1>1, <2>3
    <3>2. e.digest \o f \in Seq(Int) /\ Len(e.digest \o f) = Len(e.digest) + Len(f)
      BY <3>1, ConcatProperties
    <3> QED BY <2>3, <3>2
  <2>5. b \in Engines
    BY <1>1, <1>2, <2>1, <2>4, EngineAssumption, SMTT(40) DEF Engines
  <2>6. WholeBlocks(b)
    <3>1. PICK k \in Nat : e.processed = k * Block
      BY DEF WholeBlocks
    <3>2. k + 1 \in Nat /\ e.processed + Block = (k + 1) * Block
      BY <1>1, <3>1, SMT
    <3> QED BY <2>1, <2>4, <3>2 DEF WholeBlocks
  <2>7. Flow(b) = Flow(e) \o data
    <3>1. SubSeq(f, 1, 0) = << >>
      BY SubSeqEmpty, SMT
    <3>2. (e.digest \o f) \o << >> = e.digest \o f
      BY <2>4, ConcatEmptySeq
    <3>3. b.digest = e.digest \o f /\ Held(b) = SubSeq(f, 1, 0)
      BY <2>1 DEF Held
    <3>4. Flow(b) = e.digest \o (Held(e) \o data)
      BY <2>2, <3>1, <3>2, <3>3 DEF Flow
    <3> QED BY <1>4, <3>4 DEF Flow
  <2>8. b.unprocessed = 0
    BY <2>1
  <2> QED BY <2>5, <2>6, <2>7, <2>8
<1>7. u + Len(data) < Block \/ u + Len(data) = Block
  <2>1. u + Len(data) <= Block
    OBVIOUS
  <2>2. u \in Int /\ Len(data) \in Int /\ Block \in Int
    BY <1>1, SMT
  <2> HIDE DEF u
  <2> QED BY <2>1, <2>2, SMT
<1> QED BY <1>5, <1>6, <1>7

(* Data cut in two is the two parts, one behind the other.                 *)
LEMMA Cut ==
  ASSUME NEW data \in Seq(Int), NEW n \in 0 .. Len(data)
  PROVE  /\ SubSeq(data, 1, n) \in Seq(Int) /\ Len(SubSeq(data, 1, n)) = n
         /\ After(data, n) \in Seq(Int) /\ Len(After(data, n)) = Len(data) - n
         /\ SubSeq(data, 1, n) \o After(data, n) = data
<1>1. /\ Len(data) \in Nat /\ n \in Int /\ n + 1 \in Int /\ 1 \in Int
      /\ \A i \in 1 .. Len(data) : data[i] \in Int
      /\ 1 .. n \subseteq 1 .. Len(data) /\ n + 1 .. Len(data) \subseteq 1 .. Len(data)
  BY LenProperties, ElementOfSeq, SMT
<1>2. /\ SubSeq(data, 1, n) \in Seq(Int)
      /\ Len(SubSeq(data, 1, n)) = IF 1 <= n THEN n - 1 + 1 ELSE 0
  BY <1>1, SubSeqProperties
<1>3. /\ After(data, n) \in Seq(Int)
      /\ Len(After(data, n)) =
           IF n + 1 <= Len(data) THEN Len(data) - (n + 1) + 1 ELSE 0
  BY <1>1, SubSeqProperties DEF After
<1>4. SubSeq(data, 1, n) \o After(data, n) = data
  <2>1. /\ 1 \in 1 .. Len(data) + 1 /\ n \in 1 - 1 .. Len(data)
        /\ Len(data) \in n .. Len(data)
    BY <1>1, SMT
  <2>2. SubSeq(data, 1, n) \o SubSeq(data, n + 1, Len(data)) = SubSeq(data, 1, Len(data))
    BY <2>1, ConcatAdjacentSubSeq
  <2> QED BY <2>2, SubSeqFull DEF After
<1>5. Len(SubSeq(data, 1, n)) = n /\ Len(After(data, n)) = Len(data) - n
  BY <1>1, <1>2, <1>3, SMT
<1> QED BY <1>2, <1>3, <1>4, <1>5

(* Process_Partial takes what fits, and either all of it or up to the end  *)
(* of a block.                                                             *)
LEMMA PartialKeeps ==
  ASSUME NEW e \in Engines, WholeBlocks(e), NEW data \in Seq(Int)
  PROVE  /\ Partial(e, data) \in 0 .. Len(data)
         /\ Process_Partial(e, data) \in Engines
         /\ WholeBlocks(Process_Partial(e, data))
         /\ Flow(Process_Partial(e, data)) = Flow(e) \o SubSeq(data, 1, Partial(e, data))
         /\ Process_Partial(e, data).unprocessed = 0 \/ Partial(e, data) = Len(data)
         /\ e.unprocessed + Len(data) < Block => Partial(e, data) = Len(data)
<1> DEFINE u == e.unprocessed
           p == Partial(e, data)
           part == SubSeq(data, 1, p)
<1>1. u \in 0 .. Block - 1 /\ Len(data) \in Nat /\ Block \in Nat
  BY EngineAssumption, LenProperties, SMT DEF Engines
<1>2. /\ p \in 0 .. Len(data) /\ u + p <= Block
      /\ p = 0 => u = 0 \/ p = Len(data)
      /\ u + p = Block \/ p = Len(data) \/ p = 0
      /\ u + Len(data) < Block => p = Len(data)
  <2>1. p = IF u = 0 /\ Len(data) >= Block THEN 0
            ELSE IF Block - u < Len(data) THEN Block - u ELSE Len(data)
    BY DEF Partial, FirstOf
  <2> HIDE DEF u, p
  <2> QED BY <1>1, <2>1, SMT
<1>3. part \in Seq(Int) /\ Len(part) = p
  BY <1>2, Cut
<1>4. CASE p = 0
  <2>1. Process_Partial(e, data) = e
    BY <1>4 DEF Process_Partial
  <2>2. part = << >>
    BY <1>4, SubSeqEmpty, SMT
  <2>3. Flow(e) \o << >> = Flow(e)
    BY FlowType, ConcatEmptySeq
  <2> QED BY <1>2, <1>4, <2>1, <2>2, <2>3
<1>5. CASE p # 0
  <2>1. Process_Partial(e, data) = Buffer(e, part)
    BY <1>5 DEF Process_Partial
  <2>2. e.unprocessed + Len(part) <= Block
    BY <1>2, <1>3
  <2>3. /\ Buffer(e, part) \in Engines /\ WholeBlocks(Buffer(e, part))
        /\ Flow(Buffer(e, part)) = Flow(e) \o part
        /\ e.unprocessed + Len(part) = Block => Buffer(e, part).unprocessed = 0
    <3> HIDE DEF part
    <3> QED BY <1>3, <2>2, BufferKeeps
  <2> QED BY <1>2, <1>3, <1>5, <2>1, <2>3
<1> QED BY <1>4, <1>5

(* The loop over whole blocks, which runs only when none is partly filled. *)
LEMMA BlocksKeep ==
  ASSUME NEW e \in Engines, WholeBlocks(e), NEW data \in Seq(Int),
         e.unprocessed = 0 \/ Len(data) = 0
  PROVE  /\ Whole(data) \in 0 .. Len(data) /\ Len(data) - Whole(data) < Block
         /\ Process_Blocks(e, data) \in Engines
         /\ WholeBlocks(Process_Blocks(e, data))
         /\ Process_Blocks(e, data).unprocessed = e.unprocessed
         /\ Flow(Process_Blocks(e, data)) = Flow(e) \o SubSeq(data, 1, Whole(data))
<1> DEFINE w == Whole(data)
           part == SubSeq(data, 1, w)
           b == Process_Blocks(e, data)
<1>1. /\ e.unprocessed \in 0 .. Block - 1 /\ e.digest \in Seq(Int) /\ Len(e.digest) \in Nat
      /\ e.block \in [1 .. Block -> Int] /\ e.processed \in Nat
      /\ Len(data) \in Nat /\ Block \in Nat
  BY EngineAssumption, LenProperties, SMT DEF Engines
<1>2. w \in 0 .. Len(data) /\ Len(data) - w < Block
  <2>1. Len(data) % Block \in 0 .. Block - 1 /\ Len(data) % Block <= Len(data)
    <3>1. PICK k \in Nat : Len(data) - (Len(data) % Block) = k * Block
      BY <1>1, WholeMultiple
    <3>2. k * Block \in Nat
      BY <1>1, SMT
    <3>3. Len(data) % Block \in 0 .. Block - 1
      BY <1>1, RemainderType, SMT
    <3> QED BY <1>1, <3>1, <3>2, <3>3, SMT
  <2> QED BY <1>1, <2>1, SMT DEF Whole
<1>3. part \in Seq(Int) /\ Len(part) = w
  BY <1>2, Cut
<1>4. b = [e EXCEPT !.digest = e.digest \o part, !.processed = e.processed + w]
  BY DEF Process_Blocks
<1>5. e.digest \o part \in Seq(Int) /\ Len(e.digest \o part) = Len(e.digest) + w
  BY <1>1, <1>3, ConcatProperties
<1>6. e.processed + w \in Nat
  BY <1>1, <1>2, SMT
<1>7. /\ b \in Engines /\ b.unprocessed = e.unprocessed /\ b.block = e.block
      /\ b.digest = e.digest \o part /\ b.processed = e.processed + w
  <2> HIDE DEF part, w, b
  <2> QED BY <1>4, <1>5, <1>6 DEF Engines
<1>8. WholeBlocks(b)
  <2>1. PICK k \in Nat : e.processed = k * Block
    BY DEF WholeBlocks
  <2>2. PICK l \in Nat : w = l * Block
    BY <1>1, WholeMultiple DEF Whole
  <2>3. k + l \in Nat /\ e.processed + w = (k + l) * Block
    BY <1>1, <2>1, <2>2, SMT
  <2> QED BY <1>5, <1>7, <2>3 DEF WholeBlocks
<1>9. Flow(b) = Flow(e) \o part
  <2>1. Held(b) = Held(e) /\ Held(e) \in Seq(Int)
    BY <1>7, FlowType DEF Held
  <2>2. CASE e.unprocessed = 0
    <3>1. Held(e) = << >>
      BY <2>2, SubSeqEmpty, SMT DEF Held
    <3> QED BY <1>1, <1>5, <1>7, <2>1, <3>1, ConcatEmptySeq DEF Flow
  <2>3. CASE Len(data) = 0
    <3>1. w = 0
      BY <1>2, <2>3, SMT
    <3>2. part = << >>
      BY <3>1, SubSeqEmpty, SMT
    <3>3. e.digest \o << >> = e.digest /\ Flow(e) \o << >> = Flow(e)
      BY <1>1, FlowType, ConcatEmptySeq
    <3> QED BY <1>7, <2>1, <3>2, <3>3 DEF Flow
  <2> QED BY <2>2, <2>3
<1> QED BY <1>2, <1>7, <1>8, <1>9

(* A call passes on the whole of its data.                                 *)
LEMMA HashedKeeps ==
  ASSUME NEW e \in Engines, WholeBlocks(e), NEW data \in Seq(Int)
  PROVE  /\ Hashed(e, data) \in Engines
         /\ WholeBlocks(Hashed(e, data))
         /\ Flow(Hashed(e, data)) = Flow(e) \o data
<1> DEFINE filled == Process_Partial(e, data)
           first  == SubSeq(data, 1, Partial(e, data))
           rest   == After(data, Partial(e, data))
           blocks == Process_Blocks(filled, rest)
           second == SubSeq(rest, 1, Whole(rest))
           third  == After(rest, Whole(rest))
           last   == Process_Partial(blocks, third)
<1>1. /\ filled \in Engines /\ WholeBlocks(filled) /\ Flow(filled) = Flow(e) \o first
      /\ Partial(e, data) \in 0 .. Len(data)
      /\ filled.unprocessed = 0 \/ Partial(e, data) = Len(data)
  BY PartialKeeps
<1>2. /\ first \in Seq(Int) /\ rest \in Seq(Int) /\ first \o rest = data
      /\ Len(rest) = Len(data) - Partial(e, data)
  BY <1>1, Cut
<1>3. filled.unprocessed = 0 \/ Len(rest) = 0
  BY <1>1, <1>2, LenProperties, SMT
<1>4. /\ Whole(rest) \in 0 .. Len(rest) /\ Len(rest) - Whole(rest) < Block
      /\ blocks \in Engines /\ WholeBlocks(blocks)
      /\ blocks.unprocessed = filled.unprocessed
      /\ Flow(blocks) = Flow(filled) \o second
  <2> HIDE DEF filled, rest
  <2> QED BY <1>1, <1>2, <1>3, BlocksKeep
<1>5. /\ second \in Seq(Int) /\ third \in Seq(Int) /\ second \o third = rest
      /\ Len(third) = Len(rest) - Whole(rest)
  <2> HIDE DEF rest
  <2> QED BY <1>2, <1>4, Cut
<1>6. blocks.unprocessed + Len(third) < Block
  <2>1. /\ Len(rest) \in Nat /\ Whole(rest) \in Int /\ Block \in Int
        /\ blocks.unprocessed \in 0 .. Block - 1
    <3>1. Len(rest) \in Nat
      BY <1>2, LenProperties
    <3>2. blocks.unprocessed \in 0 .. Block - 1
      BY <1>4 DEF Engines
    <3> HIDE DEF blocks, rest
    <3> QED BY <1>4, <3>1, <3>2, EngineAssumption, SMT
  <2> HIDE DEF blocks, third, rest, filled
  <2> QED BY <1>3, <1>4, <1>5, <2>1, SMT
<1>7. /\ last \in Engines /\ WholeBlocks(last)
      /\ Flow(last) = Flow(blocks) \o SubSeq(third, 1, Len(third))
  <2> HIDE DEF blocks, third
  <2> QED BY <1>4, <1>5, <1>6, PartialKeeps
<1>8. Flow(last) = Flow(e) \o data
  <2>2. Flow(e) \in Seq(Int) /\ Flow(filled) \in Seq(Int)
    BY <1>1, FlowType
  <2>3. SubSeq(third, 1, Len(third)) = third
    BY <1>5, SubSeqFull
  <2>4. Flow(last) = Flow(filled) \o (second \o third)
    <3>1. Flow(last) = (Flow(filled) \o second) \o third
      BY <1>4, <1>7, <2>3
    <3> HIDE DEF filled, second, third, last
    <3> QED BY <1>5, <2>2, <3>1, Concat3
  <2>5. Flow(last) = Flow(e) \o (first \o rest)
    <3>1. Flow(last) = (Flow(e) \o first) \o rest
      BY <1>1, <1>5, <2>4
    <3> HIDE DEF filled, first, rest, last
    <3>2. (Flow(e) \o first) \o rest = Flow(e) \o (first \o rest)
      <4>1. first \in Seq(Int) /\ rest \in Seq(Int) /\ Flow(e) \in Seq(Int)
        BY <1>2, <2>2
      <4> QED BY <4>1, Concat3
    <3> QED BY <3>1, <3>2
  <2> QED BY <1>2, <2>5
<1>9. Hashed(e, data) = last
  BY DEF Hashed
<1> QED BY <1>7, <1>8, <1>9

-----------------------------------------------------------------------------
(* Padding.                                                                *)

(* A padded message ends with the length of the message.                   *)
LEMMA PaddedType ==
  ASSUME NEW m \in Seq(Int)
  PROVE  /\ Padded(m) \in Seq(Int)
         /\ Padded(m)[Len(Padded(m))] = Len(m)
<1> DEFINE n     == (- (Len(m) + 1 + LengthBytes)) % Block
           front == (m \o <<Pad>>) \o Zeros(n)
           field == LengthField(Len(m))
<1>1. Len(m) \in Nat /\ LengthBytes \in Nat \ {0}
  BY LenProperties, EngineAssumption, SMT
<1>2. n \in Int /\ n >= 0
  <2>1. - (Len(m) + 1 + LengthBytes) \in Int
    BY <1>1, SMT
  <2>2. n \in 0 .. Block - 1
    BY <2>1, RemainderType
  <2> QED BY <2>2, EngineAssumption, SMT
<1>3. Zeros(n) \in Seq(Int)
  <2> HIDE DEF n
  <2> QED BY <1>2, ZerosType
<1>4. m \o <<Pad>> \in Seq(Int)
  <2>1. <<Pad>> \in Seq(Int)
    BY EngineAssumption, SMT
  <2> QED BY <2>1, ConcatProperties
<1>5. front \in Seq(Int)
  <2> HIDE DEF n
  <2> QED BY <1>3, <1>4, ConcatProperties
<1>6. field \in Seq(Int) /\ Len(field) = LengthBytes /\ field[LengthBytes] = Len(m)
  BY <1>1, LengthFieldType
<1>7. Padded(m) = front \o field
  BY DEF Padded
<1> HIDE DEF front, field
<1>8. /\ front \o field \in Seq(Int)
      /\ Len(front \o field) = Len(front) + Len(field)
      /\ \A i \in 1 .. Len(front) + Len(field) :
           (front \o field)[i] = IF i <= Len(front) THEN front[i] ELSE field[i - Len(front)]
  <2>1. front \in Seq(Int) /\ field \in Seq(Int)
    BY <1>5, <1>6
  <2> QED BY <2>1, ConcatProperties
<1>9. Len(front) \in Nat
  BY <1>5, LenProperties
<1>10. /\ Len(front) + Len(field) \in 1 .. Len(front) + Len(field)
       /\ ~(Len(front) + Len(field) <= Len(front))
       /\ Len(front) + Len(field) - Len(front) = LengthBytes
  BY <1>1, <1>6, <1>9, SMT
<1> QED BY <1>6, <1>7, <1>8, <1>10, SMTT(40)

(* Result pads what has gone in as the standard says, in a block more when *)
(* the length does not fit.                                                *)
LEMMA FinishedPads ==
  ASSUME NEW e \in Engines, WholeBlocks(e)
  PROVE  Finished(e) = Padded(Flow(e))
<1> DEFINE ended == Append(Held(e), Pad)
           room  == Block - Len(ended)
           zeros == IF room < LengthBytes THEN room + Block - LengthBytes ELSE room - LengthBytes
           total == e.processed + e.unprocessed
<1>1. /\ e.digest \in Seq(Int) /\ e.unprocessed \in 0 .. Block - 1
      /\ e.processed = Len(e.digest) /\ e.processed \in Nat
  BY DEF Engines, WholeBlocks
<1>2. /\ Held(e) \in Seq(Int) /\ Len(Held(e)) = e.unprocessed
      /\ Flow(e) \in Seq(Int) /\ Len(Flow(e)) = total
  BY <1>1, FlowType
<1>3. Pad \in Int /\ Block \in Nat /\ LengthBytes \in Nat /\ 0 < LengthBytes /\ LengthBytes < Block
  BY EngineAssumption
<1>4. ended = Held(e) \o <<Pad>> /\ Len(ended) = e.unprocessed + 1
  <2>1. ended = Held(e) \o <<Pad>>
    BY <1>2, <1>3, AppendIsConcat
  <2>2. Len(ended) = Len(Held(e)) + 1
    BY <1>2, <1>3, AppendProperties
  <2> QED BY <1>2, <2>1, <2>2
<1>5. (- (total + 1 + LengthBytes)) % Block = zeros
  <2>1. PICK k \in Nat : e.processed = k * Block
    BY DEF WholeBlocks
  <2>2. zeros \in 0 .. Block - 1
    <3> HIDE DEF ended
    <3> QED BY <1>1, <1>3, <1>4, SMT
  <2>3. CASE room < LengthBytes
    <3>1. zeros = Block - (e.unprocessed + 1) + Block - LengthBytes
      BY <1>4, <2>3
    <3>2. k + 2 \in Int /\ - (total + 1 + LengthBytes) = zeros - (k + 2) * Block
      <4> HIDE DEF zeros
      <4> QED BY <1>1, <1>3, <2>1, <2>2, <3>1, SMTT(40)
    <3> HIDE DEF zeros, total
    <3> QED BY <2>2, <3>2, Remainder
  <2>4. CASE ~(room < LengthBytes)
    <3>1. zeros = Block - (e.unprocessed + 1) - LengthBytes
      BY <1>4, <2>4
    <3>2. k + 1 \in Int /\ - (total + 1 + LengthBytes) = zeros - (k + 1) * Block
      <4> HIDE DEF zeros
      <4> QED BY <1>1, <1>3, <2>1, <2>2, <3>1, SMTT(40)
    <3> HIDE DEF zeros, total
    <3> QED BY <2>2, <3>2, Remainder
  <2> QED BY <2>3, <2>4
<1>6. Finished(e) = ((e.digest \o ended) \o Zeros(zeros)) \o LengthField(total)
  BY DEF Finished, Held
<1>7. e.digest \o ended = Flow(e) \o <<Pad>>
  <2>1. <<Pad>> \in Seq(Int)
    BY <1>3, SMT
  <2>2. e.digest \o (Held(e) \o <<Pad>>) = (e.digest \o Held(e)) \o <<Pad>>
    BY <1>1, <1>2, <2>1, Concat3
  <2> QED BY <1>4, <2>2 DEF Flow
<1>8. Padded(Flow(e)) =
        ((Flow(e) \o <<Pad>>) \o Zeros((- (total + 1 + LengthBytes)) % Block)) \o LengthField(total)
  BY <1>2 DEF Padded
<1> QED BY <1>5, <1>6, <1>7, <1>8

-----------------------------------------------------------------------------
(* The invariant.                                                          *)
LEMMA SeenType ==
  ASSUME ShaTypeOK
  PROVE  /\ engine \in Engines /\ Seen \in Seq(Int)
         /\ Len(Seen) = Len(engine.digest) + Waiting
         /\ Waiting = engine.unprocessed => Seen = Flow(engine)
<1> DEFINE tail == SubSeq(engine.block, 1, Waiting)
<1>1. engine \in Engines
  BY DEF ShaTypeOK, Engines
<1>2. Waiting \in 0 .. Block /\ engine.block \in [1 .. Block -> Int] /\ engine.digest \in Seq(Int)
  <2>1. engine.unprocessed \in 0 .. Block - 1 /\ dropped \in 0 .. Block - 1
    BY <1>1 DEF ShaTypeOK, Engines
  <2>2. Waiting \in 0 .. Block
    BY <2>1, EngineAssumption, SMT DEF Waiting
  <2> QED BY <1>1, <2>2 DEF Engines
<1>3. tail \in Seq(Int) /\ Len(tail) = Waiting
  BY <1>2, BlockSeq
<1>4. Seen = engine.digest \o tail
  BY DEF Seen
<1>5. Seen \in Seq(Int) /\ Len(Seen) = Len(engine.digest) + Len(tail)
  <2> HIDE DEF tail
  <2> QED BY <1>2, <1>3, <1>4, ConcatProperties
<1>6. Waiting = engine.unprocessed => Seen = Flow(engine)
  BY <1>4 DEF Flow, Held
<1> QED BY <1>1, <1>3, <1>5, <1>6

LEMMA InitIInv == ShaInit => IInv
<1> SUFFICES ASSUME ShaInit PROVE IInv
  OBVIOUS
<1>1. PICK block \in [1 .. Block -> Bytes] : engine = Fresh(block)
  BY DEF ShaInit
<1>2. block \in [1 .. Block -> Int]
  <2>1. Bytes \subseteq Int
    BY EngineAssumption
  <2> QED BY <2>1
<1>3. /\ engine.digest = << >> /\ engine.processed = 0 /\ engine.unprocessed = 0
      /\ engine.block = block
  BY <1>1 DEF Fresh
<1>4. << >> \in Seq(Int) /\ Len(<< >>) = 0
  BY EmptySeq
<1>5. ShaTypeOK
  <2>1. 0 \in Nat /\ 0 \in 0 .. Block - 1
    BY EngineAssumption, SMT
  <2>2. engine \in [digest : Seq(Int), processed : Nat,
                    unprocessed : 0 .. Block - 1, block : [1 .. Block -> Int]]
    BY <1>1, <1>2, <1>4, <2>1 DEF Fresh
  <2> QED BY <1>4, <2>1, <2>2 DEF ShaInit, ShaTypeOK
<1>6. WholeBlocks(engine)
  <2>1. 0 \in Nat /\ 0 = 0 * Block
    BY EngineAssumption, SMT
  <2> QED BY <1>3, <1>4, <2>1 DEF WholeBlocks
<1>7. Seen = message
  <2>1. Waiting = 0
    BY <1>3 DEF Waiting, ShaInit
  <2>2. SubSeq(engine.block, 1, 0) = << >>
    BY SubSeqEmpty, SMT
  <2>3. Seen = << >> \o << >>
    BY <1>3, <2>1, <2>2 DEF Seen
  <2>4. << >> \o << >> = << >>
    BY <1>4, ConcatEmptySeq
  <2> QED BY <2>3, <2>4 DEF ShaInit
<1> QED BY <1>5, <1>6, <1>7 DEF IInv, ShaInit

LEMMA ResultIInv == IInv /\ Result => IInv'
<1> SUFFICES ASSUME IInv, Result PROVE IInv'
  OBVIOUS
<1>1. /\ engine \in Engines /\ ~m_computed /\ Waiting = engine.unprocessed
      /\ Seen = Flow(engine) /\ Seen \in Seq(Int)
  <2>1. ShaTypeOK /\ ~m_computed
    BY DEF IInv, Result
  <2>2. Waiting = engine.unprocessed
    BY <2>1 DEF Waiting
  <2> QED BY <2>1, <2>2, SeenType
<1>2. /\ engine' \in Engines /\ engine'.digest = engine.digest
      /\ engine'.block = engine.block /\ engine'.processed = engine.processed
      /\ engine'.unprocessed = 0
  <2>1. 0 \in 0 .. Block - 1
    BY EngineAssumption, SMT
  <2>2. engine' = [engine EXCEPT !.unprocessed = 0]
    BY DEF Result
  <2> QED BY <1>1, <2>1, <2>2 DEF Engines
<1>3. Seen' = Seen
  <2>1. m_computed' = TRUE /\ dropped' = engine.unprocessed
    BY DEF Result
  <2>2. Waiting' = Waiting
    BY <1>1, <2>1 DEF Waiting
  <2> QED BY <1>2, <2>2 DEF Seen
<1>4. m_finalDigest' = Padded(Seen) /\ Padded(Seen) \in Seq(Int)
  <2>1. WholeBlocks(engine)
    BY DEF IInv
  <2> QED BY <1>1, <2>1, FinishedPads, PaddedType DEF Result
<1>5. ShaTypeOK'
  <2>1. engine.unprocessed \in 0 .. Block - 1
    BY <1>1 DEF Engines
  <2> QED BY <1>2, <1>4, <2>1 DEF IInv, ShaTypeOK, Result, Engines
<1>6. (WholeBlocks(engine))'
  BY <1>2 DEF IInv, WholeBlocks
<1>7. (m_computed => engine.unprocessed = 0 /\ m_finalDigest = Padded(Seen))'
  <2>1. engine'.unprocessed = 0 /\ m_finalDigest' = Padded(Seen')
    BY <1>2, <1>3, <1>4
  <2> QED BY <2>1 DEF Padded
<1>8. message' = message /\ cut' = cut
  BY DEF Result
<1> QED BY <1>3, <1>5, <1>6, <1>7, <1>8 DEF IInv

LEMMA HashIInv == ASSUME IInv, NEW data \in Seq(Int), Hash(data) PROVE IInv'
<1>1. data \in Seq(Int)
  OBVIOUS
<1>2. /\ ShaTypeOK /\ WholeBlocks(engine) /\ engine \in Engines /\ message \in Seq(Int)
      /\ Seen \in Seq(Int) /\ Len(Seen) = Len(engine.digest) + Waiting
      /\ Waiting = engine.unprocessed => Seen = Flow(engine)
  BY SeenType DEF IInv, ShaTypeOK
<1>3. /\ engine' \in Engines /\ (WholeBlocks(engine))'
      /\ Flow(engine') = Flow(engine) \o data
  <2>1. engine' = Hashed(engine, data)
    BY DEF Hash
  <2>2. /\ Hashed(engine, data) \in Engines /\ WholeBlocks(Hashed(engine, data))
        /\ Flow(Hashed(engine, data)) = Flow(engine) \o data
    BY <1>1, <1>2, HashedKeeps
  <2> QED BY <2>1, <2>2 DEF WholeBlocks
<1>4. /\ m_computed' = FALSE /\ message' = message \o data
      /\ cut' = (cut \/ (m_computed /\ dropped > 0))
      /\ m_finalDigest' = m_finalDigest /\ dropped' = dropped
  BY DEF Hash
<1>5. /\ message' \in Seq(Int) /\ Len(message') = Len(message) + Len(data)
      /\ Flow(engine) \in Seq(Int) /\ Len(Flow(engine)) = Len(engine.digest) + engine.unprocessed
      /\ Len(Flow(engine) \o data) = Len(Flow(engine)) + Len(data)
  <2>1. message \o data \in Seq(Int) /\ Len(message \o data) = Len(message) + Len(data)
    BY <1>1, <1>2, ConcatProperties
  <2>2. Flow(engine) \in Seq(Int) /\ Len(Flow(engine)) = Len(engine.digest) + engine.unprocessed
    BY <1>2, FlowType
  <2> QED BY <1>1, <1>4, <2>1, <2>2, ConcatProperties
<1>6. ShaTypeOK'
  BY <1>2, <1>3, <1>4, <1>5 DEF ShaTypeOK, Engines
<1>7. Seen' = Flow(engine) \o data
  <2>1. Waiting' = engine'.unprocessed
    BY <1>4 DEF Waiting
  <2>2. Seen' = Flow(engine')
    BY <2>1 DEF Seen, Flow, Held
  <2> QED BY <1>3, <2>2
<1>8. /\ Len(message) \in Int /\ Len(data) \in Int /\ Len(engine.digest) \in Int
      /\ dropped \in Int /\ engine.unprocessed \in Int
  <2>1. engine.digest \in Seq(Int) /\ engine.unprocessed \in 0 .. Block - 1
    BY <1>2 DEF Engines
  <2>2. dropped \in 0 .. Block - 1
    BY <1>2 DEF ShaTypeOK
  <2>3. Len(message) \in Nat /\ Len(data) \in Nat /\ Len(engine.digest) \in Nat
    BY <1>1, <1>2, <2>1, LenProperties
  <2> QED BY <2>1, <2>2, <2>3, EngineAssumption, SMT
<1>9. CASE m_computed /\ dropped > 0
  <2>1. engine.unprocessed = 0 /\ Waiting = dropped /\ cut'
    BY <1>4, <1>9 DEF IInv, Waiting
  <2>2. Len(Seen) <= Len(message)
    <3>1. cut => Len(Seen) < Len(message)
      BY DEF IInv
    <3>2. ~cut => Len(Seen) = Len(message)
      BY DEF IInv
    <3>3. Len(Seen) \in Int
      BY <1>2, LenProperties, SMT
    <3> QED BY <1>8, <3>1, <3>2, <3>3, SMT
  <2>3. Len(Seen') < Len(message')
    <3>1. Len(Seen') = Len(engine.digest) + engine.unprocessed + Len(data)
      BY <1>5, <1>7
    <3>2. Len(engine.digest) + dropped <= Len(message)
      BY <1>2, <2>1, <2>2
    <3> QED BY <1>5, <1>8, <1>9, <2>1, <3>1, <3>2, SMT
  <2> QED BY <1>3, <1>4, <1>6, <2>1, <2>3 DEF IInv
<1>10. CASE ~(m_computed /\ dropped > 0)
  <2>1. Seen = Flow(engine)
    <3>1. CASE m_computed
      <4>1. dropped \in 0 .. Block - 1 /\ ~(dropped > 0)
        BY <1>2, <1>10, <3>1 DEF ShaTypeOK
      <4>2. dropped = 0
        BY <4>1, EngineAssumption, SMT
      <4> QED BY <1>2, <3>1, <4>2 DEF IInv, Waiting
    <3>2. CASE ~m_computed
      BY <1>2, <3>2 DEF Waiting
    <3> QED BY <3>1, <3>2
  <2>2. cut' = cut /\ Seen' = Seen \o data
    BY <1>4, <1>7, <1>10, <2>1 DEF IInv, ShaTypeOK
  <2>3. ~cut' => Seen' = message'
    <3>1. ~cut => Seen = message
      BY DEF IInv
    <3> QED BY <1>4, <2>2, <3>1
  <2>4. cut' => Len(Seen') < Len(message')
    <3>1. Len(Seen') = Len(Seen) + Len(data)
      BY <1>5, <1>7, <2>1
    <3>2. Len(Seen) \in Int
      BY <1>2, LenProperties, SMT
    <3>3. cut => Len(Seen) < Len(message)
      BY DEF IInv
    <3>4. cut => Len(Seen') < Len(message')
      BY <1>5, <1>8, <3>1, <3>2, <3>3, SMT
    <3> QED BY <2>2, <3>4
  <2> QED BY <1>3, <1>4, <1>6, <2>3, <2>4 DEF IInv
<1> QED BY <1>9, <1>10

LEMMA NextIInv == IInv /\ [ShaNext]_shaVars => IInv'
<1> SUFFICES ASSUME IInv, [ShaNext]_shaVars PROVE IInv'
  OBVIOUS
<1>1. CASE Result
  BY <1>1, ResultIInv
<1>2. ASSUME NEW data \in Chunks, Hash(data) PROVE IInv'
  <2>1. data \in Seq(Int)
    BY EngineAssumption, SeqMonotonic
  <2> QED BY <1>2, <2>1, HashIInv
<1>3. CASE UNCHANGED shaVars
  BY <1>3 DEF shaVars, IInv, ShaTypeOK, WholeBlocks, Seen, Waiting, Padded
<1> QED BY <1>1, <1>2, <1>3 DEF ShaNext

(* Result finds room for the byte that ends a message, and Process_Partial *)
(* never fills a block beyond its end: sha1.cpp:60 and sha1.cpp:117.       *)
THEOREM EngineTypes == ShaSpec => []ShaTypeOK
<1>1. IInv => ShaTypeOK
  BY DEF IInv
<1> QED BY InitIInv, NextIInv, <1>1, PTL DEF ShaSpec

(* The digest is that of the message, however it was cut into calls,       *)
(* exactly as long as nothing was hashed after a Result inside a block.    *)
THEOREM DigestCorrect == ShaSpec => []DigestOfMessage
<1>1. IInv => DigestOfMessage
  <2> SUFFICES ASSUME IInv, m_computed PROVE m_finalDigest = Padded(message) <=> ~cut
    BY DEF DigestOfMessage
  <2>1. m_finalDigest = Padded(Seen) /\ Seen \in Seq(Int) /\ message \in Seq(Int)
    BY SeenType DEF IInv, ShaTypeOK
  <2>2. CASE ~cut
    BY <2>1, <2>2 DEF IInv
  <2>3. CASE cut
    <3>1. Len(Seen) < Len(message) /\ Len(Seen) \in Nat /\ Len(message) \in Nat
      BY <2>1, <2>3, LenProperties DEF IInv
    <3>2. Len(Seen) # Len(message)
      BY <3>1, SMT
    <3>3. Padded(Seen)[Len(Padded(Seen))] = Len(Seen)
      BY <2>1, PaddedType
    <3>4. Padded(message)[Len(Padded(message))] = Len(message)
      BY <2>1, PaddedType
    <3> QED BY <2>1, <2>3, <3>2, <3>3, <3>4
  <2> QED BY <2>2, <2>3
<1> QED BY InitIInv, NextIInv, <1>1, PTL DEF ShaSpec

-----------------------------------------------------------------------------
(* The hook proxy.                                                         *)

Code == CodeRange(layout)
Data == DataRange(layout)

(* The pages after the one call of StartHooks, and after both.             *)
CodeOpen == [p \in DOMAIN layout.memory |-> IF p \in Code THEN "open" ELSE layout.memory[p]]

BothOpen == [p \in DOMAIN layout.memory |-> IF p \in Data THEN "open" ELSE CodeOpen[p]]

DataMapped == \A p \in Data : p \in DOMAIN layout.memory /\ CodeOpen[p] # "none"

Unchosen == dllStep \in {"attach", "open", "read", "choose"}

DllTypes ==
  /\ file \in Games /\ layout \in Layouts /\ at \in Nat /\ failed \in BOOLEAN
  /\ intact \in BOOLEAN
  /\ payload \in {"unknown"} \cup DOMAIN Sites

(* What has been hashed is the file so far, or nothing of one that could   *)
(* not be opened.                                                          *)
Reading ==
  /\ Unchosen => payload = "unknown" /\ ~m_computed /\ ~cut
  /\ dllStep \in {"attach", "open"} => at = 0 /\ message = <<>>
  /\ dllStep = "read" =>
       /\ at <= Len(file)
       /\ message = SubSeq(file, 1, at) \/ (message = <<>> /\ at = Len(file))
  /\ dllStep = "choose" => message \in {file, <<>>}

Chosen ==
  /\ payload # "unknown" /\ intact => file \in DOMAIN Payloads /\ payload = Payloads[file]
  /\ dllStep \in {"load", "startCode", "startData", "hook", "stopCode", "stopData"} =>
       payload # "unknown"

HookedWhole ==
  hooked # {} =>
    /\ payload # "unknown" /\ hooked = Sites[payload]
    /\ intact => file \in DOMAIN Payloads /\ payload = Payloads[file]

(* The pages at every step, and the protections that are saved; after a    *)
(* failure only that hooking is not gone on with.                          *)
Protected ==
  /\ payload = "unknown" \/ dllStep \in {"load", "startCode"} => memory = layout.memory
  /\ dllStep \in {"startData", "hook", "stopCode", "stopData"} /\ ~failed => s_oldProtect1 = "execute"
  /\ dllStep = "startData" /\ ~failed => memory = CodeOpen
  /\ dllStep = "hook" => ~failed
  /\ dllStep \in {"hook", "stopCode"} /\ ~failed => memory = BothOpen
  /\ dllStep \in {"hook", "stopCode", "stopData"} /\ ~failed =>
       DataMapped /\ s_oldProtect2 = CodeOpen[First(Data)]
  /\ dllStep = "stopData" /\ ~failed =>
       memory = [p \in DOMAIN layout.memory |-> IF p \in Code THEN "execute" ELSE BothOpen[p]]

DllInv == IInv /\ DllTypes /\ Reading /\ Chosen /\ HookedWhole /\ Protected /\ PutBack

-----------------------------------------------------------------------------
(* Files and their digests.                                                *)

LEMMA GameType == \A g \in Games \cup DOMAIN Payloads : g \in Seq(Int)
<1> TAKE g \in Games \cup DOMAIN Payloads
<1>1. g \in Seq(Bytes) /\ Bytes \subseteq Int
  BY DllAssumption, EngineAssumption
<1> QED BY <1>1, SeqMonotonic

(* A padded message begins with the message.                               *)
LEMMA PaddedBegins ==
  ASSUME NEW m \in Seq(Int)
  PROVE  \A i \in 1 .. Len(m) : Padded(m)[i] = m[i]
<1> DEFINE n     == (- (Len(m) + 1 + LengthBytes)) % Block
           head  == m \o <<Pad>>
           front == head \o Zeros(n)
           field == LengthField(Len(m))
<1>1. Len(m) \in Nat /\ LengthBytes \in Nat \ {0}
  BY LenProperties, EngineAssumption, SMT
<1>2. n \in Int /\ n >= 0
  <2>1. - (Len(m) + 1 + LengthBytes) \in Int
    BY <1>1, SMT
  <2>2. n \in 0 .. Block - 1
    BY <2>1, RemainderType
  <2> QED BY <2>2, EngineAssumption, SMT
<1>3. Zeros(n) \in Seq(Int)
  <2> HIDE DEF n
  <2> QED BY <1>2, ZerosType
<1>4. /\ head \in Seq(Int) /\ Len(head) = Len(m) + 1
      /\ \A i \in 1 .. Len(m) + 1 : head[i] = IF i <= Len(m) THEN m[i] ELSE <<Pad>>[i - Len(m)]
  <2>1. <<Pad>> \in Seq(Int) /\ Len(<<Pad>>) = 1
    BY EngineAssumption, SMT
  <2> DEFINE pad == <<Pad>>
  <2>2. pad \in Seq(Int) /\ Len(pad) = 1 /\ head = m \o pad
    BY <2>1
  <2> HIDE DEF pad
  <2>3. /\ m \o pad \in Seq(Int) /\ Len(m \o pad) = Len(m) + Len(pad)
        /\ \A i \in 1 .. Len(m) + Len(pad) :
             (m \o pad)[i] = IF i <= Len(m) THEN m[i] ELSE pad[i - Len(m)]
    BY <2>2, ConcatProperties
  <2> HIDE DEF head
  <2> QED BY <2>2, <2>3 DEF pad
<1>5. field \in Seq(Int)
  BY <1>1, LengthFieldType
<1>6. Padded(m) = front \o field
  BY DEF Padded
<1> HIDE DEF n, head, field
<1>7. /\ front \in Seq(Int) /\ Len(front) = Len(head) + Len(Zeros(n))
      /\ \A i \in 1 .. Len(head) + Len(Zeros(n)) :
           front[i] = IF i <= Len(head) THEN head[i] ELSE Zeros(n)[i - Len(head)]
  <2>1. head \in Seq(Int) /\ Zeros(n) \in Seq(Int)
    BY <1>3, <1>4
  <2> QED BY <2>1, ConcatProperties
<1> HIDE DEF front
<1>8. \A i \in 1 .. Len(front) + Len(field) :
        (front \o field)[i] = IF i <= Len(front) THEN front[i] ELSE field[i - Len(front)]
  BY <1>5, <1>7, ConcatProperties
<1>9. Len(Zeros(n)) \in Nat /\ Len(field) \in Nat
  BY <1>3, <1>5, LenProperties
<1> TAKE i \in 1 .. Len(m)
<1>10. /\ i \in 1 .. Len(m) + 1 /\ i <= Len(m)
       /\ i \in 1 .. Len(head) + Len(Zeros(n)) /\ i <= Len(head)
       /\ i \in 1 .. Len(front) + Len(field) /\ i <= Len(front)
  <2>1. Len(head) = Len(m) + 1 /\ Len(front) = Len(head) + Len(Zeros(n))
    BY <1>4, <1>7
  <2> QED BY <1>1, <1>9, <2>1, SMT
<1>11. head[i] = m[i]
  BY <1>4, <1>10
<1>12. front[i] = head[i]
  BY <1>7, <1>10
<1>13. (front \o field)[i] = front[i]
  BY <1>8, <1>10
<1> QED BY <1>6, <1>11, <1>12, <1>13

(* So that no two messages are padded to the same.                         *)
LEMMA PaddedInjective ==
  ASSUME NEW m \in Seq(Int), NEW g \in Seq(Int), Padded(g) = Padded(m)
  PROVE  g = m
<1>1. Padded(g)[Len(Padded(g))] = Len(g) /\ Padded(m)[Len(Padded(m))] = Len(m)
  BY PaddedType
<1>2. Len(g) = Len(m)
  BY <1>1
<1>3. \A i \in 1 .. Len(g) : g[i] = m[i]
  <2>1. \A i \in 1 .. Len(g) : Padded(g)[i] = g[i]
    BY PaddedBegins
  <2>2. \A i \in 1 .. Len(m) : Padded(m)[i] = m[i]
    BY PaddedBegins
  <2> QED BY <1>2, <2>1, <2>2
<1> QED BY <1>2, <1>3, SeqEqual

-----------------------------------------------------------------------------
(* Pages.                                                                  *)

LEMMA FirstPage ==
  ASSUME NEW first \in Nat, NEW size \in Nat, 0 < size
  PROVE  First(Pages(first, size)) \in Pages(first, size)
<1>1. first \in Pages(first, size) /\ \A q \in Pages(first, size) : first <= q
  BY SMT DEF Pages
<1> QED BY <1>1 DEF First

LEMMA LayoutType ==
  ASSUME layout \in Layouts
  PROVE  /\ First(Code) \in Code /\ First(Data) \in Data
         /\ Code \subseteq DOMAIN layout.memory
         /\ \A p \in DOMAIN layout.memory :
              /\ layout.memory[p] \in Protections
              /\ layout.memory[p] = "execute" <=> p \in Code
         /\ \A name \in DOMAIN Sites : Sites[name] \subseteq Code
<1>1. /\ layout.base \in Nat /\ layout.code \in Nat /\ layout.codeSize \in Nat /\ 0 < layout.codeSize
      /\ layout.data \in Nat /\ layout.dataSize \in Nat /\ 0 < layout.dataSize
      /\ CodeRange(layout) \subseteq DOMAIN layout.memory
      /\ layout.memory \in [DOMAIN layout.memory -> Protections]
      /\ \A p \in DOMAIN layout.memory : layout.memory[p] = "execute" <=> p \in CodeRange(layout)
      /\ \A name \in DOMAIN Sites : Sites[name] \subseteq CodeRange(layout)
  BY LayoutAssumption
<1>2. layout.base + layout.code \in Nat
  BY <1>1, SMT
<1>3. First(Code) \in Code
  BY <1>1, <1>2, FirstPage DEF Code, CodeRange
<1>4. First(Data) \in Data
  BY <1>1, FirstPage DEF Data, DataRange
<1> QED BY <1>1, <1>3, <1>4 DEF Code

(* With the code open the pages are not what they were.                    *)
LEMMA LeftOpen == layout \in Layouts => CodeOpen # layout.memory
<1> SUFFICES ASSUME layout \in Layouts PROVE CodeOpen # layout.memory
  OBVIOUS
<1>1. /\ First(Code) \in Code /\ First(Code) \in DOMAIN layout.memory
      /\ layout.memory[First(Code)] = "execute"
  BY LayoutType
<1>2. CodeOpen[First(Code)] = "open"
  BY <1>1 DEF CodeOpen
<1> QED BY <1>1, <1>2

(* After StopHooks has put both ranges back every page is as it was,       *)
(* exactly if the data's range is one of its own.                          *)
LEMMA PutBackApart ==
  ASSUME layout \in Layouts, DataMapped
  PROVE  LET s == CodeOpen[First(Data)]
             final == [p \in DOMAIN layout.memory |-> IF p \in Data THEN s ELSE layout.memory[p]]
         IN  final = layout.memory <=> DataApart
<1> DEFINE s == CodeOpen[First(Data)]
           final == [p \in DOMAIN layout.memory |-> IF p \in Data THEN s ELSE layout.memory[p]]
<1>1. /\ First(Data) \in Data /\ First(Data) \in DOMAIN layout.memory
      /\ \A p \in Data : p \in DOMAIN layout.memory /\ CodeOpen[p] # "none"
      /\ \A p \in DOMAIN layout.memory :
           /\ layout.memory[p] \in Protections
           /\ layout.memory[p] = "execute" <=> p \in Code
  BY LayoutType DEF DataMapped
<1>2. \A p \in DOMAIN layout.memory : CodeOpen[p] = IF p \in Code THEN "open" ELSE layout.memory[p]
  BY DEF CodeOpen
<1>3. ASSUME final = layout.memory PROVE DataApart
  <2>1. \A p \in Data : layout.memory[p] = s
    <3> SUFFICES ASSUME NEW p \in Data PROVE layout.memory[p] = s
      OBVIOUS
    <3>1. final[p] = s
      BY <1>1
    <3> QED BY <1>3, <3>1
  <2>2. First(Data) \notin Code
    <3> SUFFICES ASSUME First(Data) \in Code PROVE FALSE
      OBVIOUS
    <3>1. s = "open" /\ layout.memory[First(Data)] = "execute"
      BY <1>1, <1>2
    <3> QED BY <1>1, <2>1, <3>1
  <2>3. s = layout.memory[First(Data)] /\ s # "execute"
    BY <1>1, <1>2, <2>2
  <2>4. Data \cap Code = {}
    BY <1>1, <2>1, <2>3
  <2>5. \A p \in Data : layout.memory[p] # "none"
    BY <1>1, <1>2, <2>4
  <2> QED BY <1>1, <2>1, <2>3, <2>4, <2>5 DEF DataApart, Code, Data
<1>4. ASSUME DataApart PROVE final = layout.memory
  <2>1. /\ Data \cap Code = {}
        /\ \A p \in Data : layout.memory[p] = layout.memory[First(Data)]
    BY <1>4 DEF DataApart, Code, Data
  <2>2. s = layout.memory[First(Data)]
    BY <1>1, <1>2, <2>1
  <2>3. \A p \in DOMAIN layout.memory : final[p] = layout.memory[p]
    BY <2>1, <2>2
  <2>4. layout.memory = [p \in DOMAIN layout.memory |-> layout.memory[p]]
    <3>1. layout.memory \in [DOMAIN layout.memory -> Protections]
      BY LayoutAssumption
    <3> QED BY <3>1
  <2> HIDE DEF s
  <2> QED BY <2>3, <2>4
<1> QED BY <1>3, <1>4

-----------------------------------------------------------------------------
(* The steps.                                                              *)

LEMMA EngineRests == IInv /\ UNCHANGED shaVars => IInv'
  BY NextIInv

LEMMA InitDllInv == ShaInit /\ DllInit => DllInv
<1> SUFFICES ASSUME ShaInit, DllInit PROVE DllInv
  OBVIOUS
<1>1. IInv
  BY InitIInv
<1>2. /\ DllTypes /\ Chosen /\ HookedWhole /\ Protected /\ PutBack
  BY DEF DllInit, DllTypes, Chosen, HookedWhole, Protected, PutBack
<1>3. Reading
  BY DEF DllInit, ShaInit, Reading, Unchosen
<1> QED BY <1>1, <1>2, <1>3 DEF DllInv

(* An image's ranges are of the image alone.                               *)
LEMMA LayoutKept ==
  layout' = layout =>
    /\ Code' = Code /\ Data' = Data /\ CodeOpen' = CodeOpen /\ BothOpen' = BothOpen
    /\ DataMapped' <=> DataMapped
    /\ DataApart' <=> DataApart
  BY DEF Code, Data, CodeOpen, BothOpen, DataMapped, DataApart

(* Up to the choice of the payload nothing touches the pages.              *)
LEMMA BeforeChoice ==
  ASSUME DllInv, UNCHANGED <<file, layout, memory, hooked>>,
         payload = "unknown", payload' = "unknown",
         dllStep' \in {"open", "read", "choose", "done", "exited"}
  PROVE  Chosen' /\ HookedWhole' /\ Protected' /\ PutBack'
<1>1. memory' = layout'.memory
  BY DEF DllInv, Protected
<1>2. Chosen' /\ HookedWhole'
  BY DEF DllInv, Chosen, HookedWhole
<1>3. Protected'
  BY <1>1 DEF Protected
<1>4. PutBack'
  BY <1>1 DEF PutBack
<1> QED BY <1>2, <1>3, <1>4

(* From then on neither the file nor its payload changes.                  *)
LEMMA AfterChoice ==
  ASSUME DllInv, UNCHANGED <<file, at, payload, layout, intact>>, UNCHANGED shaVars,
         payload # "unknown", failed' \in BOOLEAN,
         dllStep' \in {"startCode", "startData", "hook", "stopCode", "stopData", "done"}
  PROVE  IInv' /\ DllTypes' /\ Reading' /\ Chosen'
<1>1. IInv'
  BY EngineRests DEF DllInv
<1>2. DllTypes'
  BY DEF DllInv, DllTypes
<1>3. Reading'
  BY DEF Reading, Unchosen
<1>4. Chosen'
  BY DEF DllInv, Chosen
<1> QED BY <1>1, <1>2, <1>3, <1>4

LEMMA LoadFunctionsStep == DllInv /\ Load_Forwarded_Functions => DllInv'
<1> SUFFICES ASSUME DllInv, Load_Forwarded_Functions PROVE DllInv'
  OBVIOUS
<1>1. /\ dllStep = "attach" /\ dllStep' \in {"open", "exited"} /\ failed' \in BOOLEAN
      /\ UNCHANGED <<file, at, payload, layout, memory, hooked, intact>> /\ UNCHANGED shaVars
  BY DEF DllInv, DllTypes, Load_Forwarded_Functions, Try, Goto, UnchangedImage
<1>2. payload = "unknown" /\ ~m_computed /\ ~cut /\ at = 0 /\ message = <<>>
  BY <1>1 DEF DllInv, Reading, Unchosen
<1>3. message' = <<>> /\ ~m_computed' /\ ~cut' /\ at' = 0 /\ payload' = "unknown"
  BY <1>1, <1>2 DEF shaVars
<1>4. IInv'
  BY <1>1, EngineRests DEF DllInv
<1>5. DllTypes'
  BY <1>1 DEF DllInv, DllTypes
<1>6. Reading'
  BY <1>1, <1>3 DEF Reading, Unchosen
<1> QED BY <1>1, <1>2, <1>3, <1>4, <1>5, <1>6, BeforeChoice DEF DllInv

LEMMA PathStep == DllInv /\ Get_Path => DllInv'
<1> SUFFICES ASSUME DllInv, Get_Path PROVE DllInv'
  OBVIOUS
<1>1. /\ dllStep = "open" /\ dllStep' \in {"read", "exited"} /\ failed' \in BOOLEAN
      /\ at' = at \/ at' = Len(file)
      /\ UNCHANGED <<file, payload, layout, memory, hooked, intact>> /\ UNCHANGED shaVars
  BY DEF DllInv, DllTypes, Get_Path, Try, Goto, UnchangedImage
<1>2. payload = "unknown" /\ ~m_computed /\ ~cut /\ at = 0 /\ message = <<>>
  BY <1>1 DEF DllInv, Reading, Unchosen
<1>3. message' = <<>> /\ ~m_computed' /\ ~cut' /\ payload' = "unknown"
  BY <1>1, <1>2 DEF shaVars
<1>4. IInv'
  BY <1>1, EngineRests DEF DllInv
<1>5. Len(file) \in Nat
  <2>1. file \in Seq(Int)
    BY GameType DEF DllInv, DllTypes
  <2> QED BY <2>1, LenProperties
<1>6. at' \in Nat /\ at' <= Len(file) /\ at' \in {0, Len(file)}
  BY <1>1, <1>2, <1>5, SMT
<1>7. DllTypes'
  BY <1>1, <1>6 DEF DllInv, DllTypes
<1>8. message' = SubSeq(file, 1, at') \/ (message' = <<>> /\ at' = Len(file))
  <2>1. 0 < 1 /\ 0 \in Int /\ 1 \in Int
    BY SMT
  <2>2. SubSeq(file, 1, 0) = <<>>
    BY <2>1, SubSeqEmpty
  <2> QED BY <1>3, <1>6, <2>2
<1>9. Reading'
  BY <1>1, <1>3, <1>6, <1>8 DEF Reading, Unchosen
<1> QED BY <1>1, <1>2, <1>3, <1>4, <1>7, <1>9, BeforeChoice DEF DllInv

(* A turn of the loop hashes what follows what has been hashed; the last   *)
(* one ends at the end of the file.                                        *)
LEMMA HashStep == DllInv /\ Get_Hash => DllInv'
<1> SUFFICES ASSUME DllInv, Get_Hash PROVE DllInv'
  OBVIOUS
<1> DEFINE n == FirstOf(ReadSize, Len(file) - at)
           data == SubSeq(file, at + 1, at + n)
<1>1. dllStep = "read" /\ at \in Nat /\ at <= Len(file)
  <2>1. dllStep = "read"
    BY DEF Get_Hash, Goto
  <2> QED BY <2>1 DEF DllInv, DllTypes, Reading
<1>2. file \in Seq(Int) /\ Len(file) \in Nat /\ file \in [1 .. Len(file) -> Int]
  <2>1. file \in Seq(Int)
    BY GameType DEF DllInv, DllTypes
  <2> QED BY <2>1, LenProperties
<1>3. at \in Nat /\ at <= Len(file) /\ Len(file) \in Nat
  BY <1>1, <1>2
<1>4. /\ n \in Nat /\ at + n <= Len(file) /\ at + n \in Nat
      /\ n # ReadSize => at + n = Len(file)
      /\ at = Len(file) => n = 0 /\ n # ReadSize
  <2>1. ReadSize \in Nat /\ 0 < ReadSize
    BY DllAssumption
  <2>2. n = IF ReadSize < Len(file) - at THEN ReadSize ELSE Len(file) - at
    BY DEF FirstOf
  <2> HIDE DEF n
  <2> QED BY <1>3, <2>1, <2>2, SMT
<1> HIDE DEF n
<1>5. data \in Seq(Int)
  <2>1. at + 1 .. at + n \subseteq 1 .. Len(file) /\ at + 1 \in Int /\ at + n \in Int
    BY <1>3, <1>4, SMT
  <2>2. \A i \in at + 1 .. at + n : file[i] \in Int
    BY <1>2, <2>1
  <2> QED BY <2>1, <2>2, SubSeqProperties
<1>6. /\ Hash(data) /\ at' = at + n /\ file' = file /\ payload' = payload
      /\ dllStep' = IF n = ReadSize THEN "read" ELSE "choose"
      /\ UNCHANGED <<layout, memory, s_oldProtect1, s_oldProtect2, hooked, failed, intact>>
  BY DEF Get_Hash, Goto, UnchangedImage, n
<1> HIDE DEF data
<1>7. IInv'
  BY <1>5, <1>6, HashIInv DEF DllInv
<1>8. ~m_computed' /\ ~cut' /\ message' = message \o data /\ payload' = "unknown"
  <2>1. ~m_computed /\ ~cut /\ payload = "unknown"
    BY <1>1 DEF DllInv, Reading, Unchosen
  <2> QED BY <1>6, <2>1 DEF Hash
<1>9. message' = SubSeq(file, 1, at') \/ (message' = <<>> /\ at' = Len(file))
  <2>1. CASE message = SubSeq(file, 1, at)
    <3>1. /\ 1 \in 1 .. Len(file) + 1 /\ at \in 1 - 1 .. Len(file)
          /\ at + n \in at .. Len(file)
      BY <1>3, <1>4, SMT
    <3>2. SubSeq(file, 1, at) \o data = SubSeq(file, 1, at + n)
      BY <1>2, <3>1, ConcatAdjacentSubSeq DEF data
    <3> QED BY <1>6, <1>8, <2>1, <3>2
  <2>2. CASE message = <<>> /\ at = Len(file)
    <3>1. n = 0 /\ at' = at + 0
      BY <1>4, <1>6, <2>2
    <3>2. at' = at /\ at + n < at + 1 /\ at + n \in Int /\ at + 1 \in Int
      BY <1>3, <3>1, SMT
    <3>3. data = <<>>
      BY <3>2, SubSeqEmpty DEF data
    <3>4. <<>> \o <<>> = <<>>
      BY EmptySeq, ConcatEmptySeq
    <3> QED BY <1>8, <2>2, <3>2, <3>3, <3>4
  <2>3. message = SubSeq(file, 1, at) \/ (message = <<>> /\ at = Len(file))
    BY <1>1 DEF DllInv, Reading
  <2> QED BY <2>1, <2>2, <2>3
<1>10. n # ReadSize => message' \in {file, <<>>}
  <2>1. SubSeq(file, 1, Len(file)) = file
    BY <1>2, SubSeqFull
  <2>2. n # ReadSize => at' = Len(file)
    BY <1>4, <1>6
  <2> QED BY <1>9, <2>1, <2>2
<1>11. Reading'
  <2>1. CASE n = ReadSize
    <3>1. dllStep' = "read" /\ at' <= Len(file')
      BY <1>4, <1>6, <2>1
    <3> QED BY <1>6, <1>8, <1>9, <3>1 DEF Reading, Unchosen
  <2>2. CASE n # ReadSize
    <3>1. dllStep' = "choose" /\ message' \in {file', <<>>}
      BY <1>6, <1>10, <2>2
    <3> QED BY <1>8, <3>1 DEF Reading, Unchosen
  <2> QED BY <2>1, <2>2
<1>12. DllTypes'
  <2>1. at' \in Nat
    BY <1>4, <1>6
  <2> QED BY <1>6, <2>1 DEF DllInv, DllTypes
<1>13. payload = "unknown" /\ dllStep' \in {"read", "choose"}
  BY <1>1, <1>6 DEF DllInv, Reading, Unchosen
<1> QED BY <1>6, <1>7, <1>8, <1>11, <1>12, <1>13, BeforeChoice DEF DllInv

(* Of the table's digests only the file's own is that of the file, and an  *)
(* empty message, which no game is, has none.                              *)
(* Of the table's digests only the file's own is that of the file, and an  *)
(* empty message, which no game is, has none; what is compared may be any. *)
LEMMA ChooseStep == DllInv /\ Get_Payload_Name => DllInv'
<1> SUFFICES ASSUME DllInv, Get_Payload_Name PROVE DllInv'
  OBVIOUS
<1> DEFINE known == NamesOf(m_finalDigest')
<1>1. /\ dllStep = "choose" /\ Result
      /\ dllStep' = IF payload' = "unknown" THEN "done" ELSE "load"
      /\ \/ intact' = TRUE /\ payload' \in IF known = {} THEN {"unknown"} ELSE known
         \/ intact' = FALSE /\ payload' \in {"unknown"} \cup {Payloads[g] : g \in DOMAIN Payloads}
      /\ UNCHANGED <<file, at, failed, layout, memory, hooked>>
  BY DEF Get_Payload_Name
<1>2. payload = "unknown" /\ message \in {file, <<>>} /\ ~cut
  BY <1>1 DEF DllInv, Reading, Unchosen
<1>3. IInv'
  BY <1>1, ResultIInv DEF DllInv
<1>4. m_computed' /\ message' = message /\ ~cut'
  BY <1>1, <1>2 DEF Result
<1>5. m_finalDigest' = Padded(message)
  <2>1. m_finalDigest' = Padded(Seen') /\ Seen' = message'
    BY <1>3, <1>4 DEF IInv
  <2> QED BY <1>4, <2>1
<1>6. \A name \in known : file \in DOMAIN Payloads /\ name = Payloads[file]
  <2> SUFFICES ASSUME NEW g \in DOMAIN Payloads, Padded(g) = m_finalDigest' PROVE g = file
    BY DEF NamesOf
  <2>1. g \in Seq(Int) /\ message \in Seq(Int)
    <3>1. g \in Seq(Int) /\ file \in Seq(Int)
      BY GameType DEF DllInv, DllTypes
    <3>2. <<>> \in Seq(Int)
      BY EmptySeq
    <3> QED BY <1>2, <3>1, <3>2
  <2>2. g = message
    BY <1>5, <2>1, PaddedInjective
  <2> QED BY <1>2, <2>2, DllAssumption
<1> HIDE DEF known
<1>7. CASE payload' = "unknown"
  <2>1. dllStep' = "done" /\ intact' \in BOOLEAN
    BY <1>1, <1>7
  <2>2. DllTypes'
    BY <1>1, <1>7, <2>1 DEF DllInv, DllTypes
  <2>3. Reading'
    BY <2>1 DEF Reading, Unchosen
  <2> QED BY <1>1, <1>2, <1>3, <1>7, <2>1, <2>2, <2>3, BeforeChoice DEF DllInv
<1>8. CASE payload' # "unknown"
  <2>1. dllStep' = "load" /\ intact' \in BOOLEAN
    BY <1>1, <1>8
  <2>2. payload' \in {Payloads[g] : g \in DOMAIN Payloads}
    BY <1>1, <1>6, <1>8
  <2>3. payload' \in DOMAIN Sites
    BY <2>2, DllAssumption
  <2>4. intact' => file \in DOMAIN Payloads /\ payload' = Payloads[file]
    BY <1>1, <1>6, <1>8
  <2>5. DllTypes'
    BY <1>1, <2>1, <2>3 DEF DllInv, DllTypes
  <2>6. Reading'
    BY <2>1 DEF Reading, Unchosen
  <2>7. Chosen'
    BY <1>1, <1>8, <2>4 DEF Chosen
  <2>8. HookedWhole'
    BY <1>1, <1>2 DEF DllInv, HookedWhole
  <2>9. memory' = layout'.memory
    BY <1>1, <1>2 DEF DllInv, Protected
  <2>10. Protected' /\ PutBack'
    BY <2>1, <2>9 DEF Protected, PutBack
  <2> QED BY <1>3, <2>5, <2>6, <2>7, <2>8, <2>10 DEF DllInv
<1> QED BY <1>7, <1>8

LEMMA LoadHooksStep == DllInv /\ Load_Setup_Hooks => DllInv'
<1> SUFFICES ASSUME DllInv, Load_Setup_Hooks PROVE DllInv'
  OBVIOUS
<1>1. /\ dllStep = "load"
      /\ \/ dllStep' = "startCode" /\ failed' = failed
         \/ dllStep' = "done" /\ failed' = TRUE
      /\ UNCHANGED <<file, at, payload, layout, memory, hooked, intact>> /\ UNCHANGED shaVars
  BY DEF Load_Setup_Hooks, Try, Goto, UnchangedImage
<1>2. payload # "unknown" /\ memory' = layout'.memory /\ failed' \in BOOLEAN
  BY <1>1 DEF DllInv, DllTypes, Chosen, Protected
<1>3. IInv' /\ DllTypes' /\ Reading' /\ Chosen'
  BY <1>1, <1>2, AfterChoice
<1>4. HookedWhole'
  BY <1>1 DEF DllInv, HookedWhole
<1>5. Protected' /\ PutBack'
  BY <1>1, <1>2 DEF Protected, PutBack
<1> QED BY <1>3, <1>4, <1>5 DEF DllInv

LEMMA StartCodeStep == DllInv /\ StartCode => DllInv'
<1> SUFFICES ASSUME DllInv, StartCode PROVE DllInv'
  OBVIOUS
<1>1. /\ dllStep = "startCode" /\ dllStep' \in {"startData", "done"}
      /\ UNCHANGED <<file, at, payload, layout, hooked, intact>> /\ UNCHANGED shaVars
      /\ \/ /\ Protect(Code, "open") /\ s_oldProtect1' = memory[First(Code)]
            /\ dllStep' = "startData" /\ failed' = failed
         \/ failed' = TRUE
  BY DEF StartCode, Code
<1>2. payload # "unknown" /\ memory = layout.memory /\ failed' \in BOOLEAN /\ layout \in Layouts
  BY <1>1 DEF DllInv, DllTypes, Chosen, Protected
<1>3. IInv' /\ DllTypes' /\ Reading' /\ Chosen'
  BY <1>1, <1>2, AfterChoice
<1>4. HookedWhole'
  BY <1>1 DEF DllInv, HookedWhole
<1>5. CASE failed' = TRUE
  BY <1>1, <1>2, <1>3, <1>4, <1>5 DEF DllInv, Protected, PutBack
<1>6. CASE /\ Protect(Code, "open") /\ s_oldProtect1' = memory[First(Code)]
           /\ dllStep' = "startData"
  <2>1. s_oldProtect1' = "execute"
    BY <1>2, <1>6, LayoutType
  <2>2. memory' = CodeOpen'
    <3>1. memory' = CodeOpen
      BY <1>2, <1>6 DEF Protect, CodeOpen
    <3> QED BY <1>1, <3>1, LayoutKept
  <2>3. Protected' /\ PutBack'
    BY <1>1, <1>2, <1>6, <2>1, <2>2 DEF Protected, PutBack
  <2> QED BY <1>3, <1>4, <2>3 DEF DllInv
<1> QED BY <1>1, <1>5, <1>6

(* Without memory where the data should be the code is left open.          *)
LEMMA StartDataStep == DllInv /\ StartData => DllInv'
<1> SUFFICES ASSUME DllInv, StartData PROVE DllInv'
  OBVIOUS
<1>1. /\ dllStep = "startData" /\ dllStep' \in {"hook", "done"}
      /\ UNCHANGED <<file, at, payload, layout, s_oldProtect1, hooked, intact>> /\ UNCHANGED shaVars
      /\ \/ /\ Mapped(Data) /\ Protect(Data, "open") /\ s_oldProtect2' = memory[First(Data)]
            /\ dllStep' = (IF failed THEN "done" ELSE "hook") /\ failed' = failed
         \/ /\ memory' = memory /\ dllStep' = "done"
            /\ failed' = (failed \/ Mapped(Data))
  BY DEF StartData, Data, Unprotected
<1>2. payload # "unknown" /\ failed \in BOOLEAN /\ layout \in Layouts
  BY <1>1 DEF DllInv, DllTypes, Chosen
<1>3. failed' \in BOOLEAN
  BY <1>1, <1>2
<1>4. IInv' /\ DllTypes' /\ Reading' /\ Chosen'
  BY <1>1, <1>2, <1>3, AfterChoice
<1>5. HookedWhole'
  BY <1>1 DEF DllInv, HookedWhole
<1>6. ~failed => s_oldProtect1 = "execute" /\ memory = CodeOpen
  BY <1>1 DEF DllInv, Protected
<1>7. DOMAIN CodeOpen = DOMAIN layout.memory
  BY DEF CodeOpen
<1>8. CASE failed'
  <2>1. dllStep' = "done"
    BY <1>1, <1>8
  <2>2. Protected' /\ PutBack'
    BY <1>1, <1>2, <1>8, <2>1 DEF Protected, PutBack
  <2> QED BY <1>4, <1>5, <2>2 DEF DllInv
<1>9. CASE ~failed' /\ dllStep' = "hook"
  <2>1. /\ ~failed /\ memory = CodeOpen /\ Mapped(Data) /\ Protect(Data, "open")
        /\ s_oldProtect2' = memory[First(Data)] /\ s_oldProtect1' = "execute"
    BY <1>1, <1>2, <1>6, <1>9
  <2>2. DataMapped
    BY <1>7, <2>1 DEF DataMapped, Mapped
  <2>3. memory' = BothOpen
    BY <1>7, <2>1 DEF Protect, BothOpen
  <2>4. DataMapped' /\ memory' = BothOpen' /\ s_oldProtect2' = CodeOpen'[First(Data')]
    BY <1>1, <2>1, <2>2, <2>3, LayoutKept
  <2>5. Protected' /\ PutBack'
    BY <1>1, <1>2, <1>9, <2>1, <2>4 DEF Protected, PutBack
  <2> QED BY <1>4, <1>5, <2>5 DEF DllInv
<1>10. CASE ~failed' /\ dllStep' = "done"
  <2>1. ~failed /\ memory' = CodeOpen /\ memory = CodeOpen /\ ~Mapped(Data)
    BY <1>1, <1>2, <1>6, <1>10
  <2>2. memory' # layout'.memory
    BY <1>1, <1>2, <2>1, LeftOpen
  <2>3. ~DataApart
    <3> SUFFICES ASSUME DataApart PROVE Mapped(Data)
      BY <2>1
    <3> SUFFICES ASSUME NEW p \in Data PROVE p \in DOMAIN memory /\ memory[p] # "none"
      BY DEF Mapped
    <3>1. p \in DOMAIN layout.memory /\ layout.memory[p] # "none" /\ p \notin Code
      BY DEF DataApart, Data, Code
    <3> QED BY <1>7, <2>1, <3>1 DEF CodeOpen
  <2>4. PutBack'
    <3>1. ~DataApart' /\ payload' # "unknown"
      BY <1>1, <1>2, <2>3, LayoutKept
    <3> QED BY <2>2, <3>1 DEF PutBack
  <2>5. Protected'
    BY <1>1, <1>2, <1>10 DEF Protected
  <2> QED BY <1>4, <1>5, <2>4, <2>5 DEF DllInv
<1> QED BY <1>1, <1>8, <1>9, <1>10

(* All the sites are in the code, which is open.                           *)
LEMMA SetupHooksStep == DllInv /\ Setup_Hooks => DllInv'
<1> SUFFICES ASSUME DllInv, Setup_Hooks PROVE DllInv'
  OBVIOUS
<1>1. /\ dllStep = "hook" /\ dllStep' = "stopCode"
      /\ hooked' = {p \in Sites[payload] : memory[p] = "open"}
      /\ UNCHANGED <<file, at, payload, layout, memory, s_oldProtect1, s_oldProtect2, failed, intact>>
      /\ UNCHANGED shaVars
  BY DEF Setup_Hooks, Goto
<1>2. /\ payload # "unknown" /\ failed' \in BOOLEAN /\ layout \in Layouts /\ payload \in DOMAIN Sites
      /\ intact => file \in DOMAIN Payloads /\ payload = Payloads[file]
  BY <1>1 DEF DllInv, DllTypes, Chosen
<1>3. /\ ~failed /\ memory = BothOpen /\ s_oldProtect1 = "execute" /\ DataMapped
      /\ s_oldProtect2 = CodeOpen[First(Data)]
  BY <1>1 DEF DllInv, Protected
<1>4. IInv' /\ DllTypes' /\ Reading' /\ Chosen'
  BY <1>1, <1>2, AfterChoice
<1>5. \A p \in Sites[payload] : memory[p] = "open"
  <2> SUFFICES ASSUME NEW p \in Sites[payload] PROVE BothOpen[p] = "open"
    BY <1>3
  <2>1. p \in Code /\ p \in DOMAIN layout.memory
    BY <1>2, LayoutType
  <2> QED BY <2>1 DEF BothOpen, CodeOpen
<1>6. hooked' = Sites[payload]
  BY <1>1, <1>2, <1>5
<1>7. HookedWhole'
  BY <1>1, <1>2, <1>6 DEF HookedWhole
<1>8. /\ memory' = BothOpen' /\ DataMapped'
      /\ s_oldProtect2' = CodeOpen'[First(Data')] /\ s_oldProtect1' = "execute"
  BY <1>1, <1>3, LayoutKept
<1>9. Protected' /\ PutBack'
  BY <1>1, <1>2, <1>8 DEF Protected, PutBack
<1> QED BY <1>4, <1>7, <1>9 DEF DllInv

LEMMA StopCodeStep == DllInv /\ StopCode => DllInv'
<1> SUFFICES ASSUME DllInv, StopCode PROVE DllInv'
  OBVIOUS
<1>1. /\ dllStep = "stopCode" /\ dllStep' \in {"stopData", "done"}
      /\ UNCHANGED <<file, at, payload, layout, s_oldProtect1, s_oldProtect2, hooked, intact>>
      /\ UNCHANGED shaVars
      /\ \/ Protect(Code, s_oldProtect1) /\ dllStep' = "stopData" /\ failed' = failed
         \/ failed' = TRUE
  BY DEF StopCode, Code
<1>2. payload # "unknown" /\ failed' \in BOOLEAN
  BY <1>1 DEF DllInv, DllTypes, Chosen
<1>3. IInv' /\ DllTypes' /\ Reading' /\ Chosen'
  BY <1>1, <1>2, AfterChoice
<1>4. HookedWhole'
  BY <1>1 DEF DllInv, HookedWhole
<1>5. ~failed => /\ memory = BothOpen /\ s_oldProtect1 = "execute" /\ DataMapped
                 /\ s_oldProtect2 = CodeOpen[First(Data)]
  BY <1>1 DEF DllInv, Protected
<1>6. CASE failed'
  BY <1>1, <1>2, <1>3, <1>4, <1>6 DEF DllInv, Protected, PutBack
<1>7. CASE ~failed'
  <2>1. ~failed /\ Protect(Code, "execute") /\ dllStep' = "stopData" /\ memory = BothOpen
    BY <1>1, <1>5, <1>7
  <2>2. memory' = [p \in DOMAIN layout.memory |-> IF p \in Code THEN "execute" ELSE BothOpen[p]]
    BY <2>1 DEF Protect, BothOpen
  <2>3. /\ memory' = [p \in DOMAIN layout'.memory |-> IF p \in Code' THEN "execute" ELSE BothOpen'[p]]
        /\ DataMapped' /\ s_oldProtect2' = CodeOpen'[First(Data')] /\ s_oldProtect1' = "execute"
    BY <1>1, <1>5, <2>1, <2>2, LayoutKept
  <2>4. Protected' /\ PutBack'
    BY <1>2, <1>1, <2>1, <2>3 DEF Protected, PutBack
  <2> QED BY <1>3, <1>4, <2>4 DEF DllInv
<1> QED BY <1>2, <1>6, <1>7

LEMMA StopDataStep == DllInv /\ StopData => DllInv'
<1> SUFFICES ASSUME DllInv, StopData PROVE DllInv'
  OBVIOUS
<1>1. /\ dllStep = "stopData" /\ dllStep' = "done"
      /\ UNCHANGED <<file, at, payload, layout, hooked, intact>> /\ UNCHANGED shaVars
      /\ \/ Protect(Data, s_oldProtect2) /\ failed' = failed
         \/ failed' = TRUE
  BY DEF StopData, Data
<1>2. payload # "unknown" /\ failed' \in BOOLEAN /\ layout \in Layouts
  BY <1>1 DEF DllInv, DllTypes, Chosen
<1>3. IInv' /\ DllTypes' /\ Reading' /\ Chosen'
  BY <1>1, <1>2, AfterChoice
<1>4. HookedWhole'
  BY <1>1 DEF DllInv, HookedWhole
<1>5. Protected'
  BY <1>1, <1>2 DEF Protected
<1>6. CASE failed'
  BY <1>3, <1>4, <1>5, <1>6 DEF DllInv, PutBack
<1>7. CASE ~failed'
  <2> DEFINE stopped == [p \in DOMAIN layout.memory |-> IF p \in Code THEN "execute" ELSE BothOpen[p]]
             s       == CodeOpen[First(Data)]
             final   == [p \in DOMAIN layout.memory |-> IF p \in Data THEN s ELSE layout.memory[p]]
  <2>1. memory = stopped /\ DataMapped /\ s_oldProtect2 = s /\ Protect(Data, s)
    BY <1>1, <1>7 DEF DllInv, Protected
  <2>2. memory' = [p \in DOMAIN layout.memory |-> IF p \in Data THEN s ELSE stopped[p]]
    BY <2>1 DEF Protect
  <2>3. \A p \in DOMAIN layout.memory \ Data : stopped[p] = layout.memory[p]
    <3> SUFFICES ASSUME NEW p \in DOMAIN layout.memory \ Data PROVE stopped[p] = layout.memory[p]
      OBVIOUS
    <3>1. CASE p \in Code
      BY <1>2, <3>1, LayoutType
    <3>2. CASE p \notin Code
      BY <3>2 DEF BothOpen, CodeOpen
    <3> QED BY <3>1, <3>2
  <2> HIDE DEF s, stopped
  <2>4. memory' = final
    BY <2>2, <2>3
  <2>5. final = layout.memory <=> DataApart
    BY <1>2, <2>1, PutBackApart DEF s
  <2>6. memory' = layout'.memory <=> DataApart'
    BY <1>1, <2>4, <2>5, LayoutKept
  <2>7. PutBack'
    BY <1>1, <1>2, <2>6 DEF PutBack
  <2> QED BY <1>3, <1>4, <1>5, <2>7 DEF DllInv
<1> QED BY <1>2, <1>6, <1>7

LEMMA NextDllInv == DllInv /\ [DllNext]_<<dllVars, shaVars>> => DllInv'
<1> SUFFICES ASSUME DllInv, [DllNext]_<<dllVars, shaVars>> PROVE DllInv'
  OBVIOUS
<1>1. CASE UNCHANGED <<dllVars, shaVars>>
  <2>1. IInv'
    BY <1>1, EngineRests DEF DllInv
  <2>2. DllTypes' /\ Reading' /\ Chosen' /\ HookedWhole'
    BY <1>1 DEF DllInv, DllTypes, Reading, Unchosen, Chosen, HookedWhole, dllVars, shaVars
  <2>3. layout' = layout
    BY <1>1 DEF dllVars
  <2>4. Protected' /\ PutBack'
    BY <1>1, <2>3, LayoutKept DEF DllInv, Protected, PutBack, dllVars
  <2> QED BY <2>1, <2>2, <2>4 DEF DllInv
<1>2. CASE DllNext
  BY <1>2, LoadFunctionsStep, PathStep, HashStep, ChooseStep, LoadHooksStep, StartCodeStep,
     StartDataStep, SetupHooksStep, StopCodeStep, StopDataStep DEF DllNext
<1> QED BY <1>1, <1>2

-----------------------------------------------------------------------------
(* A game is hooked at every site of one payload, or not at all, whatever  *)
(* call of Get_Path, StartHooks or StopHooks fails, and with its own if    *)
(* the digest was still there for Get_Payload_Name.                        *)
THEOREM HooksWhole == DllSpec => []HooksOfThisGame
<1>1. DllInv => HooksOfThisGame
  BY DEF DllInv, HookedWhole, HooksOfThisGame
<1> QED BY <1>1, InitDllInv, NextDllInv, PTL DEF DllSpec

(* When no call failed StopHooks leaves every page as it was exactly if    *)
(* the range that StartHooks takes for the data is apart from the code.    *)
THEOREM PutBackExactly == DllSpec => []PutBack
<1>1. DllInv => PutBack
  BY DEF DllInv
<1> QED BY <1>1, InitDllInv, NextDllInv, PTL DEF DllSpec
=============================================================================
