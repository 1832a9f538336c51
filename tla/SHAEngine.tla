----------------------------- MODULE SHAEngine -----------------------------
(***************************************************************************)
(* SHAEngine (src/hookproxy/sha1.cpp): data of any length is hashed block  *)
(* by block and a part of a block is kept until more data fills it.  The   *)
(* arithmetic of a block is left out: a digest is the sequence of all the  *)
(* bytes that went through Process_Block.                                  *)
(***************************************************************************)
EXTENDS Integers, Sequences

CONSTANTS
  Block,    \* SHA_BLOCK_LENGTH
  LengthBytes, \* bytes of a block that hold the length of the message
  Bytes,    \* values of a byte of a message
  Pad,      \* the byte that ends a message, -128
  Chunks    \* the data that one call hashes

ASSUME EngineAssumption ==
  /\ Block \in Nat /\ LengthBytes \in Nat /\ 0 < LengthBytes /\ LengthBytes < Block
  /\ Bytes \subseteq Int /\ 0 \in Bytes /\ Pad \in Int
  /\ Chunks \subseteq Seq(Bytes)

VARIABLES
  engine,         \* m_digest, m_processedBytes, m_unprocessedBytes, m_messageBlock
  m_computed,
  m_finalDigest,
  message,        \* history: all the data hashed so far
  dropped,        \* history: bytes of a block that the last Result forgot
  cut             \* history: more was hashed after Result had forgotten some

shaVars == <<engine, m_computed, m_finalDigest, message, dropped, cut>>

Zeros(n) == [i \in 1 .. n |-> 0]

LengthField(total) == Append(Zeros(LengthBytes - 1), total)

FirstOf(m, n) == IF m < n THEN m ELSE n

(* What is left of the constructor: the block itself is not initialised.   *)
Fresh(block) ==
  [digest |-> <<>>, processed |-> 0, unprocessed |-> 0, block |-> block]

ShaInit ==
  /\ engine \in {Fresh(block) : block \in [1 .. Block -> Bytes]}
  /\ m_computed = FALSE
  /\ m_finalDigest = <<>>
  /\ message = <<>>
  /\ dropped = 0
  /\ cut = FALSE

(* The block with the data behind the bytes it holds.                      *)
Filled(e, data) ==
  [i \in 1 .. Block |->
     IF e.unprocessed < i /\ i <= e.unprocessed + Len(data)
       THEN data[i - e.unprocessed] ELSE e.block[i]]

(* The engine once the data is in its block, which is hashed when full.    *)
Buffer(e, data) ==
  IF e.unprocessed + Len(data) < Block
    THEN [e EXCEPT !.block = Filled(e, data), !.unprocessed = @ + Len(data)]
    ELSE [digest |-> e.digest \o Filled(e, data), processed |-> e.processed + Block,
          unprocessed |-> 0, block |-> Filled(e, data)]

(* How much of the data Process_Partial takes: none of it while the block  *)
(* is empty and the data would fill it.                                    *)
Partial(e, data) ==
  IF e.unprocessed = 0 /\ Len(data) >= Block
    THEN 0 ELSE FirstOf(Block - e.unprocessed, Len(data))

Process_Partial(e, data) ==
  IF Partial(e, data) = 0 THEN e ELSE Buffer(e, SubSeq(data, 1, Partial(e, data)))

After(data, n) == SubSeq(data, n + 1, Len(data))

Whole(data) == Len(data) - (Len(data) % Block)

Process_Blocks(e, data) ==
  [e EXCEPT !.digest = @ \o SubSeq(data, 1, Whole(data)), !.processed = @ + Whole(data)]

Hashed(e, data) ==
  LET filled == Process_Partial(e, data)
      rest   == After(data, Partial(e, data))
  IN  Process_Partial(Process_Blocks(filled, rest), After(rest, Whole(rest)))

Hash(data) ==
  /\ engine' = Hashed(engine, data)
  /\ m_computed' = FALSE
  /\ message' = message \o data
  /\ cut' = (cut \/ (m_computed /\ dropped > 0))
  /\ UNCHANGED <<m_finalDigest, dropped>>

(* A block more even when the length fits exactly.                         *)
FinishedLate(e) ==
  LET ended == Append(SubSeq(e.block, 1, e.unprocessed), Pad)
      room  == Block - Len(ended)
      zeros == IF room <= LengthBytes THEN room + Block - LengthBytes ELSE room - LengthBytes
  IN  e.digest \o ended \o Zeros(zeros) \o LengthField(e.processed + e.unprocessed)

(* The part of a block, the byte that ends it and zeros up to the length,  *)
(* in a block more when the length does not fit.                           *)
Finished(e) ==
  LET ended == Append(SubSeq(e.block, 1, e.unprocessed), Pad)
      room  == Block - Len(ended)
      zeros == IF room < LengthBytes THEN room + Block - LengthBytes ELSE room - LengthBytes
  IN  e.digest \o ended \o Zeros(zeros) \o LengthField(e.processed + e.unprocessed)

(* The digest and the block are copied first; the count of bytes is not,   *)
(* and it ends as none.                                                    *)
Result ==
  /\ ~m_computed
  /\ m_finalDigest' = Finished(engine)
  /\ m_computed' = TRUE
  /\ engine' = [engine EXCEPT !.unprocessed = 0]
  /\ dropped' = engine.unprocessed
  /\ UNCHANGED <<message, cut>>

ShaNext == Result \/ \E data \in Chunks : Hash(data)

ShaSpec == ShaInit /\ [][ShaNext]_shaVars

-----------------------------------------------------------------------------
(* The block always has room for a byte more: Result relies on it.         *)
ShaTypeOK ==
  /\ engine \in [digest : Seq(Int), processed : Nat,
                 unprocessed : 0 .. Block - 1, block : [1 .. Block -> Int]]
  /\ m_computed \in BOOLEAN
  /\ m_finalDigest \in Seq(Int)
  /\ message \in Seq(Int)
  /\ dropped \in 0 .. Block - 1
  /\ cut \in BOOLEAN

(* The padded message of the standard: the message, the byte that ends it, *)
(* as few zeros as fill a block up to the length, and the length.          *)
Padded(m) ==
  m \o <<Pad>> \o Zeros((- (Len(m) + 1 + LengthBytes)) % Block) \o LengthField(Len(m))

(* However the message was cut into calls, and whatever the block held     *)
(* before, its digest is the digest of the whole message - if nothing was  *)
(* hashed after a Result taken inside a block: sha1.cpp:112 "These copies  *)
(* allow us to continue hashing data if we want" is true at the ends of    *)
(* blocks only, elsewhere the digest of what follows is wrong.             *)
DigestOfMessage == m_computed => (m_finalDigest = Padded(message) <=> ~cut)
=============================================================================
