------------------------------ MODULE RZRandom ------------------------------
(***************************************************************************)
(* The two generators of random numbers (src/framework/rz): cRZRandom is a *)
(* linear congruence and cRZRandomSuper a twister, an array of words that  *)
(* is twisted as a whole and then given out word by word.  A word has Bits *)
(* bits.  Both make a number of a range from a word in the same way.       *)
(***************************************************************************)
EXTENDS Integers

CONSTANTS
  Bits,                   \* of a word: 32
  TWIST_SIZE,             \* words of the twister: 624
  TWIST_PERIOD,           \* 397
  XOR_MASK,
  Tempering,              \* TEMPERING_U, _S, _B, _T, _C and _L
  Multiplier, Increment,  \* of the congruence
  SeedMultiplier,         \* of the one that seeds the twister: 69069
  Seeds,                  \* that the generators are seeded with
  Limits,                 \* of ranges that numbers are asked of
  Draws,                  \* bound on the words drawn after a seed
  BitXor(_, _), BitAnd(_, _), BitOr(_, _)    \* of the bits of two words

TWIST_DIFF == TWIST_SIZE - TWIST_PERIOD

(* 2 ^ n.                                                                  *)
Power[n \in Nat] == IF n = 0 THEN 1 ELSE 2 * Power[n - 1]

Words == Power[Bits]
Word == 0 .. Words - 1
Top == Power[Bits - 1]

ASSUME RandomAssumption ==
  /\ Bits \in Nat /\ Bits % 2 = 0 /\ 2 < Bits
  /\ TWIST_SIZE \in Nat /\ TWIST_PERIOD \in 1 .. TWIST_SIZE - 1 /\ TWIST_DIFF <= TWIST_PERIOD
  /\ XOR_MASK \in Word /\ Seeds \subseteq Word
  /\ Multiplier \in Nat /\ Increment \in Nat /\ SeedMultiplier \in Nat /\ Draws \in Nat
  /\ Tempering \in [U : 1 .. Bits, S : 1 .. Bits, B : Word, T : 1 .. Bits, C : Word, L : 1 .. Bits]
  /\ Limits \subseteq - Top .. Top - 1

(* What is known of the three operators: exclusive or is a group without   *)
(* carries, which commutes with shifts and masks; a mask adds no bits; and *)
(* bits that are apart are put together by adding them.                    *)
ASSUME BitAssumption ==
  /\ \A u, v \in Word :
       /\ BitXor(u, v) \in Word /\ BitAnd(u, v) \in Word /\ BitOr(u, v) \in Word
       /\ BitXor(u, v) = BitXor(v, u) /\ BitXor(u, 0) = u /\ BitXor(u, u) = 0
       /\ BitOr(BitAnd(u, Top), BitAnd(v, Top - 1)) = (u - (u % Top)) + (v % Top)
       /\ \A k \in 0 .. Bits :
            /\ BitXor(u, v) \div Power[k] = BitXor(u \div Power[k], v \div Power[k])
            /\ (BitXor(u, v) * Power[k]) % Words =
                 BitXor((u * Power[k]) % Words, (v * Power[k]) % Words)
            /\ u % Power[k] = 0 => BitAnd(u, v) % Power[k] = 0
  /\ \A u, v, w \in Word :
       /\ BitXor(BitXor(u, v), w) = BitXor(u, BitXor(v, w))
       /\ BitAnd(BitXor(u, v), w) = BitXor(BitAnd(u, w), BitAnd(v, w))

VARIABLES
  mnIntegerSeed,    \* of the congruence
  mTwister,
  mpNext,           \* index of the next word
  mnRemaining,
  drawn,            \* history: words drawn since the seed
  before,           \* history: the twister before its last reload
  word              \* the last word drawn, of either generator

randomVars == <<mnIntegerSeed, mTwister, mpNext, mnRemaining, drawn, before, word>>

-----------------------------------------------------------------------------
(* The congruence keeps the low word and gives the bits in the middle.     *)
Congruence(seed) == Multiplier * seed + Increment

RandomUint32Uniform ==
  /\ drawn < Draws
  /\ mnIntegerSeed' = Congruence(mnIntegerSeed) % Words
  /\ word' = (Congruence(mnIntegerSeed) \div Power[Bits \div 2]) % Words
  /\ drawn' = drawn + 1
  /\ UNCHANGED <<mTwister, mpNext, mnRemaining, before>>

(* A number below a scale, and one of a range: a signed word from min up   *)
(* to max, whose difference is taken as a word.                            *)
ScaledByLargest(scale, w) == (scale * w) \div (Words - 1)

Scaled(scale, w) == (scale * w) \div Words

Signed(w) == IF w < Top THEN w ELSE w - Words

RandomSint32RangeUniform(min, max, w) == Signed((min + Scaled((max - min) % Words, w)) % Words)

-----------------------------------------------------------------------------
(* The seed is made odd; the words are the high halves of two of its       *)
(* followers.                                                              *)
SeedsFrom(seed) ==
  LET s[i \in 0 .. TWIST_SIZE - 1] ==
        IF i = 0 THEN BitOr(seed, 1)
        ELSE (SeedMultiplier * (SeedMultiplier * s[i - 1] + 1) + 1) % Words
  IN  s

Seeded(seed) ==
  LET half == Power[Bits \div 2]
  IN  [i \in 0 .. TWIST_SIZE - 1 |->
         LET s == SeedsFrom(seed)[i]
         IN  ((SeedMultiplier * s) % Words) \div half + (s - (s % half))]

(* The top bit of one word on the other bits of the next, shifted right    *)
(* and masked if the last bit is set.                                      *)
Twist(u, v) ==
  LET y == BitOr(BitAnd(u, Top), BitAnd(v, Top - 1))
  IN  BitXor(y \div 2, IF y % 2 = 1 THEN XOR_MASK ELSE 0)

(* The two ways to the other word exchanged.                               *)
TwistAtOther(twister, i, next) ==
  [twister EXCEPT ![i] =
     BitXor(twister[IF i < TWIST_PERIOD THEN i + TWIST_DIFF ELSE i - TWIST_PERIOD],
         Twist(twister[i], next))]

(* Reload goes through the words in place.  Its second loop runs over the  *)
(* last word too, for which it reads the word behind the array: that is    *)
(* the low word of mpNext.  The last word is then made once more.          *)
TwistAt(twister, i, next) ==
  [twister EXCEPT ![i] =
     BitXor(twister[IF i < TWIST_DIFF THEN i + TWIST_PERIOD ELSE i - TWIST_DIFF],
         Twist(twister[i], next))]

Twisted(twister, behind) ==
  LET upTo[n \in 0 .. TWIST_SIZE] ==
        IF n = 0 THEN twister
        ELSE LET words == upTo[n - 1]
             IN  TwistAt(words, n - 1, IF n = TWIST_SIZE THEN behind ELSE words[n])
      looped == upTo[TWIST_SIZE]
  IN  TwistAt(looped, TWIST_SIZE - 1, looped[0])

(* mpNext holds the address of a word, of which the last two bits are 0.   *)
Addresses == {a \in Word : a % 4 = 0}

(* The word that is drawn at once is not counted.                          *)
ReloadedUncounted(twister, next) ==
  /\ \E behind \in Addresses : mTwister' = Twisted(twister, behind)
  /\ before' = twister
  /\ mpNext' = next
  /\ mnRemaining' = TWIST_SIZE

Reloaded(twister, next) ==
  /\ \E behind \in Addresses : mTwister' = Twisted(twister, behind)
  /\ before' = twister
  /\ mpNext' = next
  /\ mnRemaining' = TWIST_SIZE - next

Tempered(w) ==
  LET u == BitXor(w, w \div Power[Tempering.U])
      s == BitXor(u, (BitAnd(u, Tempering.B) * Power[Tempering.S]) % Words)
      t == BitXor(s, (BitAnd(s, Tempering.C) * Power[Tempering.T]) % Words)
  IN  BitXor(t, t \div Power[Tempering.L])

(* The count goes down first; if it has been 0 the twister is reloaded.    *)
TwisterUint32Uniform ==
  /\ drawn < Draws
  /\ IF mnRemaining = 0
       THEN Reloaded(mTwister, 1) /\ word' = Tempered(mTwister'[0])
       ELSE /\ word' = Tempered(mTwister[mpNext])
            /\ mpNext' = mpNext + 1
            /\ mnRemaining' = mnRemaining - 1
            /\ UNCHANGED <<mTwister, before>>
  /\ drawn' = drawn + 1
  /\ UNCHANGED mnIntegerSeed

-----------------------------------------------------------------------------
(* The constructors seed; mpNext is null while the first reload goes on.   *)
RandomInit ==
  /\ mnIntegerSeed \in Seeds
  /\ before = Seeded(mnIntegerSeed)
  /\ mTwister = Twisted(before, 0)
  /\ mpNext = 0
  /\ mnRemaining = TWIST_SIZE
  /\ drawn = 0
  /\ word = 0

(* Both are seeded anew.                                                   *)
Seed(seed) ==
  /\ drawn > 0
  /\ mnIntegerSeed' = seed
  /\ Reloaded(Seeded(seed), 0)
  /\ drawn' = 0
  /\ word' = 0

RandomNext ==
  \/ \E seed \in Seeds : Seed(seed)
  \/ RandomUint32Uniform
  \/ TwisterUint32Uniform

-----------------------------------------------------------------------------
(* Properties.                                                             *)
RandomTypeOK ==
  /\ mnIntegerSeed \in Word
  /\ mTwister \in [0 .. TWIST_SIZE - 1 -> Word] /\ before \in [0 .. TWIST_SIZE - 1 -> Word]
  /\ mpNext \in 0 .. TWIST_SIZE
  /\ mnRemaining = TWIST_SIZE - mpNext
  /\ drawn \in 0 .. Draws
  /\ word \in Word

(* The words before a reload and after it are one sequence in which every  *)
(* word follows from the ones TWIST_SIZE, TWIST_SIZE - 1 and TWIST_DIFF    *)
(* before it, as if the loop had not been unrolled (rzrandomsuper.cpp:81   *)
(* "unrolled into 3 parts to avoid the need for a modulo operation") -     *)
(* whatever lies behind the array, and but for the last word: the second   *)
(* part has overwritten it, so that its top bit is another word's.         *)
TwistIsTheRecurrence ==
  LET sequence(k) == IF k < TWIST_SIZE THEN before[k] ELSE mTwister[k - TWIST_SIZE]
      top(k)      == sequence(IF k = TWIST_SIZE - 1 THEN TWIST_SIZE + TWIST_PERIOD - 1 ELSE k)
  IN  \A k \in 0 .. TWIST_SIZE - 1 :
        sequence(k + TWIST_SIZE) =
          BitXor(sequence(k + TWIST_PERIOD), Twist(top(k), sequence(k + 1)))

(* Of a range every number can come and no other does, from the words of   *)
(* the array as the generator gives them out: tempering loses none, and    *)
(* the difference of the limits may be wider than a signed word.           *)
EveryNumberComes ==
  drawn = 0 =>
    \A min, max \in Limits :
      min < max =>
        {RandomSint32RangeUniform(min, max, Tempered(w)) : w \in Word} = min .. max - 1
=============================================================================
