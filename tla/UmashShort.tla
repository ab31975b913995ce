------------------------------ MODULE UmashShort ------------------------------
(***************************************************************************)
(* Inputs of at most 8 bytes: umash_short and umash_fp_short of umash.c,   *)
(* next to the reference; and the finalizer of longer ones.                *)
(*                                                                         *)
(* The code has bytes of 8 bits and the numbers noted below.  A byte of one *)
(* bit lets a word of 8 bytes, and all messages that fit in it, be         *)
(* enumerated; shifts and rotations are scaled alike, and multipliers are  *)
(* odd, as are those of SplitMix64.                                        *)
(***************************************************************************)
EXTENDS Integers, FiniteSets

CONSTANTS
    ByteBits,
    Shifts,     \* <<30, 27, 31>>
    Factors,    \* <<0xbf58476d1ce4e5b9, 0x94d049bb133111eb>>
    Rotations   \* <<8, 33>>

WordSize == 8
WordBits == WordSize * ByteBits
Range8 == 2 ^ ByteBits
Range64 == 2 ^ WordBits
Range32 == 2 ^ (WordBits \div 2)

\* Facts of arithmetic, 64 is a power of two, and the multipliers are odd.
ShortAssumption ==
    /\ ByteBits \in Nat \ {0}
    /\ \A n \in 0 .. WordBits : 2 ^ n \in Nat /\ 2 ^ (n + 1) = 2 * 2 ^ n
    /\ \E n \in 0 .. WordBits : WordBits = 2 ^ n
    /\ \A k \in 1 .. 3 : Shifts[k] \in 1 .. WordBits
    /\ \A k \in 1 .. 2 : /\ Factors[k] \in Nat /\ Factors[k] % 2 = 1
                         /\ Rotations[k] \in 0 .. WordBits

OH_SHORT_HASH_SHIFT == 4

\* Inputs of n bytes.
Buffers(n) == [0 .. n - 1 -> 0 .. Range8 - 1]
Len(buf) == Cardinality(DOMAIN buf)

\* The little-endian integer in the `count` bytes from `start` on, at most 4.
Load(buf, start, count) ==
    LET byte(j) == IF j < count THEN buf[start + j] ELSE 0
    IN  byte(0) + Range8 * (byte(1) + Range8 * (byte(2) + Range8 * byte(3)))

Bit(x, n) == (x \div 2 ^ n) % 2

\* The word that has the bits in S.
WordWith(S) ==
    LET low[n \in 0 .. WordBits] ==
            IF n = 0 THEN 0 ELSE low[n - 1] + (IF n - 1 \in S THEN 2 ^ (n - 1) ELSE 0)
    IN  low[WordBits]

x ^^ y == WordWith({k \in 0 .. WordBits - 1 : Bit(x, k) # Bit(y, k)})

Wrapped(x) == x % Range64
ShiftRight(x, n) == x \div 2 ^ n
-----------------------------------------------------------------------------
(* umash.c *)

\* Mistake: the size is not added to the address.
LastBytes_First(buf, count) == Load(buf, 0, count)

LastBytes(buf, count) == Load(buf, Len(buf) - count, count)

\* From 4 bytes on, the first and the last 4; below, a byte if the size is odd,
\* and the last two if there are two.  What is not loaded is read from `zeros`.
vec_to_u64(buf) ==
    LET n == Len(buf)
        lo == IF n >= 4 THEN Load(buf, 0, 4) ELSE IF n % 2 = 1 THEN Load(buf, 0, 1) ELSE 0
        hi == IF n >= 4 THEN LastBytes(buf, 4) ELSE IF n >= 2 THEN LastBytes(buf, 2) ELSE 0
    IN  (hi * Range32) + ((lo + hi) % Range32)

\* Mistake: the noise does not depend on the size.
Noise_First(oh, first, n) == oh[first]

\* params[n_bytes]: the array starts at the first word of the OH key, or later.
Noise(oh, first, n) == oh[first + n]

\* One round of SplitMix64, before and after the noise comes in.
Premix(h) ==
    LET g == Wrapped((h ^^ ShiftRight(h, Shifts[1])) * Factors[1]) IN g ^^ ShiftRight(g, Shifts[2])
Postmix(h) == LET g == Wrapped(h * Factors[2]) IN g ^^ ShiftRight(g, Shifts[3])

umash_short(oh, first, seed, buf) ==
    Postmix(Premix(vec_to_u64(buf)) ^^ Wrapped(seed + Noise(oh, first, Len(buf))))

umash_fp_short(oh, seed, buf) ==
    LET h == Premix(vec_to_u64(buf))
        hash == <<Wrapped(seed + oh[Len(buf)]),
                  Wrapped(seed + oh[Len(buf) + OH_SHORT_HASH_SHIFT])>>
    IN  [index \in 0 .. 1 |-> Postmix(hash[index + 1] ^^ h)]

rotl64(x, n) == Wrapped(x * 2 ^ n) + ShiftRight(x, WordBits - n)

finalize(x) == (x ^^ rotl64(x, Rotations[1])) ^^ rotl64(x, Rotations[2])
-----------------------------------------------------------------------------
(* umash_reference.py *)

SHORT_KEY_SHIFT == 4

\* buf[:count], buf[-count:], and struct.unpack.
First(buf, count) == [j \in 0 .. count - 1 |-> buf[j]]
Last(buf, count) == [j \in 0 .. count - 1 |-> buf[j + Len(buf) - count]]
Unpack(buf) == Load(buf, 0, Len(buf))

ReferenceVec(buf) ==
    LET n == Len(buf)
        lo == Unpack(First(buf, IF n >= 4 THEN 4 ELSE n % 2))
        hi == Unpack(Last(buf, IF n >= 4 THEN 4 ELSE 2 * (n \div 2)))
    IN  (hi * Range32) + ((hi + lo) % Range32)

ReferenceShort(key, seed, buf) ==
    LET noise == (seed + key[Len(buf)]) % Range64
        a == ReferenceVec(buf)
        b == ((a ^^ (a \div 2 ^ Shifts[1])) * Factors[1]) % Range64
        c == (((b ^^ (b \div 2 ^ Shifts[2])) ^^ noise) * Factors[2]) % Range64
    IN  c ^^ (c \div 2 ^ Shifts[3])

\* umash: the key of the secondary hash starts SHORT_KEY_SHIFT words later.
Reference(oh, seed, buf, secondary) ==
    LET start == IF secondary THEN SHORT_KEY_SHIFT ELSE 0
    IN  ReferenceShort([j \in 0 .. WordSize |-> oh[start + j]], seed, buf)

\* Bit k goes to bit k + count.
rotl(x, count) ==
    WordWith({(k + count) % WordBits : k \in {j \in 0 .. WordBits - 1 : Bit(x, j) = 1}})

ReferenceFinalize(x) == (x ^^ rotl(x, Rotations[1])) ^^ rotl(x, Rotations[2])

\* The inverse in the tests: rotations double at each step, modulo the width.
xor_rot2_inv(x) ==
    LET squares == CHOOSE n \in 0 .. WordBits : 2 ^ n = WordBits
        inverse[n \in 0 .. squares] ==
            IF n = 0 THEN x
            ELSE LET y == inverse[n - 1]
                     By(k) == (2 ^ (n - 1) * Rotations[k]) % WordBits
                 IN  (y ^^ rotl(y, By(1))) ^^ rotl(y, By(2))
    IN  inverse[squares]
=============================================================================
