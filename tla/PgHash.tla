------------------------------- MODULE PgHash --------------------------------
(***************************************************************************)
(* The hash functions of pg_call.c (lines 765-933): Jenkins' mix and final *)
(* of hashfn.c, hash_bytes_uint32 and its extended form with a seed, and   *)
(* pg_hashint8, pg_hashint8extended and pg_hashfloat8.                     *)
(*                                                                         *)
(* A word is a uint32 of WordBits bits: TLC's integers are 32-bit signed,  *)
(* so the MC module takes 30 bits, which keeps every rotation of the code  *)
(* (the largest is 25) a rotation.  An int64 or uint64 is the pair of its  *)
(* halves, which is what the code takes apart: hi is (val >> 32), signed,  *)
(* lo is (uint32) val.  A float8 is its bit pattern, abstracted to a class *)
(* and an identifier.                                                      *)
(*                                                                         *)
(* A caller hashes values of several types, as a hash join or the          *)
(* de-duplication of an instant set does, and records each value with its *)
(* hash.                                                                   *)
(***************************************************************************)
EXTENDS Integers, FiniteSets, Bitwise

CONSTANTS
  WordBits,     \* the width of a uint32
  Int8Inputs,   \* int8 values, as [hi, lo]
  Int4Inputs,   \* int4 values
  SeedInputs,   \* uint64 seeds, as [hi, lo]
  Float8Inputs, \* float8 bit patterns, as [cls, bits]
  CanonicalNaN, \* the pattern get_float8_nan() returns
  MaxHashes     \* the number of values the caller hashes

M == 2 ^ WordBits
Half == 2 ^ (WordBits - 1)
Word == 0 .. M - 1
Int8Word == [hi : -Half .. Half - 1, lo : Word]
Word64 == [hi : Word, lo : Word]
Zero64 == [hi |-> 0, lo |-> 0]
FloatClasses == {"zero", "negzero", "nan", "num"}

ASSUME HashAssumption ==
  /\ WordBits \in 26 .. 30
  /\ MaxHashes \in Nat
  /\ Int8Inputs \subseteq Int8Word
  /\ Int4Inputs \subseteq -Half .. Half - 1
  /\ SeedInputs \subseteq Word64
  /\ Float8Inputs \subseteq [cls : FloatClasses, bits : Nat]
  /\ CanonicalNaN \in Float8Inputs /\ CanonicalNaN.cls = "nan"

(* The conversion to uint32: the value modulo 2^32.                        *)
U32(x) == x % M

(* ~x of a uint32.                                                         *)
Not32(x) == M - 1 - x

(* rot(x, k) (line 772): the k high bits come round to the bottom.         *)
rot(x, k) == (x % 2 ^ (WordBits - k)) * 2 ^ k + x \div 2 ^ (WordBits - k)

-----------------------------------------------------------------------------
(* Jenkins' lookup3 mix and final, as macros over the registers a, b, c.   *)

(* One line of mix (lines 774-782): x -= z; x ^= rot(z, r); z += y.        *)
MixLine(t, x, z, y, r) ==
  [t EXCEPT ![x] = U32(t[x] - t[z]) ^^ rot(t[z], r), ![z] = U32(t[z] + t[y])]

mix(t) ==
  MixLine(MixLine(MixLine(MixLine(MixLine(MixLine(t,
    "a", "c", "b", 4), "b", "a", "c", 6), "c", "b", "a", 8),
    "a", "c", "b", 16), "b", "a", "c", 19), "c", "b", "a", 4)

(* One line of final (lines 784-793): x ^= y; x -= rot(y, r).              *)
FinalLine(t, x, y, r) == [t EXCEPT ![x] = U32((t[x] ^^ t[y]) - rot(t[y], r))]

final(t) ==
  FinalLine(FinalLine(FinalLine(FinalLine(FinalLine(FinalLine(FinalLine(t,
    "c", "b", 14), "a", "c", 11), "b", "a", 25), "c", "b", 16),
    "a", "c", 4), "b", "a", 14), "c", "b", 24)

(* a = b = c = 0x9e3779b9 + sizeof(uint32) + 3923095, with 0x9e3779b9 =    *)
(* 0x9e37 * 2^16 + 0x79b9 taken modulo the word.                           *)
InitRegister == U32((\h9e37 % 2 ^ (WordBits - 16)) * 2 ^ 16 + \h79b9 + 4 + 3923095)
InitState == [a |-> InitRegister, b |-> InitRegister, c |-> InitRegister]

(* a += k.                                                                 *)
AddKey(t, k) == [t EXCEPT !.a = U32(@ + k)]

(* hash_bytes_uint32 (lines 803-816).                                      *)
hash_bytes_uint32(k) == final(AddKey(InitState, k)).c

(* Lines 829-834 of hash_bytes_uint32_extended: a nonzero seed is added to *)
(* a and b and mixed in.                                                   *)
SeedInMutNoGuard(t, seed) ==
  mix([t EXCEPT !.a = U32(@ + seed.hi), !.b = U32(@ + seed.lo)])
SeedIn(t, seed) ==
  IF seed # Zero64
  THEN mix([t EXCEPT !.a = U32(@ + seed.hi), !.b = U32(@ + seed.lo)])
  ELSE t

(* hash_bytes_uint32_extended (lines 824-842): ((uint64) b << 32) | c.     *)
Words64(t) == [hi |-> t.b, lo |-> t.c]
hash_bytes_uint32_extended(k, seed) == Words64(final(AddKey(SeedIn(InitState, seed), k)))

(* hash_uint32 and hash_uint32_extended of hashfn.h are these functions.   *)
hash_uint32(k) == hash_bytes_uint32(k)
hash_uint32_extended(k, seed) == hash_bytes_uint32_extended(k, seed)

-----------------------------------------------------------------------------
(* The hash functions of the base types.                                   *)

(* Lines 861-863 of pg_hashint8: the low half xor the high half, or its    *)
(* complement for a negative value.                                        *)
LohalfMutNoComplement(val) == val.lo ^^ U32(val.hi)
Lohalf(val) == val.lo ^^ (IF val.hi >= 0 THEN U32(val.hi) ELSE Not32(U32(val.hi)))

(* pg_hashint8 (lines 851-865) and pg_hashint8extended (lines 872-879).    *)
pg_hashint8(val) == hash_uint32(Lohalf(val))
pg_hashint8extended(val, seed) == hash_uint32_extended(Lohalf(val), seed)

(* hashint4 (PostgreSQL's hashfunc.c), the other side of a cross-type      *)
(* hash join: hash_uint32 of the value as a uint32.                        *)
hashint4(v) == hash_uint32(U32(v))

(* C's == on float8: -0.0 equals 0.0, a NaN equals nothing.                *)
Float8Eq(x, y) ==
  \/ x.cls \in {"zero", "negzero"} /\ y.cls \in {"zero", "negzero"}
  \/ x.cls = "num" /\ y = x

(* hash_any over the eight bytes of a float8 (PostgreSQL's hashfn.c): the  *)
(* same lookup3 hash, of the pattern's identifier.                         *)
hash_any(key) == hash_bytes_uint32(key.bits)

(* pg_hashfloat8 (lines 886-903): zero of either sign hashes to 0, and     *)
(* every NaN is replaced by the canonical one before hash_any.             *)
pg_hashfloat8MutNoZero(key) ==
  hash_any(IF key.cls = "nan" THEN CanonicalNaN ELSE key)
pg_hashfloat8(key) ==
  IF Float8Eq(key, [cls |-> "zero", bits |-> 0]) THEN 0
  ELSE hash_any(IF key.cls = "nan" THEN CanonicalNaN ELSE key)

(* The hashes of the inputs, computed once.                                *)
Int8Hash == [v \in Int8Inputs |-> pg_hashint8(v)]
Int4Hash == [v \in Int4Inputs |-> hashint4(v)]
Int8ExtHash == [p \in Int8Inputs \X SeedInputs |-> pg_hashint8extended(p[1], p[2])]
Float8Hash == [f \in Float8Inputs |-> pg_hashfloat8(f)]

-----------------------------------------------------------------------------
(* The caller.                                                             *)

VARIABLES
  int8s,   \* the int8 values hashed, with their hashes
  int4s,   \* the int4 values hashed by hashint4
  int8exts, \* the int8 values and seeds hashed by pg_hashint8extended
  float8s  \* the float8 values hashed

hvars == <<int8s, int4s, int8exts, float8s>>

HInit == int8s = {} /\ int4s = {} /\ int8exts = {} /\ float8s = {}

Room == Cardinality(int8s) + Cardinality(int4s) + Cardinality(int8exts)
          + Cardinality(float8s) < MaxHashes

HashInt8 ==
  /\ Room
  /\ \E v \in Int8Inputs : int8s' = int8s \cup {<<v, Int8Hash[v]>>}
  /\ UNCHANGED <<int4s, int8exts, float8s>>

HashInt4 ==
  /\ Room
  /\ \E v \in Int4Inputs : int4s' = int4s \cup {<<v, Int4Hash[v]>>}
  /\ UNCHANGED <<int8s, int8exts, float8s>>

HashInt8Extended ==
  /\ Room
  /\ \E v \in Int8Inputs, s \in SeedInputs :
       int8exts' = int8exts \cup {<<v, s, Int8ExtHash[<<v, s>>]>>}
  /\ UNCHANGED <<int8s, int4s, float8s>>

HashFloat8 ==
  /\ Room
  /\ \E f \in Float8Inputs : float8s' = float8s \cup {<<f, Float8Hash[f]>>}
  /\ UNCHANGED <<int8s, int4s, int8exts>>

(* The caller stops when it has hashed MaxHashes values.                   *)
HDone == ~Room /\ UNCHANGED hvars

HNext == HashInt8 \/ HashInt4 \/ HashInt8Extended \/ HashFloat8 \/ HDone

HSpec == HInit /\ [][HNext]_hvars

-----------------------------------------------------------------------------
(* Properties.                                                             *)

(* An int8 equal to an int4 hashes as hashint4 hashes it, so that a        *)
(* cross-type hash join finds it (the comment of pg_hashint8, lines        *)
(* 853-860): the high half is sign bits and is xored away.                 *)
Int8Int4Equal(v8, v4) ==
  v8 = [hi |-> IF v4 >= 0 THEN 0 ELSE -1, lo |-> U32(v4)]
CrossTypeHashAlike ==
  \A e8 \in int8s, e4 \in int4s : Int8Int4Equal(e8[1], e4[1]) => e8[2] = e4[2]

(* Equal float8 values hash alike under the equality of a hash key: zero   *)
(* of either sign, and every NaN, are one value (spec.md, the Base Value   *)
(* Abstraction; the comments of pg_hashfloat8, lines 888-899).             *)
SameFloat8(x, y) == Float8Eq(x, y) \/ (x.cls = "nan" /\ y.cls = "nan")
FloatHashAlike ==
  \A e, f \in float8s : SameFloat8(e[1], f[1]) => e[2] = f[2]

(* The extended hash with seed 0 has the 32-bit hash as its low half,      *)
(* which PostgreSQL requires of an extended hash function: the guard of    *)
(* line 829 skips the seed's mix.                                          *)
ExtendedAgreesAtSeedZero ==
  \A x \in int8exts, e \in int8s :
    x[1] = e[1] /\ x[2] = Zero64 => x[3].lo = e[2]

=============================================================================
