-------------------------------- MODULE Sizes -------------------------------
(***************************************************************************)
(* Arithmetic on powers of two: the slices of an assignment                *)
(* (internal/routing), the sizes of pooled buffers (internal/umath,        *)
(* runtime/pool) and the growth of a Serializer.                           *)
(***************************************************************************)
EXTENDS Integers, Sequences, FiniteSets

CONSTANTS WordBits,     \* 64 in the code: the width of an integer and of a shard key
          PoolBits,     \* 32 in the code: the largest pooled buffer has 2^PoolBits bytes
          MaxReplicas,  \* bound: replicas of a component
          Appends       \* numbers of bytes a Serializer method appends

Pow2[i \in 0 .. WordBits] == IF i = 0 THEN 1 ELSE 2 * Pow2[i - 1]

Powers  == {Pow2[i] : i \in 0 .. WordBits}
Pools   == {Pow2[i] : i \in 0 .. PoolBits}
Word(x) == x % Pow2[WordBits]

(* Up to 2^32 the logarithm of a 64-bit float rounds up to the right power. *)
ASSUME SizesAssumption ==
  /\ WordBits \in Nat /\ PoolBits \in 0 .. 32 /\ PoolBits < WordBits
  /\ MaxReplicas \in Nat /\ \E i \in 0 .. 32 : i < WordBits /\ MaxReplicas <= Pow2[i]
  /\ Appends \subseteq Nat

VARIABLES replicas, assignment, version,  \* of a component
          len, cap,                       \* of a Serializer's buffer; none has 0
          panicked                        \* a method of the Serializer has

sizeVars == <<replicas, assignment, version, len, cap, panicked>>
-----------------------------------------------------------------------------
(* A word is the set of its bits.                                          *)
Bits(x) == {i \in 0 .. WordBits - 1 : (x \div Pow2[i]) % 2 = 1}

Number(b) ==
  LET sum[n \in 0 .. WordBits] ==
        IF n = 0 THEN 0 ELSE sum[n - 1] + (IF n - 1 \in b THEN Pow2[n - 1] ELSE 0)
  IN  sum[WordBits]

(* Mutated form of NextPowerOfTwo: the one below.                          *)
NextPowerOfTwo_Below(x) ==
  IF x = 0 THEN 1 ELSE CHOOSE p \in Powers : p <= x /\ x < 2 * p

(* 2^ceil(log2 x), and x itself when x & (x - 1) is 0.                     *)
NextPowerOfTwo(x) ==
  IF x = 0 THEN 1
  ELSE IF Bits(x) \cap Bits(x - 1) = {} THEN x
  ELSE CHOOSE p \in Powers : p >= x /\ p < 2 * x

(* y | y >> k, on the bits of y.                                           *)
Smear(b, k) == b \cup {i \in 0 .. WordBits - 1 : i + k \in b}

(* x - 1 with 31 bits below its highest one set, then plus one.            *)
FindNearestPow2(x) ==
  IF x = 0 THEN 1
  ELSE Number(Smear(Smear(Smear(Smear(Smear(Bits(x - 1), 1), 2), 4), 8), 16)) + 1

(* The slices, by the number of a replica in the sorted list; starts are   *)
(* sums of delta, in words.                                                *)
EqualSlices(n) ==
  IF n = 0 THEN <<>>
  ELSE LET k == NextPowerOfTwo(n)
           delta == (Pow2[WordBits] - 1) \div k
       IN  [i \in 1 .. k |-> [start |-> Word((i - 1) * delta), replica |-> ((i - 1) % n) + 1]]

(* For 0 bytes the pool has no buffer and no error.                        *)
GetPowerOfTwoSizeBytes(n) == IF n = 0 THEN 0 ELSE NextPowerOfTwo(n)

(* NewSerializer.  The size of arguments that take no byte, those of an    *)
(* AutoMarshal without fields, is 0 (generator.go:1434).                   *)
SizesInit ==
  /\ replicas = 0 /\ assignment = <<>> /\ version = 0
  /\ len = 0 /\ cap \in {GetPowerOfTwoSizeBytes(n) : n \in 0 .. Pow2[PoolBits]} /\ panicked = FALSE

(* routingAlgo, when registerReplica has added one.                        *)
RegisterReplica ==
  /\ replicas < MaxReplicas
  /\ replicas' = replicas + 1
  /\ assignment' = EqualSlices(replicas + 1) /\ version' = version + 1
  /\ UNCHANGED <<len, cap, panicked>>

(* Mutated form of Doubled: the new size is not compared with the need.    *)
Doubled_Not(first, need) == first

(* The new size, doubled until it is no less than the need.                *)
Doubled(first, need) ==
  LET size[i \in 0 .. WordBits] ==
        IF i = 0 THEN first
        ELSE IF size[i - 1] < need THEN 2 * size[i - 1] ELSE size[i - 1]
  IN  size[WordBits]

(* The size grow asks the pool for.                                        *)
Larger(need) == NextPowerOfTwo(Doubled(FindNearestPow2(cap + 1), need))

(* grow, then the append; a panic when no pool has the size.  Bound: no    *)
(* more is appended than the largest pool has.                             *)
Grow(n) ==
  /\ cap # 0 /\ ~panicked /\ len + n <= Pow2[PoolBits]
  /\ IF len + n <= cap \/ Larger(len + n) \in Pools
     THEN /\ cap' = (IF len + n <= cap THEN cap ELSE Larger(len + n))
          /\ len' = len + n /\ UNCHANGED panicked
     ELSE panicked' = TRUE /\ UNCHANGED <<len, cap>>
  /\ UNCHANGED <<replicas, assignment, version>>

(* grow and Data dereference the buffer of a Serializer that has none.     *)
NilBuffer ==
  /\ cap = 0 /\ ~panicked
  /\ panicked' = TRUE /\ UNCHANGED <<replicas, assignment, version, len, cap>>

SizesStep == RegisterReplica \/ NilBuffer \/ \E n \in Appends : Grow(n)

SizesSpec == SizesInit /\ [][SizesStep]_sizeVars
-----------------------------------------------------------------------------
Share(r) == Cardinality({i \in DOMAIN assignment : assignment[i].replica = r})

(* The slices cut the whole key space: they start at 0 and ascend, so that *)
(* none is empty, and every replica has one of them or two (routing.go     *)
(* 12-39).                                                                 *)
Covered ==
  replicas > 0 =>
    /\ assignment[1].start = 0
    /\ \A i \in 2 .. Len(assignment) : assignment[i - 1].start < assignment[i].start
    /\ \A r \in 1 .. replicas : Share(r) \in {1, 2}

(* A buffer is as large as one of the pools says, so that it goes back     *)
(* where it came from, and holds what was appended; only a Serializer that *)
(* was asked for no byte has no buffer, and only its methods panic; the    *)
(* two roundings, written in different ways, agree, up to the largest pool *)
(* (umath 5-29, bytes_pool.go 23-36, serialize.go 39-90, 205).             *)
Pooled ==
  /\ cap \in Pools \/ (cap = 0 /\ len = 0)
  /\ len <= cap /\ (panicked => cap = 0)
  /\ cap < Pow2[PoolBits] => FindNearestPow2(cap + 1) = NextPowerOfTwo(cap + 1)
  /\ FindNearestPow2(len) = NextPowerOfTwo(len)
=============================================================================
