-------------------------- MODULE PureFunctions_proofs --------------------------
(***************************************************************************)
(* Proofs about PureFunctions, for every input, every nesting of batches   *)
(* and every depth of JSON values: what one side encodes the other         *)
(* decodes, amounts are converted without loss, authorizeBatch signs every *)
(* call, a canonical text stands for equal values, and contents with some  *)
(* of their attributes withheld conform to their schema.                   *)
(*                                                                         *)
(* A function that is defined by recursion is a CHOOSE, which says nothing *)
(* unless a function with that definition exists.  Each is shown to exist  *)
(* (Recursion, RecursionOnPositions, NestedIs, RecursionOnCalls, LevelIs,  *)
(* RecursionOnValues, ValidateIs) before what it computes is shown, by     *)
(* induction over the numbers (Induction), the calls (InductionOnCalls) or *)
(* the values (InductionOnValues).                                         *)
(***************************************************************************)
EXTENDS PureFunctions, FiniteSetTheorems, SequenceTheorems, TLAPS

-----------------------------------------------------------------------------
(* Identifiers: the two bytes of a prefix.                                 *)

\* Division by the powers of two that shifts and masks of a byte stand for.
LEMMA DivideBy4 ==
    ASSUME NEW n \in Nat
    PROVE  n \div 4 \in Nat /\ n % 4 \in 0 .. 3 /\ n = 4 * (n \div 4) + (n % 4)
OBVIOUS

LEMMA DivideBy64 ==
    ASSUME NEW n \in Nat
    PROVE  n \div 64 \in Nat /\ n % 64 \in 0 .. 63 /\ n = 64 * (n \div 64) + (n % 64)
OBVIOUS

LEMMA DivideBy256 ==
    ASSUME NEW n \in Nat
    PROVE  n \div 256 \in Nat /\ n % 256 \in 0 .. 255 /\ n = 256 * (n \div 256) + (n % 256)
OBVIOUS

LEMMA QuotientOf64 ==
    ASSUME NEW n \in Nat, NEW q \in Nat, NEW r \in 0 .. 63, n = 64 * q + r
    PROVE  n \div 64 = q /\ n % 64 = r
BY DivideBy64

\* The bits of a two byte prefix, taken apart and put together again.
LEMMA TwoNumbers ==
    ASSUME NEW p \in Nat, p >= 64, p < 16384
    PROVE  LET x == ((p % 256) \div 4) + 64
               y == (p \div 256) + ((p % 4) * 64)
           IN  /\ x \in 64 .. 127 /\ y \in Int
               /\ x \div 64 = 1
               /\ ((x % 64) * 4) + (y \div 64) + ((y % 64) * 256) = p
<1> DEFINE low == p % 256
           high == p \div 256
           last == p % 4
           x == (low \div 4) + 64
           y == high + (last * 64)
<1>1. low \in 0 .. 255 /\ high \in Nat /\ last \in 0 .. 3 /\ p = 256 * high + low /\ p \in Nat
    BY DivideBy4, DivideBy256
<1>2. last = low % 4
    <2>1. p \in Nat
        OBVIOUS
    <2> QED
        BY <2>1
<1> HIDE DEF low, high, last
<1>3. x = (low \div 4) + 64 /\ y = high + (last * 64)
    OBVIOUS
<1> HIDE DEF x, y
<1>4. low \div 4 \in 0 .. 63 /\ low = 4 * (low \div 4) + last
    BY <1>1, <1>2, DivideBy4
<1>5. high \in 0 .. 63
    BY <1>1
<1>6. x \in 64 .. 127 /\ y \in Int
    BY <1>1, <1>3, <1>4
<1>7. x \div 64 = 1 /\ x % 64 = low \div 4
    <2>1. x \in Nat /\ 1 \in Nat /\ x = 64 * 1 + (low \div 4)
        BY <1>3, <1>4
    <2> QED
        BY <1>4, <2>1, QuotientOf64
<1>8. y \div 64 = last /\ y % 64 = high
    <2>1. y \in Nat /\ last \in Nat /\ y = 64 * last + high
        BY <1>1, <1>3, <1>5
    <2> QED
        BY <1>5, <2>1, QuotientOf64
<1>9. ((low \div 4) * 4) + last + (high * 256) = p
    BY <1>1, <1>4, <1>5
<1>10. x \in 64 .. 127 /\ y \in Int /\ x \div 64 = 1
       /\ ((x % 64) * 4) + (y \div 64) + ((y % 64) * 256) = p
    BY <1>6, <1>7, <1>8, <1>9
<1> QED
    BY <1>10 DEF x, y, low, high, last

LEMMA TwoBytes ==
    ASSUME NEW p \in Nat, p >= 64, p < 16384, NEW b,
           b[1] = ((p % 256) \div 4) + 64, b[2] = (p \div 256) + ((p % 4) * 64)
    PROVE  /\ b[1] \in 64 .. 127
           /\ Ids!PrefixLength(b[1]) = 2
           /\ Ids!DecodedPrefix(b) = p
<1> DEFINE x == ((p % 256) \div 4) + 64
           y == (p \div 256) + ((p % 4) * 64)
<1>1. x \in 64 .. 127 /\ y \in Int /\ x \div 64 = 1
      /\ ((x % 64) * 4) + (y \div 64) + ((y % 64) * 256) = p
    BY TwoNumbers
<1>2. b[1] = x /\ b[2] = y
    OBVIOUS
<1> HIDE DEF x, y
<1>3. Ids!PrefixLength(b[1]) = 2
    BY <1>1, <1>2 DEF Ids!PrefixLength
<1> QED
    BY <1>1, <1>2, <1>3 DEF Ids!DecodedPrefix

LEMMA OneByte ==
    ASSUME NEW p \in 0 .. 63, NEW b, b[1] = p
    PROVE  Ids!PrefixLength(b[1]) = 1 /\ Ids!DecodedPrefix(b) = p
<1>1. p \div 64 = 0
    BY DivideBy64
<1>2. Ids!PrefixLength(b[1]) = 1
    BY <1>1 DEF Ids!PrefixLength
<1> QED
    BY <1>2 DEF Ids!DecodedPrefix

\* The bytes that are hashed: the prefix, of one or two, in front of the key.
FirstByte(p) == ((p % 256) \div 4) + 64
SecondByte(p) == (p \div 256) + ((p % 4) * 64)
Bytes(p, length) == Ids!PrefixBytes(p) \o Ids!Key(length)
PrefixSize(p) == IF p < 64 THEN 1 ELSE 2

LEMMA InputBytes ==
    ASSUME NEW p \in Nat, p < 16384, NEW length \in Nat \ {0}
    PROVE  /\ Bytes(p, length) \in Seq(Int)
           /\ Len(Bytes(p, length)) = PrefixSize(p) + length
           /\ Len(Ids!Key(length)) = length
           /\ p < 64 => Bytes(p, length)[1] = p
           /\ p >= 64 => Bytes(p, length)[1] = FirstByte(p) /\ Bytes(p, length)[2] = SecondByte(p)
<1> DEFINE prefix == Ids!PrefixBytes(p)
           key == Ids!Key(length)
           x == FirstByte(p)
           y == SecondByte(p)
<1>1. key \in Seq(Int) /\ Len(key) = length
    BY DEF Ids!Key
<1>2. x \in Int /\ y \in Int
    BY DivideBy4, DivideBy256 DEF FirstByte, SecondByte
<1>3. prefix = IF p < 64 THEN <<p>> ELSE <<x, y>>
    BY DEF Ids!PrefixBytes, FirstByte, SecondByte
<1> HIDE DEF prefix, key, x, y
<1>4. /\ prefix \in Seq(Int) /\ Len(prefix) = IF p < 64 THEN 1 ELSE 2
      /\ prefix[1] = IF p < 64 THEN p ELSE x
      /\ p >= 64 => prefix[2] = y
    BY <1>2, <1>3
<1>5. /\ prefix \o key \in Seq(Int) /\ Len(prefix \o key) = Len(prefix) + length
      /\ \A i \in 1 .. Len(prefix) : (prefix \o key)[i] = prefix[i]
    <2>0. prefix \in Seq(Int) /\ key \in Seq(Int)
        BY <1>1, <1>4
    <2>1. /\ prefix \o key \in Seq(Int) /\ Len(prefix \o key) = Len(prefix) + Len(key)
          /\ \A i \in 1 .. Len(prefix) + Len(key) :
                (prefix \o key)[i] = IF i <= Len(prefix) THEN prefix[i] ELSE key[i - Len(prefix)]
        BY <2>0, ConcatProperties
    <2>2. ASSUME NEW i \in 1 .. Len(prefix) PROVE (prefix \o key)[i] = prefix[i]
        <3>1. i \in 1 .. Len(prefix) + Len(key) /\ i <= Len(prefix)
            BY <1>1, <1>4
        <3> QED
            BY <2>1, <3>1
    <2> QED
        BY <1>1, <2>1, <2>2
<1>6. /\ (prefix \o key)[1] = prefix[1]
      /\ p >= 64 => (prefix \o key)[2] = prefix[2]
    BY <1>4, <1>5
<1> QED
    BY <1>1, <1>4, <1>5, <1>6 DEF prefix, key, x, y, Bytes, PrefixSize

\* checkAddressChecksum reads back what encodeIdentifier wrote, for every prefix and
\* every length of key, and tells a wrong checksum.
LEMMA RoundTrip ==
    ASSUME NEW p \in Nat, p < 16384, p \notin {46, 47}, NEW length \in {1, 2, 4, 8, 32, 33}
    PROVE  LET identifier == Ids!encodeIdentifier(Ids!Key(length), p)
           IN  /\ Ids!checkAddressChecksum(identifier) = [isValid |-> TRUE, prefix |-> p]
               /\ ~Ids!checkAddressChecksum(Ids!Damaged(identifier)).isValid
<1> DEFINE bytes == Bytes(p, length)
           n == PrefixSize(p)
           c == IF length \in {32, 33} THEN 2 ELSE 1
           checksum == Ids!pphash(bytes, c)
           identifier == Ids!encodeIdentifier(Ids!Key(length), p)
           damaged == Ids!Damaged(identifier)
<1>1. /\ bytes \in Seq(Int) /\ Len(bytes) = n + length /\ Len(Ids!Key(length)) = length
      /\ p < 64 => bytes[1] = p
      /\ p >= 64 => bytes[1] = FirstByte(p) /\ bytes[2] = SecondByte(p)
    <2>1. length \in Nat \ {0}
        OBVIOUS
    <2> HIDE DEF c, checksum, identifier, damaged
    <2> QED
        BY <2>1, InputBytes
<1>2. identifier = [bytes |-> bytes, checksum |-> checksum, length |-> n + length + c]
    BY <1>1 DEF Ids!encodeIdentifier, Ids!Encoded, Ids!pphash, Bytes
<1>5. bytes # <<>>
    <2>1. Len(bytes) # 0
        BY <1>1 DEF PrefixSize
    <2> QED
        BY <2>1
<1> HIDE DEF bytes, identifier
<1>3. identifier.bytes = bytes /\ identifier.length = n + length + c
      /\ identifier.checksum = checksum
    BY <1>1, <1>2
<1>4. damaged.bytes = bytes /\ damaged.length = n + length + c
      /\ damaged.checksum = [of |-> <<>>, length |-> c]
    <2> DEFINE d == [of |-> <<>>, length |-> c]
    <2>1. d = [checksum EXCEPT !.of = <<>>]
        BY DEF Ids!pphash
    <2>2. damaged = [identifier EXCEPT !.checksum = [@ EXCEPT !.of = <<>>]]
        BY DEF Ids!Damaged
    <2> HIDE DEF d, damaged, checksum
    <2>3. damaged = [bytes |-> bytes, checksum |-> d, length |-> n + length + c]
        BY <1>2, <2>1, <2>2
    <2> QED
        BY <2>3 DEF d
<1> HIDE DEF damaged
<1>6. /\ Ids!PrefixLength(bytes[1]) = n /\ Ids!DecodedPrefix(bytes) = p
      /\ bytes[1] < 128 /\ bytes[1] \notin {46, 47}
    <2>1. CASE p < 64
        <3>1. p \in 0 .. 63 /\ bytes[1] = p
            BY <1>1, <2>1
        <3>2. Ids!PrefixLength(bytes[1]) = 1 /\ Ids!DecodedPrefix(bytes) = p
            BY <3>1, OneByte
        <3>3. n = 1
            BY <2>1 DEF PrefixSize
        <3>4. bytes[1] < 128 /\ bytes[1] \notin {46, 47}
            BY <2>1, <3>1
        <3> QED
            BY <3>2, <3>3, <3>4
    <2>2. CASE p >= 64
        <3>1. bytes[1] = ((p % 256) \div 4) + 64 /\ bytes[2] = (p \div 256) + ((p % 4) * 64)
            BY <1>1, <2>2 DEF FirstByte, SecondByte
        <3>2. bytes[1] \in 64 .. 127 /\ Ids!PrefixLength(bytes[1]) = 2
              /\ Ids!DecodedPrefix(bytes) = p
            BY <2>2, <3>1, TwoBytes
        <3> QED
            BY <2>2, <3>2 DEF PrefixSize
    <2> QED
        BY <2>1, <2>2
<1>7. ASSUME NEW i, i.bytes = bytes, i.length = n + length + c
      PROVE  Ids!ChecksumLength(i) = c
    <2>1. n \in {1, 2}
        BY DEF PrefixSize
    <2>2. n + length + c \in {34 + n, 35 + n} <=> length \in {32, 33}
        BY <2>1
    <2> QED
        BY <1>6, <1>7, <2>2 DEF Ids!ChecksumLength
<1>8. Ids!ChecksumLength(identifier) = c /\ Ids!ChecksumLength(damaged) = c
    BY <1>3, <1>4, <1>7
<1>9. Ids!checkAddressChecksum(identifier) = [isValid |-> TRUE, prefix |-> p]
    <2> DEFINE valid == /\ identifier.bytes[1] < 128 /\ identifier.bytes[1] \notin {46, 47}
                        /\ identifier.checksum
                              = Ids!pphash(identifier.bytes, Ids!ChecksumLength(identifier))
    <2>1. identifier.bytes[1] < 128 /\ identifier.bytes[1] \notin {46, 47}
          /\ identifier.checksum
                = Ids!pphash(identifier.bytes, Ids!ChecksumLength(identifier))
        BY <1>3, <1>6, <1>8
    <2>2. valid = TRUE
        BY <2>1
    <2>3. Ids!DecodedPrefix(identifier.bytes) = p
        BY <1>3, <1>6
    <2> QED
        <3>1. Ids!checkAddressChecksum(identifier)
                = [isValid |-> valid, prefix |-> Ids!DecodedPrefix(identifier.bytes)]
            BY DEF Ids!checkAddressChecksum
        <3> HIDE DEF valid
        <3> QED
            BY <2>2, <2>3, <3>1
<1>10. damaged.checksum # checksum
    BY <1>4, <1>5 DEF Ids!pphash
<1>11. ~Ids!checkAddressChecksum(damaged).isValid
    BY <1>4, <1>8, <1>10 DEF Ids!checkAddressChecksum
<1> QED
    BY <1>9, <1>11 DEF identifier, damaged

LEMMA Encodable ==
    ASSUME NEW p, p \in (0 .. 16383) \ {46, 47}
    PROVE  p \in Nat /\ p < 16384 /\ p \notin {46, 47}
<1>1. p \in 0 .. 16383
    OBVIOUS
<1>2. p \in Nat /\ p <= 16383
    BY <1>1
<1>3. p \notin {46, 47}
    OBVIOUS
<1> QED
    BY <1>2, <1>3

LEMMA WhatIsEncodedIsReadBack ==
    ASSUME NEW p, NEW length, Ids!MayEncode(length, p)
    PROVE  LET identifier == Ids!encodeIdentifier(Ids!Key(length), p)
           IN  /\ Ids!checkAddressChecksum(identifier) = [isValid |-> TRUE, prefix |-> p]
               /\ ~Ids!checkAddressChecksum(Ids!Damaged(identifier)).isValid
<1>1. p \in (0 .. 16383) \ {46, 47} /\ length \in {1, 2, 4, 8, 32, 33}
    BY SMT DEF Ids!MayEncode, Ids!allowedDecodedLengths
<1>2. p \in Nat /\ p < 16384 /\ p \notin {46, 47}
    BY <1>1, Encodable, SMT
<1> QED
    BY <1>1, <1>2, RoundTrip, SMT

\* Every identifier that encodeIdentifier makes is read back by checkAddressChecksum
\* with its prefix, and a damaged one is not taken for valid.
THEOREM IdentifiersRoundTrip == PureFunctionsSpec => []IdentifierRoundTrip
<1>1. IdentifierRoundTrip
    BY WhatIsEncodedIsReadBack, Zenon DEF IdentifierRoundTrip
<1> QED
    BY <1>1, PTL

-----------------------------------------------------------------------------
(* DID documents.                                                          *)

\* How many elements of a set of numbers are at most k.
Below(S, k) == {j \in S : j <= k}
Rank(S, k) == Cardinality(Below(S, k))

\* The ranks of the elements are the numbers up to the size of the set, each once.
LEMMA Ranks ==
    ASSUME NEW S, S \subseteq Nat, IsFiniteSet(S)
    PROVE  /\ Cardinality(S) \in Nat
           /\ \A k \in S : Rank(S, k) \in 1 .. Cardinality(S)
           /\ \A a, b \in S : Rank(S, a) = Rank(S, b) => a = b
           /\ \A a, b \in S : a < b => Rank(S, a) < Rank(S, b)
           /\ \A n \in 1 .. Cardinality(S) : \E k \in S : Rank(S, k) = n
<1> DEFINE N == Cardinality(S)
           rank == [k \in S |-> Rank(S, k)]
<1>1. N \in Nat
    BY FS_CardinalityType
<1>2. ASSUME NEW k \in S
      PROVE  IsFiniteSet(Below(S, k)) /\ Rank(S, k) \in Nat /\ Rank(S, k) <= N /\ Rank(S, k) # 0
    <2>1. Below(S, k) \in SUBSET S /\ k \in Below(S, k)
        BY DEF Below
    <2>2. IsFiniteSet(Below(S, k)) /\ Rank(S, k) <= N
        BY <2>1, FS_Subset DEF Rank
    <2>3. Rank(S, k) \in Nat
        BY <2>2, FS_CardinalityType DEF Rank
    <2>4. Rank(S, k) # 0
        BY <2>1, <2>2, FS_EmptySet DEF Rank
    <2> QED
        BY <2>2, <2>3, <2>4
<1>3. ASSUME NEW a \in S, NEW b \in S, a < b
      PROVE  Rank(S, a) < Rank(S, b)
    <2>1. Below(S, a) \in SUBSET Below(S, b)
        <3>1. \A j \in S : j <= a => j <= b
            BY <1>3
        <3> QED
            BY <3>1 DEF Below
    <2>2. b \in Below(S, b) /\ b \notin Below(S, a)
        BY <1>3 DEF Below
    <2>3. Rank(S, a) <= Rank(S, b) /\ Rank(S, a) # Rank(S, b)
        BY <1>2, <2>1, <2>2, FS_Subset DEF Rank
    <2> QED
        BY <1>2, <2>3
<1>4. ASSUME NEW a \in S, NEW b \in S, Rank(S, a) = Rank(S, b)
      PROVE  a = b
    <2>1. a \in Nat /\ b \in Nat /\ Rank(S, a) \in Nat /\ Rank(S, b) \in Nat
        BY <1>2
    <2>2. ~(a < b) /\ ~(b < a)
        BY <1>3, <1>4, <2>1
    <2> QED
        BY <2>1, <2>2
<1>5. rank \in [S -> 1 .. N]
    BY <1>1, <1>2
<1>6. IsInjective(rank)
    BY <1>4 DEF IsInjective
<1>7. rank \in Surjection(S, 1 .. N)
    <2>1. rank \in Injection(S, 1 .. N)
        BY <1>5, <1>6 DEF Injection
    <2>2. IsFiniteSet(1 .. N) /\ Cardinality(1 .. N) = N
        <3>1. 1 \in Int /\ N \in Int
            BY <1>1
        <3>2. IsFiniteSet(1 .. N) /\ Cardinality(1 .. N) = IF 1 > N THEN 0 ELSE N - 1 + 1
            BY <3>1, FS_Interval
        <3> QED
            BY <1>1, <3>2
    <2> HIDE DEF rank
    <2> QED
        BY <2>1, <2>2, FS_Injection
<1>8. ASSUME NEW n \in 1 .. N PROVE \E k \in S : Rank(S, k) = n
    <2>1. \E k \in S : rank[k] = n
        BY <1>7 DEF Surjection
    <2> QED
        BY <2>1
<1>9. \A k \in S : Rank(S, k) \in 1 .. N
    BY <1>1, <1>2
<1> HIDE DEF rank
<1> QED
    BY <1>1, <1>3, <1>4, <1>8, <1>9

\* InOrder lists the elements of a finite set of numbers, each once.
LEMMA InOrderIs ==
    ASSUME NEW S, S \subseteq Nat, IsFiniteSet(S)
    PROVE  /\ Documents!InOrder(S) \in [1 .. Cardinality(S) -> S]
           /\ Documents!InOrder(S) \in Seq(S)
           /\ Len(Documents!InOrder(S)) = Cardinality(S)
           /\ ToSet(Documents!InOrder(S)) = S
           /\ IsInjective(Documents!InOrder(S))
<1> DEFINE N == Cardinality(S)
           list == Documents!InOrder(S)
<1>0. N \in Nat
    BY Ranks
<1>1. \A T : Documents!Cardinality(T) = Cardinality(T)
    BY Zenon DEF Documents!Cardinality, Cardinality
<1> DEFINE ranked(n, k) == Documents!Cardinality({j \in S : j <= k}) = n
<1>a. \A n, k : ranked(n, k) <=> Rank(S, k) = n
    BY <1>1 DEF Rank, Below
<1>b. list = [n \in 1 .. N |-> CHOOSE k \in S : ranked(n, k)]
    BY <1>1 DEF Documents!InOrder
<1> HIDE DEF list, ranked
<1>2. ASSUME NEW n \in 1 .. N PROVE list[n] \in S /\ Rank(S, list[n]) = n
    <2>1. \E k \in S : ranked(n, k)
        BY <1>a, Ranks, ZenonT(40)
    <2>2. list[n] \in S /\ ranked(n, list[n])
        BY <1>b, <2>1
    <2> QED
        BY <1>a, <2>2
<1>3. list \in [1 .. N -> S] /\ DOMAIN list = 1 .. N
    BY <1>b, <1>2
<1>4. list \in Seq(S) /\ Len(list) = N
    BY <1>0, <1>3
<1>5. ASSUME NEW k \in S PROVE \E n \in 1 .. N : list[n] = k
    <2>1. Rank(S, k) \in 1 .. N
        BY Ranks
    <2>2. list[Rank(S, k)] \in S /\ Rank(S, list[Rank(S, k)]) = Rank(S, k)
        BY <1>2, <2>1
    <2>3. \A a, b \in S : Rank(S, a) = Rank(S, b) => a = b
        BY Ranks
    <2>4. list[Rank(S, k)] = k
        BY <2>2, <2>3
    <2> QED
        BY <2>1, <2>4
<1>6. ToSet(list) = S
    BY <1>3, <1>5 DEF ToSet
<1>7. IsInjective(list)
    BY <1>2, <1>3 DEF IsInjective
<1> QED
    BY <1>3, <1>4, <1>6, <1>7 DEF list
\* A set of numbers that is not empty has a least one.
LEMMA Least ==
    ASSUME NEW S, S \subseteq Nat, IsFiniteSet(S), S # {}
    PROVE  \E k \in S : \A j \in S : ~(j < k)
<1>1. 1 \in 1 .. Cardinality(S)
    <2>1. Cardinality(S) \in Nat /\ Cardinality(S) # 0
        BY Ranks, FS_EmptySet
    <2> QED
        BY <2>1
<1>2. PICK k \in S : Rank(S, k) = 1
    BY <1>1, Ranks
<1>3. ASSUME NEW j \in S PROVE ~(j < k)
    <2>1. Cardinality(S) \in Nat /\ Rank(S, j) \in 1 .. Cardinality(S)
        BY Ranks
    <2>2. ~(Rank(S, j) < 1)
        BY <2>1
    <2>3. \A a, b \in S : a < b => Rank(S, a) < Rank(S, b)
        BY Ranks
    <2> QED
        BY <1>2, <2>2, <2>3
<1> QED
    BY <1>3

\* The filter that removes duplicates keeps one of each.
LEMMA DistinctIs ==
    ASSUME NEW s \in Seq(Nat)
    PROVE  IsInjective(Documents!Distinct(s)) /\ ToSet(Documents!Distinct(s)) = ToSet(s)
<1> DEFINE first == {i \in DOMAIN s : \A j \in 1 .. i - 1 : s[j] # s[i]}
           N == Cardinality(first)
           list == Documents!InOrder(first)
           listed == Documents!Distinct(s)
<1>1. DOMAIN s = 1 .. Len(s) /\ Len(s) \in Nat /\ IsFiniteSet(DOMAIN s)
    BY LenProperties, FS_Interval
<1>2. first \subseteq DOMAIN s /\ first \subseteq Nat /\ IsFiniteSet(first)
    BY <1>1, FS_Subset
<1>3. listed = [n \in 1 .. N |-> s[list[n]]]
    <2>1. Documents!Cardinality(first) = Cardinality(first)
        BY Zenon DEF Documents!Cardinality, Cardinality
    <2> QED
        BY <2>1 DEF Documents!Distinct
<1>a. \A i : i \in first <=> i \in DOMAIN s /\ \A j \in 1 .. i - 1 : s[j] # s[i]
    OBVIOUS
<1> HIDE DEF first
<1>4. /\ list \in [1 .. N -> first] /\ list \in Seq(first) /\ Len(list) = N
      /\ ToSet(list) = first /\ IsInjective(list)
    BY <1>2, InOrderIs
<1> HIDE DEF list, listed
<1>5. ASSUME NEW i \in first, NEW j \in first, s[i] = s[j]
      PROVE  i = j
    <2>1. i \in Nat /\ j \in Nat /\ i # 0 /\ j # 0
        BY <1>1, <1>2
    <2>2. ~(i < j)
        <3>1. i < j => i \in 1 .. j - 1
            BY <2>1
        <3> QED
            BY <1>5, <1>a, <3>1
    <2>3. ~(j < i)
        <3>1. j < i => j \in 1 .. i - 1
            BY <2>1
        <3> QED
            BY <1>5, <1>a, <3>1
    <2> QED
        BY <2>1, <2>2, <2>3
<1>6. IsInjective(listed)
    <2>1. ASSUME NEW a \in 1 .. N, NEW b \in 1 .. N, listed[a] = listed[b]
          PROVE  a = b
        <3>1. list[a] \in first /\ list[b] \in first /\ s[list[a]] = s[list[b]]
            BY <1>3, <1>4, <2>1
        <3>2. list[a] = list[b]
            BY <1>5, <3>1
        <3> QED
            BY <1>4, <3>2 DEF IsInjective
    <2> QED
        BY <1>3, <2>1 DEF IsInjective
<1>7. ASSUME NEW n \in 1 .. N PROVE listed[n] \in ToSet(s)
    <2>1. list[n] \in DOMAIN s /\ listed[n] = s[list[n]]
        BY <1>2, <1>3, <1>4
    <2> QED
        BY <2>1 DEF ToSet
<1>8. ASSUME NEW i \in DOMAIN s PROVE \E n \in 1 .. N : listed[n] = s[i]
    <2> DEFINE J == {j \in DOMAIN s : s[j] = s[i]}
    <2>1. J \subseteq Nat /\ IsFiniteSet(J) /\ J # {} /\ J \subseteq DOMAIN s
        BY <1>1, FS_Subset
    <2>a. \A j : j \in J <=> j \in DOMAIN s /\ s[j] = s[i]
        OBVIOUS
    <2> HIDE DEF J
    <2>2. PICK k \in J : \A j \in J : ~(j < k)
        BY <2>1, Least
    <2>3. k \in DOMAIN s /\ s[k] = s[i]
        BY <2>a
    <2>4. ASSUME NEW j \in 1 .. k - 1 PROVE s[j] # s[k]
        <3>1. j \in DOMAIN s /\ j < k
            BY <1>1, <2>3
        <3> QED
            BY <2>2, <2>3, <2>a, <3>1
    <2>5. k \in first
        BY <1>a, <2>3, <2>4
    <2>6. PICK n \in 1 .. N : list[n] = k
        BY <1>4, <2>5 DEF ToSet
    <2> QED
        BY <1>3, <2>3, <2>6
<1>9. ToSet(listed) = ToSet(s)
    <2>1. DOMAIN listed = 1 .. N
        BY <1>3
    <2> QED
        BY <1>7, <1>8, <2>1 DEF ToSet
<1> QED
    BY <1>6, <1>9 DEF listed

\* What SetToSeq makes of an Option.
LEMMA OptionToList ==
    ASSUME NEW list \in Seq(Nat \ {0}), Len(list) <= 1
    PROVE  Documents!SetToSeq(Documents!Option(list)) = list
<1> DEFINE S == Documents!Option(list)
<1>1. \A T : Documents!Cardinality(T) = Cardinality(T)
    BY Zenon DEF Documents!Cardinality, Cardinality
<1>2. CASE list = <<>>
    <2>1. S = {} /\ Cardinality(S) = 0
        BY <1>2, FS_EmptySet DEF Documents!Option
    <2>2. Documents!SetToSeq(S) = CHOOSE f \in [1 .. 0 -> {}] : Documents!IsInjective(f)
        BY <1>1, <2>1 DEF Documents!SetToSeq
    <2>3. list \in [1 .. 0 -> {}] /\ Documents!IsInjective(list)
        BY <1>2 DEF Documents!IsInjective
    <2>4. \A f \in [1 .. 0 -> {}] : f = list
        BY <1>2
    <2> QED
        BY <2>2, <2>3, <2>4
<1>3. CASE list # <<>>
    <2>a. Len(list) = 1 /\ list[1] \in Nat
        <3>1. Len(list) \in Nat \ {0}
            BY <1>3, EmptySeq
        <3>a. Len(list) \in Nat /\ Len(list) # 0
            BY <3>1
        <3>b. \A n \in Nat : n # 0 /\ n <= 1 => n = 1
            OBVIOUS
        <3>2. Len(list) = 1
            BY <3>a, <3>b
        <3>3. list[1] \in Nat \ {0}
            BY <3>2, ElementOfSeq
        <3> QED
            BY <3>2, <3>3
    <2>b. <<list[1]>> \in Seq(Nat) /\ Len(<<list[1]>>) = 1 /\ list \in Seq(Nat)
          /\ \A i \in 1 .. Len(list) : list[i] = <<list[1]>>[i]
        BY <2>a
    <2>c. list = <<list[1]>>
        BY <2>a, <2>b, SeqEqual, Zenon
    <2>1. Len(list) = 1 /\ list = <<list[1]>> /\ list[1] \in Nat
        BY <2>a, <2>c
    <2>2. S = {list[1]} /\ Cardinality(S) = 1
        <3>1. S = {list[1]}
            BY <1>3, <2>a DEF Documents!Option
        <3> QED
            BY <3>1, FS_Singleton
    <2>3. Documents!SetToSeq(S) = CHOOSE f \in [1 .. 1 -> {list[1]}] : Documents!IsInjective(f)
        BY <1>1, <2>2 DEF Documents!SetToSeq
    <2>4. list \in [1 .. 1 -> {list[1]}] /\ Documents!IsInjective(list)
        BY <2>1 DEF Documents!IsInjective
    <2>5. \A f \in [1 .. 1 -> {list[1]}] : f = list
        <3> SUFFICES ASSUME NEW f \in [1 .. 1 -> {list[1]}] PROVE f = list
            OBVIOUS
        <3>1. f[1] = list[1] /\ DOMAIN f = 1 .. 1 /\ DOMAIN list = 1 .. 1
            BY <2>1, <2>4
        <3> QED
            BY <2>4, <3>1
    <2> QED
        BY <2>3, <2>4, <2>5
<1> QED
    BY <1>2, <1>3
\* What getStoreTx accepted is what documentFromChain reads back from the stored DID,
\* the key agreement keys in another order.
LEMMA ReadBack ==
    ASSUME NEW input \in DidInputs, Documents!getStoreTx(input) # Documents!Throws
    PROVE  LET document == Documents!documentFromChain(Documents!create(Documents!getStoreTx(input)))
           IN  /\ DOMAIN document = {"authentication", "assertionMethod",
                                     "capabilityDelegation", "keyAgreement"}
               /\ document.authentication = input.authentication
               /\ document.assertionMethod = input.assertionMethod
               /\ document.capabilityDelegation = input.capabilityDelegation
               /\ document.keyAgreement \in Seq(Nat)
               /\ ToSet(document.keyAgreement) = ToSet(input.keyAgreement)
<1> DEFINE a == input.authentication
           m == input.assertionMethod
           d == input.capabilityDelegation
           g == input.keyAgreement
           keys == Nat \ {0}
           creation == Documents!getStoreTx(input)
           encoded == Documents!create(creation)
           Found(id) == IF id \in encoded.publicKeys THEN id ELSE 0
           found(ids) == [i \in DOMAIN ids |-> Found(ids[i])]
           document == Documents!documentFromChain(encoded)
           agreement == Documents!ToSet(g)
<1>1. /\ a \in Seq(keys) /\ m \in Seq(keys) /\ d \in Seq(keys) /\ g \in Seq(keys)
      /\ Len(a) <= 1
    BY DidInputsAssumption DEF Documents!Missing
<1>2. /\ a # <<>> /\ ~(Len(m) > 1) /\ ~(Len(d) > 1)
      /\ creation = [authenticationKey |-> Head(a),
                     newAssertionKey |-> Documents!Option(m),
                     newDelegationKey |-> Documents!Option(d),
                     newKeyAgreementKeys |-> g,
                     newServiceDetails |-> input.service]
    BY DEF Documents!getStoreTx, Documents!TooManyKeys
<1>3. \A s : Documents!ToSet(s) = ToSet(s)
    BY DEF Documents!ToSet, ToSet
<1> HIDE DEF creation
<1>4. encoded = [publicKeys |-> {Head(a)} \cup Documents!Option(m)
                                   \cup Documents!Option(d) \cup agreement,
                 authenticationKey |-> Head(a),
                 assertionKey |-> Documents!Option(m),
                 delegationKey |-> Documents!Option(d),
                 keyAgreementKeys |-> Documents!InOrder(agreement)]
    BY <1>2 DEF Documents!create
<1> HIDE DEF encoded
<1>5. document = [authentication |-> found(<<encoded.authenticationKey>>),
                  assertionMethod |-> found(Documents!SetToSeq(encoded.assertionKey)),
                  capabilityDelegation |-> found(Documents!SetToSeq(encoded.delegationKey)),
                  keyAgreement |-> found(encoded.keyAgreementKeys)]
    BY DEF Documents!documentFromChain, Documents!Missing
<1> HIDE DEF document
<1>6. ASSUME NEW ids, ids \in Seq(Nat), \A i \in DOMAIN ids : ids[i] \in encoded.publicKeys
      PROVE  found(ids) = ids
    BY <1>6
<1> HIDE DEF found
<1>7. document.authentication = a
    <2>1. Len(a) = 1 /\ a[1] \in Nat
        <3>1. Len(a) \in Nat /\ Len(a) # 0
            BY <1>1, <1>2, EmptySeq
        <3>2. \A n \in Nat : n # 0 /\ n <= 1 => n = 1
            OBVIOUS
        <3>3. Len(a) = 1
            BY <1>1, <3>1, <3>2
        <3>4. a[1] \in keys
            BY <1>1, <3>3, ElementOfSeq
        <3> QED
            BY <3>3, <3>4
    <2>2. <<a[1]>> \in Seq(Nat) /\ Len(<<a[1]>>) = 1 /\ a \in Seq(Nat)
          /\ \A i \in 1 .. Len(a) : a[i] = <<a[1]>>[i]
        BY <1>1, <2>1
    <2>3. a = <<a[1]>>
        BY <2>1, <2>2, SeqEqual, Zenon
    <2>4. encoded.authenticationKey = a[1] /\ a[1] \in encoded.publicKeys
        BY <1>1, <1>2, <1>4
    <2>5. found(<<a[1]>>) = <<a[1]>>
        <3>1. \A i \in DOMAIN <<a[1]>> : <<a[1]>>[i] \in encoded.publicKeys
            BY <2>4
        <3> QED
            BY <1>6, <2>2, <3>1
    <2> QED
        BY <1>5, <2>3, <2>4, <2>5
<1>8. ASSUME NEW list \in Seq(keys), ~(Len(list) > 1),
             Documents!Option(list) \subseteq encoded.publicKeys
      PROVE  found(Documents!SetToSeq(Documents!Option(list))) = list
    <2>1. Len(list) \in Nat /\ Len(list) <= 1 /\ list \in Seq(Nat)
        BY <1>8
    <2>2. Documents!SetToSeq(Documents!Option(list)) = list
        BY <2>1, OptionToList
    <2>3. \A i \in DOMAIN list : list[i] \in encoded.publicKeys
        <3> SUFFICES ASSUME NEW i \in DOMAIN list PROVE list[i] \in encoded.publicKeys
            OBVIOUS
        <3>1. i = 1 /\ list # <<>>
            BY <2>1
        <3>2. list[i] \in Documents!Option(list)
            BY <3>1, <2>1 DEF Documents!Option
        <3> QED
            BY <1>8, <3>2
    <2> QED
        BY <1>6, <2>1, <2>2, <2>3
<1>9. document.assertionMethod = m /\ document.capabilityDelegation = d
    <2>1. /\ encoded.assertionKey = Documents!Option(m)
          /\ encoded.delegationKey = Documents!Option(d)
          /\ Documents!Option(m) \subseteq encoded.publicKeys
          /\ Documents!Option(d) \subseteq encoded.publicKeys
        BY <1>4
    <2>2. /\ found(Documents!SetToSeq(encoded.assertionKey)) = m
          /\ found(Documents!SetToSeq(encoded.delegationKey)) = d
        BY <1>1, <1>2, <1>8, <2>1
    <2> QED
        BY <1>5, <2>2
<1>10. document.keyAgreement \in Seq(Nat) /\ ToSet(document.keyAgreement) = ToSet(g)
    <2> DEFINE list == Documents!InOrder(agreement)
    <2>1. agreement = ToSet(g) /\ agreement \subseteq Nat /\ IsFiniteSet(agreement)
        <3>1. DOMAIN g = 1 .. Len(g) /\ Len(g) \in Nat /\ g \in [1 .. Len(g) -> keys]
            BY <1>1, LenProperties
        <3>2. agreement = ToSet(g)
            BY <1>3
        <3>3. agreement \subseteq Nat
            BY <3>1, <3>2 DEF ToSet
        <3>4. g \in Surjection(1 .. Len(g), agreement)
            BY <3>1, <3>2 DEF ToSet, Surjection
        <3>5. IsFiniteSet(1 .. Len(g))
            BY <3>1, FS_Interval
        <3>6. IsFiniteSet(agreement)
            BY <3>4, <3>5, FS_Surjection
        <3> QED
            BY <3>2, <3>3, <3>6
    <2> HIDE DEF agreement
    <2>2. list \in Seq(agreement) /\ ToSet(list) = agreement
        BY <2>1, InOrderIs
    <2>3. encoded.keyAgreementKeys = list /\ agreement \subseteq encoded.publicKeys
        BY <1>4
    <2> HIDE DEF list
    <2>4. list \in Seq(Nat) /\ \A i \in DOMAIN list : list[i] \in encoded.publicKeys
        BY <2>1, <2>2, <2>3 DEF ToSet
    <2>5. found(list) = list
        BY <1>6, <2>4
    <2> QED
        BY <1>5, <2>1, <2>2, <2>3, <2>4, <2>5
<1>11. DOMAIN document = {"authentication", "assertionMethod",
                         "capabilityDelegation", "keyAgreement"}
    BY <1>5
<1> QED
    BY <1>7, <1>9, <1>10, <1>11 DEF document, encoded, creation

LEMMA ToSetOfConcat ==
    ASSUME NEW S, NEW s \in Seq(S), NEW t \in Seq(S)
    PROVE  s \o t \in Seq(S) /\ ToSet(s \o t) = ToSet(s) \cup ToSet(t)
<1>1. /\ s \o t \in Seq(S) /\ Len(s \o t) = Len(s) + Len(t)
      /\ \A i \in 1 .. Len(s) + Len(t) :
            (s \o t)[i] = IF i <= Len(s) THEN s[i] ELSE t[i - Len(s)]
    BY ConcatProperties
<1> DEFINE st == s \o t
<1>2. /\ DOMAIN s = 1 .. Len(s) /\ DOMAIN t = 1 .. Len(t) /\ DOMAIN st = 1 .. Len(s) + Len(t)
      /\ Len(s) \in Nat /\ Len(t) \in Nat
    BY <1>1, LenProperties
<1> HIDE DEF st
<1>3. ASSUME NEW i \in 1 .. Len(s) PROVE i \in DOMAIN st /\ st[i] = s[i]
    BY <1>1, <1>2 DEF st
<1>4. ASSUME NEW i \in 1 .. Len(t) PROVE i + Len(s) \in DOMAIN st /\ st[i + Len(s)] = t[i]
    BY <1>1, <1>2 DEF st
<1>5. ASSUME NEW i \in DOMAIN st
      PROVE  \/ i \in DOMAIN s /\ st[i] = s[i]
             \/ i - Len(s) \in DOMAIN t /\ st[i] = t[i - Len(s)]
    BY <1>1, <1>2 DEF st
<1>6. ToSet(s) \cup ToSet(t) \subseteq ToSet(st)
    BY <1>2, <1>3, <1>4 DEF ToSet
<1>7. ToSet(st) \subseteq ToSet(s) \cup ToSet(t)
    BY <1>5 DEF ToSet
<1> QED
    BY <1>1, <1>6, <1>7 DEF st

\* The keys of a document are those of its relationships.
LEMMA KeysListed ==
    ASSUME NEW did, did.authentication \in Seq(Nat), did.assertionMethod \in Seq(Nat),
           did.capabilityDelegation \in Seq(Nat), did.keyAgreement \in Seq(Nat)
    PROVE  /\ Documents!getKeys(did) \in Seq(Nat)
           /\ ToSet(Documents!getKeys(did))
                 = ToSet(did.authentication) \cup ToSet(did.assertionMethod)
                       \cup ToSet(did.capabilityDelegation) \cup ToSet(did.keyAgreement)
<1> DEFINE two == did.authentication \o did.assertionMethod
           three == two \o did.capabilityDelegation
<1>1. /\ two \in Seq(Nat)
      /\ ToSet(two) = ToSet(did.authentication) \cup ToSet(did.assertionMethod)
    BY ToSetOfConcat
<1> HIDE DEF two
<1>2. three \in Seq(Nat) /\ ToSet(three) = ToSet(two) \cup ToSet(did.capabilityDelegation)
    BY <1>1, ToSetOfConcat
<1> HIDE DEF three
<1>3. /\ three \o did.keyAgreement \in Seq(Nat)
      /\ ToSet(three \o did.keyAgreement) = ToSet(three) \cup ToSet(did.keyAgreement)
    BY <1>2, ToSetOfConcat
<1> QED
    BY <1>1, <1>2, <1>3 DEF Documents!getKeys, two, three

\* getStoreTx was called with an input of its type.
InputIsTyped == Calls("getStoreTx") => called.input \in DidInputs

LEMMA InputIsTypedHolds == PureFunctionsSpec => []InputIsTyped
<1>1. PureFunctionsInit => InputIsTyped
    BY DEF PureFunctionsInit, NoCall, InputIsTyped, Calls
<1>2. InputIsTyped /\ [PureFunctionsNext]_called => InputIsTyped'
    BY DEF PureFunctionsNext, NoCall, Call, InputIsTyped, Calls
<1> QED
    BY <1>1, <1>2, PTL DEF PureFunctionsSpec

\* What getStoreTx accepts is read back from the chain, and the exported document
\* lists each of its keys once and names no other.
THEOREM DocumentsSurviveTheChain == PureFunctionsSpec => []DocumentSurvivesChain
<1>1. InputIsTyped => DocumentSurvivesChain
    <2> SUFFICES ASSUME InputIsTyped, Calls("getStoreTx"),
                        Documents!getStoreTx(called.input) # Documents!Throws
                 PROVE  DocumentSurvivesChain
        BY DEF DocumentSurvivesChain
    <2> DEFINE input == called.input
               document == Documents!documentFromChain(
                               Documents!create(Documents!getStoreTx(input)))
               exported == Documents!exportToJsonDidDocument(document)
               listed == exported.verificationMethod
    <2>1. input \in DidInputs
        BY DEF InputIsTyped
    <2>2. /\ input.authentication \in Seq(Nat) /\ input.assertionMethod \in Seq(Nat)
          /\ input.capabilityDelegation \in Seq(Nat) /\ input.keyAgreement \in Seq(Nat)
        BY <2>1, DidInputsAssumption
    <2>3. /\ DOMAIN document = {"authentication", "assertionMethod",
                                "capabilityDelegation", "keyAgreement"}
          /\ document.authentication = input.authentication
          /\ document.assertionMethod = input.assertionMethod
          /\ document.capabilityDelegation = input.capabilityDelegation
          /\ document.keyAgreement \in Seq(Nat)
          /\ ToSet(document.keyAgreement) = ToSet(input.keyAgreement)
        BY <2>1, ReadBack
    <2>4. ToSet(Documents!getKeys(document)) = ToSet(Documents!getKeys(input))
          /\ Documents!getKeys(document) \in Seq(Nat)
          /\ ToSet(Documents!getKeys(document))
                = ToSet(document.authentication) \cup ToSet(document.assertionMethod)
                      \cup ToSet(document.capabilityDelegation) \cup ToSet(document.keyAgreement)
        BY <2>2, <2>3, KeysListed
    <2>5. /\ listed = Documents!Distinct(Documents!getKeys(document))
          /\ exported.authentication = Documents!First(document.authentication)
          /\ exported.assertionMethod = Documents!First(document.assertionMethod)
          /\ exported.capabilityDelegation = Documents!First(document.capabilityDelegation)
          /\ exported.keyAgreement = Documents!First(document.keyAgreement)
        BY DEF Documents!exportToJsonDidDocument
    <2> HIDE DEF document, exported
    <2>6. IsInjective(listed) /\ ToSet(listed) = ToSet(Documents!getKeys(document))
        BY <2>4, <2>5, DistinctIs
    <2>7. ASSUME NEW keys \in Seq(Nat) PROVE Documents!First(keys) \subseteq ToSet(keys)
        <3>1. keys # <<>> => 1 \in DOMAIN keys /\ Head(keys) = keys[1]
            OBVIOUS
        <3> QED
            BY <3>1 DEF Documents!First, ToSet
    <2>8. exported.authentication \cup exported.assertionMethod
              \cup exported.capabilityDelegation \cup exported.keyAgreement
          \subseteq ToSet(listed)
        BY <2>2, <2>3, <2>4, <2>5, <2>6, <2>7
    <2>9. \A r \in DOMAIN document \ {"keyAgreement"} : document[r] = input[r]
        BY <2>3
    <2> QED
        BY <2>3, <2>4, <2>6, <2>8, <2>9 DEF DocumentSurvivesChain, document, exported
<1> QED
    BY <1>1, InputIsTypedHolds, PTL

-----------------------------------------------------------------------------
(* Recursive definitions on the numbers, and induction.                    *)

\* A set of numbers with 0 and, with each of its numbers, the next, has them all.
LEMMA Induction ==
    ASSUME NEW P, P \subseteq Nat, 0 \in P, \A n \in P : n + 1 \in P
    PROVE  P = Nat
<1> SUFFICES ASSUME NEW m \in Nat, m \notin P PROVE FALSE
    OBVIOUS
<1> DEFINE missing == {n \in 0 .. m : n \notin P}
<1>1. missing \subseteq Nat /\ IsFiniteSet(missing) /\ m \in missing
    <2>1. missing \subseteq 0 .. m /\ IsFiniteSet(0 .. m)
        BY FS_Interval
    <2> QED
        BY <2>1, FS_Subset
<1>2. PICK k \in missing : \A n \in missing : ~(n < k)
    BY <1>1, Least
<1>3. k - 1 \in Nat /\ k - 1 \notin missing /\ k - 1 \in 0 .. m
    BY <1>2
<1>4. k - 1 \in P /\ k = (k - 1) + 1
    BY <1>3
<1> QED
    BY <1>4

\* What a recursive definition on the numbers defines: there is a function with the
\* values it asks for.
Starts(f, n, base, step) ==
    /\ f[0] = base
    /\ \A i \in Nat : i < n => f[i + 1] = step[<<i, f[i]>>]

Follows(f, base, step) ==
    f[0] = base /\ \A n \in Nat : f[n + 1] = step[<<n, f[n]>>]

LEMMA Recursion ==
    ASSUME NEW S, NEW base \in S, NEW step \in [Nat \X S -> S]
    PROVE  \E f \in [Nat -> S] : Follows(f, base, step)
<1> DEFINE Partial(n) == {f \in [Nat -> S] : Starts(f, n, base, step)}
           P == {n \in Nat : Partial(n) # {}}
           Q(f, g, m) == {n \in Nat : n <= m => f[n] = g[n]}
<1>1. P = Nat
    <2>1. 0 \in P
        <3>1. [n \in Nat |-> base] \in Partial(0)
            BY DEF Starts
        <3> QED
            BY <3>1
    <2>2. ASSUME NEW n \in P PROVE n + 1 \in P
        <3>1. PICK f \in [Nat -> S] : Starts(f, n, base, step)
            BY <2>2
        <3> DEFINE g == [i \in Nat |-> IF i = n + 1 THEN step[<<n, f[n]>>] ELSE f[i]]
        <3>2. g \in [Nat -> S]
            BY <3>1
        <3>3. Starts(g, n + 1, base, step)
            <4>1. g[0] = base
                BY <3>1 DEF Starts
            <4>2. ASSUME NEW i \in Nat, i < n + 1 PROVE g[i + 1] = step[<<i, g[i]>>]
                <5>1. g[i] = f[i]
                    BY <4>2
                <5>2. CASE i = n
                    BY <5>1, <5>2
                <5>3. CASE i < n
                    <6>1. g[i + 1] = f[i + 1]
                        BY <5>3
                    <6> QED
                        BY <3>1, <5>1, <5>3, <6>1 DEF Starts
                <5> QED
                    BY <4>2, <5>2, <5>3
            <4> HIDE DEF g
            <4> QED
                BY <4>1, <4>2 DEF Starts
        <3> QED
            BY <3>2, <3>3
    <2> HIDE DEF P
    <2>3. P \subseteq Nat
        BY DEF P
    <2> QED
        BY <2>1, <2>2, <2>3, Induction
<1>2. ASSUME NEW m \in Nat, NEW f \in Partial(m), NEW k \in Nat, NEW g \in Partial(k), m <= k
      PROVE  f[m] = g[m]
    <2>1. 0 \in Q(f, g, m)
        BY DEF Starts
    <2>2. ASSUME NEW n \in Q(f, g, m) PROVE n + 1 \in Q(f, g, m)
        <3>1. SUFFICES ASSUME n + 1 <= m PROVE f[n + 1] = g[n + 1]
            OBVIOUS
        <3>2. f[n] = g[n] /\ n < m /\ n < k /\ n \in Nat
            BY <1>2, <2>2, <3>1
        <3> QED
            BY <3>2 DEF Starts
    <2>3. Q(f, g, m) = Nat
        <3> HIDE DEF Q
        <3>1. Q(f, g, m) \subseteq Nat
            BY DEF Q
        <3> QED
            BY <2>1, <2>2, <3>1, Induction
    <2>4. m \in Q(f, g, m) /\ m <= m
        BY <2>3
    <2> QED
        BY <2>4
<1> DEFINE least(n) == CHOOSE f \in Partial(n) : TRUE
           whole == [n \in Nat |-> least(n)[n]]
<1>3. ASSUME NEW n \in Nat PROVE least(n) \in Partial(n)
    <2>1. n \in P
        BY <1>1
    <2>2. Partial(n) # {}
        BY <2>1
    <2> HIDE DEF Partial
    <2> QED
        BY <2>2
<1>4. ASSUME NEW n \in Nat, NEW f \in Partial(n) PROVE f \in [Nat -> S] /\ Starts(f, n, base, step)
    OBVIOUS
<1>5. whole \in [Nat -> S]
    <2>1. ASSUME NEW n \in Nat PROVE least(n)[n] \in S
        <3> HIDE DEF least
        <3> QED
            BY <1>3, <1>4
    <2> HIDE DEF least
    <2> QED
        BY <2>1
<1>6. whole[0] = base
    <2> HIDE DEF least
    <2> QED
        BY <1>3, <1>4 DEF Starts
<1>7. ASSUME NEW n \in Nat PROVE whole[n + 1] = step[<<n, whole[n]>>]
    <2> HIDE DEF least, Partial
    <2>1. least(n)[n] = least(n + 1)[n]
        <3>1. least(n) \in Partial(n) /\ least(n + 1) \in Partial(n + 1)
            BY <1>3
        <3>2. n <= n + 1 /\ n + 1 \in Nat
            OBVIOUS
        <3> QED
            BY <1>2, <3>1, <3>2
    <2>2. least(n + 1)[n + 1] = step[<<n, least(n + 1)[n]>>]
        <3>1. Starts(least(n + 1), n + 1, base, step)
            BY <1>3, <1>4
        <3>2. n < n + 1
            OBVIOUS
        <3> QED
            BY <3>1, <3>2 DEF Starts
    <2>3. whole[n] = least(n)[n] /\ whole[n + 1] = least(n + 1)[n + 1]
        OBVIOUS
    <2> QED
        BY <2>1, <2>2, <2>3
<1> HIDE DEF whole
<1> QED
    BY <1>5, <1>6, <1>7 DEF Follows

-----------------------------------------------------------------------------
(* Amounts.                                                                *)

\* The powers of ten.
LEMMA TenIs ==
    /\ Money!Ten \in [Nat -> Nat]
    /\ Money!Ten[0] = 1
    /\ \A n \in Nat : Money!Ten[n + 1] = 10 * Money!Ten[n]
<1> DEFINE step == [p \in Nat \X Nat |-> 10 * p[2]]
           Is(f) == f = [n \in Nat |-> IF n = 0 THEN 1 ELSE 10 * f[n - 1]]
<1>1. \E f : Is(f)
    <2>1. step \in [Nat \X Nat -> Nat] /\ 1 \in Nat
        OBVIOUS
    <2>2. PICK f \in [Nat -> Nat] : Follows(f, 1, step)
        <3> HIDE DEF step
        <3> QED
            BY <2>1, Recursion
    <2>3. ASSUME NEW n \in Nat, n # 0 PROVE f[n] = 10 * f[n - 1]
        <3>1. n - 1 \in Nat /\ n = (n - 1) + 1
            BY <2>3
        <3>2. f[(n - 1) + 1] = step[<<n - 1, f[n - 1]>>]
            BY <2>2, <3>1 DEF Follows
        <3> QED
            BY <3>1, <3>2
    <2>4. Is(f)
        BY <2>2, <2>3 DEF Follows
    <2> QED
        BY <2>4
<1>2. Is(Money!Ten)
    <2>1. Money!Ten = CHOOSE f : Is(f)
        BY DEF Money!Ten
    <2> HIDE DEF Is
    <2> QED
        BY <1>1, <2>1
<1>3. Money!Ten[0] = 1
    BY <1>2
<1>4. ASSUME NEW n \in Nat PROVE Money!Ten[n + 1] = 10 * Money!Ten[n]
    <2>1. n + 1 \in Nat /\ n + 1 # 0 /\ (n + 1) - 1 = n
        OBVIOUS
    <2> QED
        BY <1>2, <2>1
<1>5. ASSUME NEW n \in Nat PROVE Money!Ten[n] \in Nat
    <2> DEFINE P == {m \in Nat : Money!Ten[m] \in Nat}
    <2>1. 0 \in P /\ \A m \in P : m + 1 \in P
        BY <1>3, <1>4
    <2>2. P = Nat
        <3> HIDE DEF P
        <3>1. P \subseteq Nat
            BY DEF P
        <3> QED
            BY <2>1, <3>1, Induction
    <2> QED
        BY <2>2
<1> QED
    BY <1>2, <1>3, <1>4, <1>5

LEMMA TenAdds ==
    ASSUME NEW a \in Nat, NEW b \in Nat
    PROVE  Money!Ten[a + b] = Money!Ten[a] * Money!Ten[b]
<1> DEFINE P == {n \in Nat : Money!Ten[a + n] = Money!Ten[a] * Money!Ten[n]}
<1>0. \A n \in Nat : Money!Ten[n] \in Nat
    BY TenIs
<1>1. 0 \in P
    BY TenIs
<1>2. ASSUME NEW n \in P PROVE n + 1 \in P
    <2>1. Money!Ten[a + n] = Money!Ten[a] * Money!Ten[n] /\ n \in Nat
        OBVIOUS
    <2>2. Money!Ten[(a + n) + 1] = 10 * Money!Ten[a + n]
        BY TenIs
    <2>3. Money!Ten[n + 1] = 10 * Money!Ten[n]
        BY TenIs
    <2>4. \A x, y \in Nat : 10 * (x * y) = x * (10 * y)
        OBVIOUS
    <2>5. a + (n + 1) = (a + n) + 1 /\ a + (n + 1) \in Nat
        OBVIOUS
    <2>6. Money!Ten[a + (n + 1)] = Money!Ten[a] * Money!Ten[n + 1]
        BY <1>0, <2>1, <2>2, <2>3, <2>4, <2>5
    <2> QED
        BY <2>6
<1>3. P = Nat
    <2> HIDE DEF P
    <2>1. P \subseteq Nat
        BY DEF P
    <2> QED
        BY <1>1, <1>2, <2>1, Induction
<1> QED
    BY <1>3

\* The number that a list of digits stands for.
LEMMA DigitsIs ==
    ASSUME NEW s \in Seq(Nat)
    PROVE  \E f : /\ f \in [0 .. Len(s) -> Nat]
                  /\ f[0] = 0
                  /\ \A n \in Nat : n < Len(s) => f[n + 1] = (f[n] * 10) + s[n + 1]
                  /\ Money!Digits(s) = f[Len(s)]
<1> DEFINE L == Len(s)
           digit == [n \in Nat |-> IF n < L THEN s[n + 1] ELSE 0]
           step == [p \in Nat \X Nat |-> (p[2] * 10) + digit[p[1]]]
           Is(f) == f = [n \in 0 .. L |-> IF n = 0 THEN 0 ELSE (f[n - 1] * 10) + s[n]]
           number == CHOOSE f : Is(f)
<1>0. L \in Nat /\ DOMAIN s = 1 .. L /\ \A n \in 1 .. L : s[n] \in Nat
    BY ElementOfSeq, LenProperties
<1> HIDE DEF L
<1>1. \E f : Is(f)
    <2>1. digit \in [Nat -> Nat]
        BY <1>0
    <2> HIDE DEF digit
    <2>2. step \in [Nat \X Nat -> Nat] /\ 0 \in Nat
        <3>1. ASSUME NEW p \in Nat \X Nat PROVE (p[2] * 10) + digit[p[1]] \in Nat
            <4>1. p[1] \in Nat /\ p[2] \in Nat
                OBVIOUS
            <4>2. digit[p[1]] \in Nat
                BY <2>1, <4>1
            <4> QED
                BY <4>1, <4>2
        <3> QED
            BY <3>1
    <2>3. PICK f \in [Nat -> Nat] : Follows(f, 0, step)
        <3> HIDE DEF step
        <3> QED
            BY <2>2, Recursion
    <2> DEFINE g == [n \in 0 .. L |-> f[n]]
    <2>4. ASSUME NEW n \in 0 .. L, n # 0 PROVE g[n] = (g[n - 1] * 10) + s[n]
        <3>1. n - 1 \in Nat /\ n - 1 \in 0 .. L /\ n = (n - 1) + 1 /\ n - 1 < L
            BY <1>0, <2>4
        <3>2. f[(n - 1) + 1] = step[<<n - 1, f[n - 1]>>]
            BY <2>3, <3>1 DEF Follows
        <3>3. step[<<n - 1, f[n - 1]>>] = (f[n - 1] * 10) + digit[n - 1]
            BY <2>3, <3>1
        <3>4. digit[n - 1] = s[n]
            BY <3>1 DEF digit
        <3>5. g[n] = f[n] /\ g[n - 1] = f[n - 1]
            BY <3>1
        <3> QED
            BY <3>1, <3>2, <3>3, <3>4, <3>5
    <2>5. g[0] = 0
        BY <1>0, <2>3 DEF Follows
    <2>6. g = [n \in 0 .. L |-> g[n]]
        OBVIOUS
    <2>7. Is(g)
        <3> HIDE DEF g
        <3> QED
            BY <2>4, <2>5, <2>6
    <2> QED
        BY <2>7
<1>2. Is(number)
    <2> HIDE DEF Is
    <2> QED
        BY <1>1
<1>3. Money!Digits(s) = number[L]
    BY DEF Money!Digits, L
<1> HIDE DEF number
<1>4. number[0] = 0
    BY <1>0, <1>2
<1>5. ASSUME NEW n \in Nat, n < L PROVE number[n + 1] = (number[n] * 10) + s[n + 1]
    <2>1. n + 1 \in 0 .. L /\ n + 1 # 0 /\ (n + 1) - 1 = n
        BY <1>0, <1>5
    <2> QED
        BY <1>2, <2>1
<1>6. number \in [0 .. L -> Nat]
    <2> DEFINE P == {n \in Nat : n <= L => number[n] \in Nat}
    <2>1. 0 \in P
        BY <1>4
    <2>2. ASSUME NEW n \in P PROVE n + 1 \in P
        <3>1. SUFFICES ASSUME n + 1 <= L PROVE number[n + 1] \in Nat
            OBVIOUS
        <3>2. n \in Nat /\ n < L /\ n <= L /\ number[n] \in Nat
            BY <1>0, <2>2, <3>1
        <3>3. s[n + 1] \in Nat
            BY <1>0, <3>2
        <3> QED
            BY <1>5, <3>2, <3>3
    <2>3. P = Nat
        <3> HIDE DEF P
        <3>1. P \subseteq Nat
            BY DEF P
        <3> QED
            BY <2>1, <2>2, <3>1, Induction
    <2>4. \A n \in 0 .. L : number[n] \in Nat
        BY <1>0, <2>3
    <2> QED
        BY <1>2, <2>4
<1> QED
    BY <1>3, <1>4, <1>5, <1>6 DEF L

\* A number in front of a list of digits counts for as many tens as they are.
LEMMA DigitsAfter ==
    ASSUME NEW i \in Nat, NEW s \in Seq(Nat)
    PROVE  /\ Money!Digits(s) \in Nat
           /\ Money!Digits(<<i>> \o s) = (i * Money!Ten[Len(s)]) + Money!Digits(s)
<1> DEFINE L == Len(s)
           t == <<i>> \o s
<1>1. L \in Nat
    OBVIOUS
<1>2. t \in Seq(Nat) /\ Len(t) = L + 1 /\ t[1] = i /\ \A n \in Nat : n < L => t[(n + 1) + 1] = s[n + 1]
    OBVIOUS
<1>3. PICK f : /\ f \in [0 .. L -> Nat]
               /\ f[0] = 0
               /\ \A n \in Nat : n < L => f[n + 1] = (f[n] * 10) + s[n + 1]
               /\ Money!Digits(s) = f[L]
    BY DigitsIs
<1> HIDE DEF t
<1>4. PICK g : /\ g \in [0 .. L + 1 -> Nat]
               /\ g[0] = 0
               /\ \A n \in Nat : n < L + 1 => g[n + 1] = (g[n] * 10) + t[n + 1]
               /\ Money!Digits(t) = g[L + 1]
    BY <1>2, DigitsIs
<1> HIDE DEF L
<1> DEFINE P == {n \in Nat : n <= L => g[n + 1] = (i * Money!Ten[n]) + f[n]}
<1>5. 0 \in P
    <2>1. g[1] = (0 * 10) + i
        <3>1. 0 \in Nat /\ 0 < L + 1 /\ 0 + 1 = 1
            BY <1>1
        <3> QED
            BY <1>2, <1>4, <3>1
    <2>2. g[1] = (i * Money!Ten[0]) + f[0]
        <3>1. Money!Ten[0] = 1
            BY TenIs
        <3> QED
            BY <1>3, <2>1, <3>1
    <2> QED
        BY <2>2
<1>6. ASSUME NEW n \in P PROVE n + 1 \in P
    <2>1. SUFFICES ASSUME n + 1 <= L PROVE g[(n + 1) + 1] = (i * Money!Ten[n + 1]) + f[n + 1]
        OBVIOUS
    <2>2. n \in Nat /\ n < L /\ n + 1 < L + 1 /\ n + 1 \in Nat /\ g[n + 1] = (i * Money!Ten[n]) + f[n]
        BY <1>1, <1>6, <2>1
    <2>3. g[(n + 1) + 1] = (g[n + 1] * 10) + s[n + 1]
        BY <1>2, <1>4, <2>2
    <2>4. f[n + 1] = (f[n] * 10) + s[n + 1]
        BY <1>3, <2>2
    <2>5. Money!Ten[n + 1] = 10 * Money!Ten[n] /\ Money!Ten[n] \in Nat
        BY <2>2, TenIs
    <2>6. f[n] \in Nat /\ f[n + 1] \in Nat
        BY <1>1, <1>3, <2>2
    <2>7. s[n + 1] \in Nat
        BY <1>1, <2>2, ElementOfSeq DEF L
    <2>8. \A x, y, d \in Nat : (((i * x) + y) * 10) + d = (i * (10 * x)) + ((y * 10) + d)
        OBVIOUS
    <2>9. (((i * Money!Ten[n]) + f[n]) * 10) + s[n + 1] = (i * (10 * Money!Ten[n])) + ((f[n] * 10) + s[n + 1])
        BY <2>5, <2>6, <2>7, <2>8
    <2> QED
        BY <2>2, <2>3, <2>4, <2>5, <2>9
<1>7. P = Nat
    <2> HIDE DEF P
    <2>1. P \subseteq Nat
        BY DEF P
    <2> QED
        BY <1>5, <1>6, <2>1, Induction
<1>8. g[L + 1] = (i * Money!Ten[L]) + f[L] /\ f[L] \in Nat
    <2>1. L \in P /\ L <= L
        BY <1>1, <1>7
    <2> QED
        BY <1>1, <1>3, <2>1
<1> QED
    BY <1>3, <1>4, <1>8 DEF t, L

\* toPicoWay was called with an amount.
AmountIsTyped == Calls("toPicoWay") => called.input \in Amounts

LEMMA AmountIsTypedHolds == PureFunctionsSpec => []AmountIsTyped
<1>1. PureFunctionsInit => AmountIsTyped
    BY DEF PureFunctionsInit, NoCall, AmountIsTyped, Calls
<1>2. AmountIsTyped /\ [PureFunctionsNext]_called => AmountIsTyped'
    BY DEF PureFunctionsNext, NoCall, Call, AmountIsTyped, Calls
<1> QED
    BY <1>1, <1>2, PTL DEF PureFunctionsSpec

LEMMA Exact ==
    ASSUME NEW i \in Nat, NEW s \in Seq(Nat), NEW p \in Nat, Len(s) <= p
    PROVE  /\ Money!Digits(<<i>> \o s) * Money!Ten[p - Len(s)]
                 = (i * Money!Ten[p]) + (Money!Digits(s) * Money!Ten[p - Len(s)])
           /\ s = <<>> => Money!Digits(s) * Money!Ten[p - Len(s)] = 0
<1> DEFINE d == Len(s)
           D == Money!Digits(s)
<1>1. d \in Nat /\ p - d \in Nat /\ d + (p - d) = p
    OBVIOUS
<1>2. Money!Ten[p] = Money!Ten[d] * Money!Ten[p - d]
    BY <1>1, TenAdds
<1>3. Money!Ten[d] \in Nat /\ Money!Ten[p - d] \in Nat
    BY <1>1, TenIs
<1>4. D \in Nat /\ Money!Digits(<<i>> \o s) = (i * Money!Ten[d]) + D
    BY DigitsAfter
<1>5. \A x, y, z \in Nat : ((i * x) + y) * z = (i * (x * z)) + (y * z)
    OBVIOUS
<1>6. s = <<>> => D = 0
    <2>1. PICK f : f[0] = 0 /\ D = f[d]
        BY DigitsIs
    <2> QED
        BY <2>1
<1> HIDE DEF d, D
<1>7. ((i * Money!Ten[d]) + D) * Money!Ten[p - d] = (i * Money!Ten[p]) + (D * Money!Ten[p - d])
    BY <1>2, <1>3, <1>4, <1>5
<1>8. s = <<>> => D * Money!Ten[p - d] = 0
    BY <1>3, <1>6
<1> QED
    BY <1>4, <1>7, <1>8 DEF d, D

\* Every amount is converted without loss or refused, in every unit.
THEOREM AmountsAreExact == PureFunctionsSpec => []AmountIsExact
<1>1. AmountIsTyped => AmountIsExact
    <2> SUFFICES ASSUME AmountIsTyped, Calls("toPicoWay"), NEW unit \in Units
                 PROVE  LET amount == called.input
                            decimals == Len(amount.fraction)
                            places == Money!Prefixes[unit] + 12
                            number == Money!Digits(<<amount.integer>> \o amount.fraction)
                            exact == Money!Negate(amount.negative,
                                                  number * Money!Ten[places - decimals])
                        IN  Money!toPicoWay(amount, unit) =
                                IF decimals > places THEN Money!Throws ELSE [amount |-> exact]
        BY DEF AmountIsExact
    <2> DEFINE amount == called.input
               i == amount.integer
               s == amount.fraction
               power == Money!Prefixes[unit]
               p == power + 12
    <2>1. amount \in [negative : BOOLEAN, integer : Nat, fraction : Seq(0 .. 9)]
        BY AmountsAssumption DEF AmountIsTyped
    <2>2. i \in Nat /\ s \in Seq(Nat) /\ Len(s) \in Nat
        BY <2>1
    <2>3. power \in Int /\ p \in Nat
        BY AmountsAssumption DEF Money!Prefixes
    <2> HIDE DEF p, power, i, s, amount
    <2>4. CASE Len(s) > p
        BY <2>4 DEF Money!toPicoWay, amount, s, p, power
    <2>5. CASE ~(Len(s) > p)
        <3>1. Len(s) <= p
            BY <2>2, <2>3, <2>5
        <3>2. 12 + power = p /\ 12 + (power - Len(s)) = p - Len(s)
            BY <2>2, <2>3 DEF p
        <3>3. Money!convertToTxUnit(i, power) = i * Money!Ten[p]
            BY <3>2 DEF Money!convertToTxUnit
        <3>4. Money!Fraction(s, power) = Money!Digits(s) * Money!Ten[p - Len(s)]
            BY <2>2, <2>3, <3>1, <3>2, Exact DEF Money!Fraction, Money!convertToTxUnit
        <3>5. Money!Digits(<<i>> \o s) * Money!Ten[p - Len(s)]
                  = (i * Money!Ten[p]) + (Money!Digits(s) * Money!Ten[p - Len(s)])
            BY <2>2, <2>3, <3>1, Exact
        <3>6. Money!toPicoWay(amount, unit)
                  = [amount |-> Money!Negate(amount.negative,
                          Money!convertToTxUnit(i, power) + Money!Fraction(s, power))]
            BY <2>5 DEF Money!toPicoWay, i, s, p, power
        <3> QED
            BY <2>5, <3>3, <3>4, <3>5, <3>6 DEF i, s, p, power, amount
    <2> QED
        BY <2>4, <2>5
<1> QED
    BY <1>1, AmountIsTypedHolds, PTL

-----------------------------------------------------------------------------
(* Lists of lists, put together.                                           *)

\* What a recursive definition on the positions of a list defines.
Builds(f, L, base, step) ==
    f[1] = base /\ \A n \in 1 .. L : n < L => f[n + 1] = step[<<n, f[n]>>]

LEMMA RecursionOnPositions ==
    ASSUME NEW S, NEW base \in S, NEW step \in [Nat \X S -> S], NEW L \in Nat, L # 0
    PROVE  \E f \in [1 .. L -> S] : Builds(f, L, base, step)
<1> DEFINE next == [p \in Nat \X S |-> step[<<p[1] + 1, p[2]>>]]
<1>1. next \in [Nat \X S -> S]
    <2>1. ASSUME NEW p \in Nat \X S PROVE step[<<p[1] + 1, p[2]>>] \in S
        <3>1. <<p[1] + 1, p[2]>> \in Nat \X S
            OBVIOUS
        <3> QED
            BY <3>1
    <2> QED
        BY <2>1
<1>2. \A n \in Nat, x \in S : next[<<n, x>>] = step[<<n + 1, x>>]
    OBVIOUS
<1> HIDE DEF next
<1>3. PICK g \in [Nat -> S] : Follows(g, base, next)
    BY <1>1, Recursion
<1> DEFINE f == [n \in 1 .. L |-> g[n - 1]]
<1>4. f \in [1 .. L -> S]
    BY <1>3
<1>5. f[1] = base
    BY <1>3 DEF Follows
<1>6. ASSUME NEW n \in 1 .. L, n < L PROVE f[n + 1] = step[<<n, f[n]>>]
    <2>1. n - 1 \in Nat /\ (n - 1) + 1 = n /\ n + 1 \in 1 .. L /\ (n + 1) - 1 = n
        BY <1>6
    <2>2. g[(n - 1) + 1] = next[<<n - 1, g[n - 1]>>] /\ g[n - 1] \in S
        BY <1>3, <2>1 DEF Follows
    <2>3. next[<<n - 1, g[n - 1]>>] = step[<<(n - 1) + 1, g[n - 1]>>]
        BY <1>2, <2>1, <2>2
    <2>4. f[n + 1] = g[n] /\ f[n] = g[n - 1]
        BY <2>1
    <2> QED
        BY <2>1, <2>2, <2>3, <2>4
<1> HIDE DEF f
<1> QED
    BY <1>4, <1>5, <1>6 DEF Builds

\* FlattenSeq appends one list after the other.
Concatenates(f, ss) ==
    f[1] = ss[1] /\ \A n \in 1 .. Len(ss) : n < Len(ss) => f[n + 1] = f[n] \o ss[n + 1]

LEMMA FlattenIs ==
    ASSUME NEW V, NEW ss \in Seq(Seq(V)), ss # <<>>
    PROVE  \E f \in [1 .. Len(ss) -> Seq(V)] :
               Concatenates(f, ss) /\ Keys!FlattenSeq(ss) = f[Len(ss)]
<1> DEFINE L == Len(ss)
           item == [n \in Nat |-> IF n \in 1 .. L THEN ss[n] ELSE <<>>]
           step == [p \in Nat \X Seq(V) |-> p[2] \o item[p[1] + 1]]
           Is(f) == f = [n \in 1 .. L |-> IF n = 1 THEN ss[n] ELSE f[n - 1] \o ss[n]]
           flatten == CHOOSE f : Is(f)
<1>0. L \in Nat /\ L # 0 /\ DOMAIN ss = 1 .. L /\ \A n \in 1 .. L : ss[n] \in Seq(V)
    <2>1. L \in Nat /\ DOMAIN ss = 1 .. L
        BY LenProperties
    <2>2. L # 0
        BY EmptySeq
    <2>3. \A n \in 1 .. L : ss[n] \in Seq(V)
        BY ElementOfSeq
    <2> QED
        BY <2>1, <2>2, <2>3
<1>1. Keys!FlattenSeq(ss) = flatten[L]
    <2>1. Len(ss) # 0
        BY <1>0
    <2> QED
        BY <2>1 DEF Keys!FlattenSeq
<1> HIDE DEF L
<1>2. \A n \in Nat : item[n] \in Seq(V)
    BY <1>0
<1>3. step \in [Nat \X Seq(V) -> Seq(V)]
    <2> HIDE DEF item
    <2>1. ASSUME NEW p \in Nat \X Seq(V) PROVE p[2] \o item[p[1] + 1] \in Seq(V)
        <3>1. p[2] \in Seq(V) /\ p[1] + 1 \in Nat
            OBVIOUS
        <3>2. item[p[1] + 1] \in Seq(V)
            BY <1>2, <3>1
        <3> QED
            BY <3>1, <3>2
    <2> QED
        BY <2>1
<1>4. 1 \in 1 .. L /\ ss[1] \in Seq(V)
    BY <1>0
<1>5. \A n \in Nat, x \in Seq(V) : step[<<n, x>>] = x \o item[n + 1]
    OBVIOUS
<1>6. \A n \in 1 .. L : item[n] = ss[n]
    BY <1>0
<1> HIDE DEF step, item
<1>7. PICK f \in [1 .. L -> Seq(V)] : Builds(f, L, ss[1], step)
    BY <1>0, <1>3, <1>4, RecursionOnPositions
<1>8. ASSUME NEW n \in 1 .. L, n < L PROVE f[n + 1] = f[n] \o ss[n + 1]
    <2>1. n \in Nat /\ f[n] \in Seq(V) /\ n + 1 \in 1 .. L
        BY <1>0, <1>7, <1>8
    <2>2. f[n + 1] = step[<<n, f[n]>>]
        BY <1>7, <1>8 DEF Builds
    <2> QED
        BY <1>5, <1>6, <2>1, <2>2
<1>9. f[1] = ss[1]
    BY <1>7 DEF Builds
<1>10. Is(f)
    <2>1. ASSUME NEW n \in 1 .. L, n # 1 PROVE f[n] = f[n - 1] \o ss[n]
        <3>1. n - 1 \in 1 .. L /\ n - 1 < L /\ (n - 1) + 1 = n
            BY <1>0, <2>1
        <3>2. f[(n - 1) + 1] = f[n - 1] \o ss[(n - 1) + 1]
            BY <1>8, <3>1
        <3> QED
            BY <3>1, <3>2
    <2> QED
        BY <1>7, <1>9, <2>1
<1>11. Is(flatten)
    <2> HIDE DEF Is
    <2> QED
        BY <1>10
<1> HIDE DEF flatten
<1>12. flatten[1] = ss[1]
    BY <1>4, <1>11
<1>13. ASSUME NEW n \in 1 .. L, n < L PROVE flatten[n + 1] = flatten[n] \o ss[n + 1]
    <2>1. n + 1 \in 1 .. L /\ n + 1 # 1 /\ (n + 1) - 1 = n
        BY <1>0, <1>13
    <2> QED
        BY <1>11, <2>1
<1>14. flatten \in [1 .. L -> Seq(V)]
    <2> DEFINE P == {n \in Nat : n + 1 <= L => flatten[n + 1] \in Seq(V)}
    <2>1. 0 \in P
        BY <1>4, <1>12
    <2>2. ASSUME NEW n \in P PROVE n + 1 \in P
        <3>1. SUFFICES ASSUME (n + 1) + 1 <= L PROVE flatten[(n + 1) + 1] \in Seq(V)
            OBVIOUS
        <3>2. n \in Nat /\ n + 1 \in 1 .. L /\ n + 1 < L /\ (n + 1) + 1 \in 1 .. L
            BY <1>0, <3>1
        <3>3. flatten[n + 1] \in Seq(V)
            BY <1>0, <3>2
        <3>4. flatten[(n + 1) + 1] = flatten[n + 1] \o ss[(n + 1) + 1]
            BY <1>13, <3>2
        <3>5. ss[(n + 1) + 1] \in Seq(V)
            BY <1>0, <3>2
        <3> QED
            BY <3>3, <3>4, <3>5
    <2>3. P = Nat
        <3> HIDE DEF P
        <3>1. P \subseteq Nat
            BY DEF P
        <3> QED
            BY <2>1, <2>2, <3>1, Induction
    <2>4. ASSUME NEW n \in 1 .. L PROVE flatten[n] \in Seq(V)
        <3>1. n - 1 \in Nat /\ (n - 1) + 1 = n /\ n <= L
            BY <1>0
        <3>2. n - 1 \in P
            BY <2>3, <3>1
        <3> QED
            BY <3>1, <3>2
    <2> QED
        BY <1>11, <2>4
<1>15. Concatenates(flatten, ss)
    BY <1>12, <1>13 DEF Concatenates, L
<1> QED
    BY <1>1, <1>14, <1>15 DEF L

\* The last list comes last.
LEMMA FlattenLast ==
    ASSUME NEW V, NEW ss \in Seq(Seq(V)), NEW tt \in Seq(Seq(V)),
           Len(tt) = Len(ss) + 1, \A i \in 1 .. Len(ss) : tt[i] = ss[i]
    PROVE  /\ Keys!FlattenSeq(ss) \in Seq(V)
           /\ Keys!FlattenSeq(tt) = Keys!FlattenSeq(ss) \o tt[Len(tt)]
<1> DEFINE L == Len(ss)
<1>0. L \in Nat /\ Len(tt) = L + 1
    BY LenProperties
<1>1. tt # <<>> /\ tt[1] \in Seq(V)
    <2>1. 1 \in 1 .. Len(tt)
        BY <1>0
    <2> QED
        BY <2>1, ElementOfSeq
<1>2. PICK g \in [1 .. Len(tt) -> Seq(V)] :
          Concatenates(g, tt) /\ Keys!FlattenSeq(tt) = g[Len(tt)]
    BY <1>1, FlattenIs
<1>3. CASE ss = <<>>
    <2>1. Keys!FlattenSeq(ss) = <<>>
        BY <1>3 DEF Keys!FlattenSeq
    <2>2. Len(tt) = 1
        BY <1>3
    <2>3. Keys!FlattenSeq(tt) = tt[1]
        BY <1>2, <2>2 DEF Concatenates
    <2> QED
        BY <1>1, <2>1, <2>2, <2>3, ConcatEmptySeq, EmptySeq
<1>4. CASE ss # <<>>
    <2>0. L # 0
        BY <1>4, EmptySeq
    <2>1. PICK f \in [1 .. L -> Seq(V)] : Concatenates(f, ss) /\ Keys!FlattenSeq(ss) = f[L]
        BY <1>4, FlattenIs
    <2> HIDE DEF L
    <2> DEFINE P == {n \in Nat : n + 1 <= L => f[n + 1] = g[n + 1]}
    <2>2. 0 \in P
        <3>1. 1 \in 1 .. L
            BY <1>0, <2>0
        <3>2. f[1] = ss[1] /\ g[1] = tt[1] /\ tt[1] = ss[1]
            BY <1>2, <2>1, <3>1 DEF Concatenates, L
        <3>3. f[0 + 1] = g[0 + 1]
            BY <3>2
        <3> QED
            BY <3>3
    <2>3. ASSUME NEW n \in P PROVE n + 1 \in P
        <3>1. SUFFICES ASSUME (n + 1) + 1 <= L PROVE f[(n + 1) + 1] = g[(n + 1) + 1]
            OBVIOUS
        <3>2. /\ n \in Nat /\ n + 1 \in 1 .. L /\ n + 1 < L /\ n + 1 <= L /\ (n + 1) + 1 \in 1 .. L
              /\ n + 1 \in 1 .. Len(tt) /\ n + 1 < Len(tt)
            BY <1>0, <3>1
        <3>3. f[n + 1] = g[n + 1]
            BY <3>2
        <3>4. f[(n + 1) + 1] = f[n + 1] \o ss[(n + 1) + 1]
            BY <2>1, <3>2 DEF Concatenates, L
        <3>5. g[(n + 1) + 1] = g[n + 1] \o tt[(n + 1) + 1]
            BY <1>2, <3>2 DEF Concatenates
        <3>6. tt[(n + 1) + 1] = ss[(n + 1) + 1]
            BY <3>2 DEF L
        <3> QED
            BY <3>3, <3>4, <3>5, <3>6
    <2>4. P = Nat
        <3> HIDE DEF P
        <3>1. P \subseteq Nat
            BY DEF P
        <3> QED
            BY <2>2, <2>3, <3>1, Induction
    <2>5. f[L] = g[L]
        <3>1. L - 1 \in Nat /\ (L - 1) + 1 = L
            BY <1>0, <2>0
        <3>2. L - 1 \in P
            BY <2>4, <3>1
        <3> QED
            BY <3>1, <3>2
    <2>6. L \in 1 .. L /\ L \in 1 .. Len(tt) /\ L < Len(tt)
        BY <1>0, <2>0
    <2>7. g[L + 1] = g[L] \o tt[L + 1]
        BY <1>2, <2>6 DEF Concatenates
    <2> QED
        BY <1>0, <1>2, <2>1, <2>5, <2>6, <2>7
<1> QED
    BY <1>3, <1>4

LEMMA FlattenTyped ==
    ASSUME NEW V, NEW ss \in Seq(Seq(V))
    PROVE  Keys!FlattenSeq(ss) \in Seq(V)
<1>1. CASE ss = <<>>
    BY <1>1, EmptySeq DEF Keys!FlattenSeq
<1>2. CASE ss # <<>>
    <2>1. PICK f \in [1 .. Len(ss) -> Seq(V)] : Keys!FlattenSeq(ss) = f[Len(ss)]
        BY <1>2, FlattenIs
    <2>2. Len(ss) \in 1 .. Len(ss)
        BY <1>2, EmptySeq
    <2> QED
        BY <2>1, <2>2
<1> QED
    BY <1>1, <1>2

\* The same, when the last of the lists gets longer.
LEMMA FlattenLonger ==
    ASSUME NEW V, NEW ss \in Seq(Seq(V)), NEW tt \in Seq(Seq(V)), NEW more \in Seq(V),
           ss # <<>>, Len(tt) = Len(ss), \A i \in 1 .. Len(ss) - 1 : tt[i] = ss[i],
           tt[Len(ss)] = ss[Len(ss)] \o more
    PROVE  Keys!FlattenSeq(tt) = Keys!FlattenSeq(ss) \o more
<1> DEFINE L == Len(ss)
           front == [i \in 1 .. L - 1 |-> ss[i]]
<1>0. L \in Nat /\ L # 0 /\ \A i \in 1 .. L : ss[i] \in Seq(V)
    BY EmptySeq, ElementOfSeq, LenProperties
<1>1. front \in Seq(Seq(V)) /\ Len(front) = L - 1 /\ \A i \in 1 .. L - 1 : front[i] = ss[i]
    <2> HIDE DEF L
    <2> DEFINE n == L - 1
    <2>1. n \in Nat /\ \A i \in 1 .. n : ss[i] \in Seq(V)
        BY <1>0
    <2> HIDE DEF n
    <2>2. front = [i \in 1 .. n |-> ss[i]]
        BY DEF n
    <2> HIDE DEF front
    <2>3. front \in [1 .. n -> Seq(V)] /\ \A i \in 1 .. n : front[i] = ss[i]
        BY <2>1, <2>2
    <2>4. front \in Seq(Seq(V)) /\ Len(front) = n
        BY <2>1, <2>3
    <2> QED
        BY <2>3, <2>4 DEF n
<1> HIDE DEF front
<1>2. Len(ss) = Len(front) + 1 /\ Len(tt) = Len(front) + 1
    BY <1>0, <1>1
<1>3. /\ Keys!FlattenSeq(front) \in Seq(V)
      /\ Keys!FlattenSeq(ss) = Keys!FlattenSeq(front) \o ss[L]
      /\ Keys!FlattenSeq(tt) = Keys!FlattenSeq(front) \o tt[L]
    <2>1. \A i \in 1 .. Len(front) : ss[i] = front[i] /\ tt[i] = front[i]
        BY <1>1
    <2> QED
        BY <1>1, <1>2, <2>1, FlattenLast
<1>4. ss[L] \in Seq(V)
    BY <1>0
<1>5. Keys!FlattenSeq(front) \o (ss[L] \o more) = (Keys!FlattenSeq(front) \o ss[L]) \o more
    <2>1. ASSUME NEW a \in Seq(V), NEW b \in Seq(V), NEW c \in Seq(V)
          PROVE  (a \o b) \o c = a \o (b \o c)
        BY SMTT(60)
    <2> QED
        BY <1>3, <1>4, <2>1
<1> QED
    BY <1>3, <1>5

LEMMA FlattenOne ==
    ASSUME NEW V, NEW s \in Seq(V)
    PROVE  Keys!FlattenSeq(<<s>>) = s
<1>1. <<s>> \in Seq(Seq(V)) /\ Len(<<s>>) = 1 /\ <<s>> # <<>>
    OBVIOUS
<1>2. PICK f : Concatenates(f, <<s>>) /\ Keys!FlattenSeq(<<s>>) = f[1]
    BY <1>1, FlattenIs
<1> QED
    BY <1>2 DEF Concatenates

\* FlattenSeq keeps all elements and adds none.
LEMMA FlattenToSet ==
    ASSUME NEW V, NEW ss \in Seq(Seq(V)), NEW x
    PROVE  x \in ToSet(Keys!FlattenSeq(ss)) <=> \E i \in DOMAIN ss : x \in ToSet(ss[i])
<1>0. /\ Len(ss) \in Nat /\ DOMAIN ss = 1 .. Len(ss)
      /\ \A i \in 1 .. Len(ss) : ss[i] \in Seq(V)
    BY LenProperties, ElementOfSeq
<1>1. CASE ss = <<>>
    BY <1>1 DEF Keys!FlattenSeq, ToSet
<1>2. CASE ss # <<>>
    <2> DEFINE L == Len(ss)
    <2>0. L # 0
        BY <1>2, EmptySeq
    <2>1. PICK f \in [1 .. L -> Seq(V)] : Concatenates(f, ss) /\ Keys!FlattenSeq(ss) = f[L]
        BY <1>2, FlattenIs
    <2> DEFINE Has(n) == x \in ToSet(f[n]) <=> \E i \in 1 .. n : x \in ToSet(ss[i])
               P == {n \in Nat : n + 1 <= L => Has(n + 1)}
    <2>2. 0 \in P
        <3>1. f[1] = ss[1]
            BY <2>1 DEF Concatenates
        <3>2. 1 .. 1 = {1}
            OBVIOUS
        <3>3. Has(1)
            BY <3>1, <3>2
        <3> HIDE DEF Has
        <3>4. Has(0 + 1)
            BY <3>3
        <3> QED
            BY <3>4
    <2>3. ASSUME NEW n \in P PROVE n + 1 \in P
        <3>1. SUFFICES ASSUME (n + 1) + 1 <= L PROVE Has((n + 1) + 1)
            OBVIOUS
        <3> DEFINE m == n + 1
        <3>2. /\ n \in Nat /\ m \in Nat /\ m \in 1 .. L /\ m < L /\ m <= L /\ m + 1 \in 1 .. L
            BY <1>0, <3>1
        <3>3. Has(m)
            BY <3>2
        <3> HIDE DEF m
        <3>4. f[m + 1] = f[m] \o ss[m + 1]
            BY <2>1, <3>2 DEF Concatenates
        <3>5. f[m] \in Seq(V) /\ ss[m + 1] \in Seq(V)
            BY <1>0, <2>1, <3>2
        <3>6. ToSet(f[m + 1]) = ToSet(f[m]) \cup ToSet(ss[m + 1])
            BY <3>4, <3>5, ToSetOfConcat
        <3>7. 1 .. m + 1 = 1 .. m \cup {m + 1}
            BY <3>2
        <3>8. Has(m + 1)
            BY <3>3, <3>6, <3>7
        <3> HIDE DEF Has
        <3> QED
            BY <3>8 DEF m
    <2>4. P = Nat
        <3> HIDE DEF P
        <3>1. P \subseteq Nat
            BY DEF P
        <3> QED
            BY <2>2, <2>3, <3>1, Induction
    <2>5. Has(L)
        <3> HIDE DEF Has
        <3>1. L - 1 \in Nat /\ (L - 1) + 1 = L
            BY <1>0, <2>0
        <3>2. L - 1 \in P
            BY <2>4, <3>1
        <3> QED
            BY <3>1, <3>2
    <2> QED
        BY <1>0, <2>1, <2>5
<1> QED
    BY <1>1, <1>2

-----------------------------------------------------------------------------
(* Which key authorizes a call: the calls and what is computed of each.    *)

\* The batches of calls of a set.
Around(calls) == calls \cup [section : {"utility"}, method : Keys!BatchMethods, calls : Seq(calls)]

Nests(f, n) ==
    f[0] = PlainCalls /\ \A i \in Nat : i < n => f[i + 1] = Around(f[i])

\* The definition of Nested defines what it says.
LEMMA NestedIs ==
    Keys!Nested[0] = PlainCalls /\ \A n \in Nat : Keys!Nested[n + 1] = Around(Keys!Nested[n])
<1> DEFINE Some(n) == \E f : Nests(f, n)
           P == {n \in Nat : Some(n)}
           Q(f, g, m) == {n \in Nat : n <= m => f[n] = g[n]}
           Is(f) == f = [n \in Nat |->
                            IF n = 0 THEN PlainCalls
                            ELSE f[n - 1] \cup [section : {"utility"}, method : Keys!BatchMethods,
                                                calls : Seq(f[n - 1])]]
<1>1. P = Nat
    <2>1. 0 \in P
        <3>1. Nests([n \in Nat |-> PlainCalls], 0)
            BY DEF Nests
        <3> QED
            BY <3>1
    <2>2. ASSUME NEW n \in P PROVE n + 1 \in P
        <3>1. PICK f : Nests(f, n)
            BY <2>2
        <3> DEFINE g == [i \in Nat |-> IF i = n + 1 THEN Around(f[n]) ELSE f[i]]
        <3>2. g[0] = PlainCalls
            BY <3>1 DEF Nests
        <3>3. ASSUME NEW i \in Nat, i < n + 1 PROVE g[i + 1] = Around(g[i])
            <4>1. g[i] = f[i]
                BY <3>3
            <4>2. CASE i = n
                <5>1. g[i + 1] = Around(f[n])
                    BY <4>2
                <5> QED
                    BY <4>1, <4>2, <5>1
            <4>3. CASE i < n
                <5>1. g[i + 1] = f[i + 1]
                    BY <4>3
                <5>2. f[i + 1] = Around(f[i])
                    BY <3>1, <4>3 DEF Nests
                <5> QED
                    BY <4>1, <5>1, <5>2
            <4> QED
                BY <3>3, <4>2, <4>3
        <3> HIDE DEF g
        <3>4. Nests(g, n + 1)
            BY <3>2, <3>3 DEF Nests
        <3> QED
            BY <3>4
    <2>3. P \subseteq Nat
        OBVIOUS
    <2> HIDE DEF P
    <2> QED
        BY <2>1, <2>2, <2>3, Induction
<1>2. ASSUME NEW m \in Nat, NEW f, Nests(f, m), NEW k \in Nat, NEW g, Nests(g, k), m <= k
      PROVE  f[m] = g[m]
    <2>1. 0 \in Q(f, g, m)
        BY <1>2 DEF Nests
    <2>2. ASSUME NEW n \in Q(f, g, m) PROVE n + 1 \in Q(f, g, m)
        <3>1. SUFFICES ASSUME n + 1 <= m PROVE f[n + 1] = g[n + 1]
            OBVIOUS
        <3>2. f[n] = g[n] /\ n < m /\ n < k /\ n \in Nat
            BY <1>2, <2>2, <3>1
        <3> QED
            BY <1>2, <3>2 DEF Nests
    <2>3. Q(f, g, m) = Nat
        <3>1. Q(f, g, m) \subseteq Nat
            OBVIOUS
        <3> HIDE DEF Q
        <3> QED
            BY <2>1, <2>2, <3>1, Induction
    <2>4. m \in Q(f, g, m) /\ m <= m
        BY <2>3
    <2> QED
        BY <2>4
<1> DEFINE solution(n) == CHOOSE f : Nests(f, n)
           whole == [n \in Nat |-> solution(n)[n]]
<1>3. ASSUME NEW n \in Nat PROVE Nests(solution(n), n)
    <2>1. Some(n)
        BY <1>1
    <2> QED
        BY <2>1
<1> HIDE DEF solution
<1>4. whole[0] = PlainCalls
    BY <1>3 DEF Nests
<1>5. ASSUME NEW n \in Nat PROVE whole[n + 1] = Around(whole[n])
    <2>1. n + 1 \in Nat /\ n <= n + 1 /\ n < n + 1
        OBVIOUS
    <2>2. solution(n)[n] = solution(n + 1)[n]
        BY <1>2, <1>3, <2>1
    <2>3. solution(n + 1)[n + 1] = Around(solution(n + 1)[n])
        BY <1>3, <2>1 DEF Nests
    <2>4. whole[n] = solution(n)[n] /\ whole[n + 1] = solution(n + 1)[n + 1]
        BY <2>1
    <2> QED
        BY <2>2, <2>3, <2>4
<1>6. Is(whole)
    <2>1. ASSUME NEW n \in Nat, n # 0 PROVE whole[n] = Around(whole[n - 1])
        <3>1. n - 1 \in Nat /\ (n - 1) + 1 = n
            BY <2>1
        <3> HIDE DEF whole
        <3> QED
            BY <1>5, <3>1
    <2>2. whole = [n \in Nat |-> whole[n]]
        OBVIOUS
    <2> HIDE DEF whole
    <2> QED
        BY <1>4, <2>1, <2>2 DEF Around
<1>7. Is(Keys!Nested)
    <2>1. Keys!Nested = CHOOSE f : Is(f)
        BY DEF Keys!Nested
    <2> HIDE DEF Is, whole
    <2> QED
        BY <1>6, <2>1
<1>8. Keys!Nested[0] = PlainCalls
    BY <1>7
<1>9. ASSUME NEW n \in Nat PROVE Keys!Nested[n + 1] = Around(Keys!Nested[n])
    <2>1. n + 1 \in Nat /\ n + 1 # 0 /\ (n + 1) - 1 = n
        OBVIOUS
    <2> QED
        BY <1>7, <2>1 DEF Around
<1> QED
    BY <1>8, <1>9

\* A deeper level has all calls of the others.
LEMMA NestedGrows ==
    ASSUME NEW m \in Nat, NEW n \in Nat, m <= n
    PROVE  Keys!Nested[m] \subseteq Keys!Nested[n]
<1> DEFINE P == {k \in Nat : m <= k => Keys!Nested[m] \subseteq Keys!Nested[k]}
<1>1. 0 \in P
    <2>1. m <= 0 => m = 0
        OBVIOUS
    <2> QED
        BY <2>1
<1>2. ASSUME NEW k \in P PROVE k + 1 \in P
    <2>1. SUFFICES ASSUME m <= k + 1, m # k + 1 PROVE Keys!Nested[m] \subseteq Keys!Nested[k + 1]
        OBVIOUS
    <2>2. k \in Nat /\ m <= k
        BY <2>1
    <2>3. Keys!Nested[m] \subseteq Keys!Nested[k]
        BY <2>2
    <2>4. Keys!Nested[k] \subseteq Keys!Nested[k + 1]
        BY <2>2, NestedIs DEF Around
    <2> QED
        BY <2>3, <2>4
<1>3. P = Nat
    <2>1. P \subseteq Nat
        OBVIOUS
    <2> HIDE DEF P
    <2> QED
        BY <1>1, <1>2, <2>1, Induction
<1> QED
    BY <1>3

\* A call is a batch of calls one level down, or none.
IsPlain(c) == c \in PlainCalls /\ ~Keys!isBatch(c) /\ c.calls = <<>>
IsBatchOf(c, calls) == Keys!isBatch(c) /\ c.calls \in Seq(calls)

LEMMA PlainCall ==
    ASSUME NEW c \in PlainCalls
    PROVE  IsPlain(c) /\ c.section \in STRING /\ c.method \in STRING
BY CallsAssumption DEF IsPlain

LEMMA CallIs ==
    ASSUME NEW n \in Nat, NEW c \in Keys!Nested[n]
    PROVE  IsPlain(c) \/ (n # 0 /\ IsBatchOf(c, Keys!Nested[n - 1]))
<1> DEFINE Is(d, k) == IsPlain(d) \/ (k # 0 /\ IsBatchOf(d, Keys!Nested[k - 1]))
           P == {k \in Nat : \A d \in Keys!Nested[k] : Is(d, k)}
<1>1. 0 \in P
    BY NestedIs, PlainCall
<1>2. ASSUME NEW k \in P PROVE k + 1 \in P
    <2>1. ASSUME NEW d \in Keys!Nested[k + 1] PROVE Is(d, k + 1)
        <3>0. k \in Nat /\ k + 1 # 0 /\ (k + 1) - 1 = k
            OBVIOUS
        <3>1. CASE d \in Keys!Nested[k]
            <4>1. Is(d, k)
                BY <3>1
            <4>2. CASE IsPlain(d)
                BY <4>2
            <4>3. CASE k # 0 /\ IsBatchOf(d, Keys!Nested[k - 1])
                <5>1. k - 1 \in Nat /\ k - 1 <= k
                    BY <3>0, <4>3
                <5>2. Keys!Nested[k - 1] \subseteq Keys!Nested[k]
                    BY <3>0, <5>1, NestedGrows
                <5>3. d.calls \in Seq(Keys!Nested[k])
                    BY <4>3, <5>2, SeqMonotonic DEF IsBatchOf
                <5>4. IsBatchOf(d, Keys!Nested[k])
                    BY <4>3, <5>3 DEF IsBatchOf
                <5> QED
                    BY <3>0, <5>4
            <4> QED
                BY <4>1, <4>2, <4>3
        <3>2. CASE d \in [section : {"utility"}, method : Keys!BatchMethods, calls : Seq(Keys!Nested[k])]
            <4>1. IsBatchOf(d, Keys!Nested[k])
                BY <3>2 DEF IsBatchOf, Keys!isBatch
            <4> QED
                BY <3>0, <4>1
        <3> QED
            BY <3>0, <3>1, <3>2, NestedIs DEF Around
    <2> QED
        BY <2>1
<1>3. P = Nat
    <2>1. P \subseteq Nat
        OBVIOUS
    <2> HIDE DEF P
    <2> QED
        BY <1>1, <1>2, <2>1, Induction
<1> QED
    BY <1>3

\* The calls in a call are calls that the functions are defined on.
Depth == MaxNesting + 1

LEMMA DepthIs == Depth \in Nat /\ Depth # 0 /\ Depth - 1 = MaxNesting /\ Keys!Nestable = Keys!Nested[Depth]
                 /\ MaxNesting \in Nat
BY CallsAssumption DEF Depth, Keys!Nestable

LEMMA InnerCalls ==
    ASSUME NEW n \in Nat, n <= Depth, NEW c \in Keys!Nested[n]
    PROVE  /\ c \in Keys!Nestable
           /\ c.calls \in Seq(Keys!Nestable)
           /\ c.calls \in Seq(Keys!Nested[n])
           /\ n # 0 => c.calls \in Seq(Keys!Nested[n - 1])
<1>1. Keys!Nested[n] \subseteq Keys!Nestable
    BY DepthIs, NestedGrows
<1>2. CASE IsPlain(c)
    BY <1>1, <1>2, EmptySeq DEF IsPlain
<1>3. CASE n # 0 /\ IsBatchOf(c, Keys!Nested[n - 1])
    <2>1. n - 1 \in Nat /\ n - 1 <= n
        BY <1>3
    <2>2. Keys!Nested[n - 1] \subseteq Keys!Nested[n]
        BY <2>1, NestedGrows
    <2>3. c.calls \in Seq(Keys!Nested[n - 1])
        BY <1>3 DEF IsBatchOf
    <2>4. c.calls \in Seq(Keys!Nested[n])
        BY <2>2, <2>3, SeqMonotonic
    <2>5. c.calls \in Seq(Keys!Nestable)
        BY <1>1, <2>4, SeqMonotonic
    <2> QED
        BY <1>1, <2>3, <2>4, <2>5
<1> QED
    BY <1>2, <1>3, CallIs

LEMMA MapIs ==
    ASSUME NEW S, NEW T, NEW s \in Seq(S), NEW f, \A x \in S : f[x] \in T
    PROVE  /\ Keys!Map(f, s) \in Seq(T)
           /\ Len(Keys!Map(f, s)) = Len(s)
           /\ DOMAIN Keys!Map(f, s) = DOMAIN s
           /\ \A i \in DOMAIN s : s[i] \in S /\ Keys!Map(f, s)[i] = f[s[i]]
<1>1. DOMAIN s = 1 .. Len(s) /\ Len(s) \in Nat /\ \A i \in 1 .. Len(s) : s[i] \in S
    BY LenProperties, ElementOfSeq
<1>2. Keys!Map(f, s) = [i \in 1 .. Len(s) |-> f[s[i]]]
    BY <1>1 DEF Keys!Map
<1>3. Keys!Map(f, s) \in [1 .. Len(s) -> T]
    BY <1>1, <1>2
<1> QED
    BY <1>1, <1>2, <1>3

\* What a recursive definition on calls defines: its value for a call is made from
\* the values for the calls in it.
Computes(f, calls, step) ==
    \A c \in calls : f[c] = step[<<c, Keys!Map(f, c.calls)>>]

LEMMA RecursionOnCalls ==
    ASSUME NEW S, NEW step \in [Keys!Nestable \X Seq(S) -> S]
    PROVE  \E f \in [Keys!Nestable -> S] : Computes(f, Keys!Nestable, step)
<1> DEFINE Some(n) == \E f \in [Keys!Nested[n] -> S] : Computes(f, Keys!Nested[n], step)
           P == {n \in Nat : n <= Depth => Some(n)}
<1>1. ASSUME NEW n \in Nat, n <= Depth, NEW f \in [Keys!Nested[n] -> S], NEW c \in Keys!Nestable,
             c.calls \in Seq(Keys!Nested[n])
      PROVE  Keys!Map(f, c.calls) \in Seq(S) /\ step[<<c, Keys!Map(f, c.calls)>>] \in S
    <2>1. \A d \in Keys!Nested[n] : f[d] \in S
        BY <1>1
    <2>2. Keys!Map(f, c.calls) \in Seq(S)
        BY <1>1, <2>1, MapIs
    <2>3. <<c, Keys!Map(f, c.calls)>> \in Keys!Nestable \X Seq(S)
        BY <2>2
    <2> QED
        BY <2>2, <2>3
<1>3. 0 \in P
    <2>1. ASSUME NEW c \in Keys!Nested[0] PROVE step[<<c, <<>>>>] \in S /\ c.calls = <<>>
        <3>1. IsPlain(c) /\ c \in Keys!Nestable
            BY CallIs, InnerCalls, DepthIs
        <3>2. <<c, <<>>>> \in Keys!Nestable \X Seq(S)
            BY <3>1, EmptySeq
        <3> QED
            BY <3>1, <3>2 DEF IsPlain
    <2>2. PICK f \in [Keys!Nested[0] -> S] : \A c \in Keys!Nested[0] : f[c] = step[<<c, <<>>>>]
        <3> DEFINE f == [c \in Keys!Nested[0] |-> step[<<c, <<>>>>]]
        <3>1. f \in [Keys!Nested[0] -> S]
            BY <2>1
        <3> QED
            BY <3>1
    <2>3. ASSUME NEW c \in Keys!Nested[0] PROVE f[c] = step[<<c, Keys!Map(f, c.calls)>>]
        <3>1. c.calls \in Seq(Keys!Nested[0]) /\ Len(c.calls) = 0
            BY <2>1, EmptySeq
        <3>2. \A d \in Keys!Nested[0] : f[d] \in S
            BY <2>2
        <3>3. Keys!Map(f, c.calls) \in Seq(S) /\ Len(Keys!Map(f, c.calls)) = 0
            BY <3>1, <3>2, MapIs
        <3>4. Keys!Map(f, c.calls) = <<>>
            BY <3>3, EmptySeq
        <3> QED
            BY <2>2, <3>4
    <2>4. Some(0)
        BY <2>3 DEF Computes
    <2> QED
        BY <2>4
<1>4. ASSUME NEW n \in P PROVE n + 1 \in P
    <2>1. SUFFICES ASSUME n + 1 <= Depth PROVE Some(n + 1)
        OBVIOUS
    <2>2. n \in Nat /\ n + 1 \in Nat /\ n <= Depth /\ (n + 1) - 1 = n /\ n <= n + 1 /\ n + 1 # 0
        BY <2>1, DepthIs
    <2>3. PICK f \in [Keys!Nested[n] -> S] : Computes(f, Keys!Nested[n], step)
        BY <2>2
    <2>4. ASSUME NEW c \in Keys!Nested[n + 1]
          PROVE  c \in Keys!Nestable /\ c.calls \in Seq(Keys!Nested[n])
        BY <2>1, <2>2, InnerCalls
    <2>5. PICK g \in [Keys!Nested[n + 1] -> S] :
              \A c \in Keys!Nested[n + 1] : g[c] = step[<<c, Keys!Map(f, c.calls)>>]
        <3> DEFINE g == [c \in Keys!Nested[n + 1] |-> step[<<c, Keys!Map(f, c.calls)>>]]
        <3>1. g \in [Keys!Nested[n + 1] -> S]
            BY <1>1, <2>2, <2>4
        <3> QED
            BY <3>1
    <2>6. Keys!Nested[n] \subseteq Keys!Nested[n + 1]
        BY <2>2, NestedGrows
    <2>7. \A d \in Keys!Nested[n] : g[d] = f[d]
        BY <2>3, <2>5, <2>6 DEF Computes
    <2>8. ASSUME NEW c \in Keys!Nested[n + 1] PROVE g[c] = step[<<c, Keys!Map(g, c.calls)>>]
        <3>1. g[c] = step[<<c, Keys!Map(f, c.calls)>>]
            BY <2>5
        <3>2. Keys!Map(g, c.calls) = Keys!Map(f, c.calls)
            <4>1. c.calls \in Seq(Keys!Nested[n])
                BY <2>4
            <4>2. \A i \in DOMAIN c.calls : c.calls[i] \in Keys!Nested[n]
                BY <4>1, LenProperties, ElementOfSeq
            <4>3. \A i \in DOMAIN c.calls : g[c.calls[i]] = f[c.calls[i]]
                BY <2>7, <4>2
            <4> QED
                BY <4>3 DEF Keys!Map
        <3> QED
            BY <3>1, <3>2
    <2> QED
        BY <2>5, <2>8 DEF Computes
<1>5. P = Nat
    <2>1. P \subseteq Nat
        OBVIOUS
    <2> HIDE DEF P
    <2> QED
        BY <1>3, <1>4, <2>1, Induction
<1>6. Some(Depth)
    <2>1. Depth \in P /\ Depth <= Depth
        BY <1>5, DepthIs
    <2> QED
        BY <2>1
<1> QED
    BY <1>6, DepthIs

\* What holds of a call when it holds of the calls in it holds of all calls.
LEMMA InductionOnCalls ==
    ASSUME NEW P, P \subseteq Keys!Nestable,
           \A c \in Keys!Nestable : c.calls \in Seq(P) => c \in P
    PROVE  P = Keys!Nestable
<1> DEFINE Q == {n \in Nat : n <= Depth => Keys!Nested[n] \subseteq P}
<1>1. 0 \in Q
    <2>1. ASSUME NEW c \in Keys!Nested[0] PROVE c \in P
        <3>1. IsPlain(c) /\ c \in Keys!Nestable
            BY CallIs, InnerCalls, DepthIs
        <3> QED
            BY <3>1, EmptySeq DEF IsPlain
    <2> QED
        BY <2>1
<1>2. ASSUME NEW n \in Q PROVE n + 1 \in Q
    <2>1. SUFFICES ASSUME n + 1 <= Depth, NEW c \in Keys!Nested[n + 1] PROVE c \in P
        OBVIOUS
    <2>2. n \in Nat /\ n + 1 \in Nat /\ n <= Depth /\ (n + 1) - 1 = n /\ n + 1 # 0
        BY <2>1, DepthIs
    <2>3. c \in Keys!Nestable /\ c.calls \in Seq(Keys!Nested[n])
        BY <2>1, <2>2, InnerCalls
    <2>4. Keys!Nested[n] \subseteq P
        BY <2>2
    <2>5. c.calls \in Seq(P)
        BY <2>3, <2>4, SeqMonotonic
    <2> QED
        BY <2>3, <2>5
<1>3. Q = Nat
    <2>1. Q \subseteq Nat
        OBVIOUS
    <2> HIDE DEF Q
    <2> QED
        BY <1>1, <1>2, <2>1, Induction
<1>4. Keys!Nested[Depth] \subseteq P
    <2>1. Depth \in Q /\ Depth <= Depth
        BY <1>3, DepthIs
    <2> QED
        BY <2>1
<1> QED
    BY <1>4, DepthIs

LEMMA NestableCall ==
    ASSUME NEW c \in Keys!Nestable
    PROVE  /\ c.calls \in Seq(Keys!Nestable)
           /\ Keys!isBatch(c) \/ IsPlain(c)
<1>1. Depth \in Nat /\ Depth <= Depth /\ c \in Keys!Nested[Depth]
    BY DepthIs
<1>2. c.calls \in Seq(Keys!Nestable)
    BY <1>1, InnerCalls
<1>3. Keys!isBatch(c) \/ IsPlain(c)
    BY <1>1, CallIs DEF IsBatchOf
<1> QED
    BY <1>2, <1>3

\* What getKeyRelationshipForMethod may return, or throw.
Relationships ==
    {"assertionMethod", "authentication", "capabilityDelegation", Keys!Undefined, Keys!Throws}

LEMMA Marks ==
    /\ Keys!Undefined \in Relationships /\ Keys!Throws \in Relationships
    /\ Keys!Undefined # Keys!Throws
<1>1. "undefined" # "throws"
    OBVIOUS
<1> QED
    BY <1>1 DEF Relationships, Keys!Undefined, Keys!Throws

\* The relationship that all in a list have.
LEMMA CommonIs ==
    ASSUME NEW s \in Seq(Relationships)
    PROVE  /\ Keys!Common(s) \in Relationships
           /\ s = <<>> \/ Keys!Throws \in ToSet(s) => Keys!Common(s) = Keys!Throws
           /\ s # <<>> /\ Keys!Throws \notin ToSet(s) =>
                  \A k \in Relationships : k # Keys!Undefined =>
                      (Keys!Common(s) = k <=> \A i \in DOMAIN s : s[i] = k)
<1> DEFINE L == Len(s)
           item == [n \in Nat |-> IF n \in 1 .. L THEN s[n] ELSE Keys!Undefined]
           step == [p \in Nat \X Relationships |->
                       IF p[2] = item[p[1] + 1] THEN item[p[1] + 1] ELSE Keys!Undefined]
           Is(f) == f = [n \in 1 .. L |-> IF n = 1 \/ f[n - 1] = s[n] THEN s[n] ELSE Keys!Undefined]
           prev == CHOOSE f : Is(f)
<1>0. L \in Nat /\ DOMAIN s = 1 .. L /\ \A n \in 1 .. L : s[n] \in Relationships
    BY LenProperties, ElementOfSeq
<1>1. ToSet(s) = Keys!ToSet(s)
    BY DEF ToSet, Keys!ToSet
<1>2. Keys!Common(s) = IF s = <<>> \/ Keys!Throws \in Keys!ToSet(s) THEN Keys!Throws ELSE prev[L]
    BY DEF Keys!Common
<1>3. Keys!Undefined \in Relationships /\ Keys!Throws \in Relationships
    BY Marks
<1>4. CASE s = <<>> \/ Keys!Throws \in ToSet(s)
    <2>1. Keys!Common(s) = Keys!Throws
        BY <1>1, <1>2, <1>4
    <2> QED
        BY <1>3, <1>4, <2>1
<1>5. CASE s # <<>> /\ Keys!Throws \notin ToSet(s)
    <2>1. Keys!Common(s) = prev[L] /\ L # 0
        BY <1>1, <1>2, <1>5, EmptySeq
    <2> HIDE DEF L
    <2>2. PICK f \in [1 .. L -> Relationships] : Builds(f, L, s[1], step)
        <3>1. \A n \in Nat : item[n] \in Relationships
            BY <1>0, <1>3
        <3> HIDE DEF item
        <3>2. step \in [Nat \X Relationships -> Relationships]
            <4>1. ASSUME NEW p \in Nat \X Relationships PROVE item[p[1] + 1] \in Relationships
                <5>1. p[1] + 1 \in Nat
                    OBVIOUS
                <5> QED
                    BY <3>1, <5>1
            <4> QED
                BY <1>3, <4>1
        <3> HIDE DEF step
        <3>3. s[1] \in Relationships
            BY <1>0, <2>1
        <3> QED
            BY <1>0, <2>1, <3>2, <3>3, RecursionOnPositions
    <2>3. ASSUME NEW n \in 1 .. L, n < L
          PROVE  f[n + 1] = IF f[n] = s[n + 1] THEN s[n + 1] ELSE Keys!Undefined
        <3>1. n \in Nat /\ f[n] \in Relationships /\ n + 1 \in 1 .. L
            BY <1>0, <2>2, <2>3
        <3>2. f[n + 1] = step[<<n, f[n]>>]
            BY <2>2, <2>3 DEF Builds
        <3>3. item[n + 1] = s[n + 1]
            BY <3>1
        <3> HIDE DEF item
        <3>4. step[<<n, f[n]>>] = IF f[n] = item[n + 1] THEN item[n + 1] ELSE Keys!Undefined
            BY <3>1
        <3> QED
            BY <3>2, <3>3, <3>4
    <2> HIDE DEF step, item
    <2>4. Is(f)
        <3>1. ASSUME NEW n \in 1 .. L, n # 1
              PROVE  f[n] = IF f[n - 1] = s[n] THEN s[n] ELSE Keys!Undefined
            <4>1. n - 1 \in 1 .. L /\ n - 1 < L /\ (n - 1) + 1 = n
                BY <1>0, <3>1
            <4> QED
                BY <2>3, <4>1
        <3>2. f[1] = s[1]
            BY <2>2 DEF Builds
        <3> QED
            BY <2>2, <3>1, <3>2
    <2>5. Is(prev)
        <3> HIDE DEF Is
        <3> QED
            BY <2>4
    <2> HIDE DEF prev
    <2>6. 1 \in 1 .. L /\ L \in 1 .. L /\ prev[1] = s[1]
        <3>1. 1 \in 1 .. L /\ L \in 1 .. L
            BY <1>0, <2>1
        <3> QED
            BY <2>5, <3>1
    <2>7. ASSUME NEW n \in 1 .. L, n < L
          PROVE  prev[n + 1] = IF prev[n] = s[n + 1] THEN s[n + 1] ELSE Keys!Undefined
        <3>1. n + 1 \in 1 .. L /\ n + 1 # 1 /\ (n + 1) - 1 = n
            BY <1>0, <2>7
        <3> QED
            BY <2>5, <3>1
    <2>8. prev[L] \in Relationships
        <3>1. CASE L = 1
            BY <1>0, <2>6, <3>1
        <3>2. CASE L # 1
            <4>1. L - 1 \in 1 .. L /\ L - 1 < L /\ (L - 1) + 1 = L
                BY <1>0, <2>1, <3>2
            <4>2. prev[L] = IF prev[L - 1] = s[L] THEN s[L] ELSE Keys!Undefined
                BY <2>7, <4>1
            <4> QED
                BY <1>0, <1>3, <2>6, <4>2
        <3> QED
            BY <3>1, <3>2
    <2>9. ASSUME NEW k \in Relationships, k # Keys!Undefined
          PROVE  prev[L] = k <=> \A i \in 1 .. L : s[i] = k
        <3> DEFINE Has(n) == prev[n] = k <=> \A i \in 1 .. n : s[i] = k
                   P == {n \in Nat : n + 1 <= L => Has(n + 1)}
        <3>1. 0 \in P
            <4>1. 1 .. 1 = {1}
                OBVIOUS
            <4>2. Has(1)
                BY <2>6, <4>1
            <4> HIDE DEF Has
            <4>3. Has(0 + 1)
                BY <4>2
            <4> QED
                BY <4>3
        <3>2. ASSUME NEW n \in P PROVE n + 1 \in P
            <4> DEFINE m == n + 1
            <4> HIDE DEF Has
            <4>1. SUFFICES ASSUME m + 1 <= L PROVE Has(m + 1)
                <5>1. n \in Nat /\ n + 1 \in Nat
                    OBVIOUS
                <5> QED
                    BY <5>1
            <4>2. m \in Nat /\ m \in 1 .. L /\ m < L /\ n + 1 <= L /\ n \in Nat
                BY <1>0, <4>1
            <4>3. Has(m)
                BY <4>2
            <4> HIDE DEF m, P
            <4>4. prev[m + 1] = IF prev[m] = s[m + 1] THEN s[m + 1] ELSE Keys!Undefined
                BY <2>7, <4>2
            <4>5. 1 .. m + 1 = 1 .. m \cup {m + 1}
                BY <4>2
            <4> QED
                BY <2>9, <4>3, <4>4, <4>5 DEF Has
        <3>3. P = Nat
            <4> HIDE DEF P
            <4>1. P \subseteq Nat
                BY DEF P
            <4> QED
                BY <3>1, <3>2, <4>1, Induction
        <3>4. Has(L)
            <4> HIDE DEF Has
            <4>1. L - 1 \in Nat /\ (L - 1) + 1 = L /\ L <= L
                BY <1>0, <2>1
            <4>2. L - 1 \in P
                BY <3>3, <4>1
            <4> QED
                BY <4>1, <4>2
        <3> QED
            BY <3>4
    <2> QED
        BY <1>0, <1>5, <2>1, <2>8, <2>9
<1> QED
    BY <1>4, <1>5

LEMMA MethodMappingIs ==
    ASSUME NEW c \in PlainCalls
    PROVE  Keys!methodMapping(c) \in Relationships /\ Keys!methodMapping(c) # Keys!Throws
<1>1. \A x \in DOMAIN Keys!SectionMapping :
          Keys!SectionMapping[x] \in {"assertionMethod", "authentication"}
    BY DEF Keys!SectionMapping
<1>2. Keys!methodMapping(c) \in {"assertionMethod", "authentication", "capabilityDelegation", Keys!Undefined}
    BY <1>1 DEF Keys!methodMapping
<1>3. \A x \in {"assertionMethod", "authentication", "capabilityDelegation", Keys!Undefined} :
          x \in Relationships /\ x # Keys!Throws
    BY DEF Relationships, Keys!Throws, Keys!Undefined
<1> QED
    BY <1>2, <1>3

\* The relationship of a call, as its definition says.
LEMMA KeyIs ==
    \A c \in Keys!Nestable :
        /\ Keys!getKeyRelationshipForMethod[c] \in Relationships
        /\ Keys!getKeyRelationshipForMethod[c] =
               IF Keys!isBatch(c)
               THEN Keys!Common(Keys!Map(Keys!getKeyRelationshipForMethod, c.calls))
               ELSE Keys!methodMapping(c)
<1> DEFINE step == [p \in Keys!Nestable \X Seq(Relationships) |->
                       IF Keys!isBatch(p[1]) THEN Keys!Common(p[2]) ELSE Keys!methodMapping(p[1])]
           Is(f) == f = [call \in Keys!Nestable |->
                            IF Keys!isBatch(call) THEN Keys!Common(Keys!Map(f, call.calls))
                            ELSE Keys!methodMapping(call)]
           key == Keys!getKeyRelationshipForMethod
<1>1. step \in [Keys!Nestable \X Seq(Relationships) -> Relationships]
    <2>1. ASSUME NEW p \in Keys!Nestable \X Seq(Relationships)
          PROVE  /\ Keys!isBatch(p[1]) => Keys!Common(p[2]) \in Relationships
                 /\ ~Keys!isBatch(p[1]) => Keys!methodMapping(p[1]) \in Relationships
        <3>1. p[1] \in Keys!Nestable /\ p[2] \in Seq(Relationships)
            OBVIOUS
        <3>2. Keys!Common(p[2]) \in Relationships
            BY <3>1, CommonIs
        <3>3. ~Keys!isBatch(p[1]) => p[1] \in PlainCalls
            BY <3>1, NestableCall DEF IsPlain
        <3> QED
            BY <3>2, <3>3, MethodMappingIs
    <2> QED
        BY <2>1
<1>2. \A c \in Keys!Nestable, s \in Seq(Relationships) :
          step[<<c, s>>] = IF Keys!isBatch(c) THEN Keys!Common(s) ELSE Keys!methodMapping(c)
    OBVIOUS
<1> HIDE DEF step
<1>3. PICK f \in [Keys!Nestable -> Relationships] : Computes(f, Keys!Nestable, step)
    BY <1>1, RecursionOnCalls
<1>4. ASSUME NEW c \in Keys!Nestable
      PROVE  f[c] = IF Keys!isBatch(c) THEN Keys!Common(Keys!Map(f, c.calls)) ELSE Keys!methodMapping(c)
    <2>1. c.calls \in Seq(Keys!Nestable) /\ \A d \in Keys!Nestable : f[d] \in Relationships
        BY <1>3, NestableCall
    <2>2. Keys!Map(f, c.calls) \in Seq(Relationships)
        BY <2>1, MapIs
    <2>3. f[c] = step[<<c, Keys!Map(f, c.calls)>>]
        BY <1>3 DEF Computes
    <2> QED
        BY <1>2, <2>2, <2>3
<1>5. Is(f)
    BY <1>3, <1>4
<1>6. Is(key)
    <2>1. key = CHOOSE g : Is(g)
        BY DEF Keys!getKeyRelationshipForMethod
    <2> HIDE DEF Is, key
    <2> QED
        BY <1>5, <2>1
<1> HIDE DEF key
<1>7. ASSUME NEW c \in Keys!Nestable
      PROVE  key[c] = IF Keys!isBatch(c) THEN Keys!Common(Keys!Map(key, c.calls)) ELSE Keys!methodMapping(c)
    BY <1>6
<1> DEFINE P == {c \in Keys!Nestable : key[c] \in Relationships}
<1>8. ASSUME NEW c \in Keys!Nestable, c.calls \in Seq(P) PROVE c \in P
    <2>1. \A d \in P : key[d] \in Relationships
        OBVIOUS
    <2> HIDE DEF P
    <2>2. Keys!Map(key, c.calls) \in Seq(Relationships)
        BY <1>8, <2>1, MapIs
    <2>3. Keys!Common(Keys!Map(key, c.calls)) \in Relationships
        BY <2>2, CommonIs
    <2>4. ~Keys!isBatch(c) => Keys!methodMapping(c) \in Relationships
        BY NestableCall, MethodMappingIs DEF IsPlain
    <2> QED
        BY <1>7, <2>3, <2>4 DEF P
<1>9. P = Keys!Nestable
    <2>1. P \subseteq Keys!Nestable
        OBVIOUS
    <2> HIDE DEF P
    <2> QED
        BY <1>8, <2>1, InductionOnCalls
<1> QED
    BY <1>7, <1>9 DEF key

\* The calls in a call.
LEMMA LeavesAre ==
    \A c \in Keys!Nestable :
        /\ Keys!flattenCalls[c] \in Seq(PlainCalls)
        /\ Keys!flattenCalls[c] = IF Keys!isBatch(c) THEN Leaves(c.calls) ELSE <<c>>
<1> DEFINE S == Seq(PlainCalls)
           step == [p \in Keys!Nestable \X Seq(S) |->
                       IF Keys!isBatch(p[1]) THEN Keys!FlattenSeq(p[2]) ELSE <<p[1]>>]
           Is(f) == f = [call \in Keys!Nestable |->
                            IF Keys!isBatch(call) THEN Keys!FlattenSeq(Keys!Map(f, call.calls))
                            ELSE <<call>>]
           flat == Keys!flattenCalls
<1>1. step \in [Keys!Nestable \X Seq(S) -> S]
    <2>1. ASSUME NEW p \in Keys!Nestable \X Seq(S)
          PROVE  /\ Keys!isBatch(p[1]) => Keys!FlattenSeq(p[2]) \in S
                 /\ ~Keys!isBatch(p[1]) => <<p[1]>> \in S
        <3>1. p[1] \in Keys!Nestable /\ p[2] \in Seq(S)
            OBVIOUS
        <3>2. Keys!FlattenSeq(p[2]) \in S
            BY <3>1, FlattenTyped
        <3>3. ~Keys!isBatch(p[1]) => p[1] \in PlainCalls
            BY <3>1, NestableCall DEF IsPlain
        <3> QED
            BY <3>2, <3>3
    <2> HIDE DEF S
    <2> QED
        BY <2>1
<1>2. \A c \in Keys!Nestable, s \in Seq(S) :
          step[<<c, s>>] = IF Keys!isBatch(c) THEN Keys!FlattenSeq(s) ELSE <<c>>
    OBVIOUS
<1>a. \A c \in PlainCalls : <<c>> \in S
    OBVIOUS
<1>b. \A s \in Seq(S) : Keys!FlattenSeq(s) \in S
    BY FlattenTyped
<1> HIDE DEF step, S
<1>3. PICK f \in [Keys!Nestable -> S] : Computes(f, Keys!Nestable, step)
    BY <1>1, RecursionOnCalls
<1>4. ASSUME NEW c \in Keys!Nestable
      PROVE  f[c] = IF Keys!isBatch(c) THEN Keys!FlattenSeq(Keys!Map(f, c.calls)) ELSE <<c>>
    <2>1. c.calls \in Seq(Keys!Nestable) /\ \A d \in Keys!Nestable : f[d] \in S
        BY <1>3, NestableCall
    <2>2. Keys!Map(f, c.calls) \in Seq(S)
        BY <2>1, MapIs
    <2>3. f[c] = step[<<c, Keys!Map(f, c.calls)>>]
        BY <1>3 DEF Computes
    <2> QED
        BY <1>2, <2>2, <2>3
<1>5. Is(f)
    BY <1>3, <1>4
<1>6. Is(flat)
    <2>1. flat = CHOOSE g : Is(g)
        BY DEF Keys!flattenCalls
    <2> HIDE DEF Is, flat
    <2> QED
        BY <1>5, <2>1
<1> HIDE DEF flat
<1>7. ASSUME NEW c \in Keys!Nestable
      PROVE  flat[c] = IF Keys!isBatch(c) THEN Keys!FlattenSeq(Keys!Map(flat, c.calls)) ELSE <<c>>
    BY <1>6
<1> DEFINE P == {c \in Keys!Nestable : flat[c] \in S}
<1>8. ASSUME NEW c \in Keys!Nestable, c.calls \in Seq(P) PROVE c \in P
    <2>1. \A d \in P : flat[d] \in S
        OBVIOUS
    <2> HIDE DEF P
    <2>2. Keys!Map(flat, c.calls) \in Seq(S)
        BY <1>8, <2>1, MapIs
    <2>3. Keys!FlattenSeq(Keys!Map(flat, c.calls)) \in S
        BY <1>b, <2>2
    <2>4. ~Keys!isBatch(c) => <<c>> \in S
        BY <1>a, NestableCall DEF IsPlain
    <2> QED
        BY <1>7, <2>3, <2>4 DEF P
<1>9. P = Keys!Nestable
    <2>1. P \subseteq Keys!Nestable
        OBVIOUS
    <2> HIDE DEF P
    <2> QED
        BY <1>8, <2>1, InductionOnCalls
<1> QED
    BY <1>7, <1>9 DEF flat, S, Leaves

\* The batches of nothing in a call.
LEMMA EmptyBatchesAre ==
    \A c \in Keys!Nestable :
        Keys!EmptyBatches[c] = IF Keys!isBatch(c) /\ c.calls = <<>> THEN {c}
                               ELSE UNION Keys!ToSet(Keys!Map(Keys!EmptyBatches, c.calls))
<1> DEFINE S == SUBSET Keys!Nestable
           step == [p \in Keys!Nestable \X Seq(S) |->
                       IF Keys!isBatch(p[1]) /\ p[1].calls = <<>> THEN {p[1]}
                       ELSE UNION Keys!ToSet(p[2])]
           Is(f) == f = [call \in Keys!Nestable |->
                            IF Keys!isBatch(call) /\ call.calls = <<>> THEN {call}
                            ELSE UNION Keys!ToSet(Keys!Map(f, call.calls))]
           empty == Keys!EmptyBatches
<1>1. step \in [Keys!Nestable \X Seq(S) -> S]
    <2>1. ASSUME NEW p \in Keys!Nestable \X Seq(S)
          PROVE  {p[1]} \in S /\ UNION Keys!ToSet(p[2]) \in S
        <3>1. p[1] \in Keys!Nestable /\ p[2] \in Seq(S)
            OBVIOUS
        <3>2. \A i \in DOMAIN p[2] : p[2][i] \in S
            BY <3>1, LenProperties, ElementOfSeq
        <3>3. UNION Keys!ToSet(p[2]) \in S
            BY <3>2 DEF Keys!ToSet
        <3> QED
            BY <3>1, <3>3
    <2> HIDE DEF S
    <2> QED
        BY <2>1
<1>2. \A c \in Keys!Nestable, s \in Seq(S) :
          step[<<c, s>>] = IF Keys!isBatch(c) /\ c.calls = <<>> THEN {c} ELSE UNION Keys!ToSet(s)
    OBVIOUS
<1> HIDE DEF step, S
<1>3. PICK f \in [Keys!Nestable -> S] : Computes(f, Keys!Nestable, step)
    BY <1>1, RecursionOnCalls
<1>4. ASSUME NEW c \in Keys!Nestable
      PROVE  f[c] = IF Keys!isBatch(c) /\ c.calls = <<>> THEN {c}
                    ELSE UNION Keys!ToSet(Keys!Map(f, c.calls))
    <2>1. c.calls \in Seq(Keys!Nestable) /\ \A d \in Keys!Nestable : f[d] \in S
        BY <1>3, NestableCall
    <2>2. Keys!Map(f, c.calls) \in Seq(S)
        BY <2>1, MapIs
    <2>3. f[c] = step[<<c, Keys!Map(f, c.calls)>>]
        BY <1>3 DEF Computes
    <2> QED
        BY <1>2, <2>2, <2>3
<1>5. Is(f)
    BY <1>3, <1>4
<1>6. Is(empty)
    <2>1. empty = CHOOSE g : Is(g)
        BY DEF Keys!EmptyBatches
    <2> HIDE DEF Is, empty
    <2> QED
        BY <1>5, <2>1
<1> QED
    BY <1>6

LEMMA LeavesTyped ==
    ASSUME NEW s \in Seq(Keys!Nestable)
    PROVE  /\ Keys!Map(Keys!flattenCalls, s) \in Seq(Seq(PlainCalls))
           /\ Leaves(s) \in Seq(PlainCalls)
<1>1. \A c \in Keys!Nestable : Keys!flattenCalls[c] \in Seq(PlainCalls)
    BY LeavesAre
<1>2. Keys!Map(Keys!flattenCalls, s) \in Seq(Seq(PlainCalls))
    BY <1>1, MapIs
<1> QED
    BY <1>2, FlattenTyped DEF Leaves

\* The keys of a call that is no batch, and of a batch.
LEMMA KeysOfPlain ==
    ASSUME NEW c \in Keys!Nestable, ~Keys!isBatch(c)
    PROVE  KeysOf(c) = {Keys!methodMapping(c)}
<1>1. ToSet(<<c>>) = {c}
    BY DEF ToSet
<1> QED
    BY <1>1, LeavesAre DEF KeysOf

LEMMA KeysOfBatch ==
    ASSUME NEW c \in Keys!Nestable, Keys!isBatch(c), NEW x
    PROVE  x \in KeysOf(c) <=> \E i \in DOMAIN c.calls : x \in KeysOf(c.calls[i])
<1>0. PICK s : s = c.calls
    OBVIOUS
<1>1. s \in Seq(Keys!Nestable)
    BY <1>0, NestableCall
<1>2. \A d \in Keys!Nestable : Keys!flattenCalls[d] \in Seq(PlainCalls)
    BY LeavesAre
<1>a. PICK m : m = Keys!Map(Keys!flattenCalls, s)
    OBVIOUS
<1>3. /\ m \in Seq(Seq(PlainCalls)) /\ DOMAIN m = DOMAIN s
      /\ \A i \in DOMAIN s : m[i] = Keys!flattenCalls[s[i]]
    <2>1. \A i \in DOMAIN s : Keys!Map(Keys!flattenCalls, s)[i] = Keys!flattenCalls[s[i]]
        BY DEF Keys!Map
    <2>2. /\ Keys!Map(Keys!flattenCalls, s) \in Seq(Seq(PlainCalls))
          /\ DOMAIN Keys!Map(Keys!flattenCalls, s) = DOMAIN s
        BY <1>1, <1>2, MapIs
    <2> QED
        BY <1>a, <2>1, <2>2
<1>4. Keys!flattenCalls[c] = Keys!FlattenSeq(m)
    BY <1>0, <1>a, LeavesAre DEF Leaves
<1>5. \A leaf : leaf \in ToSet(Keys!FlattenSeq(m)) <=> \E i \in DOMAIN m : leaf \in ToSet(m[i])
    BY <1>3, FlattenToSet
<1>6. x \in KeysOf(c) <=> \E leaf \in ToSet(Keys!FlattenSeq(m)) : x = Keys!methodMapping(leaf)
    BY <1>4 DEF KeysOf
<1>7. x \in KeysOf(c) <=> \E i \in DOMAIN s : \E leaf \in ToSet(m[i]) : x = Keys!methodMapping(leaf)
    BY <1>3, <1>5, <1>6
<1>8. \A i \in DOMAIN s : x \in KeysOf(s[i]) <=> \E leaf \in ToSet(m[i]) : x = Keys!methodMapping(leaf)
    BY <1>3 DEF KeysOf
<1> QED
    BY <1>0, <1>7, <1>8

\* A call has a relationship, as computed level by level, exactly when all the calls
\* in it need that key; the computation throws exactly on a batch of nothing.
Sound(c) ==
    /\ Keys!getKeyRelationshipForMethod[c] = Keys!Throws <=> Keys!EmptyBatches[c] # {}
    /\ Keys!EmptyBatches[c] = {} =>
           /\ KeysOf(c) # {}
           /\ \A k \in Relationships \ {Keys!Undefined} :
                  Keys!getKeyRelationshipForMethod[c] = k <=> KeysOf(c) = {k}

LEMMA KeyOfCall == \A c \in Keys!Nestable : Sound(c)
<1> DEFINE key == Keys!getKeyRelationshipForMethod
           empty == Keys!EmptyBatches
           P == {c \in Keys!Nestable : Sound(c)}
<1>1. ASSUME NEW c \in Keys!Nestable, ~Keys!isBatch(c) PROVE Sound(c)
    <2>1. c \in PlainCalls /\ c.calls = <<>>
        BY <1>1, NestableCall DEF IsPlain
    <2>2. KeysOf(c) = {Keys!methodMapping(c)} /\ key[c] = Keys!methodMapping(c)
        BY <1>1, KeysOfPlain, KeyIs
    <2>3. empty[c] = {}
        <3>1. empty[c] = UNION Keys!ToSet(Keys!Map(Keys!EmptyBatches, c.calls))
            BY <1>1, EmptyBatchesAre
        <3>2. Keys!ToSet(Keys!Map(Keys!EmptyBatches, <<>>)) = {}
            BY DEF Keys!ToSet, Keys!Map
        <3> QED
            BY <2>1, <3>1, <3>2
    <2>4. key[c] # Keys!Throws
        BY <2>1, <2>2, MethodMappingIs
    <2> QED
        BY <2>2, <2>3, <2>4 DEF Sound
<1>2. ASSUME NEW c \in Keys!Nestable, Keys!isBatch(c), c.calls \in Seq(P) PROVE Sound(c)
    <2> DEFINE s == c.calls
               keys == Keys!Map(key, s)
    <2>1. /\ DOMAIN s = 1 .. Len(s) /\ Len(s) \in Nat
          /\ \A i \in DOMAIN s : s[i] \in Keys!Nestable /\ Sound(s[i])
        BY <1>2, LenProperties, ElementOfSeq
    <2>2. /\ keys \in Seq(Relationships) /\ Len(keys) = Len(s) /\ DOMAIN keys = DOMAIN s
          /\ \A i \in DOMAIN s : keys[i] = key[s[i]]
        <3>1. s \in Seq(Keys!Nestable) /\ \A d \in Keys!Nestable : key[d] \in Relationships
            BY NestableCall, KeyIs
        <3> HIDE DEF key
        <3> QED
            BY <3>1, MapIs
    <2>3. key[c] = Keys!Common(keys)
        BY <1>2, KeyIs
    <2>4. empty[c] = IF s = <<>> THEN {c} ELSE UNION Keys!ToSet(Keys!Map(Keys!EmptyBatches, s))
        BY <1>2, EmptyBatchesAre
    <2>5. \A k : k \in KeysOf(c) <=> \E i \in DOMAIN s : k \in KeysOf(s[i])
        BY <1>2, KeysOfBatch
    <2>b. s \in Seq(Keys!Nestable)
        BY NestableCall
    <2> HIDE DEF key, keys, s, P, empty
    <2>a. (s = <<>> <=> Len(s) = 0) /\ (keys = <<>> <=> Len(keys) = 0)
        BY <2>2, <2>b, EmptySeq
    <2>6. CASE s = <<>>
        <3>1. keys = <<>> /\ key[c] = Keys!Throws /\ empty[c] = {c}
            BY <2>2, <2>3, <2>4, <2>6, <2>a, EmptySeq, CommonIs
        <3> QED
            BY <3>1 DEF Sound, key, empty
    <2>7. CASE s # <<>>
        <3>0. s # <<>> /\ keys # <<>> /\ DOMAIN s # {}
            <4>1. Len(s) # 0 /\ Len(keys) # 0
                BY <2>2, <2>7, <2>a
            <4>2. 1 \in DOMAIN s
                BY <2>1, <4>1
            <4> QED
                BY <2>7, <2>a, <4>1, <4>2
        <3>1. empty[c] # {} <=> \E i \in DOMAIN s : empty[s[i]] # {}
            BY <2>4, <3>0 DEF Keys!ToSet, Keys!Map, empty
        <3>2. Keys!Throws \in ToSet(keys) <=> \E i \in DOMAIN s : key[s[i]] = Keys!Throws
            BY <2>2 DEF ToSet
        <3>3. Keys!Throws \in ToSet(keys) <=> empty[c] # {}
            BY <2>1, <3>1, <3>2 DEF Sound, key, empty
        <3>4. CASE Keys!Throws \in ToSet(keys)
            <4>1. key[c] = Keys!Throws
                BY <2>2, <2>3, <3>4, CommonIs
            <4> QED
                BY <3>3, <3>4, <4>1 DEF Sound, key, empty
        <3>5. CASE Keys!Throws \notin ToSet(keys)
            <4>1. \A k \in Relationships : k # Keys!Undefined =>
                      (key[c] = k <=> \A i \in DOMAIN s : key[s[i]] = k)
                <5>1. \A k \in Relationships : k # Keys!Undefined =>
                          (Keys!Common(keys) = k <=> \A i \in DOMAIN keys : keys[i] = k)
                    BY <2>2, <3>0, <3>5, CommonIs
                <5> QED
                    BY <2>2, <2>3, <5>1
            <4>2. empty[c] = {} /\ \A i \in DOMAIN s : empty[s[i]] = {}
                BY <3>1, <3>3, <3>5
            <4>3. \A i \in DOMAIN s :
                      /\ KeysOf(s[i]) # {}
                      /\ \A k \in Relationships \ {Keys!Undefined} : key[s[i]] = k <=> KeysOf(s[i]) = {k}
                BY <2>1, <4>2 DEF Sound, key, empty
            <4>4. key[c] # Keys!Throws
                <5>1. \A i \in DOMAIN s : key[s[i]] # Keys!Throws
                    BY <3>2, <3>5
                <5>2. key[c] = Keys!Throws => \A i \in DOMAIN s : key[s[i]] = Keys!Throws
                    BY <4>1, Marks
                <5> QED
                    BY <3>0, <5>1, <5>2
            <4>5. KeysOf(c) # {}
                BY <2>5, <3>0, <4>3
            <4>6. ASSUME NEW k \in Relationships \ {Keys!Undefined}
                  PROVE  key[c] = k <=> KeysOf(c) = {k}
                <5>1. key[c] = k <=> \A i \in DOMAIN s : KeysOf(s[i]) = {k}
                    BY <4>1, <4>3
                <5>2. (\A i \in DOMAIN s : KeysOf(s[i]) = {k}) => KeysOf(c) = {k}
                    BY <2>5, <3>0
                <5>3. KeysOf(c) = {k} => \A i \in DOMAIN s : KeysOf(s[i]) = {k}
                    BY <2>5, <4>3
                <5> QED
                    BY <5>1, <5>2, <5>3
            <4> QED
                BY <4>2, <4>4, <4>5, <4>6 DEF Sound, key, empty
        <3> QED
            BY <3>4, <3>5
    <2> QED
        BY <2>6, <2>7
<1>3. ASSUME NEW c \in Keys!Nestable, c.calls \in Seq(P) PROVE c \in P
    BY <1>1, <1>2, <1>3
<1>4. P = Keys!Nestable
    <2>1. P \subseteq Keys!Nestable
        OBVIOUS
    <2> HIDE DEF P
    <2> QED
        BY <1>3, <2>1, InductionOnCalls
<1> QED
    BY <1>4

-----------------------------------------------------------------------------
(* The groups of a list of extrinsics.                                     *)

\* What an application passes to authorizeBatch, and the groups of it.
Extrinsics == Keys!Nested[MaxNesting]
Key(c) == Keys!getKeyRelationshipForMethod[c]
Groups == [extrinsics : Seq(Extrinsics) \ {<<>>}, keyRelationship : Relationships]

LEMMA ExtrinsicsAre ==
    /\ Extrinsics \subseteq Keys!Nestable
    /\ \A c \in Extrinsics : Key(c) \in Relationships
    /\ \A method \in Keys!BatchMethods, s \in Seq(Extrinsics) :
           /\ Keys!Batch(method, s) \in Keys!Nestable
           /\ Keys!isBatch(Keys!Batch(method, s))
           /\ Keys!Batch(method, s).calls = s
<1>1. Extrinsics \subseteq Keys!Nestable /\ Keys!Nestable = Around(Extrinsics)
    <2>1. MaxNesting \in Nat /\ Keys!Nestable = Keys!Nested[MaxNesting + 1]
        BY CallsAssumption DEF Keys!Nestable
    <2>2. Keys!Nested[MaxNesting + 1] = Around(Keys!Nested[MaxNesting])
        BY <2>1, NestedIs
    <2> QED
        BY <2>1, <2>2 DEF Extrinsics, Around
<1>2. \A c \in Extrinsics : Key(c) \in Relationships
    BY <1>1, KeyIs DEF Key
<1>3. ASSUME NEW method \in Keys!BatchMethods, NEW s \in Seq(Extrinsics)
      PROVE  /\ Keys!Batch(method, s) \in Keys!Nestable
             /\ Keys!isBatch(Keys!Batch(method, s))
             /\ Keys!Batch(method, s).calls = s
    BY <1>1 DEF Around, Keys!Batch, Keys!isBatch
<1> QED
    BY <1>1, <1>2, <1>3

LEMMA LeavesOfEach ==
    ASSUME NEW s \in Seq(Keys!Nestable)
    PROVE  \E m \in Seq(Seq(PlainCalls)) :
               /\ m = Keys!Map(Keys!flattenCalls, s) /\ Len(m) = Len(s)
               /\ \A i \in 1 .. Len(s) : m[i] = Keys!flattenCalls[s[i]]
<1>1. \A d \in Keys!Nestable : Keys!flattenCalls[d] \in Seq(PlainCalls)
    BY LeavesAre
<1>2. PICK m \in Seq(Seq(PlainCalls)) : m = Keys!Map(Keys!flattenCalls, s)
    BY LeavesTyped
<1>3. DOMAIN m = DOMAIN s /\ \A i \in DOMAIN s : m[i] = Keys!flattenCalls[s[i]]
    BY <1>2 DEF Keys!Map
<1>4. DOMAIN s = 1 .. Len(s) /\ DOMAIN m = 1 .. Len(m) /\ Len(s) \in Nat /\ Len(m) \in Nat
    BY LenProperties
<1>5. Len(m) = Len(s)
    BY <1>3, <1>4
<1> QED
    BY <1>2, <1>3, <1>4, <1>5

LEMMA LeavesOfMore ==
    ASSUME NEW s \in Seq(Keys!Nestable), NEW c \in Keys!Nestable
    PROVE  /\ Leaves(<<c>>) = Keys!flattenCalls[c]
           /\ Leaves(Append(s, c)) = Leaves(s) \o Keys!flattenCalls[c]
<1>0. \A d \in Keys!Nestable : Keys!flattenCalls[d] \in Seq(PlainCalls)
    BY LeavesAre
<1>1. Leaves(<<c>>) = Keys!flattenCalls[c]
    <2>1. Keys!Map(Keys!flattenCalls, <<c>>) = <<Keys!flattenCalls[c]>>
        BY DEF Keys!Map
    <2> QED
        BY <1>0, <2>1, FlattenOne DEF Leaves
<1>2. Leaves(Append(s, c)) = Leaves(s) \o Keys!flattenCalls[c]
    <2>0. Len(s) \in Nat
        BY LenProperties
    <2>1. PICK t \in Seq(Keys!Nestable) :
              t = Append(s, c) /\ Len(t) = Len(s) + 1 /\ t[Len(s) + 1] = c
              /\ \A i \in 1 .. Len(s) : t[i] = s[i]
        <3>1. /\ Append(s, c) \in Seq(Keys!Nestable) /\ Len(Append(s, c)) = Len(s) + 1
              /\ Append(s, c)[Len(s) + 1] = c
              /\ \A i \in 1 .. Len(s) : Append(s, c)[i] = s[i]
            BY AppendProperties
        <3> QED
            BY <3>1
    <2>2. PICK ss \in Seq(Seq(PlainCalls)) :
              /\ ss = Keys!Map(Keys!flattenCalls, s) /\ Len(ss) = Len(s)
              /\ \A i \in 1 .. Len(s) : ss[i] = Keys!flattenCalls[s[i]]
        BY LeavesOfEach
    <2>3. PICK tt \in Seq(Seq(PlainCalls)) :
              /\ tt = Keys!Map(Keys!flattenCalls, t) /\ Len(tt) = Len(t)
              /\ \A i \in 1 .. Len(t) : tt[i] = Keys!flattenCalls[t[i]]
        BY LeavesOfEach
    <2>7. Len(tt) = Len(ss) + 1 /\ \A i \in 1 .. Len(ss) : tt[i] = ss[i]
        <3>1. \A i \in 1 .. Len(s) : i \in 1 .. Len(t)
            BY <2>0, <2>1
        <3>2. ASSUME NEW i \in 1 .. Len(s) PROVE tt[i] = ss[i]
            <4>1. tt[i] = Keys!flattenCalls[t[i]] /\ ss[i] = Keys!flattenCalls[s[i]]
                BY <2>2, <2>3, <3>1
            <4> QED
                BY <2>1, <4>1
        <3> QED
            BY <2>1, <2>2, <2>3, <3>2
    <2>8. tt[Len(tt)] = Keys!flattenCalls[c]
        <3>1. Len(s) + 1 \in 1 .. Len(t)
            BY <2>0, <2>1
        <3> QED
            BY <2>1, <2>3, <3>1
    <2>9. Keys!FlattenSeq(tt) = Keys!FlattenSeq(ss) \o Keys!flattenCalls[c]
        BY <2>7, <2>8, FlattenLast
    <2> QED
        BY <2>1, <2>2, <2>3, <2>9 DEF Leaves
<1> QED
    BY <1>1, <1>2

\* A call lengthens the last group, or starts one.
LengthensGroup(to, groups, c) ==
    /\ to \in Seq(Groups) /\ Len(to) = Len(groups)
    /\ \A i \in 1 .. Len(groups) - 1 : to[i] = groups[i]
    /\ groups[Len(groups)].keyRelationship = Key(c)
    /\ to[Len(groups)] = [extrinsics |-> Append(groups[Len(groups)].extrinsics, c),
                          keyRelationship |-> Key(c)]

StartsGroup(to, groups, c) ==
    /\ to \in Seq(Groups) /\ Len(to) = Len(groups) + 1
    /\ \A i \in 1 .. Len(groups) : to[i] = groups[i]
    /\ groups[Len(groups)].keyRelationship # Key(c)
    /\ to[Len(to)] = [extrinsics |-> <<c>>, keyRelationship |-> Key(c)]

LEMMA GroupIs ==
    ASSUME NEW c \in Extrinsics
    PROVE  /\ Keys!Group(c, Key(c)) = [extrinsics |-> <<c>>, keyRelationship |-> Key(c)]
           /\ Keys!Group(c, Key(c)) \in Groups
<1>1. <<c>> \in Seq(Extrinsics) \ {<<>>}
    OBVIOUS
<1> QED
    BY <1>1, ExtrinsicsAre DEF Keys!Group, Groups

LEMMA AddToGroupsIs ==
    ASSUME NEW groups \in Seq(Groups), groups # <<>>, NEW c \in Extrinsics
    PROVE  \/ LengthensGroup(Keys!AddToGroups(groups, c), groups, c)
           \/ StartsGroup(Keys!AddToGroups(groups, c), groups, c)
<1> DEFINE L == Len(groups)
<1>0. /\ L \in Nat /\ L # 0 /\ DOMAIN groups = 1 .. L /\ L \in 1 .. L
      /\ \A i \in 1 .. L : groups[i] \in Groups
    BY EmptySeq, LenProperties, ElementOfSeq
<1>1. PICK g \in Groups : g = groups[L]
    BY <1>0
<1>2. Keys!AddToGroups(groups, c) =
          IF g.keyRelationship = Key(c)
          THEN [groups EXCEPT ![L].extrinsics = Append(@, c)]
          ELSE Append(groups, Keys!Group(c, Key(c)))
    BY <1>1 DEF Keys!AddToGroups, Keys!Last, Key
<1>3. CASE g.keyRelationship = Key(c)
    <2> DEFINE h == [extrinsics |-> Append(g.extrinsics, c), keyRelationship |-> Key(c)]
    <2>1. h \in Groups
        <3>1. g.extrinsics \in Seq(Extrinsics)
            BY DEF Groups
        <3>2. Append(g.extrinsics, c) \in Seq(Extrinsics) /\ Len(Append(g.extrinsics, c)) # 0
            BY <3>1
        <3>3. Append(g.extrinsics, c) # <<>>
            BY <3>2
        <3> QED
            BY <3>2, <3>3, ExtrinsicsAre DEF Groups
    <2>2. h = [g EXCEPT !.extrinsics = Append(@, c)]
        <3>1. g = [extrinsics |-> g.extrinsics, keyRelationship |-> g.keyRelationship]
            BY DEF Groups
        <3> QED
            BY <1>3, <3>1
    <2> HIDE DEF h
    <2>3. PICK to : to = Keys!AddToGroups(groups, c)
        OBVIOUS
    <2>4. to = [i \in 1 .. L |-> IF i = L THEN h ELSE groups[i]]
        BY <1>0, <1>1, <1>2, <1>3, <2>2, <2>3
    <2>5. to \in [1 .. L -> Groups]
        BY <1>0, <2>1, <2>4
    <2>6. to \in Seq(Groups) /\ Len(to) = L
        BY <1>0, <2>5
    <2>7. (\A i \in 1 .. L - 1 : to[i] = groups[i]) /\ to[L] = h
        <3>1. \A i \in 1 .. L - 1 : i \in 1 .. L /\ i # L
            <4>1. \A n \in Nat : \A i \in 1 .. n - 1 : i \in 1 .. n /\ i # n
                OBVIOUS
            <4> QED
                BY <1>0, <4>1
        <3> HIDE DEF L
        <3> QED
            BY <1>0, <2>4, <3>1
    <2> QED
        BY <1>1, <1>3, <2>3, <2>6, <2>7 DEF LengthensGroup, h
<1>4. CASE g.keyRelationship # Key(c)
    <2>1. PICK h \in Groups : h = Keys!Group(c, Key(c))
        BY GroupIs
    <2>2. Keys!AddToGroups(groups, c) = Append(groups, h)
        BY <1>2, <1>4, <2>1
    <2>3. /\ Append(groups, h) \in Seq(Groups) /\ Len(Append(groups, h)) = L + 1
          /\ (\A i \in 1 .. L : Append(groups, h)[i] = groups[i]) /\ Append(groups, h)[L + 1] = h
        BY <2>1, AppendProperties
    <2> QED
        BY <1>1, <1>4, <2>1, <2>2, <2>3, GroupIs DEF StartsGroup
<1> QED
    BY <1>3, <1>4

\* The groups are what they should be for a list of extrinsics: each has calls that
\* need its key, no two in a row the same, and together they have the calls of the
\* list, in its order.
InGroups(groups) == [i \in DOMAIN groups |-> Leaves(groups[i].extrinsics)]

KeysIn(s) == {Key(s[j]) : j \in DOMAIN s}

OneKey(group) == \A j \in DOMAIN group.extrinsics : Key(group.extrinsics[j]) = group.keyRelationship

Fit(groups, s) ==
    /\ groups \in Seq(Groups) /\ groups # <<>>
    /\ \A i \in 1 .. Len(groups) : OneKey(groups[i]) /\ groups[i].keyRelationship \in KeysIn(s)
    /\ \A i \in 1 .. Len(groups) - 1 : groups[i].keyRelationship # groups[i + 1].keyRelationship
    /\ Keys!FlattenSeq(InGroups(groups)) = Leaves(s)

LEMMA GroupsOf ==
    ASSUME NEW groups \in Seq(Groups)
    PROVE  /\ Len(groups) \in Nat /\ DOMAIN groups = 1 .. Len(groups)
           /\ \A i \in 1 .. Len(groups) :
                  /\ groups[i] \in Groups
                  /\ groups[i].extrinsics \in Seq(Extrinsics)
                  /\ groups[i].extrinsics \in Seq(Keys!Nestable)
                  /\ groups[i].extrinsics # <<>>
           /\ \E m \in Seq(Seq(PlainCalls)) :
                  /\ m = InGroups(groups) /\ Len(m) = Len(groups)
                  /\ \A i \in 1 .. Len(groups) : m[i] = Leaves(groups[i].extrinsics)
<1>1. /\ Len(groups) \in Nat /\ DOMAIN groups = 1 .. Len(groups)
      /\ \A i \in 1 .. Len(groups) : groups[i] \in Groups
    BY LenProperties, ElementOfSeq
<1>2. ASSUME NEW i \in 1 .. Len(groups)
      PROVE  /\ groups[i].extrinsics \in Seq(Extrinsics)
             /\ groups[i].extrinsics \in Seq(Keys!Nestable)
             /\ groups[i].extrinsics # <<>>
    <2>1. groups[i].extrinsics \in Seq(Extrinsics) /\ groups[i].extrinsics # <<>>
        BY <1>1 DEF Groups
    <2>2. groups[i].extrinsics \in Seq(Keys!Nestable)
        BY <2>1, ExtrinsicsAre, SeqMonotonic
    <2> QED
        BY <2>1, <2>2
<1>3. PICK m : m = InGroups(groups)
    OBVIOUS
<1>4. m = [i \in 1 .. Len(groups) |-> Leaves(groups[i].extrinsics)]
    BY <1>1, <1>3 DEF InGroups
<1>5. \A i \in 1 .. Len(groups) : Leaves(groups[i].extrinsics) \in Seq(PlainCalls)
    BY <1>2, LeavesTyped
<1>6. m \in [1 .. Len(groups) -> Seq(PlainCalls)]
    BY <1>4, <1>5
<1>7. m \in Seq(Seq(PlainCalls)) /\ Len(m) = Len(groups)
    BY <1>1, <1>6
<1> QED
    BY <1>1, <1>2, <1>3, <1>4, <1>7

LEMMA KeysInMore ==
    ASSUME NEW s \in Seq(Extrinsics), NEW c \in Extrinsics
    PROVE  Key(c) \in KeysIn(<<c>>) /\ KeysIn(Append(s, c)) = KeysIn(s) \cup {Key(c)}
<1>1. 1 \in DOMAIN <<c>> /\ <<c>>[1] = c
    OBVIOUS
<1>2. DOMAIN s = 1 .. Len(s) /\ DOMAIN Append(s, c) = 1 .. Len(s) + 1 /\ Len(s) \in Nat
      /\ Append(s, c)[Len(s) + 1] = c /\ \A i \in 1 .. Len(s) : Append(s, c)[i] = s[i]
    BY AppendProperties, LenProperties
<1>3. 1 .. Len(s) + 1 = 1 .. Len(s) \cup {Len(s) + 1}
    BY <1>2
<1> QED
    BY <1>1, <1>2, <1>3 DEF KeysIn

LEMMA FirstGroup ==
    ASSUME NEW c \in Extrinsics
    PROVE  Fit(<<Keys!Group(c, Key(c))>>, <<c>>)
<1>1. PICK g \in Groups :
          g = Keys!Group(c, Key(c)) /\ g = [extrinsics |-> <<c>>, keyRelationship |-> Key(c)]
    BY GroupIs
<1>2. <<g>> \in Seq(Groups) /\ <<g>> # <<>> /\ Len(<<g>>) = 1 /\ <<g>>[1] = g
    OBVIOUS
<1>3. OneKey(g)
    BY <1>1 DEF OneKey
<1>4. Keys!FlattenSeq(InGroups(<<g>>)) = Leaves(<<c>>)
    <2>1. InGroups(<<g>>) = <<Leaves(<<c>>)>>
        BY <1>1 DEF InGroups
    <2>2. <<c>> \in Seq(Keys!Nestable)
        BY ExtrinsicsAre
    <2> QED
        BY <2>1, <2>2, LeavesTyped, FlattenOne
<1>6. g.keyRelationship \in KeysIn(<<c>>)
    BY <1>1, KeysInMore, EmptySeq
<1>5. Fit(<<g>>, <<c>>)
    BY <1>2, <1>3, <1>4, <1>6 DEF Fit
<1> QED
    BY <1>1, <1>5

LEMMA NextGroup ==
    ASSUME NEW groups, NEW s \in Seq(Extrinsics), Fit(groups, s), NEW c \in Extrinsics
    PROVE  Fit(Keys!AddToGroups(groups, c), Append(s, c))
<1>1. PICK to : to = Keys!AddToGroups(groups, c)
    OBVIOUS
<1>2. LengthensGroup(to, groups, c) \/ StartsGroup(to, groups, c)
    BY <1>1, AddToGroupsIs DEF Fit
<1>3. /\ c \in Keys!Nestable /\ s \in Seq(Keys!Nestable)
      /\ Leaves(Append(s, c)) = Leaves(s) \o Keys!flattenCalls[c]
      /\ Keys!flattenCalls[c] \in Seq(PlainCalls)
    <2>1. c \in Keys!Nestable /\ s \in Seq(Keys!Nestable)
        BY ExtrinsicsAre, SeqMonotonic
    <2> QED
        BY <2>1, LeavesOfMore, LeavesAre
<1> DEFINE L == Len(groups)
<1>4. /\ L \in Nat /\ L # 0 /\ groups \in Seq(Groups) /\ to \in Seq(Groups) /\ to # <<>>
      /\ \A i \in 1 .. L : groups[i].extrinsics \in Seq(Keys!Nestable)
    <2>1. groups \in Seq(Groups) /\ groups # <<>> /\ L # 0 /\ L \in Nat
        BY EmptySeq DEF Fit
    <2>2. to \in Seq(Groups)
        BY <1>2 DEF LengthensGroup, StartsGroup
    <2>3. Len(to) # 0
        BY <1>2, <2>1 DEF LengthensGroup, StartsGroup
    <2> QED
        BY <2>1, <2>2, <2>3, GroupsOf
<1>5. PICK ss \in Seq(Seq(PlainCalls)) :
          /\ ss = InGroups(groups) /\ Len(ss) = L
          /\ \A i \in 1 .. L : ss[i] = Leaves(groups[i].extrinsics)
    BY <1>4, GroupsOf
<1>6. PICK tt \in Seq(Seq(PlainCalls)) :
          /\ tt = InGroups(to) /\ Len(tt) = Len(to)
          /\ \A i \in 1 .. Len(to) : tt[i] = Leaves(to[i].extrinsics)
    BY <1>4, GroupsOf
<1>7. Keys!FlattenSeq(ss) = Leaves(s)
    BY <1>5 DEF Fit
<1>b. /\ KeysIn(s) \subseteq KeysIn(Append(s, c)) /\ Key(c) \in KeysIn(Append(s, c))
      /\ \A i \in 1 .. L : groups[i].keyRelationship \in KeysIn(s)
    BY KeysInMore DEF Fit
<1>8. CASE LengthensGroup(to, groups, c)
    <2> DEFINE last == groups[L].extrinsics
    <2>1. /\ Len(to) = L /\ \A i \in 1 .. L - 1 : to[i] = groups[i]
          /\ groups[L].keyRelationship = Key(c)
          /\ to[L] = [extrinsics |-> Append(last, c), keyRelationship |-> Key(c)]
        BY <1>8 DEF LengthensGroup
    <2> HIDE DEF L
    <2>2. last \in Seq(Keys!Nestable) /\ L \in 1 .. L
        BY <1>4
    <2>3. OneKey(to[L])
        <3>1. OneKey(groups[L])
            BY <2>2 DEF Fit, L
        <3>2. DOMAIN last = 1 .. Len(last) /\ DOMAIN Append(last, c) = 1 .. Len(last) + 1
              /\ Append(last, c)[Len(last) + 1] = c /\ Len(last) \in Nat
              /\ \A i \in 1 .. Len(last) : Append(last, c)[i] = last[i]
            BY <1>3, <2>2, AppendProperties, LenProperties
        <3>3. \A j \in 1 .. Len(last) : Key(last[j]) = Key(c)
            BY <2>1, <3>1, <3>2 DEF OneKey
        <3> HIDE DEF last
        <3>4. \A j \in 1 .. Len(last) + 1 : Key(Append(last, c)[j]) = Key(c)
            BY <3>2, <3>3
        <3> QED
            BY <2>1, <3>2, <3>4 DEF OneKey
    <2>4. ASSUME NEW i \in 1 .. L
          PROVE  OneKey(to[i]) /\ to[i].keyRelationship \in KeysIn(Append(s, c))
        <3>1. i = L \/ i \in 1 .. L - 1
            BY <1>4
        <3>2. CASE i = L
            <4>1. to[L].keyRelationship = Key(c)
                BY <2>1
            <4> QED
                BY <1>b, <2>3, <3>2, <4>1
        <3>3. CASE i \in 1 .. L - 1
            BY <1>b, <2>1, <3>3 DEF Fit, L
        <3> QED
            BY <3>1, <3>2, <3>3
    <2>5. ASSUME NEW i \in 1 .. L - 1 PROVE to[i].keyRelationship # to[i + 1].keyRelationship
        <3>1. groups[i].keyRelationship # groups[i + 1].keyRelationship
            BY DEF Fit, L
        <3>2. to[i] = groups[i]
            BY <2>1
        <3>3. CASE i + 1 = L
            BY <2>1, <3>1, <3>2, <3>3
        <3>4. CASE i + 1 # L
            <4>1. i + 1 \in 1 .. L - 1
                BY <1>4, <3>4
            <4> QED
                BY <2>1, <3>1, <3>2, <4>1
        <3> QED
            BY <3>3, <3>4
    <2>6. Keys!FlattenSeq(tt) = Keys!FlattenSeq(ss) \o Keys!flattenCalls[c]
        <3>1. tt[L] = ss[L] \o Keys!flattenCalls[c]
            <4>1. tt[L] = Leaves(Append(last, c)) /\ ss[L] = Leaves(last)
                <5>1. tt[L] = Leaves(to[L].extrinsics)
                    BY <1>6, <2>1, <2>2
                <5>2. to[L].extrinsics = Append(last, c)
                    BY <2>1
                <5> QED
                    BY <1>5, <2>2, <5>1, <5>2
            <4> QED
                BY <1>3, <2>2, <4>1, LeavesOfMore
        <3>2. \A i \in 1 .. L - 1 : tt[i] = ss[i]
            <4>1. \A i \in 1 .. L - 1 : i \in 1 .. L
                BY <1>4
            <4> QED
                BY <1>5, <1>6, <2>1, <4>1
        <3>3. Len(ss) = L /\ Len(tt) = L /\ ss # <<>>
            BY <1>4, <1>5, <1>6, <2>1, EmptySeq
        <3> HIDE DEF last
        <3> QED
            BY <1>3, <3>1, <3>2, <3>3, FlattenLonger
    <2> QED
        BY <1>1, <1>3, <1>4, <1>6, <1>7, <2>1, <2>4, <2>5, <2>6 DEF Fit
<1>9. CASE StartsGroup(to, groups, c)
    <2>1. /\ Len(to) = L + 1 /\ \A i \in 1 .. L : to[i] = groups[i]
          /\ groups[L].keyRelationship # Key(c)
          /\ to[L + 1] = [extrinsics |-> <<c>>, keyRelationship |-> Key(c)]
        BY <1>9 DEF StartsGroup
    <2> HIDE DEF L
    <2>3. OneKey(to[L + 1])
        BY <2>1 DEF OneKey
    <2>4. ASSUME NEW i \in 1 .. L + 1
          PROVE  OneKey(to[i]) /\ to[i].keyRelationship \in KeysIn(Append(s, c))
        <3>1. i = L + 1 \/ i \in 1 .. L
            BY <1>4
        <3>2. CASE i = L + 1
            BY <1>b, <2>1, <2>3, <3>2
        <3>3. CASE i \in 1 .. L
            BY <1>b, <2>1, <3>3 DEF Fit, L
        <3> QED
            BY <3>1, <3>2, <3>3
    <2>5. ASSUME NEW i \in 1 .. (L + 1) - 1 PROVE to[i].keyRelationship # to[i + 1].keyRelationship
        <3>0. i \in 1 .. L
            BY <1>4
        <3>1. to[i] = groups[i]
            BY <2>1, <3>0
        <3>2. CASE i = L
            BY <2>1, <3>1, <3>2
        <3>3. CASE i # L
            <4>1. i + 1 \in 1 .. L /\ i \in 1 .. L - 1
                BY <1>4, <3>3
            <4>2. groups[i].keyRelationship # groups[i + 1].keyRelationship
                BY <4>1 DEF Fit, L
            <4> QED
                BY <2>1, <3>1, <4>1, <4>2
        <3> QED
            BY <3>2, <3>3
    <2>6. Keys!FlattenSeq(tt) = Keys!FlattenSeq(ss) \o Keys!flattenCalls[c]
        <3>0. L + 1 \in 1 .. L + 1 /\ \A i \in 1 .. L : i \in 1 .. L + 1
            BY <1>4
        <3>1. tt[L + 1] = Keys!flattenCalls[c]
            <4>1. tt[L + 1] = Leaves(<<c>>)
                <5>1. tt[L + 1] = Leaves(to[L + 1].extrinsics)
                    BY <1>6, <2>1, <3>0
                <5>2. to[L + 1].extrinsics = <<c>>
                    BY <2>1
                <5> QED
                    BY <5>1, <5>2
            <4> QED
                BY <1>3, <4>1, LeavesOfMore
        <3>2. \A i \in 1 .. L : tt[i] = ss[i]
            BY <1>5, <1>6, <2>1, <3>0
        <3>3. Len(ss) = L /\ Len(tt) = L + 1
            BY <1>5, <1>6, <2>1
        <3> QED
            BY <3>1, <3>2, <3>3, FlattenLast
    <2> QED
        BY <1>1, <1>3, <1>4, <1>6, <1>7, <2>1, <2>4, <2>5, <2>6 DEF Fit
<1> QED
    BY <1>2, <1>8, <1>9

\* The first calls of a list.
First(s, n) == [i \in 1 .. n |-> s[i]]

LEMMA FirstAre ==
    ASSUME NEW s \in Seq(Extrinsics)
    PROVE  /\ First(s, Len(s)) = s
           /\ \A n \in 1 .. Len(s) : First(s, n) \in Seq(Extrinsics)
           /\ s # <<>> => First(s, 1) = <<s[1]>>
           /\ \A n \in 1 .. Len(s) :
                  n < Len(s) => First(s, n + 1) = Append(First(s, n), s[n + 1])
<1>0. /\ Len(s) \in Nat /\ DOMAIN s = 1 .. Len(s)
      /\ \A i \in 1 .. Len(s) : s[i] \in Extrinsics
    BY LenProperties, ElementOfSeq
<1>1. First(s, Len(s)) = s
    BY <1>0 DEF First
<1>2. ASSUME NEW n \in 1 .. Len(s) PROVE First(s, n) \in Seq(Extrinsics) /\ Len(First(s, n)) = n
    <2>1. n \in Nat /\ \A i \in 1 .. n : s[i] \in Extrinsics
        BY <1>0
    <2> QED
        BY <2>1 DEF First
<1>3. ASSUME s # <<>> PROVE First(s, 1) = <<s[1]>>
    <2>1. 1 .. 1 = {1}
        OBVIOUS
    <2>2. DOMAIN <<s[1]>> = 1 .. 1 /\ <<s[1]>>[1] = s[1]
        OBVIOUS
    <2> QED
        BY <2>1, <2>2 DEF First
<1>4. ASSUME NEW n \in 1 .. Len(s), n < Len(s)
      PROVE  First(s, n + 1) = Append(First(s, n), s[n + 1])
    <2>1. n \in Nat /\ n + 1 \in 1 .. Len(s)
        BY <1>0, <1>4
    <2>2. PICK a \in Seq(Extrinsics) : a = First(s, n) /\ Len(a) = n /\ \A i \in 1 .. n : a[i] = s[i]
        BY <1>2 DEF First
    <2>3. /\ Append(a, s[n + 1]) \in Seq(Extrinsics) /\ Len(Append(a, s[n + 1])) = n + 1
          /\ \A i \in 1 .. n : Append(a, s[n + 1])[i] = s[i]
          /\ Append(a, s[n + 1])[n + 1] = s[n + 1]
        BY <1>0, <2>1, <2>2, AppendProperties
    <2>4. PICK b \in Seq(Extrinsics) :
              b = First(s, n + 1) /\ Len(b) = n + 1 /\ \A i \in 1 .. n + 1 : b[i] = s[i]
        BY <1>2, <2>1 DEF First
    <2>5. ASSUME NEW i \in 1 .. n + 1 PROVE Append(a, s[n + 1])[i] = b[i]
        <3>1. i = n + 1 \/ i \in 1 .. n
            BY <2>1
        <3> QED
            BY <2>3, <2>4, <3>1
    <2>6. b = Append(a, s[n + 1])
        BY <2>3, <2>4, <2>5, SeqEqual
    <2> QED
        BY <2>2, <2>4, <2>6
<1> QED
    BY <1>1, <1>2, <1>3, <1>4

\* The groups of a list fit it, unless a call of it has no key.
LEMMA GroupsFit ==
    ASSUME NEW s \in Seq(Extrinsics), s # <<>>
    PROVE  IF \E i \in 1 .. Len(s) : Key(s[i]) \in {Keys!Undefined, Keys!Throws}
           THEN Keys!groupExtrinsicsByKeyRelationship(s) = Keys!Nothing
           ELSE Fit(Keys!groupExtrinsicsByKeyRelationship(s), s)
<1> DEFINE L == Len(s)
           S == Seq(Groups) \ {<<>>}
           base == <<Keys!Group(s[1], Key(s[1]))>>
           item == [n \in Nat |-> IF n \in 1 .. L THEN s[n] ELSE s[1]]
           step == [p \in Nat \X S |-> Keys!AddToGroups(p[2], item[p[1] + 1])]
           Is(f) == f = [n \in 1 .. L |->
                            IF n = 1 THEN <<Keys!Group(s[1], Keys!getKeyRelationshipForMethod[s[1]])>>
                            ELSE Keys!AddToGroups(f[n - 1], s[n])]
           groups == CHOOSE f : Is(f)
           none == Keys!ToSet(Keys!Map(Keys!getKeyRelationshipForMethod, s))
                       \cap {Keys!Undefined, Keys!Throws} # {}
<1>0. /\ L \in Nat /\ L # 0 /\ DOMAIN s = 1 .. L /\ 1 \in 1 .. L /\ L \in 1 .. L
      /\ \A i \in 1 .. L : s[i] \in Extrinsics
    BY EmptySeq, LenProperties, ElementOfSeq
<1>1. Keys!groupExtrinsicsByKeyRelationship(s) = IF none THEN Keys!Nothing ELSE groups[L]
    BY DEF Keys!groupExtrinsicsByKeyRelationship
<1>2. none <=> \E i \in 1 .. L : Key(s[i]) \in {Keys!Undefined, Keys!Throws}
    BY <1>0 DEF Keys!ToSet, Keys!Map, Key
<1> HIDE DEF none, L
<1>3. ASSUME NEW gs \in S, NEW c \in Extrinsics PROVE Keys!AddToGroups(gs, c) \in S
    <2>1. PICK to : to = Keys!AddToGroups(gs, c)
        OBVIOUS
    <2>2. LengthensGroup(to, gs, c) \/ StartsGroup(to, gs, c)
        BY <2>1, AddToGroupsIs
    <2>3. Len(gs) \in Nat /\ Len(gs) # 0
        BY EmptySeq
    <2>4. to \in Seq(Groups) /\ Len(to) # 0
        BY <2>2, <2>3 DEF LengthensGroup, StartsGroup
    <2> QED
        BY <2>1, <2>4
<1>4. \A n \in Nat : item[n] \in Extrinsics
    BY <1>0
<1>5. \A n \in 1 .. L : item[n] = s[n]
    BY <1>0
<1>6. step \in [Nat \X S -> S]
    <2>1. ASSUME NEW p \in Nat \X S PROVE Keys!AddToGroups(p[2], item[p[1] + 1]) \in S
        <3>1. p[2] \in S /\ p[1] + 1 \in Nat
            OBVIOUS
        <3> HIDE DEF item, S
        <3>2. item[p[1] + 1] \in Extrinsics
            BY <1>4, <3>1
        <3> QED
            BY <1>3, <3>1, <3>2
    <2> HIDE DEF S, item
    <2> QED
        BY <2>1
<1>7. \A n \in Nat, x \in S : step[<<n, x>>] = Keys!AddToGroups(x, item[n + 1])
    OBVIOUS
<1>8. base \in S
    <2>1. Keys!Group(s[1], Key(s[1])) \in Groups
        BY <1>0, GroupIs
    <2> QED
        BY <2>1
<1> HIDE DEF step, item, S, base
<1>9. PICK f \in [1 .. L -> S] : Builds(f, L, base, step)
    BY <1>0, <1>6, <1>8, RecursionOnPositions
<1>10. ASSUME NEW n \in 1 .. L, n < L PROVE f[n + 1] = Keys!AddToGroups(f[n], s[n + 1])
    <2>1. n \in Nat /\ n + 1 \in 1 .. L /\ f[n] \in S
        BY <1>0, <1>9, <1>10
    <2>2. f[n + 1] = step[<<n, f[n]>>]
        BY <1>9, <1>10 DEF Builds
    <2> QED
        BY <1>5, <1>7, <2>1, <2>2
<1>11. Is(f)
    <2>1. ASSUME NEW n \in 1 .. L, n # 1 PROVE f[n] = Keys!AddToGroups(f[n - 1], s[n])
        <3>1. n - 1 \in 1 .. L /\ n - 1 < L /\ (n - 1) + 1 = n
            BY <1>0, <2>1
        <3>2. f[(n - 1) + 1] = Keys!AddToGroups(f[n - 1], s[(n - 1) + 1])
            BY <1>10, <3>1
        <3> QED
            BY <3>1, <3>2
    <2>2. f[1] = <<Keys!Group(s[1], Keys!getKeyRelationshipForMethod[s[1]])>>
        BY <1>9 DEF Builds, base, Key
    <2> QED
        BY <1>9, <2>1, <2>2
<1>12. Is(groups)
    <2> HIDE DEF Is
    <2> QED
        BY <1>11
<1> HIDE DEF groups
<1>13. groups[1] = base
    BY <1>0, <1>12 DEF base, Key
<1>14. ASSUME NEW n \in 1 .. L, n < L PROVE groups[n + 1] = Keys!AddToGroups(groups[n], s[n + 1])
    <2>1. n + 1 \in 1 .. L /\ n + 1 # 1 /\ (n + 1) - 1 = n
        BY <1>0, <1>14
    <2> QED
        BY <1>12, <2>1
<1> DEFINE P == {n \in Nat : n + 1 <= L => Fit(groups[n + 1], First(s, n + 1))}
<1>15. 0 \in P
    <2>1. Fit(groups[1], First(s, 1))
        BY <1>0, <1>13, FirstGroup, FirstAre DEF base
    <2>2. Fit(groups[0 + 1], First(s, 0 + 1))
        BY <2>1
    <2> QED
        BY <2>2
<1>16. ASSUME NEW n \in P PROVE n + 1 \in P
    <2>1. SUFFICES ASSUME (n + 1) + 1 <= L PROVE Fit(groups[(n + 1) + 1], First(s, (n + 1) + 1))
        OBVIOUS
    <2>2. PICK m \in Nat : m = n + 1
        OBVIOUS
    <2>3. m \in 1 .. L /\ m < L /\ m + 1 \in 1 .. L
        BY <1>0, <2>1, <2>2
    <2>4. Fit(groups[m], First(s, m))
        BY <2>2, <2>3
    <2>5. groups[m + 1] = Keys!AddToGroups(groups[m], s[m + 1])
        BY <1>14, <2>3
    <2>6. First(s, m + 1) = Append(First(s, m), s[m + 1]) /\ First(s, m) \in Seq(Extrinsics)
        BY <2>3, FirstAre DEF L
    <2>7. Fit(groups[m + 1], First(s, m + 1))
        BY <1>0, <2>3, <2>4, <2>5, <2>6, NextGroup
    <2> QED
        BY <2>2, <2>7
<1>17. P = Nat
    <2>1. P \subseteq Nat
        OBVIOUS
    <2> HIDE DEF P
    <2> QED
        BY <1>15, <1>16, <2>1, Induction
<1>18. Fit(groups[L], s)
    <2>1. L - 1 \in Nat /\ (L - 1) + 1 = L /\ L <= L
        BY <1>0
    <2>2. L - 1 \in P
        BY <1>17, <2>1
    <2>3. Fit(groups[L], First(s, L))
        BY <2>1, <2>2
    <2> QED
        BY <2>3, FirstAre DEF L
<1> QED
    BY <1>1, <1>2, <1>18 DEF L

\* A call without a key cannot be signed.
LEMMA CallWithoutKey ==
    ASSUME NEW c \in Keys!Nestable, Key(c) \in {Keys!Undefined, Keys!Throws}
    PROVE  CannotBeSigned(c)
<1>1. Sound(c)
    BY KeyOfCall
<1>2. CASE Key(c) = Keys!Throws
    BY <1>1, <1>2 DEF Sound, Key, CannotBeSigned
<1>3. CASE Key(c) = Keys!Undefined
    <2> SUFFICES ASSUME Cardinality(KeysOf(c)) = 1, Keys!Undefined \notin KeysOf(c),
                        Keys!EmptyBatches[c] = {}
                 PROVE  FALSE
        BY DEF CannotBeSigned
    <2>1. KeysOf(c) \subseteq Relationships
        <3>1. Keys!flattenCalls[c] \in Seq(PlainCalls)
            BY LeavesAre
        <3>2. ToSet(Keys!flattenCalls[c]) \subseteq PlainCalls
            BY <3>1, LenProperties, ElementOfSeq DEF ToSet
        <3> QED
            BY <3>2, MethodMappingIs DEF KeysOf
    <2>2. IsFiniteSet(KeysOf(c))
        <3>1. Relationships = {"assertionMethod"} \cup ({"authentication"} \cup ({"capabilityDelegation"}
                                  \cup ({Keys!Undefined} \cup {Keys!Throws})))
            BY DEF Relationships
        <3>2. IsFiniteSet(Relationships)
            BY <3>1, FS_Singleton, FS_Union
        <3> QED
            BY <2>1, <3>2, FS_Subset
    <2>3. PICK x : KeysOf(c) = {x}
        BY <2>2, FS_Singleton
    <2>4. x \in Relationships \ {Keys!Undefined}
        BY <2>1, <2>3
    <2>5. Key(c) = x
        BY <1>1, <2>3, <2>4 DEF Sound, Key
    <2> QED
        BY <1>3, <2>4, <2>5
<1> QED
    BY <1>2, <1>3

\* One that has one needs no other.
LEMMA CallWithKey ==
    ASSUME NEW c \in Keys!Nestable, Key(c) \notin {Keys!Undefined, Keys!Throws}
    PROVE  KeysOf(c) = {Key(c)}
<1>1. Sound(c) /\ Key(c) \in Relationships \ {Keys!Undefined} /\ Key(c) # Keys!Throws
    BY KeyOfCall, KeyIs DEF Key
<1>2. Keys!EmptyBatches[c] = {}
    BY <1>1 DEF Sound, Key
<1> QED
    BY <1>1, <1>2 DEF Sound, Key

\* What is signed for a group: its call, or a batch of its calls.
CallOf(group, method) ==
    IF Len(group.extrinsics) = 1 THEN Head(group.extrinsics)
    ELSE Keys!Batch(method, group.extrinsics)

LEMMA GroupIsSigned ==
    ASSUME NEW method \in Keys!BatchMethods, NEW group \in Groups, OneKey(group),
           group.keyRelationship \notin {Keys!Undefined, Keys!Throws}
    PROVE  /\ CallOf(group, method) \in Keys!Nestable
           /\ Keys!flattenCalls[CallOf(group, method)] = Leaves(group.extrinsics)
           /\ KeysOf(CallOf(group, method)) = {group.keyRelationship}
<1>0. PICK s \in Seq(Extrinsics) : s = group.extrinsics
    BY DEF Groups
<1>1. PICK k \in Relationships : k = group.keyRelationship
    BY DEF Groups
<1>2. /\ s # <<>> /\ Len(s) \in Nat \ {0} /\ DOMAIN s = 1 .. Len(s)
      /\ \A i \in 1 .. Len(s) : s[i] \in Extrinsics /\ s[i] \in Keys!Nestable /\ Key(s[i]) = k
    <2>1. s # <<>>
        BY <1>0 DEF Groups
    <2>2. /\ Len(s) \in Nat \ {0} /\ DOMAIN s = 1 .. Len(s)
          /\ \A i \in 1 .. Len(s) : s[i] \in Extrinsics /\ s[i] \in Keys!Nestable
        BY <2>1, EmptySeq, LenProperties, ElementOfSeq, ExtrinsicsAre
    <2>3. \A i \in 1 .. Len(s) : Key(s[i]) = k
        BY <1>0, <1>1, <2>2 DEF OneKey
    <2> QED
        BY <2>1, <2>2, <2>3
<1>3. s \in Seq(Keys!Nestable)
    BY ExtrinsicsAre, SeqMonotonic
<1>4. k \notin {Keys!Undefined, Keys!Throws}
    BY <1>1
<1>5. CASE Len(s) = 1
    <2>1. PICK c \in Keys!Nestable : c = s[1] /\ Key(c) = k
        BY <1>2
    <2>2. s = <<c>> /\ Head(s) = c
        BY <1>2, <1>5, <2>1
    <2>3. CallOf(group, method) = c
        BY <1>0, <1>5, <2>2 DEF CallOf
    <2>4. KeysOf(c) = {k}
        BY <1>4, <2>1, CallWithKey
    <2>5. Leaves(s) = Keys!flattenCalls[c]
        BY <1>3, <2>2, LeavesOfMore
    <2> QED
        BY <1>0, <1>1, <2>3, <2>4, <2>5
<1>6. CASE Len(s) # 1
    <2>1. PICK c \in Keys!Nestable : c = Keys!Batch(method, s) /\ Keys!isBatch(c) /\ c.calls = s
        BY ExtrinsicsAre
    <2>2. CallOf(group, method) = c
        BY <1>0, <1>6, <2>1 DEF CallOf
    <2>3. Keys!flattenCalls[c] = Leaves(s)
        BY <2>1, LeavesAre
    <2>4. PICK keys : keys = Keys!Map(Keys!getKeyRelationshipForMethod, s)
        OBVIOUS
    <2>5. keys \in Seq(Relationships)
        <3>1. \A d \in Keys!Nestable : Keys!getKeyRelationshipForMethod[d] \in Relationships
            BY KeyIs
        <3>2. Keys!Map(Keys!getKeyRelationshipForMethod, s) \in Seq(Relationships)
            BY <1>3, <3>1, MapIs
        <3> QED
            BY <2>4, <3>2
    <2>6. DOMAIN keys = 1 .. Len(s) /\ \A i \in 1 .. Len(s) : keys[i] = k
        BY <1>2, <2>4 DEF Keys!Map, Key
    <2>7. keys # <<>> /\ Keys!Throws \notin ToSet(keys)
        <3>1. 1 \in DOMAIN keys
            BY <1>2, <2>6
        <3>2. keys # <<>>
            BY <3>1
        <3>3. Keys!Throws \notin ToSet(keys)
            BY <1>4, <2>6 DEF ToSet
        <3> QED
            BY <3>2, <3>3
    <2>8. Keys!Common(keys) = k
        BY <1>4, <2>5, <2>6, <2>7, CommonIs
    <2>9. Key(c) = k
        BY <2>1, <2>4, <2>8, KeyIs DEF Key
    <2>10. KeysOf(c) = {k}
        BY <1>4, <2>9, CallWithKey
    <2> QED
        BY <1>0, <1>1, <2>2, <2>3, <2>10
<1> QED
    BY <1>5, <1>6

\* What authorizeBatch makes of groups that fit.
Signs(signed, s) ==
    /\ Leaves([i \in DOMAIN signed |-> signed[i].call]) = Leaves(s)
    /\ \A operation \in ToSet(signed) : KeysOf(operation.call) = {operation.keyRelationship}
    /\ \A i \in 1 .. Len(signed) - 1 :
           signed[i].keyRelationship # signed[i + 1].keyRelationship

LEMMA GroupsAreSigned ==
    ASSUME NEW method \in Keys!BatchMethods, NEW s \in Seq(Extrinsics), NEW groups, Fit(groups, s),
           \A i \in DOMAIN s : Key(s[i]) \notin {Keys!Undefined, Keys!Throws}
    PROVE  Signs([i \in DOMAIN groups |-> [call |-> CallOf(groups[i], method),
                                           keyRelationship |-> groups[i].keyRelationship]], s)
<1> DEFINE L == Len(groups)
<1>0. /\ groups \in Seq(Groups) /\ L \in Nat /\ DOMAIN groups = 1 .. L
      /\ \A i \in 1 .. L : groups[i] \in Groups /\ OneKey(groups[i])
      /\ \A i \in 1 .. L : groups[i].keyRelationship \notin {Keys!Undefined, Keys!Throws}
    <2>1. groups \in Seq(Groups)
        BY DEF Fit
    <2>2. \A i \in 1 .. L : OneKey(groups[i]) /\ groups[i].keyRelationship \in KeysIn(s)
        BY DEF Fit
    <2>3. \A i \in 1 .. L : groups[i].keyRelationship \notin {Keys!Undefined, Keys!Throws}
        BY <2>2 DEF KeysIn
    <2> QED
        BY <2>1, <2>2, <2>3, GroupsOf
<1>1. PICK signed : signed = [i \in DOMAIN groups |-> [call |-> CallOf(groups[i], method),
                                                     keyRelationship |-> groups[i].keyRelationship]]
    OBVIOUS
<1>2. /\ DOMAIN signed = 1 .. L /\ Len(signed) = L
      /\ \A i \in 1 .. L : /\ signed[i].call = CallOf(groups[i], method)
                           /\ signed[i].keyRelationship = groups[i].keyRelationship
    BY <1>0, <1>1
<1>3. \A i \in 1 .. L : /\ Keys!flattenCalls[signed[i].call] = Leaves(groups[i].extrinsics)
                        /\ KeysOf(signed[i].call) = {signed[i].keyRelationship}
    BY <1>0, <1>2, GroupIsSigned
<1> HIDE DEF L
<1>4. Leaves([i \in DOMAIN signed |-> signed[i].call]) = Leaves(s)
    <2>1. Keys!Map(Keys!flattenCalls, [i \in DOMAIN signed |-> signed[i].call]) = InGroups(groups)
        BY <1>0, <1>2, <1>3 DEF Keys!Map, InGroups
    <2> QED
        BY <2>1 DEF Leaves, Fit
<1>5. \A operation \in ToSet(signed) : KeysOf(operation.call) = {operation.keyRelationship}
    BY <1>2, <1>3 DEF ToSet
<1>6. ASSUME NEW i \in 1 .. L - 1 PROVE signed[i].keyRelationship # signed[i + 1].keyRelationship
    <2>1. i \in 1 .. L /\ i + 1 \in 1 .. L
        BY <1>0
    <2> QED
        BY <1>2, <2>1 DEF Fit, L
<1> QED
    BY <1>1, <1>2, <1>4, <1>5, <1>6 DEF Signs

\* What authorizeBatch returns: operations that sign the list, or nothing.
LEMMA BatchIsSigned ==
    ASSUME NEW s \in Seq(Extrinsics), NEW method \in Keys!BatchMethods
    PROVE  IF Keys!authorizeBatch(s, method) = Keys!Nothing
           THEN s = <<>> \/ \E call \in ToSet(s) : CannotBeSigned(call)
           ELSE Signs(Keys!authorizeBatch(s, method), s)
<1> DEFINE none == \E i \in 1 .. Len(s) : Key(s[i]) \in {Keys!Undefined, Keys!Throws}
<1>0. /\ Len(s) \in Nat /\ DOMAIN s = 1 .. Len(s) /\ s \in Seq(Keys!Nestable)
      /\ \A i \in 1 .. Len(s) : s[i] \in Extrinsics /\ s[i] \in Keys!Nestable
    BY LenProperties, ElementOfSeq, ExtrinsicsAre, SeqMonotonic
<1>1. none => \E call \in ToSet(s) : CannotBeSigned(call)
    BY <1>0, CallWithoutKey DEF ToSet
<1>2. CASE s = <<>>
    BY <1>2 DEF Keys!authorizeBatch
<1>3. CASE s # <<>> /\ Len(s) = 1
    <2>1. PICK c \in Keys!Nestable : c = s[1]
        BY <1>0, <1>3
    <2>2. s = <<c>>
        BY <1>0, <1>3, <2>1
    <2>3. Keys!authorizeBatch(s, method) =
              IF Key(c) \in {Keys!Undefined, Keys!Throws} THEN Keys!Nothing
              ELSE <<[call |-> c, keyRelationship |-> Key(c)]>>
        BY <1>3, <2>1 DEF Keys!authorizeBatch, Key
    <2>4. none <=> Key(c) \in {Keys!Undefined, Keys!Throws}
        BY <1>3, <2>1
    <2>5. CASE none
        BY <1>1, <2>3, <2>4, <2>5
    <2>6. CASE ~none
        <3>1. PICK signed : signed = <<[call |-> c, keyRelationship |-> Key(c)]>>
            OBVIOUS
        <3>2. signed # <<>> /\ Len(signed) = 1 /\ DOMAIN signed = {1}
              /\ signed[1].call = c /\ signed[1].keyRelationship = Key(c)
            BY <3>1
        <3>3. [i \in DOMAIN signed |-> signed[i].call] = <<c>>
            BY <3>2
        <3>4. KeysOf(c) = {Key(c)}
            BY <2>4, <2>6, CallWithKey
        <3>5. \A operation \in ToSet(signed) : KeysOf(operation.call) = {operation.keyRelationship}
            BY <3>2, <3>4 DEF ToSet
        <3>6. Signs(signed, s)
            BY <2>2, <3>2, <3>3, <3>5 DEF Signs
        <3> QED
            BY <2>3, <2>4, <2>6, <3>1, <3>2, <3>6 DEF Keys!Nothing
    <2> QED
        BY <2>5, <2>6
<1>4. CASE s # <<>> /\ Len(s) # 1
    <2>1. PICK groups : groups = Keys!groupExtrinsicsByKeyRelationship(s)
        OBVIOUS
    <2>2. PICK signed : signed = [i \in DOMAIN groups |-> [call |-> CallOf(groups[i], method),
                                                          keyRelationship |-> groups[i].keyRelationship]]
        OBVIOUS
    <2>3. Keys!authorizeBatch(s, method) = signed
        BY <1>4, <2>1, <2>2 DEF Keys!authorizeBatch, CallOf
    <2>5. CASE ~none
        <3>1. Fit(groups, s)
            BY <1>4, <2>1, <2>5, GroupsFit
        <3>2. Signs(signed, s)
            BY <1>0, <2>2, <2>5, <3>1, GroupsAreSigned
        <3>3. 1 \in DOMAIN signed
            <4>1. groups \in Seq(Groups) /\ groups # <<>>
                BY <3>1 DEF Fit
            <4>2. DOMAIN groups = 1 .. Len(groups) /\ Len(groups) \in Nat \ {0}
                BY <4>1, EmptySeq, LenProperties
            <4> QED
                BY <2>2, <4>2
        <3>4. signed # Keys!Nothing
            BY <3>3 DEF Keys!Nothing
        <3> QED
            BY <2>3, <3>2, <3>4
    <2>6. CASE none
        <3>1. groups = <<>>
            BY <1>4, <2>1, <2>6, GroupsFit DEF Keys!Nothing
        <3>2. signed = [i \in {} |-> signed[i]]
            BY <2>2, <3>1
        <3>3. <<>> = [i \in {} |-> signed[i]]
            OBVIOUS
        <3>4. signed = Keys!Nothing
            BY <3>2, <3>3 DEF Keys!Nothing
        <3> QED
            BY <1>1, <2>3, <2>6, <3>4
    <2> QED
        BY <2>5, <2>6
<1> QED
    BY <1>2, <1>3, <1>4

\* authorizeBatch was called with a list of its type.
BatchIsTyped == Calls("authorizeBatch") => called.input \in Batches

LEMMA BatchIsTypedHolds == PureFunctionsSpec => []BatchIsTyped
<1>1. PureFunctionsInit => BatchIsTyped
    BY DEF PureFunctionsInit, NoCall, BatchIsTyped, Calls
<1>2. BatchIsTyped /\ [PureFunctionsNext]_called => BatchIsTyped'
    BY DEF PureFunctionsNext, Call, BatchIsTyped, Calls
<1> QED
    BY <1>1, <1>2, PTL DEF PureFunctionsSpec

\* authorizeBatch signs the calls it was given, each with the key it needs, in
\* their order, or throws for one that no key can sign.
THEOREM BatchesAreSigned == PureFunctionsSpec => []BatchSignsEveryCall
<1>1. BatchIsTyped => BatchSignsEveryCall
    <2> SUFFICES ASSUME BatchIsTyped, Calls("authorizeBatch"), NEW method \in Keys!BatchMethods
                 PROVE  LET signed == Keys!authorizeBatch(called.input, method) IN
                        IF signed = Keys!Nothing
                        THEN called.input = <<>> \/ \E call \in ToSet(called.input) : CannotBeSigned(call)
                        ELSE Signs(signed, called.input)
        BY DEF BatchSignsEveryCall, Signs
    <2>1. called.input \in Seq(Extrinsics)
        BY BatchesAssumption DEF BatchIsTyped, Extrinsics
    <2> QED
        BY <2>1, BatchIsSigned
<1> QED
    BY <1>1, BatchIsTypedHolds, PTL

-----------------------------------------------------------------------------
(* Canonical JSON: the values and what is computed of each.                *)

\* Values that have values of a set in them, besides those values.
Flat == [kind : Scalars, entries : {<<>>}]
Over(values) ==
    values \cup [kind : {Json!Array}, entries : Seq([key : {<<>>}, value : values])]
           \cup [kind : {Json!Object}, entries : Seq([key : KeyNames, value : values])]

Piles(f, n) ==
    f[0] = Flat /\ \A i \in Nat : i < n => f[i + 1] = Over(f[i])

\* The definition of Level defines what it says.
LEMMA LevelIs ==
    Json!Level[0] = Flat /\ \A n \in Nat : Json!Level[n + 1] = Over(Json!Level[n])
<1> DEFINE Some(n) == \E f : Piles(f, n)
           P == {n \in Nat : Some(n)}
           Q(f, g, m) == {n \in Nat : n <= m => f[n] = g[n]}
           Is(f) == f = [n \in Nat |->
                            IF n = 0 THEN [kind : Scalars, entries : {<<>>}]
                            ELSE f[n - 1]
                                   \cup [kind : {Json!Array}, entries : Seq([key : {<<>>}, value : f[n - 1]])]
                                   \cup [kind : {Json!Object}, entries : Seq([key : KeyNames, value : f[n - 1]])]]
<1>1. P = Nat
    <2>1. 0 \in P
        <3>1. Piles([n \in Nat |-> Flat], 0)
            BY DEF Piles
        <3> QED
            BY <3>1
    <2>2. ASSUME NEW n \in P PROVE n + 1 \in P
        <3>1. PICK f : Piles(f, n)
            BY <2>2
        <3> DEFINE g == [i \in Nat |-> IF i = n + 1 THEN Over(f[n]) ELSE f[i]]
        <3>2. g[0] = Flat
            BY <3>1 DEF Piles
        <3>3. ASSUME NEW i \in Nat, i < n + 1 PROVE g[i + 1] = Over(g[i])
            <4>1. g[i] = f[i]
                BY <3>3
            <4>2. CASE i = n
                <5>1. g[i + 1] = Over(f[n])
                    BY <4>2
                <5> QED
                    BY <4>1, <4>2, <5>1
            <4>3. CASE i < n
                <5>1. g[i + 1] = f[i + 1]
                    BY <4>3
                <5>2. f[i + 1] = Over(f[i])
                    BY <3>1, <4>3 DEF Piles
                <5> QED
                    BY <4>1, <5>1, <5>2
            <4> QED
                BY <3>3, <4>2, <4>3
        <3> HIDE DEF g
        <3>4. Piles(g, n + 1)
            BY <3>2, <3>3 DEF Piles
        <3> QED
            BY <3>4
    <2>3. P \subseteq Nat
        OBVIOUS
    <2> HIDE DEF P
    <2> QED
        BY <2>1, <2>2, <2>3, Induction
<1>2. ASSUME NEW m \in Nat, NEW f, Piles(f, m), NEW k \in Nat, NEW g, Piles(g, k), m <= k
      PROVE  f[m] = g[m]
    <2>1. 0 \in Q(f, g, m)
        BY <1>2 DEF Piles
    <2>2. ASSUME NEW n \in Q(f, g, m) PROVE n + 1 \in Q(f, g, m)
        <3>1. SUFFICES ASSUME n + 1 <= m PROVE f[n + 1] = g[n + 1]
            OBVIOUS
        <3>2. f[n] = g[n] /\ n < m /\ n < k /\ n \in Nat
            BY <1>2, <2>2, <3>1
        <3> QED
            BY <1>2, <3>2 DEF Piles
    <2>3. Q(f, g, m) = Nat
        <3>1. Q(f, g, m) \subseteq Nat
            OBVIOUS
        <3> HIDE DEF Q
        <3> QED
            BY <2>1, <2>2, <3>1, Induction
    <2>4. m \in Q(f, g, m) /\ m <= m
        BY <2>3
    <2> QED
        BY <2>4
<1> DEFINE solution(n) == CHOOSE f : Piles(f, n)
           whole == [n \in Nat |-> solution(n)[n]]
<1>3. ASSUME NEW n \in Nat PROVE Piles(solution(n), n)
    <2>1. Some(n)
        BY <1>1
    <2> QED
        BY <2>1
<1> HIDE DEF solution
<1>4. whole[0] = Flat
    BY <1>3 DEF Piles
<1>5. ASSUME NEW n \in Nat PROVE whole[n + 1] = Over(whole[n])
    <2>1. n + 1 \in Nat /\ n <= n + 1 /\ n < n + 1
        OBVIOUS
    <2>2. solution(n)[n] = solution(n + 1)[n]
        BY <1>2, <1>3, <2>1
    <2>3. solution(n + 1)[n + 1] = Over(solution(n + 1)[n])
        BY <1>3, <2>1 DEF Piles
    <2>4. whole[n] = solution(n)[n] /\ whole[n + 1] = solution(n + 1)[n + 1]
        BY <2>1
    <2> QED
        BY <2>2, <2>3, <2>4
<1>6. Is(whole)
    <2>1. ASSUME NEW n \in Nat, n # 0 PROVE whole[n] = Over(whole[n - 1])
        <3>1. n - 1 \in Nat /\ (n - 1) + 1 = n
            BY <2>1
        <3> HIDE DEF whole
        <3> QED
            BY <1>5, <3>1
    <2>2. whole = [n \in Nat |-> whole[n]]
        OBVIOUS
    <2> HIDE DEF whole
    <2> QED
        BY <1>4, <2>1, <2>2 DEF Over, Flat
<1>7. Is(Json!Level)
    <2>1. Json!Level = CHOOSE f : Is(f)
        BY DEF Json!Level
    <2> HIDE DEF Is, whole
    <2> QED
        BY <1>6, <2>1
<1>8. Json!Level[0] = Flat
    BY <1>7 DEF Flat
<1>9. ASSUME NEW n \in Nat PROVE Json!Level[n + 1] = Over(Json!Level[n])
    <2>1. n + 1 \in Nat /\ n + 1 # 0 /\ (n + 1) - 1 = n
        OBVIOUS
    <2> QED
        BY <1>7, <2>1 DEF Over
<1> QED
    BY <1>8, <1>9

\* A higher level has all values of the others.
LEMMA LevelGrows ==
    ASSUME NEW m \in Nat, NEW n \in Nat, m <= n
    PROVE  Json!Level[m] \subseteq Json!Level[n]
<1> DEFINE P == {k \in Nat : m <= k => Json!Level[m] \subseteq Json!Level[k]}
<1>1. 0 \in P
    <2>1. m <= 0 => m = 0
        OBVIOUS
    <2> QED
        BY <2>1
<1>2. ASSUME NEW k \in P PROVE k + 1 \in P
    <2>1. SUFFICES ASSUME m <= k + 1, m # k + 1 PROVE Json!Level[m] \subseteq Json!Level[k + 1]
        OBVIOUS
    <2>2. k \in Nat /\ m <= k
        BY <2>1
    <2>3. Json!Level[m] \subseteq Json!Level[k]
        BY <2>2
    <2>4. Json!Level[k] \subseteq Json!Level[k + 1]
        BY <2>2, LevelIs DEF Over
    <2> QED
        BY <2>3, <2>4
<1>3. P = Nat
    <2>1. P \subseteq Nat
        OBVIOUS
    <2> HIDE DEF P
    <2> QED
        BY <1>1, <1>2, <2>1, Induction
<1> QED
    BY <1>3

\* A value has a kind, and entries with keys of that kind and values one level down.
Kinds == Scalars \cup {Json!Array, Json!Object}
NamesOf(kind) == IF kind = Json!Object THEN KeyNames ELSE {<<>>}
EntriesOf(kind, values) == [key : NamesOf(kind), value : values]

IsValue(v, values) ==
    /\ v = [kind |-> v.kind, entries |-> v.entries]
    /\ v.kind \in Kinds
    /\ v.entries \in Seq(EntriesOf(v.kind, values))
    /\ v.kind \in Scalars => v.entries = <<>>

Inner(n) == IF n = 0 THEN {} ELSE Json!Level[n - 1]

LEMMA KindsDiffer ==
    /\ Scalars \subseteq Nat /\ Json!Array \notin Nat /\ Json!Object \notin Nat /\ Json!End \notin Nat
    /\ Json!Array # Json!Object /\ Json!End # Json!Array /\ Json!End # Json!Object
    /\ Json!Array \in Int /\ Json!Object \in Int /\ Json!End \in Int
BY JsonAssumption DEF Json!Array, Json!Object, Json!End

LEMMA FlatIs ==
    ASSUME NEW v \in Flat, NEW values
    PROVE  IsValue(v, values) /\ v.kind \in Scalars
<1>1. v = [kind |-> v.kind, entries |-> v.entries] /\ v.kind \in Scalars /\ v.entries = <<>>
    BY DEF Flat
<1>2. <<>> \in Seq(EntriesOf(v.kind, values))
    BY EmptySeq
<1> QED
    BY <1>1, <1>2 DEF IsValue, Kinds

LEMMA OverIs ==
    ASSUME NEW values, NEW v \in Over(values), v \notin values
    PROVE  IsValue(v, values) /\ v.kind \notin Scalars
<1>1. CASE v \in [kind : {Json!Array}, entries : Seq([key : {<<>>}, value : values])]
    <2>1. /\ v = [kind |-> v.kind, entries |-> v.entries] /\ v.kind = Json!Array
          /\ v.entries \in Seq([key : {<<>>}, value : values])
        BY <1>1
    <2>2. EntriesOf(v.kind, values) = [key : {<<>>}, value : values]
        BY <2>1, KindsDiffer DEF EntriesOf, NamesOf
    <2>3. v.kind \in Kinds /\ v.kind \notin Scalars
        BY <2>1, KindsDiffer DEF Kinds
    <2> QED
        BY <2>1, <2>2, <2>3 DEF IsValue
<1>2. CASE v \in [kind : {Json!Object}, entries : Seq([key : KeyNames, value : values])]
    <2>1. /\ v = [kind |-> v.kind, entries |-> v.entries] /\ v.kind = Json!Object
          /\ v.entries \in Seq([key : KeyNames, value : values])
        BY <1>2
    <2>2. EntriesOf(v.kind, values) = [key : KeyNames, value : values]
        BY <2>1 DEF EntriesOf, NamesOf
    <2>3. v.kind \in Kinds /\ v.kind \notin Scalars
        BY <2>1, KindsDiffer DEF Kinds
    <2> QED
        BY <2>1, <2>2, <2>3 DEF IsValue
<1> QED
    BY <1>1, <1>2 DEF Over

\* What IsValue asks for is enough.
LEMMA IsOver ==
    ASSUME NEW values, NEW v, IsValue(v, values), v.kind \notin Scalars
    PROVE  v \in Over(values)
<1>0. v = [kind |-> v.kind, entries |-> v.entries] /\ v.entries \in Seq(EntriesOf(v.kind, values))
    BY DEF IsValue
<1>1. CASE v.kind = Json!Array
    <2>1. EntriesOf(v.kind, values) = [key : {<<>>}, value : values]
        BY <1>1, KindsDiffer DEF EntriesOf, NamesOf
    <2>2. v.entries \in Seq([key : {<<>>}, value : values])
        BY <1>0, <2>1
    <2>3. v \in [kind : {Json!Array}, entries : Seq([key : {<<>>}, value : values])]
        BY <1>0, <1>1, <2>2
    <2> QED
        BY <2>3 DEF Over
<1>2. CASE v.kind = Json!Object
    <2>1. EntriesOf(v.kind, values) = [key : KeyNames, value : values]
        BY <1>2 DEF EntriesOf, NamesOf
    <2>2. v.entries \in Seq([key : KeyNames, value : values])
        BY <1>0, <2>1
    <2>3. v \in [kind : {Json!Object}, entries : Seq([key : KeyNames, value : values])]
        BY <1>0, <1>2, <2>2
    <2> QED
        BY <2>3 DEF Over
<1> QED
    BY <1>1, <1>2 DEF IsValue, Kinds

\* A value with values of a set in it is one with values of a larger set.
LEMMA IsValueGrows ==
    ASSUME NEW values, NEW more, values \subseteq more, NEW v, IsValue(v, values)
    PROVE  IsValue(v, more)
<1>1. EntriesOf(v.kind, values) \subseteq EntriesOf(v.kind, more)
    BY DEF EntriesOf
<1>2. v.entries \in Seq(EntriesOf(v.kind, more))
    BY <1>1, SeqMonotonic DEF IsValue
<1> QED
    BY <1>2 DEF IsValue

LEMMA ValueIs ==
    ASSUME NEW n \in Nat, NEW v \in Json!Level[n]
    PROVE  IsValue(v, Inner(n)) /\ (n = 0 => v.kind \in Scalars)
<1> DEFINE P == {k \in Nat : \A w \in Json!Level[k] : IsValue(w, Inner(k)) /\ (k = 0 => w.kind \in Scalars)}
<1>1. 0 \in P
    BY LevelIs, FlatIs
<1>2. ASSUME NEW k \in P PROVE k + 1 \in P
    <2>1. ASSUME NEW w \in Json!Level[k + 1] PROVE IsValue(w, Inner(k + 1))
        <3>0. k \in Nat /\ k + 1 # 0 /\ (k + 1) - 1 = k /\ Inner(k + 1) = Json!Level[k]
            BY DEF Inner
        <3>1. CASE w \in Json!Level[k]
            <4>1. IsValue(w, Inner(k))
                BY <3>1
            <4>2. Inner(k) \subseteq Json!Level[k]
                <5>1. k # 0 => k - 1 \in Nat /\ k - 1 <= k
                    OBVIOUS
                <5> QED
                    BY <3>0, <5>1, LevelGrows DEF Inner
            <4> QED
                BY <3>0, <4>1, <4>2, IsValueGrows
        <3>2. CASE w \notin Json!Level[k]
            BY <3>0, <3>2, LevelIs, OverIs
        <3> QED
            BY <3>1, <3>2
    <2>2. k + 1 # 0 /\ k + 1 \in Nat
        OBVIOUS
    <2> HIDE DEF Inner
    <2> QED
        BY <2>1, <2>2
<1>3. P = Nat
    <2>1. P \subseteq Nat
        OBVIOUS
    <2> HIDE DEF P
    <2> QED
        BY <1>1, <1>2, <2>1, Induction
<1> QED
    BY <1>3

\* And the converse.
LEMMA IsAtLevel ==
    ASSUME NEW n \in Nat, NEW v, IsValue(v, Inner(n)), n = 0 => v.kind \in Scalars
    PROVE  v \in Json!Level[n]
<1>1. CASE v.kind \in Scalars
    <2>1. v = [kind |-> v.kind, entries |-> <<>>]
        BY <1>1 DEF IsValue
    <2>2. v \in Flat
        BY <1>1, <2>1 DEF Flat
    <2>3. Json!Level[0] \subseteq Json!Level[n]
        BY LevelGrows
    <2> QED
        BY <2>2, <2>3, LevelIs
<1>2. CASE v.kind \notin Scalars
    <2>1. n - 1 \in Nat /\ (n - 1) + 1 = n /\ Inner(n) = Json!Level[n - 1]
        BY <1>2 DEF Inner
    <2>2. v \in Over(Json!Level[n - 1])
        BY <1>2, <2>1, IsOver
    <2> QED
        BY <2>1, <2>2, LevelIs
<1> QED
    BY <1>1, <1>2

LEMMA LevelsAre ==
    /\ MaxLevels \in Nat /\ Json!JsonValue = Json!Level[MaxLevels]
    /\ \A n \in Nat : n <= MaxLevels => Json!Level[n] \subseteq Json!JsonValue /\ Inner(n) \subseteq Json!JsonValue
<1>1. MaxLevels \in Nat /\ Json!JsonValue = Json!Level[MaxLevels]
    BY JsonAssumption DEF Json!JsonValue
<1>2. ASSUME NEW n \in Nat, n <= MaxLevels
      PROVE  Json!Level[n] \subseteq Json!JsonValue /\ Inner(n) \subseteq Json!JsonValue
    <2>1. Json!Level[n] \subseteq Json!JsonValue
        BY <1>1, <1>2, LevelGrows
    <2>2. CASE n = 0
        BY <2>1, <2>2 DEF Inner
    <2>3. CASE n # 0
        <3>1. n - 1 \in Nat /\ n - 1 <= MaxLevels
            BY <1>1, <1>2, <2>3
        <3> QED
            BY <1>1, <2>1, <2>3, <3>1, LevelGrows DEF Inner
    <2> QED
        BY <2>2, <2>3
<1> QED
    BY <1>1, <1>2

\* The entries of a value: a list of keys and values.
LEMMA EntriesAre ==
    ASSUME NEW values, NEW v, IsValue(v, values)
    PROVE  /\ Len(v.entries) \in Nat /\ DOMAIN v.entries = 1 .. Len(v.entries)
           /\ \A i \in DOMAIN v.entries :
                  /\ v.entries[i] = [key |-> v.entries[i].key, value |-> v.entries[i].value]
                  /\ v.entries[i].key \in NamesOf(v.kind)
                  /\ v.entries[i].value \in values
<1>1. v.entries \in Seq(EntriesOf(v.kind, values))
    BY DEF IsValue
<1>2. Len(v.entries) \in Nat /\ DOMAIN v.entries = 1 .. Len(v.entries)
    BY <1>1, LenProperties
<1>3. ASSUME NEW i \in DOMAIN v.entries
      PROVE  v.entries[i] \in EntriesOf(v.kind, values)
    BY <1>1, <1>2, ElementOfSeq
<1>4. \A e \in EntriesOf(v.kind, values) :
          e = [key |-> e.key, value |-> e.value] /\ e.key \in NamesOf(v.kind) /\ e.value \in values
    BY DEF EntriesOf
<1> QED
    BY <1>2, <1>3, <1>4

LEMMA JsonValueIs ==
    ASSUME NEW v \in Json!JsonValue
    PROVE  /\ IsValue(v, Json!JsonValue)
           /\ Len(v.entries) \in Nat /\ DOMAIN v.entries = 1 .. Len(v.entries)
           /\ \A i \in DOMAIN v.entries :
                  /\ v.entries[i] = [key |-> v.entries[i].key, value |-> v.entries[i].value]
                  /\ v.entries[i].key \in NamesOf(v.kind)
                  /\ v.entries[i].value \in Json!JsonValue
<1>1. IsValue(v, Inner(MaxLevels))
    BY LevelsAre, ValueIs
<1>2. Inner(MaxLevels) \subseteq Json!JsonValue /\ MaxLevels <= MaxLevels
    BY LevelsAre
<1>3. IsValue(v, Json!JsonValue)
    BY <1>1, <1>2, IsValueGrows
<1> QED
    BY <1>3, EntriesAre

\* What a function gives for the values in a value.
Results(f, v) == [i \in DOMAIN v.entries |-> f[v.entries[i].value]]

\* What a recursive definition on values defines: its value is made from the values
\* for those in it.
MadeFrom(f, values, step) ==
    \A v \in values : f[v] = step[<<v, Results(f, v)>>]

LEMMA RecursionOnValues ==
    ASSUME NEW S, NEW step,
           \A v \in Json!JsonValue : \A r \in [DOMAIN v.entries -> S] : step[<<v, r>>] \in S
    PROVE  \E f \in [Json!JsonValue -> S] : MadeFrom(f, Json!JsonValue, step)
<1> DEFINE Some(n) == \E f \in [Json!Level[n] -> S] : MadeFrom(f, Json!Level[n], step)
           P == {n \in Nat : n <= MaxLevels => Some(n)}
<1>1. ASSUME NEW values, NEW v \in Json!JsonValue, IsValue(v, values), NEW f, \A w \in values : f[w] \in S
      PROVE  step[<<v, Results(f, v)>>] \in S
    <2>1. Results(f, v) \in [DOMAIN v.entries -> S]
        BY <1>1, EntriesAre DEF Results
    <2> QED
        BY <2>1
<1>2. ASSUME NEW n \in Nat, n <= MaxLevels,
             \E f : (\A w \in Inner(n) : f[w] \in S) /\ MadeFrom(f, Inner(n), step)
      PROVE  Some(n)
    <2>1. PICK f : (\A w \in Inner(n) : f[w] \in S) /\ MadeFrom(f, Inner(n), step)
        BY <1>2
    <2>2. PICK g : g = [v \in Json!Level[n] |-> step[<<v, Results(f, v)>>]]
        OBVIOUS
    <2>3. ASSUME NEW v \in Json!Level[n] PROVE step[<<v, Results(f, v)>>] \in S /\ IsValue(v, Inner(n))
        <3>1. IsValue(v, Inner(n)) /\ v \in Json!JsonValue
            BY <1>2, ValueIs, LevelsAre
        <3> QED
            BY <1>1, <2>1, <3>1
    <2>4. g \in [Json!Level[n] -> S]
        BY <2>2, <2>3
    <2>5. Inner(n) \subseteq Json!Level[n]
        <3>1. n # 0 => n - 1 \in Nat /\ n - 1 <= n
            OBVIOUS
        <3> QED
            BY <3>1, LevelGrows DEF Inner
    <2>6. \A w \in Inner(n) : f[w] = g[w]
        BY <2>1, <2>2, <2>5 DEF MadeFrom
    <2>7. ASSUME NEW v \in Json!Level[n] PROVE g[v] = step[<<v, Results(g, v)>>]
        <3>1. \A i \in DOMAIN v.entries : v.entries[i].value \in Inner(n)
            BY <2>3, EntriesAre
        <3>2. Results(f, v) = Results(g, v)
            BY <2>6, <3>1 DEF Results
        <3> QED
            BY <2>2, <3>2
    <2>8. MadeFrom(g, Json!Level[n], step)
        BY <2>7 DEF MadeFrom
    <2> QED
        BY <2>4, <2>8
<1>4. 0 \in P
    <2>1. Inner(0) = {} /\ 0 <= MaxLevels
        BY LevelsAre DEF Inner
    <2>2. \E f : (\A w \in Inner(0) : f[w] \in S) /\ MadeFrom(f, Inner(0), step)
        BY <2>1 DEF MadeFrom
    <2> HIDE DEF Some
    <2>3. Some(0)
        BY <1>2, <2>1, <2>2
    <2> QED
        BY <2>3
<1>5. ASSUME NEW n \in P PROVE n + 1 \in P
    <2>1. SUFFICES ASSUME n + 1 <= MaxLevels PROVE Some(n + 1)
        OBVIOUS
    <2>2. n \in Nat /\ n + 1 \in Nat /\ n <= MaxLevels /\ Inner(n + 1) = Json!Level[n]
        <3>1. n \in Nat /\ n + 1 \in Nat /\ n <= MaxLevels /\ (n + 1) - 1 = n /\ n + 1 # 0
            BY <2>1, LevelsAre
        <3> QED
            BY <3>1 DEF Inner
    <2>3. PICK f \in [Json!Level[n] -> S] : MadeFrom(f, Json!Level[n], step)
        BY <2>2
    <2>4. \E h : (\A w \in Inner(n + 1) : h[w] \in S) /\ MadeFrom(h, Inner(n + 1), step)
        BY <2>2, <2>3
    <2> QED
        BY <1>2, <2>1, <2>2, <2>4
<1>6. P = Nat
    <2>1. P \subseteq Nat
        OBVIOUS
    <2> HIDE DEF P
    <2> QED
        BY <1>4, <1>5, <2>1, Induction
<1>7. Some(MaxLevels)
    <2>1. MaxLevels \in P /\ MaxLevels <= MaxLevels
        BY <1>6, LevelsAre
    <2> QED
        BY <2>1
<1> QED
    BY <1>7, LevelsAre

\* What holds of a value when it holds of those in it holds of all values.
LEMMA InductionOnValues ==
    ASSUME NEW P, P \subseteq Json!JsonValue,
           \A v \in Json!JsonValue : (\A i \in DOMAIN v.entries : v.entries[i].value \in P) => v \in P
    PROVE  P = Json!JsonValue
<1> DEFINE Q == {n \in Nat : n <= MaxLevels => Json!Level[n] \subseteq P}
<1>1. ASSUME NEW n \in Nat, n <= MaxLevels, Inner(n) \subseteq P
      PROVE  Json!Level[n] \subseteq P
    <2>1. SUFFICES ASSUME NEW v \in Json!Level[n] PROVE v \in P
        OBVIOUS
    <2>2. v \in Json!JsonValue /\ IsValue(v, Inner(n))
        BY <1>1, LevelsAre, ValueIs
    <2>3. \A i \in DOMAIN v.entries : v.entries[i].value \in Inner(n)
        BY <2>2, EntriesAre
    <2> QED
        BY <1>1, <2>2, <2>3
<1>2. 0 \in Q
    <2>1. Inner(0) \subseteq P
        BY DEF Inner
    <2> QED
        BY <1>1, <2>1
<1>3. ASSUME NEW n \in Q PROVE n + 1 \in Q
    <2>1. SUFFICES ASSUME n + 1 <= MaxLevels PROVE Json!Level[n + 1] \subseteq P
        OBVIOUS
    <2>2. n \in Nat /\ n + 1 \in Nat /\ n <= MaxLevels /\ (n + 1) - 1 = n /\ n + 1 # 0
        BY <2>1, LevelsAre
    <2>3. Inner(n + 1) \subseteq P
        BY <2>2 DEF Inner
    <2> QED
        BY <1>1, <2>1, <2>2, <2>3
<1>4. Q = Nat
    <2>1. Q \subseteq Nat
        OBVIOUS
    <2> HIDE DEF Q
    <2> QED
        BY <1>2, <1>3, <2>1, Induction
<1>5. Json!Level[MaxLevels] \subseteq P
    <2>1. MaxLevels \in Q /\ MaxLevels <= MaxLevels
        BY <1>4, LevelsAre
    <2> QED
        BY <2>1
<1> QED
    BY <1>5, LevelsAre

-----------------------------------------------------------------------------
(* Canonical JSON: orders and sorting.                                     *)

\* A strict total order, as the set of the pairs in it.
IsOrder(less, X) ==
    /\ \A i \in X : <<i, i>> \notin less
    /\ \A i, j, k \in X : <<i, j>> \in less /\ <<j, k>> \in less => <<i, k>> \in less
    /\ \A i, j \in X : i # j => <<i, j>> \in less \/ <<j, i>> \in less

\* The order of strings is one.
Differ(s, t, l, m, i) ==
    /\ i \in 1 .. m /\ i <= l + 1
    /\ \A j \in 1 .. i - 1 : s[j] = t[j]
    /\ i <= l => s[i] < t[i]

LEMMA BeforeIs ==
    ASSUME NEW s \in Seq(Int)
    PROVE  \E l \in Nat : /\ Len(s) = l /\ DOMAIN s = 1 .. l /\ \A i \in 1 .. l : s[i] \in Int
                          /\ \A t, m : DOMAIN t = 1 .. m => (Json!Before(s, t) <=> \E i : Differ(s, t, l, m, i))
<1>1. Len(s) \in Nat /\ DOMAIN s = 1 .. Len(s) /\ \A i \in 1 .. Len(s) : s[i] \in Int
    BY LenProperties, ElementOfSeq
<1>2. PICK l \in Nat : l = Len(s)
    BY <1>1
<1>3. ASSUME NEW t, NEW m, DOMAIN t = 1 .. m
      PROVE  Json!Before(s, t) <=> \E i : Differ(s, t, l, m, i)
    BY <1>2, <1>3 DEF Json!Before, Differ
<1>4. Len(s) = l /\ DOMAIN s = 1 .. l /\ \A i \in 1 .. l : s[i] \in Int
    BY <1>1, <1>2
<1>5. \A t, m : DOMAIN t = 1 .. m => (Json!Before(s, t) <=> \E i : Differ(s, t, l, m, i))
    BY <1>3
<1> QED
    BY <1>4, <1>5

LEMMA DifferTransitive ==
    ASSUME NEW l \in Nat, NEW m \in Nat, NEW n \in Nat, NEW s, NEW t, NEW u,
           \A i \in 1 .. l : s[i] \in Int, \A i \in 1 .. m : t[i] \in Int, \A i \in 1 .. n : u[i] \in Int,
           NEW i \in 1 .. m, Differ(s, t, l, m, i), NEW k \in 1 .. n, Differ(t, u, m, n, k)
    PROVE  \E j : Differ(s, u, l, n, j)
<1>1. i <= l + 1 /\ (\A j \in 1 .. i - 1 : s[j] = t[j]) /\ (i <= l => s[i] < t[i])
    BY DEF Differ
<1>2. k <= m + 1 /\ (\A j \in 1 .. k - 1 : t[j] = u[j]) /\ (k <= m => t[k] < u[k])
    BY DEF Differ
<1>3. CASE i < k
    <2>1. i \in 1 .. n /\ t[i] = u[i] /\ \A j \in 1 .. i - 1 : s[j] = u[j]
        BY <1>1, <1>2, <1>3
    <2>2. Differ(s, u, l, n, i)
        BY <1>1, <2>1 DEF Differ
    <2> QED
        BY <2>2
<1>4. CASE k <= i
    <2>1. k <= l + 1 /\ \A j \in 1 .. k - 1 : s[j] = u[j]
        BY <1>1, <1>2, <1>4
    <2>2. t[k] < u[k]
        BY <1>2, <1>4
    <2>3. k \in 1 .. m /\ t[k] \in Int /\ u[k] \in Int
        BY <1>4
    <2>4. k <= l => s[k] < u[k]
        <3>1. SUFFICES ASSUME k <= l PROVE s[k] < u[k]
            OBVIOUS
        <3>2. s[k] \in Int
            BY <3>1
        <3>3. s[k] <= t[k]
            <4>1. CASE k = i
                BY <1>1, <2>3, <3>1, <3>2, <4>1
            <4>2. CASE k < i
                <5>1. k \in 1 .. i - 1
                    BY <4>2
                <5> QED
                    BY <1>1, <2>3, <5>1
            <4> QED
                BY <1>4, <4>1, <4>2
        <3> QED
            BY <2>2, <2>3, <3>2, <3>3
    <2>5. Differ(s, u, l, n, k)
        BY <2>1, <2>4 DEF Differ
    <2> QED
        BY <2>5
<1> QED
    BY <1>3, <1>4

LEMMA BeforeIsTransitive ==
    ASSUME NEW s \in Seq(Int), NEW t \in Seq(Int), NEW u \in Seq(Int),
           Json!Before(s, t), Json!Before(t, u)
    PROVE  Json!Before(s, u)
<1>1. PICK l \in Nat : /\ DOMAIN s = 1 .. l /\ \A i \in 1 .. l : s[i] \in Int
                       /\ \A x, y : DOMAIN x = 1 .. y => (Json!Before(s, x) <=> \E i : Differ(s, x, l, y, i))
    BY BeforeIs
<1>2. PICK m \in Nat : /\ DOMAIN t = 1 .. m /\ \A i \in 1 .. m : t[i] \in Int
                       /\ \A x, y : DOMAIN x = 1 .. y => (Json!Before(t, x) <=> \E i : Differ(t, x, m, y, i))
    BY BeforeIs
<1>3. PICK n \in Nat : DOMAIN u = 1 .. n /\ \A i \in 1 .. n : u[i] \in Int
    BY BeforeIs
<1>4. PICK i : Differ(s, t, l, m, i)
    BY <1>1, <1>2
<1>5. PICK k : Differ(t, u, m, n, k)
    BY <1>2, <1>3
<1>6. i \in 1 .. m /\ k \in 1 .. n
    BY <1>4, <1>5 DEF Differ
<1>7. \E j : Differ(s, u, l, n, j)
    BY <1>1, <1>2, <1>3, <1>4, <1>5, <1>6, DifferTransitive
<1> QED
    BY <1>1, <1>3, <1>7

LEMMA BeforeIsTotal ==
    ASSUME NEW s \in Seq(Int), NEW t \in Seq(Int)
    PROVE  ~Json!Before(s, s) /\ (s # t => Json!Before(s, t) \/ Json!Before(t, s))
<1>1. PICK l \in Nat : /\ Len(s) = l /\ DOMAIN s = 1 .. l /\ \A i \in 1 .. l : s[i] \in Int
                       /\ \A x, y : DOMAIN x = 1 .. y => (Json!Before(s, x) <=> \E i : Differ(s, x, l, y, i))
    BY BeforeIs
<1>2. PICK m \in Nat : /\ Len(t) = m /\ DOMAIN t = 1 .. m /\ \A i \in 1 .. m : t[i] \in Int
                       /\ \A x, y : DOMAIN x = 1 .. y => (Json!Before(t, x) <=> \E i : Differ(t, x, m, y, i))
    BY BeforeIs
<1>3. ~Json!Before(s, s)
    <2>1. \A i : ~Differ(s, s, l, l, i)
        BY <1>1 DEF Differ
    <2> QED
        BY <1>1, <2>1
<1>4. ASSUME s # t PROVE (\E i : Differ(s, t, l, m, i)) \/ \E i : Differ(t, s, m, l, i)
    <2> DEFINE differ == {i \in 1 .. l : i <= m /\ s[i] # t[i]}
    <2>1. CASE differ = {}
        <3>1. \A i \in 1 .. l : i <= m => s[i] = t[i]
            BY <2>1
        <3>2. l # m
            <4>1. SUFFICES ASSUME l = m PROVE s = t
                BY <1>4
            <4>2. Len(s) = Len(t) /\ \A i \in 1 .. Len(s) : s[i] = t[i]
                BY <1>1, <1>2, <3>1, <4>1
            <4> QED
                BY <4>2, SeqEqual
        <3>3. CASE l < m
            <4>1. Differ(s, t, l, m, l + 1)
                BY <3>1, <3>3 DEF Differ
            <4> QED
                BY <4>1
        <3>4. CASE m < l
            <4>1. Differ(t, s, m, l, m + 1)
                BY <3>1, <3>4 DEF Differ
            <4> QED
                BY <4>1
        <3> QED
            BY <3>2, <3>3, <3>4
    <2>2. CASE differ # {}
        <3>1. differ \subseteq Nat /\ IsFiniteSet(differ)
            <4>1. 1 \in Int /\ l \in Int /\ differ \in SUBSET (1 .. l)
                OBVIOUS
            <4>2. IsFiniteSet(1 .. l)
                BY <4>1, FS_Interval
            <4> QED
                BY <4>1, <4>2, FS_Subset
        <3>2. PICK i \in differ : \A j \in differ : ~(j < i)
            BY <2>2, <3>1, Least
        <3>3. i \in 1 .. l /\ i \in 1 .. m /\ s[i] # t[i]
            BY <3>2
        <3>4. \A j \in 1 .. i - 1 : s[j] = t[j]
            <4>1. SUFFICES ASSUME NEW j \in 1 .. i - 1 PROVE j \notin differ
                BY <3>3
            <4>2. j < i
                BY <3>3
            <4> HIDE DEF differ
            <4> QED
                BY <3>2, <4>2
        <3> HIDE DEF differ
        <3>5. s[i] < t[i] \/ t[i] < s[i]
            <4>1. s[i] \in Int /\ t[i] \in Int
                BY <1>1, <1>2, <3>3
            <4> QED
                BY <3>3, <4>1
        <3>6. s[i] < t[i] => Differ(s, t, l, m, i)
            BY <3>3, <3>4 DEF Differ
        <3>7. t[i] < s[i] => Differ(t, s, m, l, i)
            BY <3>3, <3>4 DEF Differ
        <3> QED
            BY <3>5, <3>6, <3>7
    <2> QED
        BY <2>1, <2>2
<1> QED
    BY <1>1, <1>2, <1>3, <1>4

\* What comes no later than i, and how many they are.
UpTo(less, X, i) == {j \in X : j = i \/ <<j, i>> \in less}

LEMMA RanksInOrder ==
    ASSUME NEW X, IsFiniteSet(X), NEW less, IsOrder(less, X)
    PROVE  /\ \A a, b \in X : <<a, b>> \in less
                  => Cardinality(UpTo(less, X, a)) < Cardinality(UpTo(less, X, b))
           /\ \A a, b \in X : Cardinality(UpTo(less, X, a)) = Cardinality(UpTo(less, X, b)) => a = b
           /\ \A a \in X : Cardinality(UpTo(less, X, a)) \in 1 .. Cardinality(X)
           /\ \A n \in 1 .. Cardinality(X) : \E a \in X : Cardinality(UpTo(less, X, a)) = n
<1> DEFINE rank == [a \in X |-> Cardinality(UpTo(less, X, a))]
           N == Cardinality(X)
<1>1. N \in Nat
    BY FS_CardinalityType
<1>2. ASSUME NEW a \in X
      PROVE  IsFiniteSet(UpTo(less, X, a)) /\ rank[a] \in 1 .. N
    <2>1. UpTo(less, X, a) \in SUBSET X /\ a \in UpTo(less, X, a)
        BY DEF UpTo
    <2>2. IsFiniteSet(UpTo(less, X, a)) /\ rank[a] <= N
        BY <2>1, FS_Subset
    <2>3. rank[a] \in Nat /\ rank[a] # 0
        BY <2>1, <2>2, FS_CardinalityType, FS_EmptySet
    <2> QED
        BY <1>1, <2>2, <2>3
<1>3. ASSUME NEW a \in X, NEW b \in X, <<a, b>> \in less
      PROVE  rank[a] < rank[b]
    <2>1. UpTo(less, X, a) \in SUBSET UpTo(less, X, b)
        BY <1>3 DEF UpTo, IsOrder
    <2>2. b \in UpTo(less, X, b) /\ b \notin UpTo(less, X, a)
        BY <1>3 DEF UpTo, IsOrder
    <2>3. rank[a] <= rank[b] /\ rank[a] # rank[b]
        BY <1>2, <2>1, <2>2, FS_Subset
    <2>4. rank[a] \in Nat /\ rank[b] \in Nat
        BY <1>1, <1>2
    <2> HIDE DEF rank
    <2> QED
        BY <2>3, <2>4
<1>4. ASSUME NEW a \in X, NEW b \in X, rank[a] = rank[b]
      PROVE  a = b
    <2>1. rank[a] \in Nat /\ rank[b] \in Nat
        BY <1>1, <1>2
    <2> HIDE DEF rank
    <2>2. <<a, b>> \notin less /\ <<b, a>> \notin less
        BY <1>3, <1>4, <2>1
    <2> QED
        BY <2>2 DEF IsOrder
<1>5. rank \in [X -> 1 .. N]
    BY <1>2
<1>6. rank \in Surjection(X, 1 .. N)
    <2>1. IsInjective(rank)
        BY <1>4 DEF IsInjective
    <2>2. rank \in Injection(X, 1 .. N)
        BY <1>5, <2>1 DEF Injection
    <2>3. IsFiniteSet(1 .. N) /\ Cardinality(1 .. N) = N
        <3>1. 1 \in Int /\ N \in Int
            BY <1>1
        <3>2. IsFiniteSet(1 .. N) /\ Cardinality(1 .. N) = IF 1 > N THEN 0 ELSE N - 1 + 1
            BY <3>1, FS_Interval
        <3> QED
            BY <1>1, <3>2
    <2> HIDE DEF rank
    <2> QED
        BY <2>2, <2>3, FS_Injection
<1>7. ASSUME NEW n \in 1 .. N PROVE \E a \in X : rank[a] = n
    BY <1>6 DEF Surjection
<1>8. \A a \in X : rank[a] = Cardinality(UpTo(less, X, a))
    OBVIOUS
<1> HIDE DEF rank
<1> QED
    BY <1>2, <1>3, <1>4, <1>7, <1>8

\* The rearrangements of the positions of a list.
Rearrangement(p, L) ==
    /\ p \in [1 .. L -> 1 .. L]
    /\ \A r, s \in 1 .. L : p[r] = p[s] => r = s
    /\ \A i \in 1 .. L : \E r \in 1 .. L : p[r] = i

\* To put each position where its rank says brings them into order.
ByRank(less, L) ==
    [r \in 1 .. L |-> CHOOSE i \in 1 .. L : Cardinality(UpTo(less, 1 .. L, i)) = r]

LEMMA ByRankIs ==
    ASSUME NEW L \in Nat, NEW less, IsOrder(less, 1 .. L)
    PROVE  /\ Rearrangement(ByRank(less, L), L)
           /\ \A r, s \in 1 .. L : r < s => <<ByRank(less, L)[r], ByRank(less, L)[s]>> \in less
<1>0. PICK X : X = 1 .. L
    OBVIOUS
<1>p. PICK p : p = ByRank(less, L)
    OBVIOUS
<1> DEFINE rank(i) == Cardinality(UpTo(less, X, i))
<1>1. IsFiniteSet(X) /\ Cardinality(X) = L
    <2>1. 1 \in Int /\ L \in Int
        OBVIOUS
    <2>2. IsFiniteSet(1 .. L) /\ Cardinality(1 .. L) = IF 1 > L THEN 0 ELSE L - 1 + 1
        BY <2>1, FS_Interval
    <2> QED
        BY <1>0, <2>2
<1>a. IsOrder(less, X)
    BY <1>0
<1>b. /\ \A a, b \in X : <<a, b>> \in less => rank(a) < rank(b)
      /\ \A a, b \in X : rank(a) = rank(b) => a = b
      /\ \A a \in X : rank(a) \in 1 .. Cardinality(X)
      /\ \A n \in 1 .. Cardinality(X) : \E a \in X : rank(a) = n
    BY <1>1, <1>a, RanksInOrder
<1>2. /\ \A a, b \in X : <<a, b>> \in less => rank(a) < rank(b)
      /\ \A a, b \in X : rank(a) = rank(b) => a = b
      /\ \A a \in X : rank(a) \in 1 .. L
      /\ \A n \in 1 .. L : \E a \in X : rank(a) = n
    <2> HIDE DEF rank
    <2> QED
        BY <1>1, <1>b
<1>3. ASSUME NEW r \in 1 .. L PROVE p[r] \in X /\ rank(p[r]) = r
    <2> HIDE DEF rank
    <2>1. \E i \in X : rank(i) = r
        BY <1>2
    <2>2. p[r] = CHOOSE i \in X : rank(i) = r
        BY <1>0, <1>p DEF rank, ByRank
    <2> QED
        BY <2>1, <2>2
<1> HIDE DEF rank
<1>4. p \in [1 .. L -> 1 .. L]
    <2>1. p = [r \in 1 .. L |-> p[r]]
        BY <1>p DEF ByRank
    <2> QED
        BY <1>0, <1>3, <2>1
<1>5. \A r, s \in 1 .. L : p[r] = p[s] => r = s
    BY <1>3
<1>6. ASSUME NEW i \in 1 .. L PROVE \E r \in 1 .. L : p[r] = i
    <2>1. rank(i) \in 1 .. L
        BY <1>0, <1>2
    <2>2. p[rank(i)] \in X /\ rank(p[rank(i)]) = rank(i)
        BY <1>3, <2>1
    <2>3. p[rank(i)] = i
        BY <1>0, <1>2, <2>2
    <2> QED
        BY <2>1, <2>3
<1>7. ASSUME NEW r \in 1 .. L, NEW s \in 1 .. L, r < s PROVE <<p[r], p[s]>> \in less
    <2>1. p[r] \in X /\ p[s] \in X /\ rank(p[r]) = r /\ rank(p[s]) = s
        BY <1>3
    <2>2. p[r] # p[s]
        <3>1. r # s
            BY <1>7
        <3> QED
            BY <2>1, <3>1
    <2>3. ~(rank(p[s]) < rank(p[r]))
        BY <1>7, <2>1
    <2>4. <<p[s], p[r]>> \notin less
        BY <1>2, <2>1, <2>3
    <2> QED
        BY <1>a, <2>1, <2>2, <2>4 DEF IsOrder
<1> QED
    BY <1>p, <1>4, <1>5, <1>6, <1>7 DEF Rearrangement

\* The elements of the second list in the places that m says make up the first.
Takes(u, v, m, L) == \A i \in 1 .. L : u[i] = v[m[i]]

\* Rearrangements can be undone, and come one after the other.
LEMMA Undone ==
    ASSUME NEW L, NEW p, Rearrangement(p, L)
    PROVE  \E n : Rearrangement(n, L) /\ \A i \in 1 .. L : p[n[i]] = i /\ n[p[i]] = i
<1>1. PICK n : n = [i \in 1 .. L |-> CHOOSE r \in 1 .. L : p[r] = i]
    OBVIOUS
<1>2. ASSUME NEW i \in 1 .. L PROVE n[i] \in 1 .. L /\ p[n[i]] = i
    <2>1. \E r \in 1 .. L : p[r] = i
        BY DEF Rearrangement
    <2>2. n[i] = CHOOSE r \in 1 .. L : p[r] = i
        BY <1>1
    <2> QED
        BY <2>1, <2>2
<1>3. ASSUME NEW i \in 1 .. L PROVE p[i] \in 1 .. L /\ n[p[i]] = i
    <2>1. p[i] \in 1 .. L
        BY DEF Rearrangement
    <2>2. p[n[p[i]]] = p[i] /\ n[p[i]] \in 1 .. L
        BY <1>2, <2>1
    <2> QED
        BY <2>1, <2>2 DEF Rearrangement
<1>4. n \in [1 .. L -> 1 .. L]
    BY <1>1, <1>2
<1>5. \A r, s \in 1 .. L : n[r] = n[s] => r = s
    BY <1>2
<1>6. \A i \in 1 .. L : \E r \in 1 .. L : n[r] = i
    BY <1>3
<1> QED
    BY <1>2, <1>3, <1>4, <1>5, <1>6 DEF Rearrangement

LEMMA Composed ==
    ASSUME NEW L, NEW p, NEW q, Rearrangement(p, L), Rearrangement(q, L)
    PROVE  \E n : Rearrangement(n, L) /\ Takes(n, q, p, L)
<1>1. PICK n : n = [i \in 1 .. L |-> q[p[i]]]
    OBVIOUS
<1>2. \A i \in 1 .. L : p[i] \in 1 .. L /\ q[i] \in 1 .. L /\ n[i] = q[p[i]]
    BY <1>1 DEF Rearrangement
<1>3. n \in [1 .. L -> 1 .. L]
    BY <1>1, <1>2
<1>4. ASSUME NEW r \in 1 .. L, NEW s \in 1 .. L, n[r] = n[s] PROVE r = s
    <2>1. PICK i \in 1 .. L, j \in 1 .. L : i = p[r] /\ j = p[s] /\ q[i] = n[r] /\ q[j] = n[s]
        BY <1>2
    <2>2. \A x, y \in 1 .. L : q[x] = q[y] => x = y
        BY DEF Rearrangement
    <2>3. p[r] = p[s]
        BY <1>4, <2>1, <2>2
    <2> QED
        BY <2>3 DEF Rearrangement
<1>5. ASSUME NEW i \in 1 .. L PROVE \E r \in 1 .. L : n[r] = i
    <2>1. PICK s \in 1 .. L : q[s] = i
        BY DEF Rearrangement
    <2>2. PICK r \in 1 .. L : p[r] = s
        BY DEF Rearrangement
    <2> QED
        BY <1>2, <2>1, <2>2
<1> QED
    BY <1>2, <1>3, <1>4, <1>5 DEF Rearrangement, Takes

\* Two lists in order, the second with all elements of the first, each as often: the
\* first has no smaller element in any place.
InOrder(u, less, L) == \A r, q \in 1 .. L : q <= r => <<u[r], u[q]>> \notin less

LEMMA NotSmaller ==
    ASSUME NEW L \in Nat, NEW X, NEW less, IsOrder(less, X),
           NEW u \in [1 .. L -> X], NEW v \in [1 .. L -> X], InOrder(u, less, L), InOrder(v, less, L),
           NEW m, Rearrangement(m, L), Takes(u, v, m, L), NEW r \in 1 .. L
    PROVE  <<u[r], v[r]>> \notin less
<1> SUFFICES ASSUME <<u[r], v[r]>> \in less PROVE FALSE
    OBVIOUS
<1>1. ASSUME NEW q \in 1 .. r PROVE m[q] \in 1 .. r - 1
    <2>1. q \in 1 .. L /\ q <= r /\ m[q] \in 1 .. L
        BY DEF Rearrangement
    <2>2. <<u[r], u[q]>> \notin less
        BY <2>1 DEF InOrder
    <2>3. <<u[q], v[r]>> \in less
        <3>1. u[q] \in X /\ u[r] \in X /\ v[r] \in X
            BY <2>1
        <3>2. CASE u[q] = u[r]
            BY <3>2
        <3>3. CASE u[q] # u[r]
            <4>1. <<u[q], u[r]>> \in less
                BY <2>2, <3>1, <3>3 DEF IsOrder
            <4> QED
                BY <3>1, <4>1 DEF IsOrder
        <3> QED
            BY <3>2, <3>3
    <2>4. <<v[m[q]], v[r]>> \in less
        BY <2>1, <2>3 DEF Takes
    <2>5. ~(r <= m[q])
        BY <2>1, <2>4 DEF InOrder
    <2> QED
        BY <2>1, <2>5
<1> DEFINE f == [q \in 1 .. r |-> m[q]]
<1>2. f \in [1 .. r -> 1 .. r - 1]
    BY <1>1
<1>3. /\ IsFiniteSet(1 .. r) /\ IsFiniteSet(1 .. r - 1)
      /\ Cardinality(1 .. r - 1) < Cardinality(1 .. r)
    <2>1. 1 \in Int /\ r \in Int /\ r - 1 \in Int
        OBVIOUS
    <2>2. IsFiniteSet(1 .. r) /\ Cardinality(1 .. r) = IF 1 > r THEN 0 ELSE r - 1 + 1
        BY <2>1, FS_Interval
    <2>3. IsFiniteSet(1 .. r - 1) /\ Cardinality(1 .. r - 1) = IF 1 > r - 1 THEN 0 ELSE (r - 1) - 1 + 1
        BY <2>1, FS_Interval
    <2> QED
        BY <2>2, <2>3
<1>4. PICK x \in 1 .. r, y \in 1 .. r : x # y /\ f[x] = f[y]
    <2>1. PICK low, high, g : low = 1 .. r - 1 /\ high = 1 .. r /\ g = f
        OBVIOUS
    <2> HIDE DEF f
    <2>2. g \in [high -> low] /\ IsFiniteSet(low) /\ IsFiniteSet(high) /\ Cardinality(low) < Cardinality(high)
        BY <1>2, <1>3, <2>1
    <2>3. \E x, y \in high : x # y /\ g[x] = g[y]
        BY <2>2, FS_PigeonHole
    <2> QED
        BY <2>1, <2>3
<1>5. x \in 1 .. L /\ y \in 1 .. L /\ m[x] = m[y]
    BY <1>4
<1> QED
    BY <1>4, <1>5 DEF Rearrangement

\* So the order says all of a list in order.
LEMMA SameInOrder ==
    ASSUME NEW L \in Nat, NEW X, NEW less, IsOrder(less, X),
           NEW u \in [1 .. L -> X], NEW v \in [1 .. L -> X], InOrder(u, less, L), InOrder(v, less, L),
           NEW m, Rearrangement(m, L), Takes(u, v, m, L)
    PROVE  u = v
<1>1. PICK n : Rearrangement(n, L) /\ \A q \in 1 .. L : m[n[q]] = q
    BY Undone
<1>2. Takes(v, u, n, L)
    BY <1>1 DEF Rearrangement, Takes
<1>3. ASSUME NEW r \in 1 .. L PROVE u[r] = v[r]
    <2>1. <<u[r], v[r]>> \notin less
        BY NotSmaller
    <2>2. <<v[r], u[r]>> \notin less
        BY <1>1, <1>2, NotSmaller
    <2>3. u[r] \in X /\ v[r] \in X
        OBVIOUS
    <2> QED
        BY <2>1, <2>2, <2>3 DEF IsOrder
<1> QED
    BY <1>3

-----------------------------------------------------------------------------
(* Canonical JSON: a text stands for one value.                            *)

\* The texts of the entries, given those of their values, and of the whole.
TextsOf(v, texts) == [i \in DOMAIN v.entries |-> v.entries[i].key \o texts[i]]
TextOf(v, texts) == <<v.kind>> \o Keys!FlattenSeq(TextsOf(v, texts)) \o <<Json!End>>

LEMMA NamesAre ==
    ASSUME NEW kind, NEW key \in NamesOf(kind)
    PROVE  /\ key \in Seq(Int)
           /\ kind = Json!Object => Len(key) = 2 /\ key[1] \in Nat /\ key[2] \in Nat
           /\ kind # Json!Object => key = <<>>
<1>1. CASE kind = Json!Object
    <2>1. key \in Nat \X Nat
        BY <1>1, JsonAssumption DEF NamesOf
    <2>2. PICK a \in Nat, b \in Nat : key = <<a, b>>
        BY <2>1
    <2>3. <<a, b>> \in Seq(Int) /\ Len(<<a, b>>) = 2 /\ <<a, b>>[1] = a /\ <<a, b>>[2] = b
        OBVIOUS
    <2> QED
        BY <1>1, <2>2, <2>3
<1>2. CASE kind # Json!Object
    BY <1>2, EmptySeq DEF NamesOf
<1> QED
    BY <1>1, <1>2

LEMMA TextTyped ==
    ASSUME NEW v \in Json!JsonValue, NEW texts \in [DOMAIN v.entries -> Seq(Int)]
    PROVE  /\ TextsOf(v, texts) \in Seq(Seq(Int)) /\ Len(TextsOf(v, texts)) = Len(v.entries)
           /\ Keys!FlattenSeq(TextsOf(v, texts)) \in Seq(Int)
           /\ TextOf(v, texts) \in Seq(Int)
<1>1. PICK l \in Nat : l = Len(v.entries) /\ DOMAIN v.entries = 1 .. l
    BY JsonValueIs
<1>2. ASSUME NEW i \in 1 .. l PROVE v.entries[i].key \o texts[i] \in Seq(Int)
    <2>1. v.entries[i].key \in Seq(Int) /\ texts[i] \in Seq(Int)
        BY <1>1, JsonValueIs, NamesAre
    <2> QED
        BY <2>1, ConcatProperties
<1>3. TextsOf(v, texts) \in [1 .. l -> Seq(Int)]
    BY <1>1, <1>2 DEF TextsOf
<1>4. TextsOf(v, texts) \in Seq(Seq(Int)) /\ Len(TextsOf(v, texts)) = l
    BY <1>3
<1>5. Keys!FlattenSeq(TextsOf(v, texts)) \in Seq(Int)
    BY <1>4, FlattenTyped
<1>6. v.kind \in Int /\ Json!End \in Int
    BY JsonValueIs, KindsDiffer DEF IsValue, Kinds
<1>7. TextOf(v, texts) \in Seq(Int)
    BY <1>5, <1>6 DEF TextOf
<1> QED
    BY <1>1, <1>4, <1>5, <1>7

\* The definition of stringify defines what it says.
LEMMA StringifyIs ==
    ASSUME NEW v \in Json!JsonValue
    PROVE  /\ Json!stringify[v] \in Seq(Int)
           /\ Json!stringify[v] = TextOf(v, Results(Json!stringify, v))
<1> DEFINE V == Json!JsonValue
           S == Seq(Int)
           Is(f) == f = [value \in V |->
                            <<value.kind>>
                              \o Json!FlattenSeq([i \in DOMAIN value.entries |->
                                     value.entries[i].key \o f[value.entries[i].value]])
                              \o <<Json!End>>]
           With(x) == {x} \X [DOMAIN x.entries -> S]
           pairs == UNION {With(x) : x \in V}
           step == [p \in pairs |-> TextOf(p[1], p[2])]
<1>1. ASSUME NEW x \in V, NEW texts \in [DOMAIN x.entries -> S]
      PROVE  step[<<x, texts>>] = TextOf(x, texts) /\ step[<<x, texts>>] \in S
    <2>1. <<x, texts>> \in With(x)
        OBVIOUS
    <2>2. <<x, texts>> \in pairs
        BY <2>1
    <2>3. step[<<x, texts>>] = TextOf(x, texts)
        BY <2>2
    <2> QED
        BY <2>3, TextTyped
<1> HIDE DEF step
<1>2. PICK f \in [V -> S] : MadeFrom(f, V, step)
    BY <1>1, RecursionOnValues
<1>3. ASSUME NEW x \in V PROVE Results(f, x) \in [DOMAIN x.entries -> S]
    BY JsonValueIs DEF Results
<1>4. ASSUME NEW x \in V PROVE f[x] = TextOf(x, Results(f, x))
    BY <1>1, <1>2, <1>3 DEF MadeFrom
<1>5. \A ss : Json!FlattenSeq(ss) = Keys!FlattenSeq(ss)
    BY Zenon DEF Json!FlattenSeq, Keys!FlattenSeq
<1>6. ASSUME NEW g, NEW x
      PROVE  TextOf(x, Results(g, x))
                 = <<x.kind>>
                     \o Json!FlattenSeq([i \in DOMAIN x.entries |->
                            x.entries[i].key \o g[x.entries[i].value]])
                     \o <<Json!End>>
    <2>1. TextsOf(x, Results(g, x)) = [i \in DOMAIN x.entries |-> x.entries[i].key \o g[x.entries[i].value]]
        BY DEF TextsOf, Results
    <2> QED
        BY <1>5, <2>1 DEF TextOf
<1>7. Is(f)
    <2>1. f = [x \in V |-> f[x]]
        BY <1>2
    <2>2. \A x \in V : f[x] = <<x.kind>>
                     \o Json!FlattenSeq([i \in DOMAIN x.entries |->
                            x.entries[i].key \o f[x.entries[i].value]])
                     \o <<Json!End>>
        BY <1>4, <1>6
    <2> QED
        BY <2>1, <2>2, Zenon
<1>8. Is(Json!stringify)
    <2>1. Json!stringify = CHOOSE g : Is(g)
        BY Zenon DEF Json!stringify
    <2> HIDE DEF Is
    <2> QED
        BY <1>7, <2>1
<1>9. ASSUME NEW x \in V PROVE Json!stringify[x] = TextOf(x, Results(Json!stringify, x))
    <2>1. Json!stringify[x] = <<x.kind>>
                     \o Json!FlattenSeq([i \in DOMAIN x.entries |->
                            x.entries[i].key \o Json!stringify[x.entries[i].value]])
                     \o <<Json!End>>
        BY <1>8, Zenon
    <2> QED
        BY <1>6, <2>1
<1>10. {x \in V : Json!stringify[x] \in S} = V
    <2> DEFINE P == {x \in V : Json!stringify[x] \in S}
    <2>1. P \subseteq V
        OBVIOUS
    <2>2. ASSUME NEW x \in V, \A i \in DOMAIN x.entries : x.entries[i].value \in P
          PROVE  x \in P
        <3>1. Results(Json!stringify, x) \in [DOMAIN x.entries -> S]
            BY <2>2 DEF Results
        <3>2. Json!stringify[x] \in S
            BY <1>9, <3>1, TextTyped
        <3> QED
            BY <3>2
    <2> HIDE DEF P
    <2>3. P = V
        BY <2>1, <2>2, InductionOnValues
    <2> QED
        BY <2>3 DEF P
<1>11. Json!stringify[v] \in S
    BY <1>10
<1> QED
    BY <1>9, <1>11

-----------------------------------------------------------------------------

\* A text occurs in a longer one, after so many symbols.
Occurs(whole, at, text) == \A i \in 1 .. Len(text) : whole[at + i] = text[i]

LEMMA OccursParts ==
    ASSUME NEW whole, NEW at \in Int, NEW s \in Seq(Int), NEW t \in Seq(Int), Occurs(whole, at, s \o t)
    PROVE  Occurs(whole, at, s) /\ Occurs(whole, at + Len(s), t)
<1>1. PICK l \in Nat, m \in Nat : l = Len(s) /\ m = Len(t)
    BY LenProperties
<1>2. /\ Len(s \o t) = l + m
      /\ \A i \in 1 .. l : (s \o t)[i] = s[i]
      /\ \A i \in 1 .. m : (s \o t)[l + i] = t[i]
    <2>1. Len(s \o t) = l + m /\ \A i \in 1 .. l + m : (s \o t)[i] = IF i <= l THEN s[i] ELSE t[i - l]
        BY <1>1, ConcatProperties
    <2>2. ASSUME NEW i \in 1 .. l PROVE (s \o t)[i] = s[i]
        BY <2>1
    <2>3. ASSUME NEW i \in 1 .. m PROVE (s \o t)[l + i] = t[i]
        <3>1. l + i \in 1 .. l + m /\ ~(l + i <= l) /\ (l + i) - l = i
            OBVIOUS
        <3> QED
            BY <2>1, <3>1
    <2> QED
        BY <2>1, <2>2, <2>3
<1>3. Occurs(whole, at, s)
    <2>1. ASSUME NEW i \in 1 .. l PROVE whole[at + i] = s[i]
        <3>1. i \in 1 .. l + m
            OBVIOUS
        <3> QED
            BY <1>2, <3>1 DEF Occurs
    <2> QED
        BY <1>1, <2>1 DEF Occurs
<1>4. Occurs(whole, at + l, t)
    <2>1. ASSUME NEW i \in 1 .. m PROVE whole[(at + l) + i] = t[i]
        <3>1. l + i \in 1 .. l + m /\ at + (l + i) = (at + l) + i
            OBVIOUS
        <3> QED
            BY <1>2, <3>1 DEF Occurs
    <2> QED
        BY <1>1, <2>1 DEF Occurs
<1> QED
    BY <1>1, <1>3, <1>4

\* Of lists put together, each occurs where the one before it ends.
Places(at, whole, p, ss) ==
    /\ at[0] = p
    /\ \A n \in 0 .. Len(ss) : at[n] \in Int
    /\ \A n \in 0 .. Len(ss) - 1 : Occurs(whole, at[n], ss[n + 1]) /\ at[n + 1] = at[n] + Len(ss[n + 1])
    /\ at[Len(ss)] = p + Len(Keys!FlattenSeq(ss))

LEMMA FlattenOccurs ==
    ASSUME NEW whole, NEW p \in Int, NEW ss \in Seq(Seq(Int)), Occurs(whole, p, Keys!FlattenSeq(ss))
    PROVE  \E at : Places(at, whole, p, ss)
<1>0. PICK L \in Nat : L = Len(ss) /\ DOMAIN ss = 1 .. L /\ \A n \in 1 .. L : ss[n] \in Seq(Int)
    BY LenProperties, ElementOfSeq
<1>1. CASE ss = <<>>
    <2>1. Keys!FlattenSeq(ss) = <<>> /\ Len(ss) = 0
        BY <1>1 DEF Keys!FlattenSeq
    <2>2. PICK at : at = [n \in {0} |-> p]
        OBVIOUS
    <2>3. Places(at, whole, p, ss)
        BY <2>1, <2>2 DEF Places
    <2> QED
        BY <2>3
<1>2. CASE ss # <<>>
    <2>1. L # 0
        BY <1>0, <1>2, EmptySeq
    <2>2. PICK f \in [1 .. L -> Seq(Int)] : Concatenates(f, ss) /\ Keys!FlattenSeq(ss) = f[L]
        BY <1>0, <1>2, FlattenIs
    <2> DEFINE P == {k \in Nat : k < L => Occurs(whole, p, f[L - k])}
    <2>3. 0 \in P
        BY <2>1, <2>2
    <2>4. ASSUME NEW k \in P PROVE k + 1 \in P
        <3>1. SUFFICES ASSUME k + 1 < L PROVE Occurs(whole, p, f[L - (k + 1)])
            OBVIOUS
        <3>2. PICK n \in 1 .. L : n = L - (k + 1) /\ n + 1 = L - k /\ n < L /\ n + 1 \in 1 .. L /\ k < L
            BY <3>1
        <3>3. Occurs(whole, p, f[n + 1])
            BY <3>2
        <3>4. f[n + 1] = f[n] \o ss[n + 1]
            BY <1>0, <2>2, <3>2 DEF Concatenates
        <3>5. f[n] \in Seq(Int) /\ ss[n + 1] \in Seq(Int)
            BY <1>0, <2>2, <3>2
        <3> QED
            BY <3>2, <3>3, <3>4, <3>5, OccursParts
    <2>5. P = Nat
        <3>1. P \subseteq Nat
            OBVIOUS
        <3> HIDE DEF P
        <3> QED
            BY <2>3, <2>4, <3>1, Induction
    <2>6. ASSUME NEW n \in 1 .. L PROVE Occurs(whole, p, f[n])
        <3>1. L - n \in Nat /\ L - n < L /\ L - (L - n) = n
            OBVIOUS
        <3>2. L - n \in P
            BY <2>5, <3>1
        <3> QED
            BY <3>1, <3>2
    <2> HIDE DEF P
    <2> DEFINE size(n) == IF n = 0 THEN 0 ELSE Len(f[n])
    <2>7. PICK at : at = [n \in 0 .. L |-> p + size(n)]
        OBVIOUS
    <2>a. at[0] = p
        BY <2>7
    <2>b. ASSUME NEW n \in 1 .. L PROVE at[n] = p + Len(f[n])
        BY <2>7
    <2> HIDE DEF size
    <2>8. ASSUME NEW n \in 1 .. L PROVE Len(f[n]) \in Nat
        <3>1. f[n] \in Seq(Int)
            BY <2>2
        <3> QED
            BY <3>1, LenProperties
    <2>9. ASSUME NEW n \in 0 .. L PROVE at[n] \in Int
        <3>1. CASE n = 0
            BY <2>a, <3>1
        <3>2. CASE n # 0
            <4>1. n \in 1 .. L
                BY <3>2
            <4>2. Len(f[n]) \in Nat
                BY <2>8, <4>1
            <4> QED
                BY <2>b, <4>1, <4>2
        <3> QED
            BY <3>1, <3>2
    <2>10. ASSUME NEW n \in 0 .. L - 1
           PROVE  Occurs(whole, at[n], ss[n + 1]) /\ at[n + 1] = at[n] + Len(ss[n + 1])
        <3>1. CASE n = 0
            <4>1. 1 \in 1 .. L /\ n + 1 = 1
                BY <2>1, <3>1
            <4>2. f[1] = ss[1]
                BY <2>2 DEF Concatenates
            <4>3. at[1] = p + Len(ss[1])
                BY <2>b, <4>1, <4>2
            <4>4. Occurs(whole, p, ss[1])
                BY <2>6, <4>1, <4>2
            <4> QED
                BY <2>a, <3>1, <4>1, <4>3, <4>4
        <3>2. CASE n # 0
            <4>1. n \in 1 .. L /\ n < L /\ n + 1 \in 1 .. L /\ n + 1 # 0
                BY <3>2
            <4>2. f[n + 1] = f[n] \o ss[n + 1]
                BY <1>0, <2>2, <4>1 DEF Concatenates
            <4>3. f[n] \in Seq(Int) /\ ss[n + 1] \in Seq(Int)
                BY <1>0, <2>2, <4>1
            <4>4. Occurs(whole, p + Len(f[n]), ss[n + 1])
                BY <2>6, <4>1, <4>2, <4>3, OccursParts
            <4>5. PICK a \in Nat, b \in Nat : a = Len(f[n]) /\ b = Len(ss[n + 1])
                BY <4>3, LenProperties
            <4>6. Len(f[n + 1]) = a + b
                BY <4>2, <4>3, <4>5, ConcatProperties
            <4>7. at[n] = p + a /\ at[n + 1] = p + (a + b)
                BY <2>b, <4>1, <4>5, <4>6
            <4>8. p + (a + b) = (p + a) + b
                OBVIOUS
            <4> QED
                BY <4>4, <4>5, <4>7, <4>8
        <3> QED
            BY <3>1, <3>2
    <2>11. at[0] = p /\ at[L] = p + Len(f[L])
        <3>1. L \in 1 .. L
            BY <2>1
        <3> QED
            BY <2>a, <2>b, <3>1
    <2>12. Places(at, whole, p, ss)
        BY <1>0, <2>2, <2>9, <2>10, <2>11 DEF Places
    <2> QED
        BY <2>12
<1> QED
    BY <1>1, <1>2

\* Where the entries of a value are in a text that has its text.
Lies(at, whole, p, v) ==
    /\ whole[p + 1] = v.kind /\ at[0] = p + 1
    /\ \A n \in 0 .. Len(v.entries) : at[n] \in Int
    /\ \A n \in 0 .. Len(v.entries) - 1 :
          LET entry == v.entries[n + 1] IN
          /\ whole[at[n] + 1] # Json!End
          /\ Occurs(whole, at[n], entry.key)
          /\ Occurs(whole, at[n] + Len(entry.key), Json!stringify[entry.value])
          /\ at[n + 1] = at[n] + Len(entry.key \o Json!stringify[entry.value])
    /\ whole[at[Len(v.entries)] + 1] = Json!End

\* A text opens with a number that is not End.
LEMMA TextOpens ==
    ASSUME NEW v \in Json!JsonValue, NEW whole, NEW p \in Int, Occurs(whole, p, Json!stringify[v])
    PROVE  whole[p + 1] = v.kind /\ v.kind # Json!End
<1>1. PICK f : f = Keys!FlattenSeq(TextsOf(v, Results(Json!stringify, v)))
    OBVIOUS
<1>2. Results(Json!stringify, v) \in [DOMAIN v.entries -> Seq(Int)]
    BY JsonValueIs, StringifyIs DEF Results
<1>3. f \in Seq(Int) /\ v.kind \in Int /\ Json!End \in Int /\ v.kind # Json!End
    BY <1>1, <1>2, TextTyped, JsonValueIs, KindsDiffer DEF IsValue, Kinds
<1>4. Occurs(whole, p, <<v.kind>> \o f \o <<Json!End>>)
    BY <1>1, StringifyIs DEF TextOf
<1>5. <<v.kind>> \in Seq(Int) /\ <<Json!End>> \in Seq(Int) /\ <<v.kind>> \o f \in Seq(Int)
    BY <1>3, ConcatProperties
<1>6. Occurs(whole, p, <<v.kind>>)
    BY <1>3, <1>4, <1>5, OccursParts
<1>7. 1 \in 1 .. Len(<<v.kind>>) /\ <<v.kind>>[1] = v.kind
    OBVIOUS
<1> QED
    BY <1>3, <1>6, <1>7 DEF Occurs

LEMMA TextLies ==
    ASSUME NEW v \in Json!JsonValue, NEW whole, NEW p \in Int, Occurs(whole, p, Json!stringify[v])
    PROVE  \E at : Lies(at, whole, p, v)
<1>1. PICK texts : texts = TextsOf(v, Results(Json!stringify, v))
    OBVIOUS
<1>2. PICK f : f = Keys!FlattenSeq(texts)
    OBVIOUS
<1>3. PICK L \in Nat : L = Len(v.entries) /\ DOMAIN v.entries = 1 .. L
    BY JsonValueIs
<1>4. Results(Json!stringify, v) \in [DOMAIN v.entries -> Seq(Int)]
    BY JsonValueIs, StringifyIs DEF Results
<1>a. texts \in Seq(Seq(Int)) /\ Len(texts) = L /\ f \in Seq(Int)
    BY <1>1, <1>2, <1>3, <1>4, TextTyped
<1>b. v.kind \in Int /\ Json!End \in Int
    BY JsonValueIs, KindsDiffer DEF IsValue, Kinds
<1>5. /\ texts \in Seq(Seq(Int)) /\ Len(texts) = L /\ f \in Seq(Int)
      /\ v.kind \in Int /\ Json!End \in Int
    BY <1>a, <1>b
<1>6. Occurs(whole, p, <<v.kind>> \o f \o <<Json!End>>)
    BY <1>1, <1>2, StringifyIs DEF TextOf
<1>7. /\ <<v.kind>> \in Seq(Int) /\ <<Json!End>> \in Seq(Int) /\ <<v.kind>> \o f \in Seq(Int)
      /\ Len(<<v.kind>>) = 1 /\ Len(<<Json!End>>) = 1 /\ <<Json!End>>[1] = Json!End
      /\ Len(<<v.kind>> \o f) = 1 + Len(f) /\ Len(f) \in Nat
    BY <1>5, ConcatProperties, LenProperties
<1>8. Occurs(whole, p, <<v.kind>> \o f) /\ Occurs(whole, p + (1 + Len(f)), <<Json!End>>)
    BY <1>6, <1>7, OccursParts
<1>9. Occurs(whole, p + 1, f)
    BY <1>5, <1>7, <1>8, OccursParts
<1>10. p + 1 \in Int
    OBVIOUS
<1>11. PICK at : Places(at, whole, p + 1, texts)
    BY <1>2, <1>5, <1>9, <1>10, FlattenOccurs
<1>12. whole[at[L] + 1] = Json!End
    <2>1. whole[(p + (1 + Len(f))) + 1] = Json!End
        BY <1>7, <1>8 DEF Occurs
    <2>2. at[L] = (p + 1) + Len(f)
        BY <1>2, <1>5, <1>11 DEF Places
    <2>3. at[L] = p + (1 + Len(f))
        BY <1>7, <2>2
    <2> QED
        BY <2>1, <2>3
<1>13. ASSUME NEW n \in 0 .. L - 1
       PROVE  LET entry == v.entries[n + 1] IN
              /\ whole[at[n] + 1] # Json!End
              /\ Occurs(whole, at[n], entry.key)
              /\ Occurs(whole, at[n] + Len(entry.key), Json!stringify[entry.value])
              /\ at[n + 1] = at[n] + Len(entry.key \o Json!stringify[entry.value])
    <2>1. n + 1 \in 1 .. L
        OBVIOUS
    <2>2. PICK key, value, text : /\ key = v.entries[n + 1].key /\ value = v.entries[n + 1].value
                                  /\ text = Json!stringify[value]
        OBVIOUS
    <2>3. texts[n + 1] = key \o text
        BY <1>1, <1>3, <2>1, <2>2 DEF TextsOf, Results
    <2>4. value \in Json!JsonValue /\ key \in NamesOf(v.kind)
        BY <1>3, <2>1, <2>2, JsonValueIs
    <2>5. text \in Seq(Int) /\ key \in Seq(Int)
        BY <2>2, <2>4, StringifyIs, NamesAre
    <2>6. at[n] \in Int /\ Occurs(whole, at[n], key \o text) /\ at[n + 1] = at[n] + Len(key \o text)
        <3>1. n \in 0 .. Len(texts) /\ n \in 0 .. Len(texts) - 1
            BY <1>a
        <3>2. at[n] \in Int /\ Occurs(whole, at[n], texts[n + 1]) /\ at[n + 1] = at[n] + Len(texts[n + 1])
            BY <1>11, <3>1 DEF Places
        <3> QED
            BY <2>3, <3>2
    <2>7. Occurs(whole, at[n], key) /\ Occurs(whole, at[n] + Len(key), text)
        BY <2>5, <2>6, OccursParts
    <2>8. whole[at[n] + 1] # Json!End
        <3>1. CASE v.kind = Json!Object
            <4>1. Len(key) = 2 /\ key[1] \in Nat
                BY <2>4, <3>1, NamesAre
            <4>2. whole[at[n] + 1] = key[1]
                BY <2>7, <4>1 DEF Occurs
            <4> QED
                BY <4>1, <4>2, KindsDiffer
        <3>2. CASE v.kind # Json!Object
            <4>1. key = <<>>
                BY <2>4, <3>2, NamesAre
            <4>2. at[n] + Len(key) = at[n]
                BY <2>6, <4>1
            <4>3. Occurs(whole, at[n], Json!stringify[value])
                BY <2>2, <2>7, <4>2
            <4> QED
                BY <2>4, <2>6, <4>3, TextOpens
        <3> QED
            BY <3>1, <3>2
    <2> QED
        BY <2>2, <2>6, <2>7, <2>8
<1>14. /\ whole[p + 1] = v.kind /\ at[0] = p + 1
       /\ \A n \in 0 .. L : at[n] \in Int
    BY <1>5, <1>11, TextOpens DEF Places
<1>15. Lies(at, whole, p, v)
    BY <1>3, <1>12, <1>13, <1>14 DEF Lies
<1> QED
    BY <1>15

\* Two values with texts in the same place are the same.
LEMMA SameText ==
    ASSUME NEW whole
    PROVE  \A a, b \in Json!JsonValue, p \in Int :
               Occurs(whole, p, Json!stringify[a]) /\ Occurs(whole, p, Json!stringify[b]) => a = b
<1> DEFINE V == Json!JsonValue
           Same(a) == \A b \in V, p \in Int :
                          Occurs(whole, p, Json!stringify[a]) /\ Occurs(whole, p, Json!stringify[b]) => a = b
           P == {a \in V : Same(a)}
<1>1. ASSUME NEW a \in V, \A i \in DOMAIN a.entries : a.entries[i].value \in P
      PROVE  Same(a)
    <2> SUFFICES ASSUME NEW b \in V, NEW p \in Int,
                        Occurs(whole, p, Json!stringify[a]), Occurs(whole, p, Json!stringify[b])
                 PROVE  a = b
        OBVIOUS
    <2>1. PICK f : Lies(f, whole, p, a)
        BY TextLies
    <2>2. PICK g : Lies(g, whole, p, b)
        BY TextLies
    <2>3. PICK L \in Nat : L = Len(a.entries) /\ DOMAIN a.entries = 1 .. L
        BY JsonValueIs
    <2>4. PICK M \in Nat : M = Len(b.entries) /\ DOMAIN b.entries = 1 .. M
        BY JsonValueIs
    <2>5. a.kind = b.kind
        BY <2>1, <2>2 DEF Lies
    <2> DEFINE Agree(n) == /\ n <= M /\ f[n] = g[n]
                           /\ \A i \in 1 .. n : a.entries[i] = b.entries[i]
               Q == {n \in Nat : n <= L => Agree(n)}
    <2>6. 0 \in Q
        <3>1. f[0] = g[0]
            BY <2>1, <2>2 DEF Lies
        <3> QED
            BY <3>1
    <2>7. ASSUME NEW n \in Q PROVE n + 1 \in Q
        <3>1. SUFFICES ASSUME n + 1 <= L PROVE Agree(n + 1)
            OBVIOUS
        <3>2. n \in 0 .. L /\ n \in 0 .. L - 1 /\ n + 1 \in 1 .. L /\ n \in Nat /\ n <= M /\ f[n] = g[n]
            BY <3>1
        <3>3. n # M
            <4>1. whole[f[n] + 1] # Json!End
                BY <2>1, <2>3, <3>2 DEF Lies
            <4>2. whole[g[M] + 1] = Json!End
                BY <2>2, <2>4 DEF Lies
            <4> QED
                BY <3>2, <4>1, <4>2
        <3>4. n \in 0 .. M - 1 /\ n + 1 \in 1 .. M /\ n + 1 <= M
            BY <3>2, <3>3
        <3>5. PICK key, value : key = a.entries[n + 1].key /\ value = a.entries[n + 1].value
            OBVIOUS
        <3>6. PICK name, held : name = b.entries[n + 1].key /\ held = b.entries[n + 1].value
            OBVIOUS
        <3>7. /\ a.entries[n + 1] = [key |-> key, value |-> value] /\ key \in NamesOf(a.kind) /\ value \in P
              /\ b.entries[n + 1] = [key |-> name, value |-> held] /\ name \in NamesOf(a.kind) /\ held \in V
            BY <1>1, <2>3, <2>4, <2>5, <3>2, <3>4, <3>5, <3>6, JsonValueIs
        <3>8. /\ f[n] \in Int /\ Occurs(whole, f[n], key) /\ Occurs(whole, f[n] + Len(key), Json!stringify[value])
              /\ f[n + 1] = f[n] + Len(key \o Json!stringify[value])
            BY <2>1, <2>3, <3>2, <3>5 DEF Lies
        <3>9. /\ Occurs(whole, f[n], name) /\ Occurs(whole, f[n] + Len(name), Json!stringify[held])
              /\ g[n + 1] = f[n] + Len(name \o Json!stringify[held])
            BY <2>2, <2>4, <3>2, <3>4, <3>6 DEF Lies
        <3>10. key = name
            <4>1. CASE a.kind = Json!Object
                <5>1. key \in Seq(Int) /\ name \in Seq(Int) /\ Len(key) = 2 /\ Len(name) = 2
                    BY <3>7, <4>1, NamesAre
                <5>2. \A i \in 1 .. 2 : key[i] = name[i]
                    BY <3>8, <3>9, <5>1 DEF Occurs
                <5> QED
                    BY <5>1, <5>2, SeqEqual
            <4>2. CASE a.kind # Json!Object
                BY <3>7, <4>2, NamesAre
            <4> QED
                BY <4>1, <4>2
        <3>11. value = held
            <4>1. Len(key) \in Nat
                BY <3>7, NamesAre, LenProperties
            <4>2. f[n] + Len(key) \in Int
                BY <3>8, <4>1
            <4>3. Same(value)
                BY <3>7
            <4> QED
                BY <3>7, <3>8, <3>9, <3>10, <4>2, <4>3
        <3>12. f[n + 1] = g[n + 1] /\ a.entries[n + 1] = b.entries[n + 1]
            BY <3>7, <3>8, <3>9, <3>10, <3>11
        <3>13. \A i \in 1 .. n + 1 : a.entries[i] = b.entries[i]
            <4>1. \A i \in 1 .. n : a.entries[i] = b.entries[i]
                BY <3>1, <2>7
            <4>2. \A i \in 1 .. n + 1 : i \in 1 .. n \/ i = n + 1
                BY <3>2
            <4> QED
                BY <3>12, <4>1, <4>2
        <3> QED
            BY <3>4, <3>12, <3>13
    <2>8. Agree(L)
        <3>1. Q \subseteq Nat
            OBVIOUS
        <3> HIDE DEF Q
        <3>2. Q = Nat
            BY <2>6, <2>7, <3>1, Induction
        <3>3. L \in Q /\ L <= L
            BY <3>2
        <3> QED
            BY <3>3 DEF Q
    <2>9. L = M
        <3>1. SUFFICES ASSUME L # M PROVE FALSE
            OBVIOUS
        <3>2. L \in 0 .. M - 1 /\ f[L] = g[L]
            BY <2>8, <3>1
        <3>3. whole[g[L] + 1] # Json!End
            BY <2>2, <2>4, <3>2 DEF Lies
        <3>4. whole[f[L] + 1] = Json!End
            BY <2>1, <2>3 DEF Lies
        <3> QED
            BY <3>2, <3>3, <3>4
    <2>10. a.entries = b.entries
        <3>1. a.entries \in Seq(EntriesOf(a.kind, V)) /\ b.entries \in Seq(EntriesOf(a.kind, V))
            BY <2>5, JsonValueIs DEF IsValue
        <3>2. \A i \in 1 .. L : a.entries[i] = b.entries[i]
            BY <2>8
        <3> QED
            BY <2>3, <2>4, <2>9, <3>1, <3>2, SeqEqual
    <2> QED
        BY <2>5, <2>10, JsonValueIs DEF IsValue
<1>2. P \subseteq V
    OBVIOUS
<1>3. P = V
    <2>1. \A a \in V : (\A i \in DOMAIN a.entries : a.entries[i].value \in P) => a \in P
        BY <1>1
    <2> HIDE DEF P
    <2> QED
        BY <1>2, <2>1, InductionOnValues
<1> QED
    BY <1>3

LEMMA TextsDiffer ==
    ASSUME NEW a \in Json!JsonValue, NEW b \in Json!JsonValue, Json!stringify[a] = Json!stringify[b]
    PROVE  a = b
<1>1. PICK whole : whole = Json!stringify[a]
    OBVIOUS
<1>2. PICK zero \in Int : \A i \in Int : zero + i = i
    <2>1. \A i \in Int : 0 + i = i
        OBVIOUS
    <2> QED
        BY <2>1
<1>3. Occurs(whole, zero, Json!stringify[a])
    <2>1. whole \in Seq(Int)
        BY <1>1, StringifyIs
    <2>2. Len(whole) \in Nat
        BY <2>1, LenProperties
    <2>3. \A i \in 1 .. Len(whole) : zero + i = i
        BY <1>2
    <2> QED
        BY <1>1, <2>3 DEF Occurs
<1> QED
    BY <1>3, SameText

-----------------------------------------------------------------------------
(* Canonical JSON: sorting.                                                *)

\* The order of the entries of a value.
LEMMA LessIs ==
    ASSUME NEW kind, NEW d \in EntriesOf(kind, Json!JsonValue),
           NEW e \in EntriesOf(kind, Json!JsonValue), NEW f \in EntriesOf(kind, Json!JsonValue)
    PROVE  /\ ~Json!Less(kind, d, d)
           /\ Json!Less(kind, d, e) /\ Json!Less(kind, e, f) => Json!Less(kind, d, f)
           /\ Json!Less(kind, d, f) => Json!Less(kind, d, e) \/ Json!Less(kind, e, f)
<1>1. CASE kind = Json!Object
    <2>1. ASSUME NEW x \in EntriesOf(kind, Json!JsonValue) PROVE x.key[1] \in Nat
        <3>1. x.key \in NamesOf(kind)
            BY DEF EntriesOf
        <3> QED
            BY <1>1, <3>1, NamesAre
    <2>2. \A x, y : Json!Less(kind, x, y) <=> x.key[1] < y.key[1]
        BY <1>1 DEF Json!Less, Json!LowerCase
    <2>3. PICK a \in Nat, b \in Nat, c \in Nat : a = d.key[1] /\ b = e.key[1] /\ c = f.key[1]
        BY <2>1
    <2>4. ~(a < a) /\ (a < b /\ b < c => a < c) /\ (a < c => a < b \/ b < c)
        OBVIOUS
    <2> QED
        BY <2>2, <2>3, <2>4
<1>2. CASE kind # Json!Object
    <2>1. \A x, y : Json!Less(kind, x, y) <=> Json!Before(Json!stringify[x.value], Json!stringify[y.value])
        BY <1>2 DEF Json!Less
    <2>2. PICK s \in Seq(Int), t \in Seq(Int), u \in Seq(Int) :
              s = Json!stringify[d.value] /\ t = Json!stringify[e.value] /\ u = Json!stringify[f.value]
        <3>1. d.value \in Json!JsonValue /\ e.value \in Json!JsonValue /\ f.value \in Json!JsonValue
            BY DEF EntriesOf
        <3> QED
            BY <3>1, StringifyIs
    <2>3. /\ ~Json!Before(s, s)
          /\ Json!Before(s, t) /\ Json!Before(t, u) => Json!Before(s, u)
        BY BeforeIsTotal, BeforeIsTransitive
    <2>4. Json!Before(s, u) => Json!Before(s, t) \/ Json!Before(t, u)
        <3>1. SUFFICES ASSUME Json!Before(s, u), ~Json!Before(s, t) PROVE Json!Before(t, u)
            OBVIOUS
        <3>2. CASE s = t
            BY <3>1, <3>2
        <3>3. CASE s # t
            <4>1. Json!Before(t, s)
                BY <3>1, <3>3, BeforeIsTotal
            <4> QED
                BY <3>1, <4>1, BeforeIsTransitive
        <3> QED
            BY <3>2, <3>3
    <2> QED
        BY <2>1, <2>2, <2>3, <2>4
<1> QED
    BY <1>1, <1>2

\* The order of the positions of a list of entries that a stable sort goes by.
LessAt(kind, entries, L) ==
    {p \in (1 .. L) \X (1 .. L) :
        \/ Json!Less(kind, entries[p[1]], entries[p[2]])
        \/ p[1] < p[2] /\ ~Json!Less(kind, entries[p[2]], entries[p[1]])}

LEMMA LessAtIs ==
    ASSUME NEW kind, NEW entries, NEW L \in Nat, NEW i \in 1 .. L, NEW j \in 1 .. L
    PROVE  <<i, j>> \in LessAt(kind, entries, L)
               <=> \/ Json!Less(kind, entries[i], entries[j])
                   \/ i < j /\ ~Json!Less(kind, entries[j], entries[i])
<1>1. <<i, j>> \in (1 .. L) \X (1 .. L)
    OBVIOUS
<1>2. <<i, j>>[1] = i /\ <<i, j>>[2] = j
    OBVIOUS
<1> QED
    BY <1>1, <1>2 DEF LessAt

LEMMA LessAtIsOrder ==
    ASSUME NEW kind, NEW L \in Nat, NEW entries \in [1 .. L -> EntriesOf(kind, Json!JsonValue)]
    PROVE  IsOrder(LessAt(kind, entries, L), 1 .. L)
<1>1. PICK less : less = LessAt(kind, entries, L)
    OBVIOUS
<1> DEFINE Less(i, j) == Json!Less(kind, entries[i], entries[j])
<1>2. \A i, j \in 1 .. L : <<i, j>> \in less <=> Less(i, j) \/ (i < j /\ ~Less(j, i))
    BY <1>1, LessAtIs
<1>3. \A i, j, k \in 1 .. L : /\ ~Less(i, i)
                              /\ Less(i, j) /\ Less(j, k) => Less(i, k)
                              /\ Less(i, k) => Less(i, j) \/ Less(j, k)
    <2>1. \A i \in 1 .. L : entries[i] \in EntriesOf(kind, Json!JsonValue)
        OBVIOUS
    <2> QED
        BY <2>1, LessIs
<1> HIDE DEF Less
<1>4. \A i \in 1 .. L : <<i, i>> \notin less
    BY <1>2, <1>3
<1>5. ASSUME NEW i \in 1 .. L, NEW j \in 1 .. L, NEW k \in 1 .. L, <<i, j>> \in less, <<j, k>> \in less
      PROVE  <<i, k>> \in less
    <2>1. (Less(i, j) \/ (i < j /\ ~Less(j, i))) /\ (Less(j, k) \/ (j < k /\ ~Less(k, j)))
        BY <1>2, <1>5
    <2>2. i < j /\ j < k => i < k
        OBVIOUS
    <2>3. Less(i, k) \/ (i < k /\ ~Less(k, i))
        BY <1>3, <2>1, <2>2
    <2> QED
        BY <1>2, <2>3
<1>6. ASSUME NEW i \in 1 .. L, NEW j \in 1 .. L, i # j
      PROVE  <<i, j>> \in less \/ <<j, i>> \in less
    <2>1. i < j \/ j < i
        BY <1>6
    <2> QED
        BY <1>2, <2>1
<1> QED
    BY <1>1, <1>4, <1>5, <1>6 DEF IsOrder

\* Sorted puts the entries into that order.
Sorts(p, kind, entries, L) ==
    /\ Rearrangement(p, L)
    /\ \A r, s \in 1 .. L : r < s => <<p[r], p[s]>> \in LessAt(kind, entries, L)

SortedBy(p, kind, entries, L) ==
    /\ Sorts(p, kind, entries, L)
    /\ Json!Sorted(kind, entries) = [r \in 1 .. L |-> entries[p[r]]]

LEMMA SortedIs ==
    ASSUME NEW kind, NEW L \in Nat, NEW entries \in [1 .. L -> EntriesOf(kind, Json!JsonValue)]
    PROVE  \E p : SortedBy(p, kind, entries, L)
<1>1. PICK less : less = LessAt(kind, entries, L)
    OBVIOUS
<1>2. IsOrder(less, 1 .. L)
    BY <1>1, LessAtIsOrder
<1>3. \A T : Json!Cardinality(T) = Cardinality(T)
    BY Zenon DEF Json!Cardinality, Cardinality
<1>4. DOMAIN entries = 1 .. L
    OBVIOUS
<1> DEFINE before(i) == {j \in DOMAIN entries :
                            \/ Json!Less(kind, entries[j], entries[i])
                            \/ j <= i /\ ~Json!Less(kind, entries[i], entries[j])}
           rank(i) == Json!Cardinality(before(i))
<1>5. ASSUME NEW i \in 1 .. L PROVE before(i) = UpTo(less, 1 .. L, i)
    <2>1. ASSUME NEW j \in 1 .. L
          PROVE  (\/ Json!Less(kind, entries[j], entries[i])
                  \/ j <= i /\ ~Json!Less(kind, entries[i], entries[j])) <=> j = i \/ <<j, i>> \in less
        <3>1. <<j, i>> \in less <=> \/ Json!Less(kind, entries[j], entries[i])
                                    \/ j < i /\ ~Json!Less(kind, entries[i], entries[j])
            BY <1>1, LessAtIs
        <3>2. ~Json!Less(kind, entries[i], entries[i])
            BY LessIs
        <3>3. j <= i <=> j < i \/ j = i
            OBVIOUS
        <3> QED
            BY <3>1, <3>2, <3>3
    <2> QED
        BY <1>4, <2>1 DEF UpTo
<1>6. \A i \in 1 .. L : rank(i) = Cardinality(UpTo(less, 1 .. L, i))
    BY <1>3, <1>5
<1>7. Json!Sorted(kind, entries) = [r \in 1 .. L |-> entries[CHOOSE i \in 1 .. L : rank(i) = r]]
    BY <1>4 DEF Json!Sorted
<1> HIDE DEF rank
<1>8. PICK p : p = ByRank(less, L)
    OBVIOUS
<1>9. ASSUME NEW r \in 1 .. L
      PROVE  p[r] = CHOOSE i \in 1 .. L : rank(i) = r
    <2>1. \A i : (i \in 1 .. L /\ Cardinality(UpTo(less, 1 .. L, i)) = r) <=> (i \in 1 .. L /\ rank(i) = r)
        BY <1>6
    <2>2. (CHOOSE i \in 1 .. L : Cardinality(UpTo(less, 1 .. L, i)) = r) = CHOOSE i \in 1 .. L : rank(i) = r
        BY <2>1, Zenon
    <2> QED
        BY <1>8, <2>2 DEF ByRank
<1>10. Json!Sorted(kind, entries) = [r \in 1 .. L |-> entries[p[r]]]
    BY <1>7, <1>9
<1>11. Rearrangement(p, L) /\ \A r, s \in 1 .. L : r < s => <<p[r], p[s]>> \in less
    BY <1>2, <1>8, ByRankIs
<1> QED
    BY <1>1, <1>10, <1>11 DEF Sorts, SortedBy

\* The entries of a value with other values in them.
EntriesWith(v, values) == [i \in DOMAIN v.entries |-> Json!Entry(v.entries[i].key, values[i])]

HasThose(entries, v, values, L) ==
    \A i \in 1 .. L : entries[i] = [key |-> v.entries[i].key, value |-> values[i]]

LEMMA EntriesTyped ==
    ASSUME NEW S, NEW v \in Json!JsonValue, NEW values \in [DOMAIN v.entries -> S],
           NEW L \in Nat, L = Len(v.entries)
    PROVE  /\ EntriesWith(v, values) \in [1 .. L -> EntriesOf(v.kind, S)]
           /\ HasThose(EntriesWith(v, values), v, values, L)
<1>1. DOMAIN v.entries = 1 .. L /\ \A i \in 1 .. L : v.entries[i].key \in NamesOf(v.kind)
    BY JsonValueIs
<1>2. ASSUME NEW i \in 1 .. L
      PROVE  /\ EntriesWith(v, values)[i] = [key |-> v.entries[i].key, value |-> values[i]]
             /\ EntriesWith(v, values)[i] \in EntriesOf(v.kind, S)
    <2>1. EntriesWith(v, values)[i] = [key |-> v.entries[i].key, value |-> values[i]]
        BY <1>1 DEF EntriesWith, Json!Entry
    <2>2. values[i] \in S /\ v.entries[i].key \in NamesOf(v.kind)
        BY <1>1
    <2> QED
        BY <2>1, <2>2 DEF EntriesOf
<1>3. EntriesWith(v, values) = [i \in 1 .. L |-> EntriesWith(v, values)[i]]
    BY <1>1 DEF EntriesWith
<1> QED
    BY <1>2, <1>3 DEF HasThose

\* What sortObj makes of a value, given what it makes of those in it.
SortedWith(v, values) == [kind |-> v.kind, entries |-> Json!Sorted(v.kind, EntriesWith(v, values))]

LEMMA SortedTyped ==
    ASSUME NEW n \in Nat, n <= MaxLevels, NEW v \in Json!Level[n], NEW values \in [DOMAIN v.entries -> Inner(n)]
    PROVE  SortedWith(v, values) \in Json!Level[n]
<1>1. v \in Json!JsonValue /\ IsValue(v, Inner(n)) /\ (n = 0 => v.kind \in Scalars) /\ Inner(n) \subseteq Json!JsonValue
    BY LevelsAre, ValueIs
<1>2. PICK L \in Nat : L = Len(v.entries) /\ DOMAIN v.entries = 1 .. L
    BY <1>1, JsonValueIs
<1>3. PICK entries : entries = EntriesWith(v, values)
    OBVIOUS
<1>4. entries \in [1 .. L -> EntriesOf(v.kind, Inner(n))]
    BY <1>1, <1>2, <1>3, EntriesTyped
<1>5. EntriesOf(v.kind, Inner(n)) \subseteq EntriesOf(v.kind, Json!JsonValue)
    BY <1>1 DEF EntriesOf
<1>6. entries \in [1 .. L -> EntriesOf(v.kind, Json!JsonValue)]
    BY <1>4, <1>5
<1>7. PICK p : /\ Sorts(p, v.kind, entries, L)
               /\ Json!Sorted(v.kind, entries) = [r \in 1 .. L |-> entries[p[r]]]
    <2>1. PICK p : SortedBy(p, v.kind, entries, L)
        BY <1>6, SortedIs
    <2> QED
        BY <2>1 DEF SortedBy
<1>8. \A r \in 1 .. L : p[r] \in 1 .. L
    BY <1>7 DEF Sorts, Rearrangement
<1>9. Json!Sorted(v.kind, entries) \in [1 .. L -> EntriesOf(v.kind, Inner(n))]
    BY <1>4, <1>7, <1>8
<1>10. PICK w : w = SortedWith(v, values)
    OBVIOUS
<1>11. w = [kind |-> w.kind, entries |-> w.entries] /\ w.kind = v.kind /\ w.entries = Json!Sorted(v.kind, entries)
    BY <1>3, <1>10 DEF SortedWith
<1>12. w.entries \in Seq(EntriesOf(w.kind, Inner(n))) /\ Len(w.entries) = L
    BY <1>9, <1>11
<1>13. w.kind \in Scalars => w.entries = <<>>
    <2>1. SUFFICES ASSUME v.kind \in Scalars PROVE w.entries = <<>>
        BY <1>11
    <2>2. L = 0
        BY <1>1, <1>2, <2>1 DEF IsValue
    <2> QED
        BY <1>12, <2>2, EmptySeq
<1>14. IsValue(w, Inner(n)) /\ (n = 0 => w.kind \in Scalars)
    BY <1>1, <1>11, <1>12, <1>13 DEF IsValue
<1> QED
    BY <1>10, <1>14, IsAtLevel

\* The definition of sortObj defines what it says: a value as deep as the one it sorts.
LEMMA SortObjIs ==
    ASSUME NEW v \in Json!JsonValue
    PROVE  /\ Json!sortObj[v] \in Json!JsonValue
           /\ Json!sortObj[v] = SortedWith(v, Results(Json!sortObj, v))
<1> DEFINE V == Json!JsonValue
           Is(f) == f = [value \in V |->
                            [kind |-> value.kind,
                             entries |-> Json!Sorted(value.kind, [i \in DOMAIN value.entries |->
                                Json!Entry(value.entries[i].key, f[value.entries[i].value])])]]
           With(x) == {x} \X [DOMAIN x.entries -> V]
           pairs == UNION {With(x) : x \in V}
           made(x, values) == IF SortedWith(x, values) \in V THEN SortedWith(x, values) ELSE x
           step == [p \in pairs |-> made(p[1], p[2])]
<1>1. ASSUME NEW x \in V, NEW values \in [DOMAIN x.entries -> V]
      PROVE  step[<<x, values>>] = made(x, values) /\ step[<<x, values>>] \in V
    <2>1. <<x, values>> \in With(x)
        OBVIOUS
    <2>2. <<x, values>> \in pairs
        BY <2>1
    <2>3. step[<<x, values>>] = made(x, values)
        BY <2>2
    <2> QED
        BY <2>3
<1> HIDE DEF step
<1>2. PICK f \in [V -> V] : MadeFrom(f, V, step)
    BY <1>1, RecursionOnValues
<1>3. ASSUME NEW x \in V PROVE f[x] = made(x, Results(f, x))
    <2>1. Results(f, x) \in [DOMAIN x.entries -> V]
        BY JsonValueIs DEF Results
    <2> QED
        BY <1>1, <1>2, <2>1 DEF MadeFrom
<1> DEFINE Keeps(n) == \A x \in Json!Level[n] : f[x] \in Json!Level[n] /\ f[x] = SortedWith(x, Results(f, x))
           P == {n \in Nat : n <= MaxLevels => Keeps(n)}
<1>4. ASSUME NEW n \in Nat, n <= MaxLevels, \A x \in Inner(n) : f[x] \in Inner(n)
      PROVE  Keeps(n)
    <2>1. SUFFICES ASSUME NEW x \in Json!Level[n]
                   PROVE  f[x] \in Json!Level[n] /\ f[x] = SortedWith(x, Results(f, x))
        OBVIOUS
    <2>2. x \in V /\ IsValue(x, Inner(n)) /\ Json!Level[n] \subseteq V
        BY <1>4, LevelsAre, ValueIs
    <2>3. Results(f, x) \in [DOMAIN x.entries -> Inner(n)]
        BY <1>4, <2>2, EntriesAre DEF Results
    <2>4. SortedWith(x, Results(f, x)) \in Json!Level[n]
        BY <1>4, <2>3, SortedTyped
    <2>5. f[x] = SortedWith(x, Results(f, x))
        BY <1>3, <2>2, <2>4
    <2> QED
        BY <2>4, <2>5
<1>5. 0 \in P
    <2>1. \A x \in Inner(0) : f[x] \in Inner(0)
        BY DEF Inner
    <2> HIDE DEF Keeps
    <2> QED
        BY <1>4, <2>1
<1>6. ASSUME NEW n \in P PROVE n + 1 \in P
    <2>1. SUFFICES ASSUME n + 1 <= MaxLevels PROVE Keeps(n + 1)
        OBVIOUS
    <2>2. n \in Nat /\ n + 1 \in Nat /\ n <= MaxLevels /\ (n + 1) - 1 = n /\ n + 1 # 0
        BY <2>1, LevelsAre
    <2>3. Inner(n + 1) = Json!Level[n] /\ Keeps(n)
        BY <2>2 DEF Inner
    <2>4. \A x \in Inner(n + 1) : f[x] \in Inner(n + 1)
        BY <2>3
    <2> HIDE DEF Keeps
    <2> QED
        BY <1>4, <2>1, <2>2, <2>4
<1>7. ASSUME NEW x \in V PROVE f[x] = SortedWith(x, Results(f, x))
    <2>1. P \subseteq Nat
        OBVIOUS
    <2> HIDE DEF P
    <2>2. P = Nat
        BY <1>5, <1>6, <2>1, Induction
    <2>3. MaxLevels \in P /\ MaxLevels <= MaxLevels
        BY <2>2, LevelsAre
    <2>4. Keeps(MaxLevels)
        BY <2>3 DEF P
    <2> QED
        BY <2>4, LevelsAre
<1> HIDE DEF P
<1>8. ASSUME NEW g, NEW x
      PROVE  SortedWith(x, Results(g, x))
                 = [kind |-> x.kind,
                    entries |-> Json!Sorted(x.kind, [i \in DOMAIN x.entries |->
                        Json!Entry(x.entries[i].key, g[x.entries[i].value])])]
    <2>1. EntriesWith(x, Results(g, x)) = [i \in DOMAIN x.entries |->
                        Json!Entry(x.entries[i].key, g[x.entries[i].value])]
        BY DEF EntriesWith, Results
    <2> QED
        BY <2>1 DEF SortedWith
<1>9. Is(f)
    <2>1. f = [x \in V |-> f[x]]
        BY <1>2
    <2>2. \A x \in V : f[x] = [kind |-> x.kind,
                    entries |-> Json!Sorted(x.kind, [i \in DOMAIN x.entries |->
                        Json!Entry(x.entries[i].key, f[x.entries[i].value])])]
        BY <1>7, <1>8
    <2> QED
        BY <2>1, <2>2, Zenon
<1>10. Is(Json!sortObj)
    <2>1. Json!sortObj = CHOOSE g : Is(g)
        BY Zenon DEF Json!sortObj
    <2> HIDE DEF Is
    <2> QED
        BY <1>9, <2>1
<1>11. ASSUME NEW x \in V PROVE Json!sortObj[x] = SortedWith(x, Results(Json!sortObj, x))
    <2>1. Json!sortObj[x] = [kind |-> x.kind,
                    entries |-> Json!Sorted(x.kind, [i \in DOMAIN x.entries |->
                        Json!Entry(x.entries[i].key, Json!sortObj[x.entries[i].value])])]
        BY <1>10, Zenon
    <2> QED
        BY <1>8, <2>1
<1> DEFINE Typed == {x \in V : Json!sortObj[x] = f[x]}
<1>12. ASSUME NEW x \in V, \A i \in DOMAIN x.entries : x.entries[i].value \in Typed
       PROVE  x \in Typed
    <2>1. Results(Json!sortObj, x) = Results(f, x)
        BY <1>12 DEF Results
    <2> QED
        BY <1>7, <1>11, <2>1
<1>13. Typed = V
    <2>1. Typed \subseteq V
        OBVIOUS
    <2> HIDE DEF Typed
    <2> QED
        BY <1>12, <2>1, InductionOnValues
<1>14. Json!sortObj[v] = f[v]
    BY <1>13
<1> QED
    BY <1>2, <1>11, <1>14

\* The normal form of what is written in a value, given that of the values in it.
NormalWith(v, values) ==
    [kind |-> Json!NormalForm(v.kind),
     entries |-> [i \in DOMAIN v.entries |-> Json!Entry(Json!NormalKey(v.entries[i].key), values[i])]]

\* Arrays and objects stay what they are, and so do scalars.
LEMMA NormalKind ==
    ASSUME NEW kind \in Kinds
    PROVE  /\ Json!NormalForm(kind) \in Kinds
           /\ kind \in Scalars <=> Json!NormalForm(kind) \in Scalars
           /\ kind \notin Scalars => Json!NormalForm(kind) = kind
           /\ NamesOf(Json!NormalForm(kind)) = NamesOf(kind)
<1>1. CASE kind \in Scalars
    <2>1. Json!NormalForm(kind) \in Scalars
        BY <1>1, JsonAssumption
    <2> QED
        BY <1>1, <2>1, KindsDiffer DEF Kinds, NamesOf
<1>2. CASE kind \notin Scalars
    <2>1. kind \notin Nat
        BY <1>2, KindsDiffer DEF Kinds
    <2>2. DOMAIN NFC \subseteq Nat
        BY JsonAssumption
    <2>3. Json!NormalForm(kind) = kind
        BY <2>1, <2>2 DEF Json!NormalForm
    <2> QED
        BY <1>2, <2>3
<1> QED
    BY <1>1, <1>2

LEMMA NormalName ==
    ASSUME NEW kind \in Kinds, NEW key \in NamesOf(kind)
    PROVE  Json!NormalKey(key) \in NamesOf(kind)
<1>1. CASE kind = Json!Object
    BY <1>1, JsonAssumption DEF NamesOf
<1>2. CASE kind # Json!Object
    BY <1>2 DEF NamesOf, Json!NormalKey
<1> QED
    BY <1>1, <1>2

LEMMA NormalTyped ==
    ASSUME NEW n \in Nat, n <= MaxLevels, NEW v \in Json!Level[n], NEW values \in [DOMAIN v.entries -> Inner(n)]
    PROVE  NormalWith(v, values) \in Json!Level[n]
<1>1. v \in Json!JsonValue /\ IsValue(v, Inner(n)) /\ (n = 0 => v.kind \in Scalars)
    BY LevelsAre, ValueIs
<1>2. PICK L \in Nat : L = Len(v.entries) /\ DOMAIN v.entries = 1 .. L
    BY <1>1, JsonValueIs
<1>3. PICK w : w = NormalWith(v, values)
    OBVIOUS
<1>4. /\ w = [kind |-> w.kind, entries |-> w.entries] /\ w.kind = Json!NormalForm(v.kind)
      /\ w.entries = [i \in 1 .. L |-> [key |-> Json!NormalKey(v.entries[i].key), value |-> values[i]]]
    BY <1>2, <1>3 DEF NormalWith, Json!Entry
<1>5. v.kind \in Kinds
    BY <1>1 DEF IsValue
<1>6. ASSUME NEW i \in 1 .. L
      PROVE  [key |-> Json!NormalKey(v.entries[i].key), value |-> values[i]] \in EntriesOf(w.kind, Inner(n))
    <2>1. v.entries[i].key \in NamesOf(v.kind) /\ values[i] \in Inner(n)
        BY <1>1, <1>2, JsonValueIs
    <2>2. Json!NormalKey(v.entries[i].key) \in NamesOf(w.kind)
        BY <1>4, <1>5, <2>1, NormalKind, NormalName
    <2> QED
        BY <2>1, <2>2 DEF EntriesOf
<1>7. w.entries \in [1 .. L -> EntriesOf(w.kind, Inner(n))]
    BY <1>4, <1>6
<1>8. w.entries \in Seq(EntriesOf(w.kind, Inner(n))) /\ Len(w.entries) = L
    BY <1>7
<1>9. w.kind \in Scalars => w.entries = <<>>
    <2>1. SUFFICES ASSUME w.kind \in Scalars PROVE w.entries = <<>>
        OBVIOUS
    <2>2. v.kind \in Scalars
        BY <1>4, <1>5, <2>1, NormalKind
    <2>3. L = 0
        BY <1>1, <1>2, <2>2 DEF IsValue
    <2> QED
        BY <1>8, <2>3, EmptySeq
<1>10. w.kind \in Kinds /\ (n = 0 => w.kind \in Scalars)
    BY <1>1, <1>4, <1>5, NormalKind
<1>11. IsValue(w, Inner(n)) /\ (n = 0 => w.kind \in Scalars)
    BY <1>4, <1>8, <1>9, <1>10 DEF IsValue
<1> QED
    BY <1>3, <1>11, IsAtLevel

\* The definition of normalize defines what it says: a value as deep as the one given.
LEMMA NormalizeIs ==
    ASSUME NEW v \in Json!JsonValue
    PROVE  /\ Json!normalize[v] \in Json!JsonValue
           /\ Json!normalize[v] = NormalWith(v, Results(Json!normalize, v))
<1> DEFINE V == Json!JsonValue
           Is(f) == f = [value \in V |->
                            [kind |-> Json!NormalForm(value.kind),
                             entries |-> [i \in DOMAIN value.entries |->
                                Json!Entry(Json!NormalKey(value.entries[i].key), f[value.entries[i].value])]]]
           With(x) == {x} \X [DOMAIN x.entries -> V]
           pairs == UNION {With(x) : x \in V}
           made(x, values) == IF NormalWith(x, values) \in V THEN NormalWith(x, values) ELSE x
           step == [p \in pairs |-> made(p[1], p[2])]
<1>1. ASSUME NEW x \in V, NEW values \in [DOMAIN x.entries -> V]
      PROVE  step[<<x, values>>] = made(x, values) /\ step[<<x, values>>] \in V
    <2>1. <<x, values>> \in With(x)
        OBVIOUS
    <2>2. <<x, values>> \in pairs
        BY <2>1
    <2>3. step[<<x, values>>] = made(x, values)
        BY <2>2
    <2> QED
        BY <2>3
<1> HIDE DEF step
<1>2. PICK f \in [V -> V] : MadeFrom(f, V, step)
    BY <1>1, RecursionOnValues
<1>3. ASSUME NEW x \in V PROVE f[x] = made(x, Results(f, x))
    <2>1. Results(f, x) \in [DOMAIN x.entries -> V]
        BY JsonValueIs DEF Results
    <2> QED
        BY <1>1, <1>2, <2>1 DEF MadeFrom
<1> DEFINE Keeps(n) == \A x \in Json!Level[n] : f[x] \in Json!Level[n] /\ f[x] = NormalWith(x, Results(f, x))
           P == {n \in Nat : n <= MaxLevels => Keeps(n)}
<1>4. ASSUME NEW n \in Nat, n <= MaxLevels, \A x \in Inner(n) : f[x] \in Inner(n)
      PROVE  Keeps(n)
    <2>1. SUFFICES ASSUME NEW x \in Json!Level[n]
                   PROVE  f[x] \in Json!Level[n] /\ f[x] = NormalWith(x, Results(f, x))
        OBVIOUS
    <2>2. x \in V /\ IsValue(x, Inner(n)) /\ Json!Level[n] \subseteq V
        BY <1>4, LevelsAre, ValueIs
    <2>3. Results(f, x) \in [DOMAIN x.entries -> Inner(n)]
        BY <1>4, <2>2, EntriesAre DEF Results
    <2>4. NormalWith(x, Results(f, x)) \in Json!Level[n]
        BY <1>4, <2>3, NormalTyped
    <2>5. f[x] = NormalWith(x, Results(f, x))
        BY <1>3, <2>2, <2>4
    <2> QED
        BY <2>4, <2>5
<1>5. 0 \in P
    <2>1. \A x \in Inner(0) : f[x] \in Inner(0)
        BY DEF Inner
    <2> HIDE DEF Keeps
    <2> QED
        BY <1>4, <2>1
<1>6. ASSUME NEW n \in P PROVE n + 1 \in P
    <2>1. SUFFICES ASSUME n + 1 <= MaxLevels PROVE Keeps(n + 1)
        OBVIOUS
    <2>2. n \in Nat /\ n + 1 \in Nat /\ n <= MaxLevels /\ (n + 1) - 1 = n /\ n + 1 # 0
        BY <2>1, LevelsAre
    <2>3. Inner(n + 1) = Json!Level[n] /\ Keeps(n)
        BY <2>2 DEF Inner
    <2>4. \A x \in Inner(n + 1) : f[x] \in Inner(n + 1)
        BY <2>3
    <2> HIDE DEF Keeps
    <2> QED
        BY <1>4, <2>1, <2>2, <2>4
<1>7. ASSUME NEW x \in V PROVE f[x] = NormalWith(x, Results(f, x))
    <2>1. P \subseteq Nat
        OBVIOUS
    <2> HIDE DEF P
    <2>2. P = Nat
        BY <1>5, <1>6, <2>1, Induction
    <2>3. MaxLevels \in P /\ MaxLevels <= MaxLevels
        BY <2>2, LevelsAre
    <2>4. Keeps(MaxLevels)
        BY <2>3 DEF P
    <2> QED
        BY <2>4, LevelsAre
<1> HIDE DEF P
<1>8. ASSUME NEW g, NEW x
      PROVE  NormalWith(x, Results(g, x))
                 = [kind |-> Json!NormalForm(x.kind),
                    entries |-> [i \in DOMAIN x.entries |->
                        Json!Entry(Json!NormalKey(x.entries[i].key), g[x.entries[i].value])]]
    <2>1. \A i \in DOMAIN x.entries : Results(g, x)[i] = g[x.entries[i].value]
        BY DEF Results
    <2> QED
        BY <2>1 DEF NormalWith
<1>9. Is(f)
    <2>1. f = [x \in V |-> f[x]]
        BY <1>2
    <2>2. \A x \in V : f[x] = [kind |-> Json!NormalForm(x.kind),
                    entries |-> [i \in DOMAIN x.entries |->
                        Json!Entry(Json!NormalKey(x.entries[i].key), f[x.entries[i].value])]]
        BY <1>7, <1>8
    <2> QED
        BY <2>1, <2>2, Zenon
<1>10. Is(Json!normalize)
    <2>1. Json!normalize = CHOOSE g : Is(g)
        BY Zenon DEF Json!normalize
    <2> HIDE DEF Is
    <2> QED
        BY <1>9, <2>1
<1>11. ASSUME NEW x \in V PROVE Json!normalize[x] = NormalWith(x, Results(Json!normalize, x))
    <2>1. Json!normalize[x] = [kind |-> Json!NormalForm(x.kind),
                    entries |-> [i \in DOMAIN x.entries |->
                        Json!Entry(Json!NormalKey(x.entries[i].key), Json!normalize[x.entries[i].value])]]
        BY <1>10, Zenon
    <2> QED
        BY <1>8, <2>1
<1> DEFINE Typed == {x \in V : Json!normalize[x] = f[x]}
<1>12. ASSUME NEW x \in V, \A i \in DOMAIN x.entries : x.entries[i].value \in Typed
       PROVE  x \in Typed
    <2>1. Results(Json!normalize, x) = Results(f, x)
        BY <1>12 DEF Results
    <2> QED
        BY <1>7, <1>11, <2>1
<1>13. Typed = V
    <2>1. Typed \subseteq V
        OBVIOUS
    <2> HIDE DEF Typed
    <2> QED
        BY <1>12, <2>1, InductionOnValues
<1>14. Json!normalize[v] = f[v]
    BY <1>13
<1> QED
    BY <1>2, <1>11, <1>14

-----------------------------------------------------------------------------
(* Canonical JSON: equality up to order, and up to order and normal form.  *)

\* The definition of Equivalent defines what it says.
Matches(a, b, match, equal) ==
    \A i \in DOMAIN a.entries :
        a.entries[i].key = b.entries[match[i]].key /\ equal[i][b.entries[match[i]].value]

MatchesSome(a, b, equal) ==
    a.kind = b.kind /\ \E match \in Json!Matchings(a, b) : Matches(a, b, match, equal)

LEMMA EquivalentIs ==
    ASSUME NEW a \in Json!JsonValue, NEW b \in Json!JsonValue
    PROVE  Json!Equivalent[a][b] <=> MatchesSome(a, b, Results(Json!Equivalent, a))
<1> DEFINE V == Json!JsonValue
           S == [V -> BOOLEAN]
           Row(f, x) == [y \in V |->
                            /\ x.kind = y.kind
                            /\ \E match \in Json!Matchings(x, y) :
                                  \A i \in DOMAIN x.entries :
                                      /\ x.entries[i].key = y.entries[match[i]].key
                                      /\ f[x.entries[i].value][y.entries[match[i]].value]]
           Is(f) == f = [x \in V |-> Row(f, x)]
           With(x) == {x} \X [DOMAIN x.entries -> S]
           pairs == UNION {With(x) : x \in V}
           row(x, equal) == [y \in V |-> MatchesSome(x, y, equal)]
           step == [p \in pairs |-> row(p[1], p[2])]
<1>1. ASSUME NEW x \in V, NEW equal \in [DOMAIN x.entries -> S]
      PROVE  step[<<x, equal>>] = row(x, equal) /\ step[<<x, equal>>] \in S
    <2>1. <<x, equal>> \in With(x)
        OBVIOUS
    <2>2. <<x, equal>> \in pairs
        BY <2>1
    <2>3. step[<<x, equal>>] = row(x, equal)
        BY <2>2
    <2>4. \A y : MatchesSome(x, y, equal) \in BOOLEAN
        BY Zenon DEF MatchesSome
    <2>5. row(x, equal) \in S
        BY <2>4
    <2> QED
        BY <2>3, <2>5
<1> HIDE DEF step
<1>2. PICK f \in [V -> S] : MadeFrom(f, V, step)
    BY <1>1, RecursionOnValues
<1>3. ASSUME NEW x \in V PROVE f[x] = row(x, Results(f, x))
    <2>1. Results(f, x) \in [DOMAIN x.entries -> S]
        BY JsonValueIs DEF Results
    <2> QED
        BY <1>1, <1>2, <2>1 DEF MadeFrom
<1>4. ASSUME NEW g, NEW x PROVE row(x, Results(g, x)) = Row(g, x)
    <2>1. \A i \in DOMAIN x.entries : Results(g, x)[i] = g[x.entries[i].value]
        BY DEF Results
    <2>2. ASSUME NEW y, NEW match
          PROVE  Matches(x, y, match, Results(g, x))
                    <=> \A i \in DOMAIN x.entries :
                            /\ x.entries[i].key = y.entries[match[i]].key
                            /\ g[x.entries[i].value][y.entries[match[i]].value]
        <3>1. \A i \in DOMAIN x.entries :
                  Results(g, x)[i][y.entries[match[i]].value] = g[x.entries[i].value][y.entries[match[i]].value]
            BY <2>1
        <3> QED
            BY <3>1, Zenon DEF Matches
    <2> QED
        BY <2>2, Zenon DEF MatchesSome
<1> HIDE DEF row, Row
<1>5. Is(f)
    <2>1. f = [x \in V |-> f[x]]
        BY <1>2
    <2>2. \A x \in V : f[x] = Row(f, x)
        BY <1>3, <1>4
    <2> QED
        BY <2>1, <2>2, Zenon
<1>6. Is(Json!Equivalent)
    <2>1. Json!Equivalent = CHOOSE g : Is(g)
        BY Zenon DEF Json!Equivalent, Row
    <2> HIDE DEF Is
    <2> QED
        BY <1>5, <2>1
<1>7. Json!Equivalent[a] = row(a, Results(Json!Equivalent, a))
    BY <1>4, <1>6
<1> QED
    BY <1>7 DEF row

\* The definition of Alike defines what it says.
Resembles(a, b, match, alike) ==
    \A i \in DOMAIN a.entries :
        /\ Json!NormalKey(a.entries[i].key) = Json!NormalKey(b.entries[match[i]].key)
        /\ alike[i][b.entries[match[i]].value]

ResemblesSome(a, b, alike) ==
    /\ Json!NormalForm(a.kind) = Json!NormalForm(b.kind)
    /\ \E match \in Json!Matchings(a, b) : Resembles(a, b, match, alike)

LEMMA AlikeIs ==
    ASSUME NEW a \in Json!JsonValue, NEW b \in Json!JsonValue
    PROVE  Json!Alike[a][b] <=> ResemblesSome(a, b, Results(Json!Alike, a))
<1> DEFINE V == Json!JsonValue
           S == [V -> BOOLEAN]
           Row(f, x) == [y \in V |->
                            /\ Json!NormalForm(x.kind) = Json!NormalForm(y.kind)
                            /\ \E match \in Json!Matchings(x, y) :
                                  \A i \in DOMAIN x.entries :
                                      /\ Json!NormalKey(x.entries[i].key) = Json!NormalKey(y.entries[match[i]].key)
                                      /\ f[x.entries[i].value][y.entries[match[i]].value]]
           Is(f) == f = [x \in V |-> Row(f, x)]
           With(x) == {x} \X [DOMAIN x.entries -> S]
           pairs == UNION {With(x) : x \in V}
           row(x, equal) == [y \in V |-> ResemblesSome(x, y, equal)]
           step == [p \in pairs |-> row(p[1], p[2])]
<1>1. ASSUME NEW x \in V, NEW equal \in [DOMAIN x.entries -> S]
      PROVE  step[<<x, equal>>] = row(x, equal) /\ step[<<x, equal>>] \in S
    <2>1. <<x, equal>> \in With(x)
        OBVIOUS
    <2>2. <<x, equal>> \in pairs
        BY <2>1
    <2>3. step[<<x, equal>>] = row(x, equal)
        BY <2>2
    <2>4. \A y : ResemblesSome(x, y, equal) \in BOOLEAN
        BY Zenon DEF ResemblesSome
    <2>5. row(x, equal) \in S
        BY <2>4
    <2> QED
        BY <2>3, <2>5
<1> HIDE DEF step
<1>2. PICK f \in [V -> S] : MadeFrom(f, V, step)
    BY <1>1, RecursionOnValues
<1>3. ASSUME NEW x \in V PROVE f[x] = row(x, Results(f, x))
    <2>1. Results(f, x) \in [DOMAIN x.entries -> S]
        BY JsonValueIs DEF Results
    <2> QED
        BY <1>1, <1>2, <2>1 DEF MadeFrom
<1>4. ASSUME NEW g, NEW x PROVE row(x, Results(g, x)) = Row(g, x)
    <2>1. \A i \in DOMAIN x.entries : Results(g, x)[i] = g[x.entries[i].value]
        BY DEF Results
    <2>2. ASSUME NEW y, NEW match
          PROVE  Resembles(x, y, match, Results(g, x))
                    <=> \A i \in DOMAIN x.entries :
                            /\ Json!NormalKey(x.entries[i].key) = Json!NormalKey(y.entries[match[i]].key)
                            /\ g[x.entries[i].value][y.entries[match[i]].value]
        <3>1. \A i \in DOMAIN x.entries :
                  Results(g, x)[i][y.entries[match[i]].value] = g[x.entries[i].value][y.entries[match[i]].value]
            BY <2>1
        <3> QED
            BY <3>1, Zenon DEF Resembles
    <2> QED
        BY <2>2, Zenon DEF ResemblesSome
<1> HIDE DEF row, Row
<1>5. Is(f)
    <2>1. f = [x \in V |-> f[x]]
        BY <1>2
    <2>2. \A x \in V : f[x] = Row(f, x)
        BY <1>3, <1>4
    <2> QED
        BY <2>1, <2>2, Zenon
<1>6. Is(Json!Alike)
    <2>1. Json!Alike = CHOOSE g : Is(g)
        BY Zenon DEF Json!Alike, Row
    <2> HIDE DEF Is
    <2> QED
        BY <1>5, <2>1
<1>7. Json!Alike[a] = row(a, Results(Json!Alike, a))
    BY <1>4, <1>6
<1> QED
    BY <1>7 DEF row

\* What matches the entries of one value with those of another.
Agrees(match, kind, e, f, L) ==
    /\ Rearrangement(match, L)
    /\ \A i \in 1 .. L : e[i] = f[match[i]]
    /\ kind = Json!Object =>
          \A i, j \in 1 .. L : Json!LowerCase(e[i].key) = Json!LowerCase(e[j].key) =>
                                   (i < j <=> match[i] < match[j])

LEMMA LessObject ==
    ASSUME NEW kind, kind = Json!Object,
           NEW d \in EntriesOf(kind, Json!JsonValue), NEW e \in EntriesOf(kind, Json!JsonValue)
    PROVE  ~Json!Less(kind, d, e) /\ ~Json!Less(kind, e, d)
               <=> Json!LowerCase(d.key) = Json!LowerCase(e.key)
<1>1. PICK a \in Nat, b \in Nat : a = Json!LowerCase(d.key) /\ b = Json!LowerCase(e.key)
    <2>1. d.key \in NamesOf(kind) /\ e.key \in NamesOf(kind)
        BY DEF EntriesOf
    <2> QED
        BY <2>1, NamesAre DEF Json!LowerCase
<1>2. ~(a < b) /\ ~(b < a) <=> a = b
    OBVIOUS
<1> QED
    BY <1>1, <1>2 DEF Json!Less

\* Two lists with the same entries, sorted, are the same.
LEMMA SortedSame ==
    ASSUME NEW kind, NEW L \in Nat,
           NEW e \in [1 .. L -> EntriesOf(kind, Json!JsonValue)],
           NEW f \in [1 .. L -> EntriesOf(kind, Json!JsonValue)],
           NEW p, NEW q, Sorts(p, kind, e, L), Sorts(q, kind, f, L),
           NEW match, Agrees(match, kind, e, f, L)
    PROVE  \A r \in 1 .. L : e[p[r]] = f[q[r]]
<1>1. Rearrangement(p, L) /\ Rearrangement(q, L) /\ Rearrangement(match, L)
    BY DEF Sorts, Agrees
<1>2. PICK back : Rearrangement(back, L) /\ \A i \in 1 .. L : match[back[i]] = i /\ back[match[i]] = i
    BY <1>1, Undone
<1>3. PICK undo : Rearrangement(undo, L) /\ \A i \in 1 .. L : q[undo[i]] = i
    BY <1>1, Undone
<1>4. PICK m : Rearrangement(m, L) /\ \A r \in 1 .. L : m[r] = undo[match[p[r]]]
    <2>1. PICK h : Rearrangement(h, L) /\ Takes(h, match, p, L)
        BY <1>1, Composed
    <2>2. PICK m : Rearrangement(m, L) /\ Takes(m, undo, h, L)
        BY <1>3, <2>1, Composed
    <2> QED
        BY <2>1, <2>2 DEF Takes
<1>5. \A r \in 1 .. L : /\ p[r] \in 1 .. L /\ q[r] \in 1 .. L /\ match[r] \in 1 .. L /\ m[r] \in 1 .. L
                        /\ back[r] \in 1 .. L
    BY <1>1, <1>2, <1>4 DEF Rearrangement
<1>6. \A r \in 1 .. L : q[m[r]] = match[p[r]]
    BY <1>3, <1>4, <1>5
<1>7. \A i \in 1 .. L : e[i] \in EntriesOf(kind, Json!JsonValue) /\ e[i] = f[match[i]]
                        /\ f[i] \in EntriesOf(kind, Json!JsonValue)
    BY DEF Agrees
<1>8. CASE kind = Json!Object
    <2>1. PICK less, other : less = LessAt(kind, e, L) /\ other = LessAt(kind, f, L)
        OBVIOUS
    <2>2. IsOrder(less, 1 .. L) /\ IsOrder(other, 1 .. L)
        BY <2>1, LessAtIsOrder
    <2>3. ASSUME NEW i \in 1 .. L, NEW j \in 1 .. L
          PROVE  <<i, j>> \in less <=> <<match[i], match[j]>> \in other
        <3>1. <<i, j>> \in less <=> \/ Json!Less(kind, e[i], e[j])
                                    \/ i < j /\ ~Json!Less(kind, e[j], e[i])
            BY <2>1, LessAtIs
        <3>2. <<match[i], match[j]>> \in other
                  <=> \/ Json!Less(kind, e[i], e[j])
                      \/ match[i] < match[j] /\ ~Json!Less(kind, e[j], e[i])
            <4>1. match[i] \in 1 .. L /\ match[j] \in 1 .. L /\ e[i] = f[match[i]] /\ e[j] = f[match[j]]
                BY <1>5, <1>7
            <4> QED
                BY <2>1, <4>1, LessAtIs
        <3>3. ~Json!Less(kind, e[i], e[j]) /\ ~Json!Less(kind, e[j], e[i]) => (i < j <=> match[i] < match[j])
            <4>1. SUFFICES ASSUME ~Json!Less(kind, e[i], e[j]), ~Json!Less(kind, e[j], e[i])
                           PROVE  i < j <=> match[i] < match[j]
                OBVIOUS
            <4>2. Json!LowerCase(e[i].key) = Json!LowerCase(e[j].key)
                BY <1>7, <1>8, <4>1, LessObject
            <4> QED
                BY <1>8, <4>2 DEF Agrees
        <3> QED
            BY <3>1, <3>2, <3>3
    <2>4. PICK v : v = [r \in 1 .. L |-> back[q[r]]]
        OBVIOUS
    <2>5. \A r \in 1 .. L : v[r] \in 1 .. L /\ match[v[r]] = q[r]
        BY <1>2, <1>5, <2>4
    <2>6. p \in [1 .. L -> 1 .. L] /\ v \in [1 .. L -> 1 .. L]
        BY <1>1, <2>4, <2>5 DEF Rearrangement
    <2>7. ASSUME NEW r \in 1 .. L, NEW s \in 1 .. L, s <= r
          PROVE  <<p[r], p[s]>> \notin less /\ <<v[r], v[s]>> \notin less
        <3>1. CASE s = r
            BY <1>5, <2>2, <2>5, <3>1 DEF IsOrder
        <3>2. CASE s # r
            <4>1. s < r
                BY <2>7, <3>2
            <4>2. <<p[s], p[r]>> \in less /\ <<q[s], q[r]>> \in other
                BY <2>1, <4>1 DEF Sorts
            <4>3. <<p[r], p[s]>> \notin less /\ <<q[r], q[s]>> \notin other
                BY <1>5, <2>2, <4>2 DEF IsOrder
            <4> QED
                BY <2>3, <2>5, <4>3
        <3> QED
            BY <3>1, <3>2
    <2>8. InOrder(p, less, L) /\ InOrder(v, less, L)
        BY <2>7 DEF InOrder
    <2>9. ASSUME NEW r \in 1 .. L PROVE p[r] = v[m[r]]
        <3>1. v[m[r]] = back[match[p[r]]]
            BY <1>5, <1>6, <2>4
        <3> QED
            BY <1>2, <1>5, <3>1
    <2>10. p = v
        <3>1. Takes(p, v, m, L)
            BY <2>9 DEF Takes
        <3> QED
            BY <1>4, <2>2, <2>6, <2>8, <3>1, SameInOrder
    <2>11. \A r \in 1 .. L : match[p[r]] = q[r]
        BY <2>5, <2>10
    <2> QED
        BY <1>5, <1>7, <2>11
<1>9. CASE kind # Json!Object
    <2>1. PICK E : E = EntriesOf(kind, Json!JsonValue)
        OBVIOUS
    <2>2. PICK less : less = {pair \in E \X E : Json!Less(kind, pair[1], pair[2])}
        OBVIOUS
    <2>3. ASSUME NEW x \in E, NEW y \in E PROVE <<x, y>> \in less <=> Json!Less(kind, x, y)
        <3>1. <<x, y>> \in E \X E /\ <<x, y>>[1] = x /\ <<x, y>>[2] = y
            OBVIOUS
        <3> QED
            BY <2>2, <3>1
    <2>4. ASSUME NEW x \in E, NEW y \in E, x # y
          PROVE  Json!Less(kind, x, y) \/ Json!Less(kind, y, x)
        <3>1. /\ x = [key |-> <<>>, value |-> x.value] /\ y = [key |-> <<>>, value |-> y.value]
              /\ x.value \in Json!JsonValue /\ y.value \in Json!JsonValue
            BY <1>9, <2>1 DEF EntriesOf, NamesOf
        <3>2. x.value # y.value
            BY <2>4, <3>1
        <3>3. Json!stringify[x.value] # Json!stringify[y.value]
            BY <3>1, <3>2, TextsDiffer
        <3>4. PICK s \in Seq(Int), t \in Seq(Int) : s = Json!stringify[x.value] /\ t = Json!stringify[y.value]
            BY <3>1, StringifyIs
        <3>5. Json!Before(s, t) \/ Json!Before(t, s)
            BY <3>3, <3>4, BeforeIsTotal
        <3> QED
            BY <1>9, <3>4, <3>5 DEF Json!Less
    <2>5. IsOrder(less, E)
        <3>1. \A x, y, z \in E : /\ ~Json!Less(kind, x, x)
                                 /\ Json!Less(kind, x, y) /\ Json!Less(kind, y, z) => Json!Less(kind, x, z)
            BY <2>1, LessIs
        <3> QED
            BY <2>3, <2>4, <3>1 DEF IsOrder
    <2>6. ASSUME NEW g \in [1 .. L -> E], NEW s, Sorts(s, kind, g, L), NEW u, u = [r \in 1 .. L |-> g[s[r]]]
          PROVE  u \in [1 .. L -> E] /\ InOrder(u, less, L)
        <3>1. \A r \in 1 .. L : s[r] \in 1 .. L
            BY <2>6 DEF Sorts, Rearrangement
        <3>2. u \in [1 .. L -> E]
            BY <2>6, <3>1
        <3>3. ASSUME NEW r \in 1 .. L, NEW k \in 1 .. L, k <= r
              PROVE  <<u[r], u[k]>> \notin less
            <4>1. u[r] \in E /\ u[k] \in E
                BY <3>2
            <4>2. CASE k = r
                BY <2>5, <4>1, <4>2 DEF IsOrder
            <4>3. CASE k # r
                <5>1. k < r
                    BY <3>3, <4>3
                <5>2. <<s[k], s[r]>> \in LessAt(kind, g, L)
                    BY <2>6, <5>1 DEF Sorts
                <5>3. Json!Less(kind, u[k], u[r]) \/ ~Json!Less(kind, u[r], u[k])
                    BY <2>6, <3>1, <5>2, LessAtIs
                <5>4. <<u[k], u[r]>> \in less \/ <<u[r], u[k]>> \notin less
                    BY <2>3, <4>1, <5>3
                <5> QED
                    BY <2>5, <4>1, <5>4 DEF IsOrder
            <4> QED
                BY <4>2, <4>3
        <3> QED
            BY <3>2, <3>3 DEF InOrder
    <2>7. PICK u, v : u = [r \in 1 .. L |-> e[p[r]]] /\ v = [r \in 1 .. L |-> f[q[r]]]
        OBVIOUS
    <2>8. u \in [1 .. L -> E] /\ InOrder(u, less, L) /\ v \in [1 .. L -> E] /\ InOrder(v, less, L)
        <3>1. e \in [1 .. L -> E] /\ f \in [1 .. L -> E]
            BY <2>1
        <3> QED
            BY <2>6, <2>7, <3>1
    <2>9. \A r \in 1 .. L : u[r] = v[m[r]]
        BY <1>5, <1>6, <1>7, <2>7
    <2>10. u = v
        <3>1. Takes(u, v, m, L)
            BY <2>9 DEF Takes
        <3> QED
            BY <1>4, <2>5, <2>8, <3>1, SameInOrder
    <2> QED
        BY <2>7, <2>10
<1> QED
    BY <1>8, <1>9

\* Two sorted lists are matched by the places of their entries.
MatchesPlaces(match, kind, e, f, p, q, L) ==
    /\ Rearrangement(match, L)
    /\ \A i \in 1 .. L : \E r \in 1 .. L : i = p[r] /\ match[i] = q[r]
    /\ kind = Json!Object =>
          \A i, j \in 1 .. L :
              (/\ Json!LowerCase(e[i].key) = Json!LowerCase(e[j].key)
               /\ Json!LowerCase(f[match[i]].key) = Json!LowerCase(f[match[j]].key))
                  => (i < j <=> match[i] < match[j])

LEMMA SortedMatches ==
    ASSUME NEW kind, NEW L \in Nat,
           NEW e \in [1 .. L -> EntriesOf(kind, Json!JsonValue)],
           NEW f \in [1 .. L -> EntriesOf(kind, Json!JsonValue)],
           NEW p, NEW q, Sorts(p, kind, e, L), Sorts(q, kind, f, L)
    PROVE  \E match : MatchesPlaces(match, kind, e, f, p, q, L)
<1>1. Rearrangement(p, L) /\ Rearrangement(q, L)
    BY DEF Sorts
<1>2. PICK place : Rearrangement(place, L) /\ \A i \in 1 .. L : p[place[i]] = i
    BY <1>1, Undone
<1>3. PICK match : Rearrangement(match, L) /\ \A i \in 1 .. L : match[i] = q[place[i]]
    <2>1. PICK match : Rearrangement(match, L) /\ Takes(match, q, place, L)
        BY <1>1, <1>2, Composed
    <2> QED
        BY <2>1 DEF Takes
<1>4. \A i \in 1 .. L : place[i] \in 1 .. L /\ p[i] \in 1 .. L /\ q[i] \in 1 .. L
    BY <1>1, <1>2 DEF Rearrangement
<1>5. \A i \in 1 .. L : \E r \in 1 .. L : i = p[r] /\ match[i] = q[r]
    BY <1>2, <1>3, <1>4
<1>6. ASSUME NEW g \in [1 .. L -> EntriesOf(kind, Json!JsonValue)], NEW o, Sorts(o, kind, g, L),
             NEW r \in 1 .. L, NEW s \in 1 .. L, r < s, kind = Json!Object,
             o[r] \in 1 .. L, o[s] \in 1 .. L,
             Json!LowerCase(g[o[r]].key) = Json!LowerCase(g[o[s]].key)
      PROVE  o[r] < o[s]
    <2>1. <<o[r], o[s]>> \in LessAt(kind, g, L)
        BY <1>6 DEF Sorts
    <2>2. ~Json!Less(kind, g[o[r]], g[o[s]])
        <3>1. PICK x, y : x = g[o[r]] /\ y = g[o[s]]
            OBVIOUS
        <3>2. x \in EntriesOf(kind, Json!JsonValue) /\ y \in EntriesOf(kind, Json!JsonValue)
            BY <1>6, <3>1
        <3> QED
            BY <1>6, <3>1, <3>2, LessObject
    <2> QED
        BY <1>6, <2>1, <2>2, LessAtIs
<1>7. ASSUME kind = Json!Object, NEW i \in 1 .. L, NEW j \in 1 .. L,
             Json!LowerCase(e[i].key) = Json!LowerCase(e[j].key),
             Json!LowerCase(f[match[i]].key) = Json!LowerCase(f[match[j]].key)
      PROVE  i < j <=> match[i] < match[j]
    <2>1. PICK r \in 1 .. L, s \in 1 .. L : r = place[i] /\ s = place[j]
        BY <1>4
    <2>2. /\ p[r] = i /\ p[s] = j /\ match[i] = q[r] /\ match[j] = q[s]
          /\ q[r] \in 1 .. L /\ q[s] \in 1 .. L
        BY <1>2, <1>3, <1>4, <2>1
    <2>3. /\ Json!LowerCase(e[p[r]].key) = Json!LowerCase(e[p[s]].key)
          /\ Json!LowerCase(f[q[r]].key) = Json!LowerCase(f[q[s]].key)
        BY <1>7, <2>2
    <2>4. CASE r < s
        <3>1. p[r] < p[s] /\ q[r] < q[s]
            BY <1>6, <1>7, <2>2, <2>3, <2>4
        <3> QED
            BY <2>2, <3>1
    <2>5. CASE s < r
        <3>1. p[s] < p[r] /\ q[s] < q[r]
            BY <1>6, <1>7, <2>2, <2>3, <2>5
        <3>2. ~(i < j) /\ ~(match[i] < match[j])
            BY <2>2, <3>1
        <3> QED
            BY <3>2
    <2>6. CASE r = s
        BY <2>2, <2>6
    <2> QED
        BY <2>4, <2>5, <2>6
<1> QED
    BY <1>3, <1>5, <1>7 DEF MatchesPlaces

LEMMA BijectionIs ==
    ASSUME NEW L \in Nat, NEW M \in Nat, NEW match
    PROVE  match \in Json!Bijection(1 .. L, 1 .. M) <=> L = M /\ Rearrangement(match, L)
<1>1. match \in Json!Bijection(1 .. L, 1 .. M) <=> match \in Bijection(1 .. L, 1 .. M)
    BY DEF Json!Bijection, Json!Injection, Json!Surjection, Json!IsInjective,
           Bijection, Injection, Surjection, IsInjective
<1>2. /\ IsFiniteSet(1 .. L) /\ Cardinality(1 .. L) = L
      /\ IsFiniteSet(1 .. M) /\ Cardinality(1 .. M) = M
    <2>1. 1 \in Int /\ L \in Int /\ M \in Int
        OBVIOUS
    <2>2. IsFiniteSet(1 .. L) /\ Cardinality(1 .. L) = IF 1 > L THEN 0 ELSE L - 1 + 1
        BY <2>1, FS_Interval
    <2>3. IsFiniteSet(1 .. M) /\ Cardinality(1 .. M) = IF 1 > M THEN 0 ELSE M - 1 + 1
        BY <2>1, FS_Interval
    <2> QED
        BY <2>2, <2>3
<1>3. ASSUME match \in Bijection(1 .. L, 1 .. M) PROVE L = M
    <2>1. ExistsBijection(1 .. L, 1 .. M)
        BY <1>3 DEF ExistsBijection
    <2> QED
        BY <1>2, <2>1, FS_Bijection
<1>4. match \in Bijection(1 .. L, 1 .. L) <=> Rearrangement(match, L)
    BY DEF Bijection, Injection, Surjection, IsInjective, Rearrangement
<1> QED
    BY <1>1, <1>3, <1>4

LEMMA MatchingsAre ==
    ASSUME NEW a, NEW b, NEW L \in Nat, NEW M \in Nat,
           DOMAIN a.entries = 1 .. L, DOMAIN b.entries = 1 .. M, NEW match
    PROVE  match \in Json!Matchings(a, b)
               <=> /\ L = M /\ Rearrangement(match, L)
                   /\ a.kind = Json!Object =>
                         \A i, j \in 1 .. L :
                             (/\ Json!LowerCase(a.entries[i].key) = Json!LowerCase(a.entries[j].key)
                              /\ Json!LowerCase(b.entries[match[i]].key) = Json!LowerCase(b.entries[match[j]].key))
                                 => (i < j <=> match[i] < match[j])
BY BijectionIs DEF Json!Matchings

\* How sortObj sorts a value.
IsSorting(v, L, e, p) ==
    /\ DOMAIN v.entries = 1 .. L
    /\ e \in [1 .. L -> EntriesOf(v.kind, Json!JsonValue)]
    /\ \A i \in 1 .. L : e[i] = [key |-> v.entries[i].key, value |-> Json!sortObj[v.entries[i].value]]
    /\ Sorts(p, v.kind, e, L)
    /\ Json!sortObj[v] = [kind |-> v.kind, entries |-> [r \in 1 .. L |-> e[p[r]]]]

LEMMA SortingIs ==
    ASSUME NEW v \in Json!JsonValue
    PROVE  \E L, e, p : L \in Nat /\ IsSorting(v, L, e, p)
<1>1. PICK L \in Nat : L = Len(v.entries) /\ DOMAIN v.entries = 1 .. L
    BY JsonValueIs
<1>2. PICK values : values = Results(Json!sortObj, v)
    OBVIOUS
<1>3. values \in [DOMAIN v.entries -> Json!JsonValue]
    BY <1>2, JsonValueIs, SortObjIs DEF Results
<1>4. \A i \in 1 .. L : values[i] = Json!sortObj[v.entries[i].value]
    BY <1>1, <1>2 DEF Results
<1>5. PICK e : e = EntriesWith(v, values)
    OBVIOUS
<1>6. e \in [1 .. L -> EntriesOf(v.kind, Json!JsonValue)] /\ HasThose(e, v, values, L)
    BY <1>1, <1>3, <1>5, EntriesTyped
<1>7. PICK p : SortedBy(p, v.kind, e, L)
    BY <1>6, SortedIs
<1>8. Json!sortObj[v] = [kind |-> v.kind, entries |-> Json!Sorted(v.kind, e)]
    BY <1>2, <1>5, SortObjIs DEF SortedWith
<1>9. \A i \in 1 .. L : e[i] = [key |-> v.entries[i].key, value |-> Json!sortObj[v.entries[i].value]]
    BY <1>4, <1>6 DEF HasThose
<1>10. IsSorting(v, L, e, p)
    BY <1>1, <1>6, <1>7, <1>8, <1>9 DEF IsSorting, SortedBy
<1> QED
    BY <1>10

\* Equal up to order: sorted to the same.
LEMMA SortedEqual ==
    \A a \in Json!JsonValue, b \in Json!JsonValue :
        Json!Equivalent[a][b] => Json!sortObj[a] = Json!sortObj[b]
<1> DEFINE V == Json!JsonValue
           Same(a) == \A b \in V : Json!Equivalent[a][b] => Json!sortObj[a] = Json!sortObj[b]
           P == {a \in V : Same(a)}
<1>1. ASSUME NEW a \in V, \A i \in DOMAIN a.entries : a.entries[i].value \in P, NEW b \in V,
             Json!Equivalent[a][b]
      PROVE  Json!sortObj[a] = Json!sortObj[b]
    <2>1. PICK L, e, p : L \in Nat /\ IsSorting(a, L, e, p)
        BY SortingIs
    <2>2. PICK M, f, q : M \in Nat /\ IsSorting(b, M, f, q)
        BY SortingIs
    <2> L \in Nat /\ M \in Nat
        BY <2>1, <2>2
    <2>3. PICK equal : equal = Results(Json!Equivalent, a)
        OBVIOUS
    <2>4. a.kind = b.kind /\ \E match \in Json!Matchings(a, b) : Matches(a, b, match, equal)
        BY <1>1, <2>3, EquivalentIs DEF MatchesSome
    <2>5. /\ DOMAIN a.entries = 1 .. L /\ DOMAIN b.entries = 1 .. M
          /\ e \in [1 .. L -> EntriesOf(a.kind, V)] /\ f \in [1 .. M -> EntriesOf(b.kind, V)]
          /\ \A i \in 1 .. L : e[i] = [key |-> a.entries[i].key, value |-> Json!sortObj[a.entries[i].value]]
          /\ \A i \in 1 .. M : f[i] = [key |-> b.entries[i].key, value |-> Json!sortObj[b.entries[i].value]]
          /\ Sorts(p, a.kind, e, L) /\ Sorts(q, b.kind, f, M)
          /\ Json!sortObj[a] = [kind |-> a.kind, entries |-> [r \in 1 .. L |-> e[p[r]]]]
          /\ Json!sortObj[b] = [kind |-> b.kind, entries |-> [r \in 1 .. M |-> f[q[r]]]]
        BY <2>1, <2>2 DEF IsSorting
    <2>6. PICK match \in Json!Matchings(a, b) : Matches(a, b, match, equal)
        BY <2>4
    <2>7. /\ L = M /\ Rearrangement(match, L)
          /\ a.kind = Json!Object =>
                \A i, j \in 1 .. L :
                    (/\ Json!LowerCase(a.entries[i].key) = Json!LowerCase(a.entries[j].key)
                     /\ Json!LowerCase(b.entries[match[i]].key) = Json!LowerCase(b.entries[match[j]].key))
                        => (i < j <=> match[i] < match[j])
        BY <2>5, MatchingsAre
    <2>8. \A i \in 1 .. L : match[i] \in 1 .. M
        BY <2>7 DEF Rearrangement
    <2>9. ASSUME NEW i \in 1 .. L
          PROVE  a.entries[i].key = b.entries[match[i]].key /\ e[i] = f[match[i]]
        <3>1. PICK x, y : x = a.entries[i] /\ y = b.entries[match[i]]
            OBVIOUS
        <3>2. Same(x.value) /\ y.value \in V
            BY <1>1, <2>5, <2>8, <3>1, JsonValueIs
        <3>3. equal[i] = Json!Equivalent[x.value]
            BY <2>3, <2>5, <3>1 DEF Results
        <3>4. x.key = y.key /\ equal[i][y.value]
            BY <2>5, <2>6, <3>1 DEF Matches
        <3>5. Json!sortObj[x.value] = Json!sortObj[y.value]
            BY <3>2, <3>3, <3>4
        <3>6. /\ e[i] = [key |-> x.key, value |-> Json!sortObj[x.value]]
              /\ f[match[i]] = [key |-> y.key, value |-> Json!sortObj[y.value]]
            BY <2>5, <2>8, <3>1
        <3> QED
            BY <3>1, <3>4, <3>5, <3>6
    <2>10. Agrees(match, a.kind, e, f, L)
        <3>1. \A i \in 1 .. L : e[i].key = a.entries[i].key
            BY <2>5
        <3>2. ASSUME a.kind = Json!Object, NEW i \in 1 .. L, NEW j \in 1 .. L,
                     Json!LowerCase(e[i].key) = Json!LowerCase(e[j].key)
              PROVE  i < j <=> match[i] < match[j]
            BY <2>7, <2>9, <3>1, <3>2
        <3> QED
            BY <2>7, <2>9, <3>2 DEF Agrees
    <2>11. PICK kind : kind = a.kind
        OBVIOUS
    <2>12. /\ e \in [1 .. L -> EntriesOf(kind, V)] /\ f \in [1 .. L -> EntriesOf(kind, V)]
           /\ Sorts(p, kind, e, L) /\ Sorts(q, kind, f, L) /\ Agrees(match, kind, e, f, L)
        BY <2>4, <2>5, <2>7, <2>10, <2>11
    <2>13. \A r \in 1 .. L : e[p[r]] = f[q[r]]
        BY <2>12, SortedSame
    <2>14. [r \in 1 .. L |-> e[p[r]]] = [r \in 1 .. M |-> f[q[r]]]
        BY <2>7, <2>13
    <2> QED
        BY <2>4, <2>5, <2>14
<1>2. P = V
    <2>1. P \subseteq V
        OBVIOUS
    <2>2. \A a \in V : (\A i \in DOMAIN a.entries : a.entries[i].value \in P) => a \in P
        BY <1>1
    <2> HIDE DEF P
    <2> QED
        BY <2>1, <2>2, InductionOnValues
<1> QED
    BY <1>2

\* What sortObj and normalize make of a value, together.
IsCanonical(v, L, e, p) ==
    /\ IsSorting(v, L, e, p)
    /\ Json!normalize[Json!sortObj[v]].kind = Json!NormalForm(v.kind)
    /\ Len(Json!normalize[Json!sortObj[v]].entries) = L
    /\ \A r \in 1 .. L :
          Json!normalize[Json!sortObj[v]].entries[r]
              = [key |-> Json!NormalKey(v.entries[p[r]].key),
                 value |-> Json!normalize[Json!sortObj[v.entries[p[r]].value]]]

LEMMA CanonicalIs ==
    ASSUME NEW v \in Json!JsonValue
    PROVE  \E L, e, p : L \in Nat /\ IsCanonical(v, L, e, p)
<1>1. PICK L, e, p : L \in Nat /\ IsSorting(v, L, e, p)
    BY SortingIs
<1> L \in Nat
    BY <1>1
<1>2. PICK u : u = Json!sortObj[v]
    OBVIOUS
<1>3. u \in Json!JsonValue /\ u = [kind |-> v.kind, entries |-> [r \in 1 .. L |-> e[p[r]]]]
    BY <1>1, <1>2, SortObjIs DEF IsSorting
<1>4. \A r \in 1 .. L : p[r] \in 1 .. L
    BY <1>1 DEF IsSorting, Sorts, Rearrangement
<1>5. \A r \in 1 .. L : /\ u.entries[r].key = v.entries[p[r]].key
                        /\ u.entries[r].value = Json!sortObj[v.entries[p[r]].value]
    BY <1>1, <1>3, <1>4 DEF IsSorting
<1>6. u.kind = v.kind /\ DOMAIN u.entries = 1 .. L
    BY <1>3
<1>7. PICK w : w = Json!normalize[u]
    OBVIOUS
<1>8. w = NormalWith(u, Results(Json!normalize, u))
    BY <1>3, <1>7, NormalizeIs
<1>9. w.kind = Json!NormalForm(u.kind)
    BY <1>8 DEF NormalWith
<1>10. w.entries = [i \in 1 .. L |-> [key |-> Json!NormalKey(u.entries[i].key),
                                      value |-> Json!normalize[u.entries[i].value]]]
    BY <1>6, <1>8 DEF NormalWith, Results, Json!Entry
<1>11. Len(w.entries) = L
    BY <1>10
<1>12. IsCanonical(v, L, e, p)
    BY <1>1, <1>2, <1>5, <1>6, <1>7, <1>9, <1>10, <1>11 DEF IsCanonical
<1> QED
    BY <1>12

\* What becomes the same is alike.
LEMMA CanonicalAlike ==
    \A a \in Json!JsonValue, b \in Json!JsonValue :
        Json!normalize[Json!sortObj[a]] = Json!normalize[Json!sortObj[b]] => Json!Alike[a][b]
<1> DEFINE V == Json!JsonValue
           Like(a) == \A b \in V :
               Json!normalize[Json!sortObj[a]] = Json!normalize[Json!sortObj[b]] => Json!Alike[a][b]
           P == {a \in V : Like(a)}
<1>1. ASSUME NEW a \in V, \A i \in DOMAIN a.entries : a.entries[i].value \in P, NEW b \in V,
             Json!normalize[Json!sortObj[a]] = Json!normalize[Json!sortObj[b]]
      PROVE  Json!Alike[a][b]
    <2>1. PICK L, e, p : L \in Nat /\ IsCanonical(a, L, e, p)
        BY CanonicalIs
    <2>2. PICK M, f, q : M \in Nat /\ IsCanonical(b, M, f, q)
        BY CanonicalIs
    <2> L \in Nat /\ M \in Nat
        BY <2>1, <2>2
    <2>3. PICK c : c = Json!normalize[Json!sortObj[a]] /\ c = Json!normalize[Json!sortObj[b]]
        BY <1>1
    <2>4. /\ Json!NormalForm(a.kind) = Json!NormalForm(b.kind) /\ L = M
          /\ \A r \in 1 .. L :
                /\ c.entries[r] = [key |-> Json!NormalKey(a.entries[p[r]].key),
                                   value |-> Json!normalize[Json!sortObj[a.entries[p[r]].value]]]
                /\ c.entries[r] = [key |-> Json!NormalKey(b.entries[q[r]].key),
                                   value |-> Json!normalize[Json!sortObj[b.entries[q[r]].value]]]
        BY <2>1, <2>2, <2>3 DEF IsCanonical
    <2>5. /\ DOMAIN a.entries = 1 .. L /\ DOMAIN b.entries = 1 .. L
          /\ e \in [1 .. L -> EntriesOf(a.kind, V)] /\ f \in [1 .. L -> EntriesOf(b.kind, V)]
          /\ \A i \in 1 .. L : e[i] = [key |-> a.entries[i].key, value |-> Json!sortObj[a.entries[i].value]]
          /\ \A i \in 1 .. L : f[i] = [key |-> b.entries[i].key, value |-> Json!sortObj[b.entries[i].value]]
          /\ Sorts(p, a.kind, e, L) /\ Sorts(q, b.kind, f, L)
        BY <2>1, <2>2, <2>4 DEF IsCanonical, IsSorting
    <2>6. a.kind \in Kinds /\ b.kind \in Kinds
        BY JsonValueIs DEF IsValue
    <2>7. a.kind = b.kind \/ L = 0
        <3>1. a.kind \notin Scalars => a.kind = b.kind
            BY <2>4, <2>6, NormalKind
        <3>2. a.kind \in Scalars => a.entries = <<>>
            BY JsonValueIs DEF IsValue
        <3> QED
            BY <2>5, <3>1, <3>2
    <2>8. PICK kind : kind = a.kind
        OBVIOUS
    <2>9. /\ e \in [1 .. L -> EntriesOf(kind, V)] /\ f \in [1 .. L -> EntriesOf(kind, V)]
          /\ Sorts(p, kind, e, L) /\ Sorts(q, kind, f, L)
        <3>1. CASE a.kind = b.kind
            BY <2>5, <2>8, <3>1
        <3>2. CASE L = 0
            BY <2>5, <2>8, <3>2 DEF Sorts
        <3> QED
            BY <2>7, <3>1, <3>2
    <2>10. PICK match : MatchesPlaces(match, kind, e, f, p, q, L)
        BY <2>9, SortedMatches
    <2>11. \A i \in 1 .. L : match[i] \in 1 .. L /\ e[i].key = a.entries[i].key /\ f[i].key = b.entries[i].key
        <3>1. \A i \in 1 .. L : match[i] \in 1 .. L
            BY <2>10 DEF MatchesPlaces, Rearrangement
        <3>2. \A i \in 1 .. L : e[i].key = a.entries[i].key /\ f[i].key = b.entries[i].key
            BY <2>5
        <3> QED
            BY <3>1, <3>2
    <2>12. match \in Json!Matchings(a, b)
        <3>1. ASSUME a.kind = Json!Object, NEW i \in 1 .. L, NEW j \in 1 .. L,
                     Json!LowerCase(a.entries[i].key) = Json!LowerCase(a.entries[j].key),
                     Json!LowerCase(b.entries[match[i]].key) = Json!LowerCase(b.entries[match[j]].key)
              PROVE  i < j <=> match[i] < match[j]
            <4>1. /\ Json!LowerCase(e[i].key) = Json!LowerCase(e[j].key)
                  /\ Json!LowerCase(f[match[i]].key) = Json!LowerCase(f[match[j]].key)
                BY <2>11, <3>1
            <4> QED
                BY <2>8, <2>10, <3>1, <4>1 DEF MatchesPlaces
        <3>2. Rearrangement(match, L)
            BY <2>10 DEF MatchesPlaces
        <3> QED
            BY <2>5, <3>1, <3>2, MatchingsAre
    <2>13. PICK alike : alike = Results(Json!Alike, a)
        OBVIOUS
    <2>14. ASSUME NEW i \in 1 .. L
           PROVE  /\ Json!NormalKey(a.entries[i].key) = Json!NormalKey(b.entries[match[i]].key)
                  /\ alike[i][b.entries[match[i]].value]
        <3>1. PICK r \in 1 .. L : i = p[r] /\ match[i] = q[r]
            BY <2>10 DEF MatchesPlaces
        <3>2. PICK x, y : x = a.entries[i] /\ y = b.entries[match[i]]
            OBVIOUS
        <3>3. /\ Json!NormalKey(x.key) = Json!NormalKey(y.key)
              /\ Json!normalize[Json!sortObj[x.value]] = Json!normalize[Json!sortObj[y.value]]
            <4>1. [key |-> Json!NormalKey(x.key), value |-> Json!normalize[Json!sortObj[x.value]]]
                      = [key |-> Json!NormalKey(y.key), value |-> Json!normalize[Json!sortObj[y.value]]]
                BY <2>4, <3>1, <3>2
            <4> QED
                BY <4>1
        <3>4. Like(x.value) /\ y.value \in V
            <4>1. i \in DOMAIN a.entries /\ match[i] \in DOMAIN b.entries
                BY <2>5, <2>11
            <4>2. x.value \in P
                BY <1>1, <3>2, <4>1
            <4>3. y.value \in V
                BY <3>2, <4>1, JsonValueIs
            <4> QED
                BY <4>2, <4>3
        <3>5. alike[i] = Json!Alike[x.value]
            BY <2>5, <2>13, <3>2 DEF Results
        <3>6. alike[i][y.value]
            <4>1. Json!Alike[x.value][y.value]
                BY <3>3, <3>4
            <4> QED
                BY <3>5, <4>1
        <3> QED
            BY <3>2, <3>3, <3>6
    <2>15. ResemblesSome(a, b, alike)
        BY <2>4, <2>5, <2>12, <2>14 DEF ResemblesSome, Resembles
    <2> QED
        BY <2>13, <2>15, AlikeIs
<1>2. P = V
    <2>1. P \subseteq V
        OBVIOUS
    <2>2. \A a \in V : (\A i \in DOMAIN a.entries : a.entries[i].value \in P) => a \in P
        BY <1>1
    <2> HIDE DEF P
    <2> QED
        BY <2>1, <2>2, InductionOnValues
<1> QED
    BY <1>2

\* What encodeObjectAsStr is called with is a value.
JsonIsTyped == Calls("encodeObjectAsStr") => called.input \in Json!JsonValue

LEMMA JsonIsTypedHolds == PureFunctionsSpec => []JsonIsTyped
<1>1. PureFunctionsInit => JsonIsTyped
    BY DEF PureFunctionsInit, NoCall, JsonIsTyped, Calls
<1>2. JsonIsTyped /\ [PureFunctionsNext]_called => JsonIsTyped'
    BY JsonAssumption DEF JsonIsTyped, PureFunctionsNext, Call, Calls
<1> QED
    BY <1>1, <1>2, PTL DEF PureFunctionsSpec

\* For all values, however deep they nest (encodeObjectAsStr of utils/src/Crypto.ts):
\* those equal up to the order of their arrays and of their keys have one canonical text,
\* and those with one text, unless a mere string is among them, are equal up to that
\* order and the normal form of their strings and keys.
THEOREM CanonicalTexts == PureFunctionsSpec => []CanonicalUpToOrder
<1>1. JsonIsTyped => CanonicalUpToOrder
    <2> SUFFICES ASSUME JsonIsTyped, Calls("encodeObjectAsStr"), NEW value \in JsonValues
                 PROVE  LET sameText == Json!encodeObjectAsStr(called.input) = Json!encodeObjectAsStr(value) IN
                        /\ Json!Equivalent[called.input][value] => sameText
                        /\ (sameText /\ ~IsString(called.input) /\ ~IsString(value))
                               => Json!Alike[called.input][value]
        BY DEF CanonicalUpToOrder
    <2>1. PICK a \in Json!JsonValue, b \in Json!JsonValue : a = called.input /\ b = value
        BY JsonAssumption DEF JsonIsTyped
    <2>2. ASSUME Json!Equivalent[a][b] PROVE Json!encodeObjectAsStr(a) = Json!encodeObjectAsStr(b)
        <3>1. Json!sortObj[a] = Json!sortObj[b]
            BY <2>2, SortedEqual
        <3>2. a.kind = b.kind
            BY <2>2, EquivalentIs DEF MatchesSome
        <3> QED
            BY <3>1, <3>2 DEF Json!encodeObjectAsStr
    <2>3. ASSUME Json!encodeObjectAsStr(a) = Json!encodeObjectAsStr(b), ~IsString(a), ~IsString(b)
          PROVE  Json!Alike[a][b]
        <3>1. Json!stringify[Json!normalize[Json!sortObj[a]]] = Json!stringify[Json!normalize[Json!sortObj[b]]]
            BY <2>3 DEF Json!encodeObjectAsStr, IsString
        <3>2. Json!normalize[Json!sortObj[a]] \in Json!JsonValue /\ Json!normalize[Json!sortObj[b]] \in Json!JsonValue
            BY SortObjIs, NormalizeIs
        <3>3. Json!normalize[Json!sortObj[a]] = Json!normalize[Json!sortObj[b]]
            BY <3>1, <3>2, TextsDiffer
        <3> QED
            BY <3>3, CanonicalAlike
    <2> QED
        BY <2>1, <2>2, <2>3
<1> QED
    BY <1>1, JsonIsTypedHolds, PTL

-----------------------------------------------------------------------------
(* Schemas.                                                                *)

\* validateTo, as its definition says.
LEMMA ValidateIs ==
    ASSUME NEW depth \in Nat, NEW root \in Values, NEW instance \in Values, NEW schema \in Values
    PROVE  /\ ~Schemas!validateTo[0][root][<<instance, schema>>]
           /\ Schemas!validateTo[depth + 1][root][<<instance, schema>>]
                  <=> Schemas!Validates(Schemas!validateTo[depth][root], instance, schema, root)
<1> DEFINE V == Values \X Values
           S == [Values -> [V -> BOOLEAN]]
           base == [r \in Values |-> [call \in V |-> FALSE]]
           step == [p \in Nat \X S |->
                       [r \in Values |->
                           [call \in V |-> TRUE /\ Schemas!Validates(p[2][r], call[1], call[2], r)]]]
           Is(f) == f = [d \in Nat |->
                            [r \in Values |->
                                [call \in Values \X Values |->
                                    d # 0 /\ Schemas!Validates(f[d - 1][r], call[1], call[2], r)]]]
           valid == Schemas!validateTo
<1>1. base \in S
    OBVIOUS
<1>2. step \in [Nat \X S -> S]
    OBVIOUS
<1>3. \A d \in Nat, g \in S :
          step[<<d, g>>] = [r \in Values |->
                               [call \in V |-> TRUE /\ Schemas!Validates(g[r], call[1], call[2], r)]]
    OBVIOUS
<1> HIDE DEF step, base, S
<1>4. PICK f \in [Nat -> S] : Follows(f, base, step)
    BY <1>1, <1>2, Recursion
<1>5. f[0] = [r \in Values |-> [call \in V |-> FALSE]]
    BY <1>4 DEF Follows, base
<1>6. ASSUME NEW d \in Nat, d # 0
      PROVE  f[d] = [r \in Values |->
                        [call \in V |-> TRUE /\ Schemas!Validates(f[d - 1][r], call[1], call[2], r)]]
    <2>1. d - 1 \in Nat /\ (d - 1) + 1 = d
        BY <1>6
    <2>2. f[(d - 1) + 1] = step[<<d - 1, f[d - 1]>>] /\ f[d - 1] \in S
        BY <1>4, <2>1 DEF Follows
    <2>3. step[<<d - 1, f[d - 1]>>]
              = [r \in Values |->
                    [call \in V |-> TRUE /\ Schemas!Validates(f[d - 1][r], call[1], call[2], r)]]
        BY <1>3, <2>1, <2>2
    <2> QED
        BY <2>1, <2>2, <2>3
<1>7. Is(f)
    <2>1. ASSUME NEW d \in Nat
          PROVE  f[d] = [r \in Values |->
                            [call \in V |-> d # 0 /\ Schemas!Validates(f[d - 1][r], call[1], call[2], r)]]
        <3>1. CASE d = 0
            BY <1>5, <3>1
        <3>2. CASE d # 0
            BY <1>6, <3>2
        <3> QED
            BY <3>1, <3>2
    <2> QED
        BY <1>4, <2>1
<1>8. Is(valid)
    <2>1. valid = CHOOSE g : Is(g)
        BY DEF Schemas!validateTo
    <2> HIDE DEF Is, valid
    <2> QED
        BY <1>7, <2>1
<1> HIDE DEF valid
<1>9. \A d \in Nat : valid[d] = [r \in Values |->
                                   [call \in Values \X Values |->
                                       d # 0 /\ Schemas!Validates(valid[d - 1][r], call[1], call[2], r)]]
    BY <1>8
<1>10. ASSUME NEW d \in Nat
       PROVE  valid[d][root][<<instance, schema>>]
                  <=> d # 0 /\ Schemas!Validates(valid[d - 1][root], instance, schema, root)
    <2>1. PICK call \in Values \X Values :
              call = <<instance, schema>> /\ call[1] = instance /\ call[2] = schema
        <3>1. <<instance, schema>> \in Values \X Values
            OBVIOUS
        <3>2. <<instance, schema>>[1] = instance /\ <<instance, schema>>[2] = schema
            OBVIOUS
        <3> QED
            BY <3>1, <3>2
    <2> DEFINE F(r, c) == d # 0 /\ Schemas!Validates(valid[d - 1][r], c[1], c[2], r)
    <2>2. valid[d] = [r \in Values |-> [c \in Values \X Values |-> F(r, c)]]
        BY <1>9
    <2> HIDE DEF F
    <2>3. valid[d][root][call] = F(root, call)
        BY <2>2
    <2>4. F(root, call) <=> d # 0 /\ Schemas!Validates(valid[d - 1][root], instance, schema, root)
        BY <2>1 DEF F
    <2> QED
        BY <2>1, <2>3, <2>4
<1>11. ~valid[0][root][<<instance, schema>>]
    BY <1>10
<1>12. valid[depth + 1][root][<<instance, schema>>]
           <=> Schemas!Validates(valid[depth][root], instance, schema, root)
    <2>1. depth + 1 \in Nat /\ depth + 1 # 0 /\ (depth + 1) - 1 = depth
        OBVIOUS
    <2> QED
        BY <1>10, <2>1
<1> QED
    BY <1>11, <1>12 DEF valid

\* The parts of a value are values.
LEMMA PartIs ==
    ASSUME NEW value \in Values
    PROVE  /\ Schemas!TypeOf(value) \in {"object", "array"} =>
                  \A k \in DOMAIN Schemas!Held(value) : Schemas!Held(value)[k] \in Values
<1>1. Schemas!Parts(value) \subseteq Values
    BY ValuesAssumption
<1>2. ASSUME Schemas!TypeOf(value) = "object", NEW k \in DOMAIN Schemas!Held(value)
      PROVE  Schemas!Held(value)[k] \in Schemas!Parts(value)
    BY <1>2 DEF Schemas!Parts
<1>3. ASSUME Schemas!TypeOf(value) = "array", NEW k \in DOMAIN Schemas!Held(value)
      PROVE  Schemas!Held(value)[k] \in Schemas!Parts(value)
    BY <1>3 DEF Schemas!Parts
<1> QED
    BY <1>1, <1>2, <1>3

\* What is valid, some call of validate at one level less found so.
LEMMA ValidIs ==
    ASSUME NEW depth \in Nat, NEW root \in Values, NEW instance \in Values, NEW schema \in Values,
           Schemas!validateTo[depth][root][<<instance, schema>>]
    PROVE  \E d \in Nat : depth = d + 1 /\ Schemas!Validates(Schemas!validateTo[d][root], instance, schema, root)
<1>1. depth # 0
    BY ValidateIs
<1>2. depth - 1 \in Nat /\ depth = (depth - 1) + 1
    BY <1>1
<1>3. Schemas!Validates(Schemas!validateTo[depth - 1][root], instance, schema, root)
    BY <1>2, ValidateIs
<1> QED
    BY <1>2, <1>3

\* No value is valid for the schema FALSE.
LEMMA FalseRefuses ==
    ASSUME NEW depth \in Nat, NEW root \in Values, NEW instance \in Values, Schemas!Bool(FALSE) \in Values
    PROVE  ~Schemas!validateTo[depth][root][<<instance, Schemas!Bool(FALSE)>>]
<1> SUFFICES ASSUME Schemas!validateTo[depth][root][<<instance, Schemas!Bool(FALSE)>>]
             PROVE  FALSE
    OBVIOUS
<1>1. PICK d \in Nat : Schemas!Validates(Schemas!validateTo[d][root], instance, Schemas!Bool(FALSE), root)
    BY ValidIs
<1>2. /\ Schemas!TypeOf(Schemas!Bool(FALSE)) = "boolean"
      /\ Schemas!Held(Schemas!Bool(FALSE)) = FALSE
    BY DEF Schemas!TypeOf, Schemas!Held, Schemas!Bool
<1> QED
    BY <1>1, <1>2 DEF Schemas!Validates

Keywords == {"title", "type", "properties", "additionalProperties", "$schema", "$id"}

\* The metaschema, as the proof uses it.
LEMMA ModelIs ==
    /\ Schemas!TypeOf(Schemas!SchemaModelV1) = "object"
    /\ ~Schemas!Has(Schemas!SchemaModelV1, "$ref")
    /\ ~Schemas!Has(Schemas!SchemaModelV1, "patternProperties")
    /\ Schemas!Has(Schemas!SchemaModelV1, "type") /\ Schemas!Of(Schemas!SchemaModelV1, "type") = "object"
    /\ Schemas!Has(Schemas!SchemaModelV1, "properties")
    /\ DOMAIN Schemas!Of(Schemas!SchemaModelV1, "properties") = Keywords
    /\ Schemas!Has(Schemas!SchemaModelV1, "additionalProperties")
    /\ Schemas!Held(Schemas!SchemaModelV1)["additionalProperties"] = Schemas!Bool(FALSE)
<1>1. Schemas!TypeOf(Schemas!SchemaModelV1) = "object"
    BY DEF Schemas!SchemaModelV1, Schemas!Obj, Schemas!TypeOf
<1>2. Schemas!Held(Schemas!SchemaModelV1)
          = [type |-> Schemas!Str("object"), properties |-> Schemas!Obj(Schemas!ModelProperties),
             required |-> Schemas!Required(Schemas!ModelRequired),
             additionalProperties |-> Schemas!Bool(FALSE)]
    BY DEF Schemas!SchemaModelV1, Schemas!Obj, Schemas!Held
<1>3. DOMAIN Schemas!Held(Schemas!SchemaModelV1)
          = {"type", "properties", "required", "additionalProperties"}
    BY <1>2
<1>4. /\ Schemas!Held(Schemas!SchemaModelV1)["type"] = Schemas!Str("object")
      /\ Schemas!Held(Schemas!SchemaModelV1)["properties"] = Schemas!Obj(Schemas!ModelProperties)
      /\ Schemas!Held(Schemas!SchemaModelV1)["additionalProperties"] = Schemas!Bool(FALSE)
    BY <1>2
<1>5. /\ Schemas!Of(Schemas!SchemaModelV1, "type") = "object"
      /\ Schemas!Of(Schemas!SchemaModelV1, "properties") = Schemas!ModelProperties
    BY <1>4 DEF Schemas!Of, Schemas!Str, Schemas!Obj, Schemas!Held
<1>6. DOMAIN Schemas!ModelProperties = Keywords
    BY DEF Schemas!ModelProperties, Schemas!With, Keywords
<1> QED
    BY <1>1, <1>3, <1>4, <1>5, <1>6 DEF Schemas!Has

\* It is what the metaschema's reference to it resolves to.
LEMMA LookupIs ==
    /\ Schemas!ModelUri \in DOMAIN Schemas!ModelLookup
    /\ Schemas!ModelLookup[Schemas!ModelUri] = Schemas!SchemaModelV1
    /\ Schemas!Lookup(Schemas!SchemaModel) = Schemas!ModelLookup
    /\ Schemas!SchemaModel \in Values
    BY ValuesAssumption DEF Schemas!Lookup, Schemas!ModelLookup, Schemas!With

\* What the metaschema finds valid, its reference does one level deeper.
LEMMA ReferenceIsValid ==
    ASSUME NEW depth \in Nat, NEW schema \in Values,
           Schemas!validateTo[depth][Schemas!SchemaModel][<<schema, Schemas!SchemaModel>>]
    PROVE  \E d \in Nat : Schemas!validateTo[d][Schemas!SchemaModel][<<schema, Schemas!Ref(Schemas!ModelUri)>>]
<1> DEFINE Model == Schemas!SchemaModel
<1>1. Model \in Values
    BY ValuesAssumption
<1>2. PICK d \in Nat : Schemas!Validates(Schemas!validateTo[d][Schemas!SchemaModel], schema, Model, Schemas!SchemaModel)
    BY <1>1, ValidIs
<1>3. Schemas!TypeOf(Model) = "object"
    BY DEF Schemas!SchemaModel, Schemas!Obj, Schemas!TypeOf
<1>4. DOMAIN Schemas!Held(Model) = {"allOf"}
    BY DEF Schemas!SchemaModel, Schemas!Obj, Schemas!Held
<1>5. PICK first : Schemas!Held(Model)["allOf"] = Schemas!Arr(<<first, Schemas!Ref(Schemas!ModelUri)>>)
    BY DEF Schemas!SchemaModel, Schemas!Obj, Schemas!Held
<1>6. Schemas!Of(Model, "allOf") = <<first, Schemas!Ref(Schemas!ModelUri)>>
    BY <1>5 DEF Schemas!Of, Schemas!Arr, Schemas!Held
<1> HIDE DEF Model
<1>7. Schemas!General(Schemas!validateTo[d][Schemas!SchemaModel], schema, Model)
    BY <1>2, <1>3, <1>4 DEF Schemas!Validates, Schemas!Has
<1>8. \A i \in DOMAIN Schemas!Of(Model, "allOf") :
          Schemas!validateTo[d][Schemas!SchemaModel][<<schema, Schemas!Of(Model, "allOf")[i]>>]
    BY <1>4, <1>7 DEF Schemas!General, Schemas!Has
<1>9. 2 \in DOMAIN <<first, Schemas!Ref(Schemas!ModelUri)>>
    OBVIOUS
<1>10. Schemas!validateTo[d][Schemas!SchemaModel][<<schema, Schemas!Of(Model, "allOf")[2]>>]
    BY <1>6, <1>8, <1>9
<1> QED
    BY <1>6, <1>10

\* The metaschema's reference to its model is a value.
LEMMA ReferenceIsValue ==
    Schemas!Ref(Schemas!ModelUri) \in Values
<1> DEFINE Model == Schemas!SchemaModel
<1>1. Model \in Values
    BY ValuesAssumption
<1>3. Schemas!TypeOf(Model) = "object"
    BY DEF Schemas!SchemaModel, Schemas!Obj, Schemas!TypeOf
<1>4. DOMAIN Schemas!Held(Model) = {"allOf"}
    BY DEF Schemas!SchemaModel, Schemas!Obj, Schemas!Held
<1>5. PICK first : Schemas!Held(Model)["allOf"] = Schemas!Arr(<<first, Schemas!Ref(Schemas!ModelUri)>>)
    BY DEF Schemas!SchemaModel, Schemas!Obj, Schemas!Held
<1> HIDE DEF Model
<1> DEFINE list == Schemas!Arr(<<first, Schemas!Ref(Schemas!ModelUri)>>)
<1>6. list \in Values
    BY <1>1, <1>3, <1>4, <1>5, PartIs
<1>7. /\ Schemas!TypeOf(list) = "array"
      /\ Schemas!Held(list) = <<first, Schemas!Ref(Schemas!ModelUri)>>
    BY DEF Schemas!Arr, Schemas!TypeOf, Schemas!Held
<1> HIDE DEF list
<1>8. 2 \in DOMAIN Schemas!Held(list) /\ Schemas!Held(list)[2] = Schemas!Ref(Schemas!ModelUri)
    BY <1>7
<1> QED
    BY <1>6, <1>7, <1>8, PartIs

\* And the model of schemas two levels deeper.
LEMMA ModelIsValid ==
    ASSUME NEW depth \in Nat, NEW schema \in Values,
           Schemas!validateTo[depth][Schemas!SchemaModel][<<schema, Schemas!SchemaModel>>]
    PROVE  \E d \in Nat : Schemas!Validates(Schemas!validateTo[d][Schemas!SchemaModel], schema, Schemas!SchemaModelV1, Schemas!SchemaModel)
<1> DEFINE reference == Schemas!Ref(Schemas!ModelUri)
<1>1. reference \in Values
    BY ReferenceIsValue
<1>2. PICK d \in Nat : Schemas!validateTo[d][Schemas!SchemaModel][<<schema, reference>>]
    BY ReferenceIsValid
<1>3. PICK e \in Nat : Schemas!Validates(Schemas!validateTo[e][Schemas!SchemaModel], schema, reference, Schemas!SchemaModel)
    BY <1>1, <1>2, LookupIs, ValidIs
<1>4. /\ Schemas!TypeOf(reference) = "object"
      /\ Schemas!Has(reference, "$ref")
      /\ Schemas!Of(reference, "$ref") = Schemas!ModelUri
    BY DEF Schemas!Ref, Schemas!Obj, Schemas!Entry, Schemas!Str, Schemas!TypeOf, Schemas!Has,
           Schemas!Of, Schemas!Held
<1> HIDE DEF reference
<1>5. Schemas!validateTo[e][Schemas!SchemaModel][<<schema, Schemas!SchemaModelV1>>]
    BY <1>3, <1>4, LookupIs DEF Schemas!Validates
<1>6. Schemas!SchemaModelV1 \in Values
    BY ValuesAssumption, LookupIs
<1> QED
    BY <1>5, <1>6, LookupIs, ValidIs

\* A schema that the metaschema finds valid is an object and has no keywords but
\* those of the metaschema.
LEMMA SchemasAreClosed ==
    ASSUME NEW depth \in Nat, NEW schema \in Values,
           Schemas!validateTo[depth][Schemas!SchemaModel][<<schema, Schemas!SchemaModel>>]
    PROVE  /\ Schemas!TypeOf(schema) = "object"
           /\ DOMAIN Schemas!Held(schema) \subseteq Keywords
<1> DEFINE Model == Schemas!SchemaModelV1
<1>1. PICK d \in Nat : Schemas!Validates(Schemas!validateTo[d][Schemas!SchemaModel], schema, Model, Schemas!SchemaModel)
    BY ModelIsValid
<1>2. Model \in Values
    BY ValuesAssumption, LookupIs
<1>3. /\ Schemas!TypeOf(Model) = "object"
      /\ ~Schemas!Has(Model, "$ref") /\ ~Schemas!Has(Model, "patternProperties")
      /\ Schemas!Has(Model, "type") /\ Schemas!Of(Model, "type") = "object"
      /\ Schemas!Has(Model, "properties") /\ DOMAIN Schemas!Of(Model, "properties") = Keywords
      /\ Schemas!Has(Model, "additionalProperties")
      /\ Schemas!Held(Model)["additionalProperties"] = Schemas!Bool(FALSE)
    BY ModelIs
<1> HIDE DEF Model
<1>4. Schemas!Bool(FALSE) \in Values
    BY <1>2, <1>3, PartIs DEF Schemas!Has
<1>5. Schemas!General(Schemas!validateTo[d][Schemas!SchemaModel], schema, Model)
    BY <1>1, <1>3 DEF Schemas!Validates
<1>6. Schemas!TypeOf(schema) = "object"
    BY <1>3, <1>5 DEF Schemas!General, Schemas!TypeMatches
<1>7. Schemas!Properties(Schemas!validateTo[d][Schemas!SchemaModel], schema, Model)
    BY <1>1, <1>3, <1>6 DEF Schemas!Validates
<1>8. ASSUME NEW k \in DOMAIN Schemas!Held(schema), k \notin Keywords
      PROVE  FALSE
    <2>1. ~Schemas!Evaluated(Schemas!validateTo[d][Schemas!SchemaModel], schema, Model, k)
        BY <1>3, <1>8 DEF Schemas!Evaluated
    <2>2. Schemas!validateTo[d][Schemas!SchemaModel][<<Schemas!Held(schema)[k], Schemas!Bool(FALSE)>>]
        BY <1>3, <1>7, <2>1 DEF Schemas!Properties
    <2>3. Schemas!Held(schema)[k] \in Values
        BY <1>6, PartIs
    <2> QED
        BY <1>4, <2>2, <2>3, LookupIs, FalseRefuses
<1> QED
    BY <1>6, <1>8

\* What the restriction of contents is.
LEMMA RestrictionIs ==
    ASSUME NEW contents \in Contents, NEW keys \in SUBSET DOMAIN Schemas!Held(contents)
    PROVE  /\ Schemas!TypeOf(Restriction(contents, keys)) = "object"
           /\ DOMAIN Schemas!Held(Restriction(contents, keys)) = keys
           /\ \A k \in keys : Schemas!Held(Restriction(contents, keys))[k] = Schemas!Held(contents)[k]
<1>1. Schemas!TypeOf(Restriction(contents, keys)) = "object"
    BY DEF Restriction, Schemas!Obj, Schemas!TypeOf
<1>2. Schemas!Held(Restriction(contents, keys)) = [k \in keys |-> Schemas!Held(contents)[k]]
    BY DEF Restriction, Schemas!Obj, Schemas!Held
<1> QED
    BY <1>1, <1>2

\* With the keywords of the metaschema only, what is valid of contents is valid of
\* a restriction: no keyword but type and properties says anything of objects, and
\* properties speaks of each attribute by itself.
LEMMA RestrictionIsValid ==
    ASSUME NEW depth \in Nat, NEW schema \in Values, NEW contents \in Contents,
           NEW keys \in SUBSET DOMAIN Schemas!Held(contents),
           Schemas!TypeOf(schema) = "object", DOMAIN Schemas!Held(schema) \subseteq Keywords,
           Schemas!validateTo[depth][schema][<<contents, schema>>]
    PROVE  Schemas!validateTo[depth][schema][<<Restriction(contents, keys), schema>>]
<1> DEFINE some == Restriction(contents, keys)
<1>1. contents \in Values /\ some \in Values /\ Schemas!TypeOf(contents) = "object"
    BY ValuesAssumption
<1>2. PICK d \in Nat :
          depth = d + 1 /\ Schemas!Validates(Schemas!validateTo[d][schema], contents, schema, schema)
    BY <1>1, ValidIs
<1>3. /\ ~Schemas!Has(schema, "$ref") /\ ~Schemas!Has(schema, "const") /\ ~Schemas!Has(schema, "enum")
      /\ ~Schemas!Has(schema, "allOf") /\ ~Schemas!Has(schema, "oneOf")
      /\ ~Schemas!Has(schema, "required") /\ ~Schemas!Has(schema, "patternProperties")
    BY DEF Schemas!Has, Keywords
<1>4. /\ Schemas!TypeOf(some) = "object"
      /\ DOMAIN Schemas!Held(some) = keys
      /\ \A k \in keys : Schemas!Held(some)[k] = Schemas!Held(contents)[k]
    BY RestrictionIs
<1> HIDE DEF some
<1>5. /\ Schemas!General(Schemas!validateTo[d][schema], contents, schema)
      /\ Schemas!Properties(Schemas!validateTo[d][schema], contents, schema)
    BY <1>1, <1>2, <1>3 DEF Schemas!Validates
<1>6. Schemas!General(Schemas!validateTo[d][schema], some, schema)
    BY <1>1, <1>3, <1>4, <1>5 DEF Schemas!General, Schemas!TypeMatches
<1>7. ASSUME NEW k \in keys
      PROVE  /\ Schemas!Has(schema, "properties") /\ k \in DOMAIN Schemas!Of(schema, "properties") =>
                    Schemas!validateTo[d][schema][<<Schemas!Held(some)[k], Schemas!Of(schema, "properties")[k]>>]
             /\ Schemas!Has(schema, "additionalProperties")
                    /\ ~Schemas!Evaluated(Schemas!validateTo[d][schema], some, schema, k) =>
                    Schemas!validateTo[d][schema][<<Schemas!Held(some)[k],
                                            Schemas!Held(schema)["additionalProperties"]>>]
    <2>1. k \in DOMAIN Schemas!Held(contents) /\ Schemas!Held(some)[k] = Schemas!Held(contents)[k]
        BY <1>4
    <2>2. Schemas!Evaluated(Schemas!validateTo[d][schema], some, schema, k)
              <=> Schemas!Evaluated(Schemas!validateTo[d][schema], contents, schema, k)
        BY <2>1 DEF Schemas!Evaluated
    <2> QED
        BY <1>5, <2>1, <2>2 DEF Schemas!Properties
<1>8. Schemas!Properties(Schemas!validateTo[d][schema], some, schema)
    BY <1>3, <1>4, <1>7 DEF Schemas!Properties
<1>9. Schemas!Validates(Schemas!validateTo[d][schema], some, schema, schema)
    BY <1>3, <1>4, <1>6, <1>8 DEF Schemas!Validates
<1> QED
    BY <1>1, <1>2, <1>9, ValidateIs DEF some

SchemaIsTyped == Calls("verifyContentAganistSchema") => called.input \in SchemaInputs

LEMMA SchemaIsTypedHolds == PureFunctionsSpec => []SchemaIsTyped
<1>1. PureFunctionsInit => SchemaIsTyped
    BY DEF PureFunctionsInit, NoCall, SchemaIsTyped, Calls
<1>2. SchemaIsTyped /\ [PureFunctionsNext]_called => SchemaIsTyped'
    BY DEF PureFunctionsNext, Call, SchemaIsTyped, Calls
<1> QED
    BY <1>1, <1>2, PTL DEF PureFunctionsSpec

\* Contents that a verified schema accepts are accepted with any of their attributes
\* withheld.
THEOREM DisclosuresConform == PureFunctionsSpec => []DisclosureConforms
<1>1. SchemaIsTyped => DisclosureConforms
    <2> SUFFICES ASSUME SchemaIsTyped, Calls("verifyContentAganistSchema"), NEW contents \in Contents,
                        Schemas!verifyContentAganistSchema(contents, called.input),
                        NEW keys \in SUBSET DOMAIN Schemas!Held(contents)
                 PROVE  Schemas!validate(Restriction(contents, keys), called.input)
        BY DEF DisclosureConforms
    <2>1. called.input \in Values /\ MaxDepth \in Nat
        BY ValuesAssumption DEF SchemaIsTyped
    <2>2. /\ Schemas!validateTo[MaxDepth][Schemas!SchemaModel][<<called.input, Schemas!SchemaModel>>]
          /\ Schemas!validateTo[MaxDepth][called.input][<<contents, called.input>>]
        BY DEF Schemas!verifyContentAganistSchema, Schemas!verifyDataStructure, Schemas!validate
    <2>3. /\ Schemas!TypeOf(called.input) = "object"
          /\ DOMAIN Schemas!Held(called.input) \subseteq Keywords
        BY <2>1, <2>2, SchemasAreClosed
    <2>4. Schemas!validateTo[MaxDepth][called.input][<<Restriction(contents, keys), called.input>>]
        BY <2>1, <2>2, <2>3, RestrictionIsValid
    <2> QED
        BY <2>4 DEF Schemas!validate
<1> QED
    BY <1>1, SchemaIsTypedHolds, PTL
=============================================================================
