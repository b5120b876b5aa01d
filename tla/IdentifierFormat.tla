-------------------------- MODULE IdentifierFormat --------------------------
(***************************************************************************)
(* Identifiers of schemas, registries, streams and authorizations:         *)
(* encodeIdentifier and checkAddressChecksum of utils/src/Identifier.ts.   *)
(*                                                                         *)
(* base58 is left out: both sides work on the bytes.  A hash is the value  *)
(* it hashes; its first bytes, the checksum, are all of it.  Of a key only *)
(* its length and first byte matter.                                       *)
(***************************************************************************)
EXTENDS Integers, Sequences

allowedDecodedLengths == {1, 2, 4, 8, 32, 33}

Idents == {7101, 10447, 1424, 101, 8902}

Key(length) == [i \in 1 .. length |-> 128]

\* The bytes of a prefix: one below 64, else
\* (prefix & 0xFC) >> 2 | 0x40, and prefix >> 8 | (prefix & 3) << 6.
PrefixBytes(prefix) ==
    IF prefix < 64 THEN <<prefix>>
    ELSE <<((prefix % 256) \div 4) + 64, (prefix \div 256) + (prefix % 4) * 64>>

MayEncode(length, prefix) ==
    prefix \in 0 .. 16383 \ {46, 47} /\ length \in allowedDecodedLengths

\* An identifier: its bytes, with a checksum of one or two bytes at the end.
Encoded(bytes, checksum) ==
    [bytes |-> bytes, checksum |-> checksum, length |-> Len(bytes) + checksum.length]

pphash(bytes, length) == [of |-> bytes, length |-> length]

encodeIdentifier(key, prefix) ==
    LET input == PrefixBytes(prefix) \o key
    IN  Encoded(input, pphash(input, IF Len(key) \in {32, 33} THEN 2 ELSE 1))

\* The checksum is of another identifier, or of a damaged one.
Damaged(identifier) == [identifier EXCEPT !.checksum.of = <<>>]

PrefixLength(byte) == IF (byte \div 64) % 2 = 1 THEN 2 ELSE 1

\* (b0 & 0x3F) << 2 | b1 >> 6 | (b1 & 0x3F) << 8
DecodedPrefix(bytes) ==
    IF PrefixLength(bytes[1]) = 1 THEN bytes[1]
    ELSE (bytes[1] % 64) * 4 + bytes[2] \div 64 + (bytes[2] % 64) * 256

\* Mutant: contents hashes are told from short ones without their prefix.
ChecksumLength_noPrefix(identifier) ==
    IF identifier.length \in {34, 35} THEN 2 ELSE 1

\* How many bytes at the end are taken for the checksum.
ChecksumLength(identifier) ==
    LET prefixLength == PrefixLength(identifier.bytes[1]) IN
    IF identifier.length \in {34 + prefixLength, 35 + prefixLength} THEN 2 ELSE 1

checkAddressChecksum(identifier) ==
    [isValid |-> /\ identifier.bytes[1] < 128 /\ identifier.bytes[1] \notin {46, 47}
                 /\ identifier.checksum = pphash(identifier.bytes, ChecksumLength(identifier)),
     prefix |-> DecodedPrefix(identifier.bytes)]
=============================================================================
