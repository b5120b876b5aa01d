--------------------------- MODULE CanonicalJson ---------------------------
(***************************************************************************)
(* The canonical form that identifiers and hashes are computed over:       *)
(* encodeObjectAsStr of utils/src/Crypto.ts, and sortObj of                *)
(* utils/src/jsonabc.ts.                                                   *)
(*                                                                         *)
(* A value is its kind (an array, an object, or the number that stands for *)
(* a scalar) and its entries: those of an object in the order they were    *)
(* inserted, those of an array without keys.  A key is a letter and its    *)
(* case.  The text of a value is a sequence of numbers, which opens with   *)
(* its kind and ends; texts are compared as strings are.  A string that is *)
(* a whole value is not quoted: its text is its characters, which may also *)
(* be the text of another value.                                           *)
(***************************************************************************)
EXTENDS Integers, Sequences, SequencesExt, Functions

CONSTANTS
    Scalars,        \* the numbers of the scalars
    Strings,        \* those that are strings
    Characters,     \* the text of each string without its quotes
    NFC,            \* the normal form of the strings and letters that are not in it
    KeyNames,       \* the keys of objects
    MaxLevels       \* how deep arrays and objects nest

Array == -1
Object == -2
End == -3

Scalar(n) == [kind |-> n, entries |-> <<>>]
Entry(key, value) == [key |-> key, value |-> value]
ArrayOf(values) ==
    [kind |-> Array, entries |-> [i \in DOMAIN values |-> Entry(<<>>, values[i])]]
ObjectOf(entries) == [kind |-> Object, entries |-> entries]

\* The values with at most n arrays and objects around each scalar.
Level[n \in Nat] ==
    IF n = 0 THEN [kind : Scalars, entries : {<<>>}]
    ELSE Level[n - 1]
           \cup [kind : {Array}, entries : Seq([key : {<<>>}, value : Level[n - 1]])]
           \cup [kind : {Object}, entries : Seq([key : KeyNames, value : Level[n - 1]])]

JsonValue == Level[MaxLevels]

\* JSON.stringify.
stringify[value \in JsonValue] ==
    <<value.kind>>
      \o FlattenSeq([i \in DOMAIN value.entries |->
                        value.entries[i].key \o stringify[value.entries[i].value]])
      \o <<End>>

\* The order of strings.
Before(s, t) ==
    \E i \in DOMAIN t :
        /\ i <= Len(s) + 1
        /\ \A j \in 1 .. i - 1 : s[j] = t[j]
        /\ i <= Len(s) => s[i] < t[i]

\* key.toLowerCase()
LowerCase(key) == key[1]

\* Mutant: arrays keep their order.
Less_array(kind, a, b) == kind = Object /\ LowerCase(a.key) < LowerCase(b.key)

\* The elements of an array are sorted by their texts (that they were sorted before, by
\* what toString makes of them, is lost again), the entries of an object by their keys.
Less(kind, a, b) ==
    IF kind = Object THEN LowerCase(a.key) < LowerCase(b.key)
    ELSE Before(stringify[a.value], stringify[b.value])

\* A stable sort: i comes before j if it is smaller, or came before and is equal.
Sorted(kind, entries) ==
    LET Rank(i) ==
            Cardinality({j \in DOMAIN entries :
                            \/ Less(kind, entries[j], entries[i])
                            \/ j <= i /\ ~Less(kind, entries[i], entries[j])})
    IN  [r \in DOMAIN entries |-> entries[CHOOSE i \in DOMAIN entries : Rank(i) = r]]

sortObj[value \in JsonValue] ==
    [kind |-> value.kind,
     entries |-> Sorted(value.kind, [i \in DOMAIN value.entries |->
                     Entry(value.entries[i].key, sortObj[value.entries[i].value])])]

NormalForm(n) == IF n \in DOMAIN NFC THEN NFC[n] ELSE n
NormalKey(key) == IF key = <<>> THEN key ELSE <<NormalForm(key[1]), key[2]>>

\* What normalize('NFC') makes of the text of a value: each string and each key gets
\* its normal form, by itself, since nothing combines with the quotes around it.
normalize[value \in JsonValue] ==
    [kind |-> NormalForm(value.kind),
     entries |-> [i \in DOMAIN value.entries |->
                     Entry(NormalKey(value.entries[i].key), normalize[value.entries[i].value])]]

\* An array or object is sorted first, and what is sorted is not yet in normal form.
encodeObjectAsStr(value) ==
    IF value.kind \in Strings THEN Characters[NormalForm(value.kind)]
    ELSE stringify[normalize[sortObj[value]]]

-----------------------------------------------------------------------------
(* References.                                                             *)

\* Ways to match the entries of two values: keys of an object that differ only in
\* case, in both, have to keep their order.
Matchings(a, b) ==
    {match \in Bijection(DOMAIN a.entries, DOMAIN b.entries) :
        a.kind = Object =>
            \A i, j \in DOMAIN a.entries :
                (/\ LowerCase(a.entries[i].key) = LowerCase(a.entries[j].key)
                 /\ LowerCase(b.entries[match[i]].key) = LowerCase(b.entries[match[j]].key))
                    => (i < j <=> match[i] < match[j])}

\* Which values equal a up to the order of arrays and keys?
Equivalent[a \in JsonValue] ==
    [b \in JsonValue |->
        /\ a.kind = b.kind
        /\ \E match \in Matchings(a, b) :
              \A i \in DOMAIN a.entries :
                  /\ a.entries[i].key = b.entries[match[i]].key
                  /\ Equivalent[a.entries[i].value][b.entries[match[i]].value]]

\* And which up to the order and the normal form of strings and keys?
Alike[a \in JsonValue] ==
    [b \in JsonValue |->
        /\ NormalForm(a.kind) = NormalForm(b.kind)
        /\ \E match \in Matchings(a, b) :
              \A i \in DOMAIN a.entries :
                  /\ NormalKey(a.entries[i].key) = NormalKey(b.entries[match[i]].key)
                  /\ Alike[a.entries[i].value][b.entries[match[i]].value]]
=============================================================================
