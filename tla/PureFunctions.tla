---------------------------- MODULE PureFunctions ----------------------------
(***************************************************************************)
(* Functions without state, and the laws about them that are proved: what  *)
(* one side encodes the other decodes (identifiers, the extrinsic that     *)
(* creates a DID), an amount is converted without loss, authorizeBatch     *)
(* signs every call, equal values have one canonical text, and disclosed   *)
(* contents conform.  An application calls one of them.          *)
(***************************************************************************)
EXTENDS Integers, FiniteSets, Sequences, SequencesExt

CONSTANTS
    IdPrefixes,         \* identifier prefixes
    DidInputs,          \* input of getStoreTx
    maxNewKeyAgreementKeys, maxNumberOfServicesPerDid,
    Amounts,            \* amounts passed to toPicoWay
    Units,              \* their units
    PlainCalls,         \* the calls that are no batches of calls
    MaxNesting,         \* how deep the application nests batches
    Batches,            \* lists of extrinsics passed to authorizeBatch
    JsonValues,         \* values passed to encodeObjectAsStr
    Scalars, KeyNames, MaxLevels,   \* what they are made of, and how deep they nest
    Strings, Characters, NFC,       \* which scalars are strings, their texts and normal forms
    SchemaInputs,       \* schemas
    Contents,           \* contents of documents
    Matching,           \* patterns, formats and what matches them
    Values,             \* JSON values
    MaxDepth            \* how deep calls of validate nest

VARIABLE called     \* what the application called a function with, or nothing yet

Ids == INSTANCE IdentifierFormat
Documents == INSTANCE DidDocument
Money == INSTANCE Balance
Keys == INSTANCE KeyGrouping
Json == INSTANCE CanonicalJson
Schemas == INSTANCE JsonSchema

\* The input is of its type, GetStoreTxInput: one authentication key at most, and
\* lists of the others.
ASSUME DidInputsAssumption ==
    \A input \in DidInputs :
        /\ \A r \in {"authentication", "assertionMethod", "capabilityDelegation", "keyAgreement"} :
              input[r] \in Seq(Nat \ {Documents!Missing})
        /\ Len(input.authentication) <= 1

ASSUME AmountsAssumption ==
    /\ Amounts \subseteq [negative : BOOLEAN, integer : Nat, fraction : Seq(0 .. 9)]
    /\ Units \subseteq DOMAIN Money!Prefixes

ASSUME CallsAssumption ==
    /\ MaxNesting \in Nat
    /\ PlainCalls \subseteq [section : STRING, method : STRING, calls : {<<>>}]
    /\ \A call \in PlainCalls : ~Keys!isBatch(call)

ASSUME BatchesAssumption == Batches \subseteq Seq(Keys!Nested[MaxNesting])

ASSUME JsonAssumption ==
    /\ Scalars \subseteq Nat
    /\ KeyNames \subseteq Nat \X Nat
    /\ MaxLevels \in Nat
    /\ JsonValues \subseteq Json!JsonValue
    /\ Strings \subseteq Scalars /\ Characters \in [Strings -> Seq(Int)]
    /\ DOMAIN NFC \subseteq Nat
    /\ \A n \in Scalars : Json!NormalForm(n) \in Scalars
    /\ \A n \in Strings : Json!NormalForm(n) \in Strings
    /\ \A key \in KeyNames : Json!NormalKey(key) \in KeyNames

\* Contents with some of their attributes.
Restriction(contents, keys) == Schemas!Obj([k \in keys |-> Schemas!Held(contents)[k]])

\* Nothing is left out of Values that a call of validate comes across.
ASSUME ValuesAssumption ==
    /\ MaxDepth \in Nat
    /\ SchemaInputs \cup Contents \cup {Schemas!SchemaModel} \subseteq Values
    /\ \A name \in DOMAIN Schemas!ModelLookup : Schemas!ModelLookup[name] \in Values
    /\ \A value \in Values : Schemas!Parts(value) \subseteq Values
    /\ \A contents \in Contents :
          /\ Schemas!TypeOf(contents) = "object"
          /\ \A keys \in SUBSET DOMAIN Schemas!Held(contents) : Restriction(contents, keys) \in Values

NoCall == [function |-> "none"]

Calls(function) == called.function = function

Call(function, input) == called' = [function |-> function, input |-> input]

PureFunctionsInit == called = NoCall

PureFunctionsNext ==
    \/ called = NoCall /\ \E prefix \in IdPrefixes : Call("encodeIdentifier", prefix)
    \/ called = NoCall /\ \E input \in DidInputs : Call("getStoreTx", input)
    \/ called = NoCall /\ \E amount \in Amounts : Call("toPicoWay", amount)
    \/ called = NoCall /\ \E extrinsics \in Batches : Call("authorizeBatch", extrinsics)
    \/ called = NoCall /\ \E value \in JsonValues : Call("encodeObjectAsStr", value)
    \/ called = NoCall /\ \E schema \in SchemaInputs : Call("verifyContentAganistSchema", schema)

PureFunctionsSpec == PureFunctionsInit /\ [][PureFunctionsNext]_called

-----------------------------------------------------------------------------
(* Identifiers.                                                            *)

\* checkAddressChecksum finds the prefix of every identifier that encodeIdentifier
\* makes, and that its checksum is right; of a damaged one that it is wrong.
IdentifierRoundTrip ==
    Calls("encodeIdentifier") =>
        \A length \in Ids!allowedDecodedLengths :
            LET prefix == called.input
                identifier == Ids!encodeIdentifier(Ids!Key(length), prefix)
            IN  Ids!MayEncode(length, prefix) =>
                    /\ Ids!checkAddressChecksum(identifier) = [isValid |-> TRUE, prefix |-> prefix]
                    /\ ~Ids!checkAddressChecksum(Ids!Damaged(identifier)).isValid

-----------------------------------------------------------------------------
(* DID documents.                                                          *)

\* What getStoreTx accepts is read back from the chain without loss, up to the order
\* of the key agreement keys and their repetition, though keys are stored apart
\* from the relationships that name them.  The exported document lists each key once,
\* though several relationships may name it, and names only keys it lists.
DocumentSurvivesChain ==
    Calls("getStoreTx") =>
        LET creation == Documents!getStoreTx(called.input)
            document == Documents!documentFromChain(Documents!create(creation))
            exported == Documents!exportToJsonDidDocument(document)
            listed == exported.verificationMethod
        IN  creation # Documents!Throws =>
                /\ ToSet(document.keyAgreement) = ToSet(called.input.keyAgreement)
                /\ \A r \in DOMAIN document \ {"keyAgreement"} : document[r] = called.input[r]
                /\ IsInjective(listed)
                /\ ToSet(listed) = ToSet(Documents!getKeys(called.input))
                /\ exported.authentication \cup exported.assertionMethod
                       \cup exported.capabilityDelegation \cup exported.keyAgreement
                   \subseteq ToSet(listed)
-----------------------------------------------------------------------------
(* Amounts.                                                                *)

\* toPicoWay is exact: an amount that has picoWay for all its decimals is converted
\* without loss, and every other is refused.
AmountIsExact ==
    Calls("toPicoWay") =>
        \A unit \in Units :
            LET amount == called.input
                decimals == Len(amount.fraction)
                places == Money!Prefixes[unit] + 12
                number == Money!Digits(<<amount.integer>> \o amount.fraction)
                exact == Money!Negate(amount.negative, number * Money!Ten[places - decimals])
            IN  Money!toPicoWay(amount, unit) =
                    IF decimals > places THEN Money!Throws ELSE [amount |-> exact]

-----------------------------------------------------------------------------
(* Which key authorizes a call.                                            *)

\* The calls in a list of calls, in their order, however deep they are nested.
Leaves(calls) == Keys!FlattenSeq(Keys!Map(Keys!flattenCalls, calls))

\* The keys they need, each by itself.
KeysOf(call) == {Keys!methodMapping(leaf) : leaf \in ToSet(Keys!flattenCalls[call])}

CannotBeSigned(call) ==
    \/ Cardinality(KeysOf(call)) # 1 \/ Keys!Undefined \in KeysOf(call)
    \/ Keys!EmptyBatches[call] # {}

\* The calls in the operations that authorizeBatch signs are the calls it was
\* given, in their order, however deep they were nested in batches.  Each is signed
\* with the key it needs by itself, and no two operations in a row with the same key.
\* authorizeBatch throws only when a call or a batch has no such key.
BatchSignsEveryCall ==
    Calls("authorizeBatch") =>
        \A batchFunction \in Keys!BatchMethods :
            LET signed == Keys!authorizeBatch(called.input, batchFunction) IN
            IF signed = Keys!Nothing
            THEN called.input = <<>> \/ \E call \in ToSet(called.input) : CannotBeSigned(call)
            ELSE /\ Leaves([i \in DOMAIN signed |-> signed[i].call]) = Leaves(called.input)
                 /\ \A operation \in ToSet(signed) :
                        KeysOf(operation.call) = {operation.keyRelationship}
                 /\ \A i \in 1 .. Len(signed) - 1 :
                        signed[i].keyRelationship # signed[i + 1].keyRelationship

-----------------------------------------------------------------------------
(* Canonical JSON.                                                         *)

IsString(value) == value.kind \in Strings

\* Values that are equal up to the order of their arrays and of their keys have the
\* same canonical text; keys that differ only in case are the exception: their order
\* counts.  And values with the same text, neither of them a mere string, are equal up
\* to that order and the normal form of what is written in them.
CanonicalUpToOrder ==
    Calls("encodeObjectAsStr") =>
        \A value \in JsonValues :
            LET sameText == Json!encodeObjectAsStr(called.input) = Json!encodeObjectAsStr(value) IN
            /\ Json!Equivalent[called.input][value] => sameText
            /\ (sameText /\ ~IsString(called.input) /\ ~IsString(value))
                   => Json!Alike[called.input][value]

-----------------------------------------------------------------------------
(* Schemas.                                                                *)

\* Contents that conform to their schema still do after any of their attributes are
\* withheld: the metaschema lets no schema require one.
DisclosureConforms ==
    Calls("verifyContentAganistSchema") =>
        \A contents \in Contents :
            Schemas!verifyContentAganistSchema(contents, called.input) =>
                \A keys \in SUBSET DOMAIN Schemas!Held(contents) :
                    Schemas!validate(Restriction(contents, keys), called.input)
=============================================================================
