---------------------------- MODULE KeyGrouping ----------------------------
(***************************************************************************)
(* Which key authorizes an extrinsic, and how authorizeBatch groups a list *)
(* of extrinsics: getKeyRelationshipForTx, groupExtrinsicsByKeyRelation-   *)
(* ship and the lists authorizeBatch signs                                 *)
(* (did/src/DidDetails/FullDidDetails.ts); flattenCalls of                 *)
(* modules/src/utils.ts.                                                   *)
(*                                                                         *)
(* A call has a section and a method, and the calls in it if it is a batch *)
(* of the pallet utility.  A relationship whose computation throws is      *)
(* Throws; a list of operations that cannot be made is Nothing.            *)
(***************************************************************************)
EXTENDS Integers, Sequences, SequencesExt

CONSTANTS
    PlainCalls,         \* the calls that are no batches of calls
    MaxNesting          \* how deep an application nests batches

Undefined == "undefined"
Throws == "throws"
Nothing == <<>>
BatchMethods == {"batch", "batchAll", "forceBatch"}

Call(section, method) == [section |-> section, method |-> method, calls |-> <<>>]
Batch(method, calls) == [section |-> "utility", method |-> method, calls |-> calls]

isBatch(call) == call.section = "utility" /\ call.method \in BatchMethods

\* The calls with at most n batches around each.
Nested[n \in Nat] ==
    IF n = 0 THEN PlainCalls
    ELSE Nested[n - 1]
           \cup [section : {"utility"}, method : BatchMethods, calls : Seq(Nested[n - 1])]

\* authorizeBatch makes batches of what it is passed.
Nestable == Nested[MaxNesting + 1]

SectionMapping ==
    [stream |-> "assertionMethod", schema |-> "assertionMethod",
     did |-> "authentication", didLookup |-> "authentication",
     didNames |-> "authentication"]

\* methodMapping: an entry for a method goes before that of its section.
methodMapping(call) ==
    CASE call.section = "registry" /\ call.method \in {"addAdminDelegate", "addDelegate", "removeDelegate"}
            -> "capabilityDelegation"
      [] call.section = "registry" /\ call.method \in {"create", "archive", "restore"} -> "assertionMethod"
      [] call.section = "did" /\ call.method \in {"create", "submitDidCall"} -> Undefined
      [] OTHER -> IF call.section \in DOMAIN SectionMapping THEN SectionMapping[call.section] ELSE Undefined

\* calls.map(f)
Map(f, calls) == [i \in DOMAIN calls |-> f[calls[i]]]

\* The relationship that all have; reduce throws on an empty list.
Common(relationships) ==
    LET prev[n \in 1 .. Len(relationships)] ==
            IF n = 1 \/ prev[n - 1] = relationships[n] THEN relationships[n] ELSE Undefined
    IN  IF relationships = <<>> \/ Throws \in ToSet(relationships) THEN Throws
        ELSE prev[Len(relationships)]

getKeyRelationshipForMethod[call \in Nestable] ==
    IF isBatch(call)
    THEN Common(Map(getKeyRelationshipForMethod, call.calls))
    ELSE methodMapping(call)

flattenCalls[call \in Nestable] ==
    IF isBatch(call)
    THEN FlattenSeq(Map(flattenCalls, call.calls))
    ELSE <<call>>

\* The batches of nothing in a call.
EmptyBatches[call \in Nestable] ==
    IF isBatch(call) /\ call.calls = <<>> THEN {call}
    ELSE UNION ToSet(Map(EmptyBatches, call.calls))

Group(call, relationship) == [extrinsics |-> <<call>>, keyRelationship |-> relationship]

\* Mutant: a call joins the first group with its key, wherever that is.
AddToGroups_anywhere(groups, call) ==
    LET relationship == getKeyRelationshipForMethod[call]
        same == {i \in DOMAIN groups : groups[i].keyRelationship = relationship}
    IN  IF same = {} THEN Append(groups, Group(call, relationship))
        ELSE [groups EXCEPT ![CHOOSE i \in same : TRUE].extrinsics = Append(@, call)]

\* A call joins the last group if it needs the same key, and starts one if not.
AddToGroups(groups, call) ==
    LET relationship == getKeyRelationshipForMethod[call] IN
    IF Last(groups).keyRelationship = relationship
    THEN [groups EXCEPT ![Len(groups)].extrinsics = Append(@, call)]
    ELSE Append(groups, Group(call, relationship))

\* groupExtrinsicsByKeyRelationship: throws unless every call has a key.
groupExtrinsicsByKeyRelationship(extrinsics) ==
    LET groups[n \in 1 .. Len(extrinsics)] ==
            IF n = 1 THEN <<Group(extrinsics[1], getKeyRelationshipForMethod[extrinsics[1]])>>
            ELSE AddToGroups(groups[n - 1], extrinsics[n])
    IN  IF ToSet(Map(getKeyRelationshipForMethod, extrinsics)) \cap {Undefined, Throws} # {}
        THEN Nothing
        ELSE groups[Len(extrinsics)]

\* authorizeBatch: what it signs and with which keys, one operation for each group.
authorizeBatch(extrinsics, batchFunction) ==
    LET groups == groupExtrinsicsByKeyRelationship(extrinsics)
        Signed(group) ==
            [call |-> IF Len(group.extrinsics) = 1 THEN Head(group.extrinsics)
                      ELSE Batch(batchFunction, group.extrinsics),
             keyRelationship |-> group.keyRelationship]
    IN  IF extrinsics = <<>> THEN Nothing
        ELSE IF Len(extrinsics) = 1
        THEN LET relationship == getKeyRelationshipForMethod[extrinsics[1]] IN
             IF relationship \in {Undefined, Throws} THEN Nothing
             ELSE <<[call |-> extrinsics[1], keyRelationship |-> relationship]>>
        ELSE [i \in DOMAIN groups |-> Signed(groups[i])]
=============================================================================
