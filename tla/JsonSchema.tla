----------------------------- MODULE JsonSchema -----------------------------
(***************************************************************************)
(* Schemas of contents: fromProperties and verifyContentAganistSchema of   *)
(* modules/src/schema/Schema.ts, the metaschema of Schema.types.ts, and    *)
(* validate of utils/src/json-schema/validate.ts as they call it (draft 7, *)
(* no short circuit), with the keywords that the metaschema has or allows. *)
(*                                                                         *)
(* A schema is a JSON value like any other, so it can be validated itself. *)
(* Numbers count in halves; regular expressions and formats are a table;   *)
(* errors are left out: an instance is valid if there are none.  Names all *)
(* objects inherit (constructor, toString) are no property names here.     *)
(***************************************************************************)
EXTENDS Integers, Sequences, FiniteSets

CONSTANTS
    Matching,   \* the pairs of a pattern or format and a string it matches
    Values,     \* the JSON values, with those in them
    MaxDepth    \* how deep calls of validate nest

\* A value is its type and what it holds.
Obj(entries) == <<"object", entries>>
Arr(values) == <<"array", values>>
Str(string) == <<"string", string>>
Num(halves) == <<"number", halves>>
Bool(boolean) == <<"boolean", boolean>>

TypeOf(value) == value[1]
Held(value) == value[2]

Has(schema, keyword) == keyword \in DOMAIN Held(schema)
Of(schema, keyword) == Held(Held(schema)[keyword])

\* The values in a value.
Parts(value) ==
    CASE TypeOf(value) = "object" -> {Held(value)[k] : k \in DOMAIN Held(value)}
      [] TypeOf(value) = "array"  -> {Held(value)[i] : i \in DOMAIN Held(value)}
      [] OTHER -> {}

-----------------------------------------------------------------------------
(* The metaschema.                                                         *)

\* Entries whose keys are no identifiers.
Entry(key, value) == [k \in {key} |-> value]
With(entries, key, value) ==
    [k \in DOMAIN entries \cup {key} |-> IF k = key THEN value ELSE entries[k]]

Required(keywords) == Arr([i \in DOMAIN keywords |-> Str(keywords[i])])
TypeIs(type) == Obj([type |-> Str(type)])
Const(value) == Obj([const |-> value])
Enum(values) == Obj([enum |-> Arr(values)])
Ref(name) == Obj(Entry("$ref", Str(name)))
OneOf(names) == Arr([i \in DOMAIN names |-> Ref(names[i])])

\* An object with these properties, some of them required, and no others.
Closed(properties, required) ==
    Obj([additionalProperties |-> Bool(FALSE), properties |-> Obj(properties),
         required |-> Required(required)])

SchemaUri == Obj([type |-> Str("string"), pattern |-> Str("schemaUri")])
SchemaReference ==
    Obj([type |-> Str("string"), pattern |-> Str("schemaReference"), format |-> Str("uri")])

Definitions ==
    [schemaReference |-> Closed(Entry("$ref", SchemaReference), <<"$ref">>),
     string |-> Closed([type |-> Const(Str("string")),
                        format |-> Enum(<<Str("date"), Str("time"), Str("uri")>>),
                        enum |-> Obj([type |-> Str("array"), items |-> TypeIs("string")]),
                        minLength |-> TypeIs("number"), maxLength |-> TypeIs("number")],
                       <<"type">>),
     boolean |-> Closed([type |-> Const(Str("boolean"))], <<"type">>),
     number |-> Closed([type |-> Enum(<<Str("integer"), Str("number")>>),
                        enum |-> Obj([type |-> Str("array"), items |-> TypeIs("number")]),
                        minimum |-> TypeIs("number"), maximum |-> TypeIs("number")],
                       <<"type">>),
     array |-> Closed([type |-> Const(Str("array")),
                       items |-> Obj([oneOf |-> OneOf(<<"string", "number", "boolean", "schemaReference">>)]),
                       minItems |-> TypeIs("number"), maxItems |-> TypeIs("number")],
                      <<"type", "items">>)]

\* The schema of a property.
PropertyModel ==
    Obj([type |-> Str("object"),
         oneOf |-> OneOf(<<"string", "number", "boolean", "schemaReference", "array">>)])

ModelProperties ==
    With(With([title |-> TypeIs("string"),
               type |-> Obj([const |-> Str("object"), type |-> Str("string")]),
               properties |-> Obj([type |-> Str("object"),
                                   patternProperties |-> Obj([nonempty |-> PropertyModel])]),
               additionalProperties |-> Obj([const |-> Bool(FALSE), type |-> Str("boolean")])],
              "$schema", TypeIs("string")),
         "$id", SchemaUri)

ModelRequired == <<"$id", "$schema", "additionalProperties", "properties", "title", "type">>

\* Mutant: a schema may have other keywords.
SchemaModelV1_open ==
    Obj([type |-> Str("object"), properties |-> Obj(ModelProperties),
         required |-> Required(ModelRequired)])

SchemaModelV1 ==
    Obj([type |-> Str("object"), properties |-> Obj(ModelProperties),
         required |-> Required(ModelRequired), additionalProperties |-> Bool(FALSE)])

\* The URI of the metaschema.
ModelUri == "metaschema"

SchemaModel ==
    Obj([allOf |-> Arr(<<Obj([properties |-> Obj(Entry("$schema",
                             Obj([type |-> Str("string"), const |-> Str(ModelUri)])))]),
                         Ref(ModelUri)>>)])

\* What dereference registers of the metaschema: itself under its URI, its definitions.
ModelLookup == With(Definitions, ModelUri, SchemaModelV1)

\* And of any other schema: itself under its $id, its properties under pointers into it.
Pointer(schema, k) == Of(schema, "$id") \o "#/properties/" \o k

OwnLookup(schema) ==
    LET properties == Of(schema, "properties")
        pointers == {Pointer(schema, k) : k \in DOMAIN properties}
    IN  With([p \in pointers |-> properties[CHOOSE k \in DOMAIN properties : p = Pointer(schema, k)]],
             Of(schema, "$id"), schema)

Lookup(root) == IF root = SchemaModel THEN ModelLookup ELSE OwnLookup(root)

-----------------------------------------------------------------------------
(* The validator.                                                          *)

TypeMatches(instance, type) ==
    \/ type = TypeOf(instance)
    \/ type = "integer" /\ TypeOf(instance) = "number" /\ Held(instance) % 2 = 0

\* What the validator does with a schema, given what it says of the schemas in it.
\* Every keyword for values of any type.
General(valid, instance, schema) ==
    /\ Has(schema, "type") => TypeMatches(instance, Of(schema, "type"))
    /\ Has(schema, "const") => instance = Held(schema)["const"]
    /\ Has(schema, "enum") => \E i \in DOMAIN Of(schema, "enum") : instance = Of(schema, "enum")[i]
    /\ Has(schema, "allOf") =>
          \A i \in DOMAIN Of(schema, "allOf") : valid[<<instance, Of(schema, "allOf")[i]>>]
    /\ Has(schema, "oneOf") =>
          Cardinality({i \in DOMAIN Of(schema, "oneOf") : valid[<<instance, Of(schema, "oneOf")[i]>>]}) = 1

\* Is property k one that `properties` or `patternProperties` found valid?
Evaluated(valid, instance, schema, k) ==
    \/ Has(schema, "properties") /\ k \in DOMAIN Of(schema, "properties")
       /\ valid[<<Held(instance)[k], Of(schema, "properties")[k]>>]
    \/ Has(schema, "patternProperties") /\ \E p \in DOMAIN Of(schema, "patternProperties") :
          <<p, k>> \in Matching /\ valid[<<Held(instance)[k], Of(schema, "patternProperties")[p]>>]

Properties(valid, instance, schema) ==
    /\ Has(schema, "required") =>
          \A i \in DOMAIN Of(schema, "required") :
              Held(Of(schema, "required")[i]) \in DOMAIN Held(instance)
    /\ \A k \in DOMAIN Held(instance) :
          /\ Has(schema, "properties") /\ k \in DOMAIN Of(schema, "properties") =>
                valid[<<Held(instance)[k], Of(schema, "properties")[k]>>]
          /\ Has(schema, "patternProperties") =>
                \A p \in DOMAIN Of(schema, "patternProperties") :
                    <<p, k>> \in Matching => valid[<<Held(instance)[k], Of(schema, "patternProperties")[p]>>]
          /\ Has(schema, "additionalProperties") /\ ~Evaluated(valid, instance, schema, k) =>
                valid[<<Held(instance)[k], Held(schema)["additionalProperties"]>>]

Items(valid, instance, schema) ==
    /\ Has(schema, "maxItems") => Len(Held(instance)) * 2 <= Of(schema, "maxItems")
    /\ Has(schema, "minItems") => Len(Held(instance)) * 2 >= Of(schema, "minItems")
    /\ Has(schema, "items") =>
          \A i \in DOMAIN Held(instance) : valid[<<Held(instance)[i], Held(schema)["items"]>>]

Number(instance, schema) ==
    /\ Has(schema, "minimum") => Held(instance) >= Of(schema, "minimum")
    /\ Has(schema, "maximum") => Held(instance) <= Of(schema, "maximum")

String(instance, schema) ==
    /\ Has(schema, "minLength") => Len(Held(instance)) * 2 >= Of(schema, "minLength")
    /\ Has(schema, "maxLength") => Len(Held(instance)) * 2 <= Of(schema, "maxLength")
    /\ Has(schema, "pattern") => <<Of(schema, "pattern"), Held(instance)>> \in Matching
    /\ Has(schema, "format") => <<Of(schema, "format"), Held(instance)>> \in Matching

\* In draft 7 a $ref leaves the keywords beside it out; one that resolves to nothing in
\* the schema at the root throws.
Validates(valid, instance, schema, root) ==
    CASE TypeOf(schema) = "boolean" -> Held(schema)
      [] TypeOf(schema) = "object" /\ Has(schema, "$ref") ->
            Of(schema, "$ref") \in DOMAIN Lookup(root) /\ valid[<<instance, Lookup(root)[Of(schema, "$ref")]>>]
      [] OTHER ->
            /\ General(valid, instance, schema)
            /\ CASE TypeOf(instance) = "object" -> Properties(valid, instance, schema)
                 [] TypeOf(instance) = "array"  -> Items(valid, instance, schema)
                 [] TypeOf(instance) = "number" -> Number(instance, schema)
                 [] TypeOf(instance) = "string" -> String(instance, schema)
                 [] OTHER -> TRUE

\* validate for a schema at the root, as far as its calls nest no deeper than depth.
validateTo[depth \in Nat] ==
    [root \in Values |->
        [call \in Values \X Values |->
            depth # 0 /\ Validates(validateTo[depth - 1][root], call[1], call[2], root)]]

validate(instance, schema) == validateTo[MaxDepth][schema][<<instance, schema>>]

-----------------------------------------------------------------------------
(* Schema.ts.                                                              *)

\* fromProperties, before its result is verified.
fromProperties(properties) ==
    Obj(With(With([title |-> Str("Title"), type |-> Str("object"), properties |-> Obj(properties),
                   additionalProperties |-> Bool(FALSE)],
                  "$schema", Str(ModelUri)),
             "$id", Str("schema:cord:m1")))

verifyDataStructure(schema) == validate(schema, SchemaModel)

\* verifyContentAganistSchema: the schema is verified, then the contents.
verifyContentAganistSchema(contents, schema) ==
    verifyDataStructure(schema) /\ validate(contents, schema)
=============================================================================
