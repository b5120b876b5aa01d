--------------------------- MODULE MC_Components ---------------------------
EXTENDS Components

\* Calls and JSON values are made before it is said which of them there are.
Plain == INSTANCE KeyGrouping WITH PlainCalls <- {}, MaxNesting <- 0
Made == INSTANCE JsonSchema WITH Matching <- {}, Values <- {}, MaxDepth <- 0
Text == INSTANCE CanonicalJson WITH Scalars <- {}, Strings <- {}, Characters <- <<>>,
                                    NFC <- <<>>, KeyNames <- {}, MaxLevels <- 0

Some(section, method) == Plain!Call(section, method)
MCPlainCalls == {Some("stream", "create"), Some("registry", "addDelegate"),
          Some("registry", "create"), Some("did", "addKeyAgreementKey"), Some("did", "create")}
Pairs == {Plain!Batch("batch", <<a, b>>) : a, b \in MCPlainCalls}
SomeNested == {Plain!Batch("batch", <<>>),
           Plain!Batch("forceBatch", <<Plain!Batch("batch", <<>>), Some("stream", "create")>>),
           Plain!Batch("batchAll", <<Plain!Batch("batch", <<Some("stream", "create")>>), Some("registry", "create")>>),
           Plain!Batch("batchAll", <<Some("registry", "addDelegate"),
                                    Plain!Batch("batch", <<Some("registry", "addDelegate"), Some("stream", "create")>>)>>)}
MCBatches == SeqOf(MCPlainCalls \cup SomeNested, 3) \cup SeqOf(Pairs, 1) \cup SeqOf({<<>>}, 0)

MCPrefixes == 0 .. 1100 \cup Ids!Idents \cup 16128 .. 16383

\* Services and titles are interchangeable.
SetupSymmetry == Permutations(Service) \cup Permutations(Title)

\* 3 is another form of the string 1 and of the letter 1.  Without quotes, the string 4
\* has the text of the number 2, and the string 5 that of an object.
MCNFC == [n \in {3} |-> 1]
MCCharacters == (1 :> <<1>>) @@ (3 :> <<3>>) @@ (4 :> <<2, Text!End>>) @@ (5 :> <<Text!Object, Text!End>>)
MCKeyNames == {<<1, 0>>, <<1, 1>>, <<3, 0>>}
Level1 == LET scalars == {Text!Scalar(1), Text!Scalar(3)}
              entries == {Text!Entry(k, v) : k \in MCKeyNames, v \in scalars}
          IN  {Text!Scalar(n) : n \in Scalars} \cup {Text!ArrayOf(s) : s \in SeqOf(scalars, 2)}
              \cup {Text!ObjectOf(s) : s \in {t \in SeqOf(entries, 2) : Len(t) = 2 => t[1].key # t[2].key}}
Twos == {v \in Level1 : Len(v.entries) = 2}
First == Text!Entry(<<1, 0>>, Text!Scalar(1))
Second == Text!Entry(<<1, 1>>, Text!Scalar(1))
MCJsonValues ==
    Level1 \cup {Text!ArrayOf(<<v, w>>) : v, w \in {x \in Twos : x.kind = Text!Array \/ x.entries[1] = First}}
           \cup UNION {{Text!ObjectOf(<<Text!Entry(<<1, 0>>, v), Second>>), Text!ObjectOf(<<Second, Text!Entry(<<1, 0>>, v)>>)} : v \in Twos}

MCAmounts == [negative : BOOLEAN, integer : {0, 1, 12}, fraction : SeqOf({0, 5}, 4)]

Lists(set) == {<<>>} \cup {<<k>> : k \in set}
MCDidInputs ==
    [authentication : {<<>>, <<1>>}, assertionMethod : Lists({1, 2}) \cup {<<1, 2>>},
     capabilityDelegation : Lists({1, 2, 5}) \cup {<<5, 2>>},
     keyAgreement : SeqOf({3, 4}, 3), service : {<<>>, <<"s">>, <<"s", "t">>}]

PropertySchemas ==
    {Made!TypeIs("string"), Made!TypeIs("object"),
     Made!Obj([type |-> Made!Str("string"), minLength |-> Made!Num(4)]),
     Made!Obj([type |-> Made!Str("number"), maximum |-> Made!Num(3)]),
     Made!Obj([type |-> Made!Str("array"), items |-> Made!TypeIs("number"),
                  minItems |-> Made!Num(2)]),
     Made!Obj([type |-> Made!Str("string"),
                  enum |-> Made!Arr(<<Made!Str("a"), Made!Str("abc")>>)]),
     Made!Obj([type |-> Made!Str("string"), format |-> Made!Str("date")])}
References == {"schema:cord:m1", "schema:cord:m1#/properties/age", "schema:cord:m2"}
Names == {"name", "age"}
Attributes(set) == UNION {[names -> set] : names \in SUBSET Names}
MCSchemaInputs ==
    LET made == {Made!fromProperties(p) : p \in Attributes(PropertySchemas)
                                                \cup [{"name"} -> {Made!Ref(uri) : uri \in References}]
                                                \cup {[name |-> Made!Ref(uri), age |-> Made!TypeIs("number")] : uri \in References}}
    IN
    made \cup {[s EXCEPT ![2] = Made!With(@, "required", Made!Required(<<"name">>))] : s \in made}
MCContents ==
    {Made!Obj(c) : c \in Attributes({Made!Str("a"), Made!Str("2024-01-01"), Made!Num(2), Made!Num(3),
                                          Made!Arr(<<Made!Num(2)>>)})
                     \cup [{"name"} -> {Made!Obj([age |-> Made!Num(2)]), Made!Obj([name |-> Made!Num(2)])}]}
MCMatching == {<<"schemaUri", "schema:cord:m1">>, <<"schemaUri", "schema:cord:m2">>, <<"date", "2024-01-01">>}
                  \cup ({"schemaReference", "uri"} \X References)
                  \cup ({"nonempty"} \X Names)

RECURSIVE WithParts(_)
WithParts(value) == {value} \cup UNION {WithParts(part) : part \in Made!Parts(value)}
MCValues ==
    UNION {WithParts(value) : value \in MCSchemaInputs \cup MCContents \cup {Made!SchemaModel}
                                            \cup {Made!ModelLookup[name] : name \in DOMAIN Made!ModelLookup}}

\* No call of validate nests as deep as MaxDepth: fewer would do.
ASSUME DepthSuffices ==
    \A schema \in SchemaInputs :
        Schemas!verifyDataStructure(schema)
            = Schemas!validateTo[MaxDepth - 1][Schemas!SchemaModel][<<schema, Schemas!SchemaModel>>]
=============================================================================
