CONSTANTS
    Service = {s1, s2}
    s1 = s1
    s2 = s2
    Title = {ta, tb}
    ta = ta
    tb = tb
    MaxFaults = 2
    MaxRestarts = 1
    maxNewKeyAgreementKeys = 2
    maxNumberOfServicesPerDid = 1
    PlainCalls <- MCPlainCalls
    MaxNesting = 2
    Batches <- MCBatches
    IdPrefixes <- MCPrefixes
    JsonValues <- MCJsonValues
    Scalars = {1, 2, 3, 4, 5}
    Strings = {1, 3, 4, 5}
    Characters <- MCCharacters
    NFC <- MCNFC
    KeyNames <- MCKeyNames
    MaxLevels = 2
    Amounts <- MCAmounts
    Units = {"pico", "nano", "micro"}
    DidInputs <- MCDidInputs
    SchemaInputs <- MCSchemaInputs
    Contents <- MCContents
    Matching <- MCMatching
    Values <- MCValues
    MaxDepth = 15
SPECIFICATION Spec
SYMMETRY SetupSymmetry
INVARIANTS
    SetupTypeOK
    RefusedForCause
    BatchSignsEveryCall
    IdentifierRoundTrip
    CanonicalUpToOrder
    AmountIsExact
    DocumentSurvivesChain
    DisclosureConforms
PROPERTY ProvisionsInOrder
CHECK_DEADLOCK FALSE
