SPECIFICATION Spec
CONSTANTS
    Did = {holder, issuer, verifier}
    MaxKeyChanges = 1
    Holder = holder
    Issuer = {issuer}
    Verifier = verifier
    Document = {d1}
    Presentation = {p1, p2}
    Session = {s1}
    Letter = {l1}
    Reader = {s1}
    Body = {p1, p2}
    Addressing <- Addresses
    Requests <- AllRequests
    SigningKey <- SomeKeys
    Contents <- OneContent
    Schema = schema
    Attachments <- OneAttachment
    NoChallenge = NoChallenge
SYMMETRY CallSymmetry
INVARIANTS TypeOK PresentationsVerify DisclosesOnlySelected AcceptedWasValid RefusedForCause AcceptedCameFromHolder UnreadableForCause
PROPERTY VerifiesAsAtOneMoment
CHECK_DEADLOCK FALSE
