---------------------------- MODULE MC_Exchange ----------------------------
(* Instances of Exchange for TLC: one content with one attribute, which a  *)
(* presentation shows or leaves out.                                       *)
EXTENDS Exchange, TLC

OneContent == {[name |-> "Alice"]}

\* A document that somebody issued before, without evidence of its own.
OldDocument ==
    LET content == [schemaId |-> Schema, contents |-> [name |-> "Alice"],
                    holder |-> Holder, issuer |-> Verifier]
    IN  fromContent("old", content, [s \in makeStatementsJsonLD(content) |-> "old"], {},
                    "created", "Infinity")

OneAttachment == {{OldDocument}}

\* The message is the holder's and addressed well; another DID sends it on in its
\* own name, or in the holder's.
Addresses ==
    {[sender |-> Holder, senderUri |-> Holder, receiverUri |-> Verifier],
     [sender |-> Verifier, senderUri |-> Verifier, receiverUri |-> Verifier],
     [sender |-> Holder, senderUri |-> Verifier, receiverUri |-> Verifier]}

\* With and without a challenge; nobody is trusted.
AllRequests ==
    {[asks |-> TRUE, trusted |-> Issuer], [asks |-> FALSE, trusted |-> Issuer],
     [asks |-> FALSE, trusted |-> {}]}

\* The issuer signs with its key, or with one that it sets later.
SomeKeys == {KeyOf(Holder, 0)} \cup {KeyOf(i, n) : i \in Issuer, n \in {0, 1}}

CallSymmetry == Permutations(Presentation) \cup Permutations(Session)
==============================================================================
