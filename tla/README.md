# cord.js in TLA+

cord.js is the TypeScript SDK of the CORD chain. Most of it is a client of two
things it does not control: a Substrate node behind a web socket, and keys that
their owners may rotate or remove at any time. The hard part of the code is
therefore not a data structure but what happens *between* its awaits, and that is
what these modules model: submission of extrinsics and their status streams, the
nonces of DID-authorized operations, the resolution of DIDs while they change, and
the exchange of credentials while keys rotate and streams are revoked. The pure
functions these rest on are modelled beside them and checked against laws.

Everything is run from this directory:

    tlc -workers 2 -config SubmitTx_finalized.cfg MC_SubmitTx.tla
    tlapm SubmitTx_proofs.tla

Paths below are relative to `src/packages/` unless they start with `src/`.

## 1. The system

| component | state it keeps | operations | used by |
|---|---|---|---|
| transaction submission: `network/src/chain/Chain.ts`, `SubscriptionPromise.ts`, `errorhandling/ErrorHandler.ts` | per call: the subscription promise, its timer, `latestResult`, the `disconnected` listener | `signAndSubmitTx`, `submitSignedTx`, the evaluators `IS_READY` … `IS_ERROR` | everything that writes to the chain; `failproofSubmit` of the demo |
| retrying submission: `src/demo/src/utils/createAuthorities.ts` | none besides the two attempts | `failproofSubmit`, `getChainCredits`, `addAuthority` | the demo |
| DID authorization: `did/src/DidDetails/FullDidDetails.ts`, `did/src/Did.chain.ts` | nonce and block number between reading and signing | `getNextNonce`, `authorizeTx`, `authorizeBatch`, `generateDidAuthenticatedTx` | schemas, registries, streams |
| DID resolution: `did/src/DidResolver/DidResolver.ts` | the first read's result during the second | `resolve`, `resolveCompliant`, `resolveKey`, `resolveService` | messaging, document verification, the exporter's users |
| configuration and connection: `config/src/ConfigService.ts`, `modules/src/cordconfig/CordConfig.ts` | the options, among them the cached `api`; the loggers' levels | `init`, `connect`, `disconnect`, `get`, `set`, `unset` | every component that reaches the chain |
| DID encoding: `did/src/Did.chain.ts`, `Did.utils.ts`, `Did.rpc.ts`, `DidDetails.ts` | none | conversions, `getStoreTx` | DID authorization and resolution |
| DID signatures: `did/src/Did.signature.ts` | none | `verifyDidSignature` over a resolved key | documents |
| messaging: `messaging/src/Message.ts` | none; keys and messages are arguments | `encrypt`, `decrypt`, `verify`, `ensureOwnerIsSender` | `src/demo/src/utils/encrypt_message.ts` |
| documents, contents, streams: `modules/src/document`, `content`, `stream` | a document's hashes, nonce map, legitimations, signature; a stream's revocation flag on chain | `fromContent`, `sign`, `createPresentation`, `verify*`, `revoke` | applications |
| schemas and registries: `modules/src/schema`, `registry` | on chain | hashing, validation, store, fetch | documents, the demo's `ensureStored*` |
| schema validator: `utils/src/json-schema` | none | `validate`, `dereference` | schemas |
| setup of the demo: `src/demo/src/utils/generateSchema.ts`, `generateRegistry.ts` | what is on chain between the check and the creation | `ensureStoredSchema`, `ensureStoredRegistry`, `addRegistryAdminDelegate` | `src/demo/src/demo.ts` |
| identifiers, canonical JSON, balances, batch utilities: `utils/src/Identifier.ts`, `jsonabc.ts`, `modules/src/balance`, `modules/src/utils.ts` | none | pure functions | all of the above |

Left out because they are generated or without behaviour of their own:
`augment-api` (generated from the chain's metadata, read here as the description of
the external pallets), `types`, `type-definitions`, `sdk` (re-exports) and the
exporter's JSON-LD formatting.

How they interact. `connect` puts one `ApiPromise` in the `ConfigService`; every
other component takes it from there at the start of an operation and keeps the
reference across its awaits, so a `disconnect` in between does not stop an
operation under way. `authorizeTx` and `authorizeBatch` read the DID's counter and
the block number from the chain and return an extrinsic; `submitSignedTx` sends it
and turns the node's status stream into one promise. Applications then read the
result back through the resolver and the `fetch` functions. Nothing is
transactional over two of these calls, and nothing in the SDK serialises them.

What is hard, and therefore modelled first:

* **status streams**: updates, a timer and the listener of the `disconnected` event
  all settle one promise; the stream can die silently with the socket; blocks are
  retracted; the listener is registered only after `tx.send` has answered;
* **ambiguous failures**: a rejected call says nothing about the extrinsic, which
  may still become final; callers retry;
* **nonces**: account nonce and DID nonce are read at one moment and used at
  another, by any number of concurrent callers, and the nonces of a batch are
  computed by the client but checked by the chain one group at a time;
* **two-step reads**: `resolve` asks for the document, then for the blacklist, and
  swallows a failure of the first query but not of the second;
* **papers that outlive their keys**: a document, a presentation or a message is made
  with the keys of one moment and checked with those of another, and a verification is
  itself three reads of a chain that moves on;
* **check, then create**: the setup of an issuer asks whether its items are on chain and
  creates those that are not, taking a failed query for "not there"; and it goes on as soon as
  an item is in a block, which may still be retracted.

What makes each component correct:

* submission: a call returns only for what its criterion says, never for a failed
  extrinsic; once it waits it hears a lost connection; it ends when the code promises
  so; it leaves no listener and no open status stream behind (its `setTimeout` stays armed);
* authorization: groups take effect in order; a success means that everything was
  executed; the nonces derived from one read are refused only after a race;
* resolution: an answer was true at one moment of the call; a deletion is final;
* configuration: at most one open connection, closed when it is replaced; the
  cached api is never a closed one;
* messaging and documents: what verifies was signed, unmodified, with a key that
  was the owner's; a presentation reveals no more than was selected;
* pure functions: an encoding is inverted by its decoding; a canonical form does
  not depend on insertion order.

## 2. The modules

| module | models | kind |
|---|---|---|
| `TxPromise` | what `submitSignedTx` promises: ledger and outcome per call | abstract specification |
| `SubmitTx` | `signAndSubmitTx` / `submitSignedTx`, the promise, the socket, the node | detailed specification, implements `TxPromise` |
| `FailproofSubmit` | `failproofSubmit` over `SubmitTx` | composition |
| `DidAuthorize` | `authorizeTx` / `authorizeBatch`, submission, the DID pallet | component and its environment |
| `DidResolver` | the four entry points of the resolver, a DID that changes | component and its environment |
| `ConnectionSlot` | one slot for a connection, with an atomic put and an atomic take | abstract specification |
| `CordConfig` | `ConfigService`, `connect`, `disconnect` | component and its environment, implements `ConnectionSlot` |
| `DidKeys` | the keys of DIDs as the chain lists them now, and `resolveKey` | environment of the two below |
| `Content` | hashes, nonces and selective disclosure of a document | pure |
| `Credential` | issue, anchor, present, verify, revoke | component |
| `Messaging` | `encrypt`, `decrypt` and the demo's callers | component |
| `AtomicVerification` | a verifier that checks a presentation at one moment | abstract specification |
| `Exchange` | a presentation sent in an encrypted message and verified | composition of `Credential` and `Messaging`, implements `AtomicVerification` |
| `Provisioning` | an issuer whose items come on chain in order, each once, before anybody is told of them; a retraction may take them away | abstract specification |
| `EnsureStored` | the setup of an issuer by several services | component and its environment, implements `Provisioning` |
| `KeyGrouping` | the key of a call, batches of calls, the groups of `authorizeBatch` | pure |
| `IdentifierFormat`, `CanonicalJson`, `Balance`, `DidDocument`, `JsonSchema` | the functions of those names | pure |
| `PureFunctions` | an application that calls one of the pure functions, and the laws about them | composition |
| `Components` | `EnsureStored` beside `PureFunctions` | composition |
| `*_proofs` | theorems about the module of that name (of `Credential` and `Content`: lemmas for `Exchange`) | proofs |
| `MC_*` | symmetry sets and constant definitions for TLC | instances |

A definition whose name has a suffix after an underscore and whose comment begins
with *Mutant* (`Subscription_resolveFirst`) is a plausible bug in the definition
of the name before the underscore. It is used by nothing; putting it in place of
that definition breaks the property it is paired with in `PROJECT.json`, which
shows that the property says something about the code.

### SubmitTx

A call runs in steps cut at its awaits. `pc[c]` is where it is:

| `pc` | in the code | left by |
|---|---|---|
| `idle` | before `await tx.signAsync` | `Sign`, `SignThrows` |
| `signed` | before `submitSignedTx` | `Submit`, `SubmitThrows` (no api, or a provider without subscriptions) |
| `sending` | `await tx.send(...)` pending: promise and timer exist, nobody awaits the promise, no listener is registered | `SendResolves`, `SendThrows` |
| `watching` | `await promise` pending, `api.once('disconnected', handleDisconnect)` registered | `Finish` |
| `returned`, `threw` | the call ended and its `finally` block ran | |

`promise[c]` is the subscription promise with its settled value, `timer[c]` the
`setTimeout` that nothing cancels, `latest[c]` is `latestResult`, `listening[c]` whether
`handleDisconnect` is registered. `Deliver` is the status callback, `Subscription`
its `reject`-before-`resolve` order on a promise that settles once. A result keeps
the status, which of `ExtrinsicSuccess` and `ExtrinsicFailed` is among its events, and
`internalError`; `dropped`, `invalid`, `usurped` and `finalityTimeout` are one status,
`error`, because `isError` treats them alike.

The node is external and modelled from what `Chain.ts` sees of it: pool, blocks,
retraction, finality, refusals, a status stream in order, and extrinsics dropped from the
pool that other nodes send again (`Readmit`), after their stream has ended with an error. `Disconnect` loses the
streams, the requests in flight and any subset of the answers in flight, whether
or not the node has acted on them, and runs the listeners in the same step, as an
event emitter does. After a reconnect nothing is resubscribed. Accounts: all calls use one
account, whose next index is read in `Sign` and checked in `NodeAccept`.

`FailproofSubmit` restricts the same actions: the second attempt of a job may start
only after the first has thrown.

`TxPromise` is what a caller may rely on under the default criterion: resolve only
after the extrinsic became final and succeeded, otherwise reject at any time, and a
rejection says nothing about the ledger. The refinement maps `chain` to the ledger
and `pc` to the outcome.

### DidAuthorize

A task is one call of `authorizeTx` or `authorizeBatch`, with what it asks for in
`request[t]`: the number of key-relationship groups its extrinsics fall into (none: it
throws), an optional nonce, the batch function. `ReadNonce` is
`nonce || await getNextNonce(did)`; `SignGroup` is `generateDidAuthenticatedTx` for one
group, which reads the block number itself, so the groups of one batch may carry
different ones; a nonce beyond u64 cannot be encoded and the whole call throws.
`Submit` may happen more than once: that is a caller who retries after an ambiguous
failure and sends the same signed operations.

External: the pallets `did` and `utility`, from their descriptions in
`augment-api/src/interfaces/augment-api-tx.ts` and `augment-api-errors.ts`. `Accepts` asks for a present DID,
the next nonce and a recent block. The next nonce is the one
`getNextNonce` documents ("the nonce currently stored on the blockchain + 1, wrapping
around"), so the wrap itself is taken to agree between SDK and chain; what the model
examines is whether the nonces that a batch *derives* from the first one agree with it.
An extrinsic executes in one step per group between `Begin` and `Complete`, and no SDK
action reads the chain while one is running: execution stays atomic to the outside
while the state in the middle is visible to the properties. `FailInBatch` and
`FailExtrinsic` are enabled at every group, because a dispatched call can always fail for reasons
of its own. A group of several extrinsics of one key is a single authorized call,
`batchFunction(list)`; its inside is not modelled.

`overtaken` is history: the tasks that have read a nonce and whose DID has had another one since, because an
extrinsic of somebody else, or a copy of their own, took effect. That no nonce is dispatched twice, and that a failed
extrinsic leaves nothing, follows from the pallet and the runtime alone, whatever the SDK signs; it is therefore
not among the properties.

u64 is `0 .. MaxNonce`. The code's arithmetic is on unbounded integers (BN), as in the
model; the width matters where an operation is encoded and where `increaseNonce`
compares.

### DidResolver

A caller wants one of the four entry points, a valid or malformed id, a resource,
and perhaps an expected verification relationship. `Start` does what happens before the first await, in the
order of the code (`resolveCompliant`, `resolveKey` and `resolveService` check the id first, `resolve`
only when it builds the query, after it has asked for the api and checked the version; a runtime without `did.query` is
noticed last, when it is called). `ReadDocument`,
`ReadDocumentFails`, `ReadBlacklist`, `ReadBlacklistFails` are the two awaits and their
failures. `FromDocument` and `WithoutDocument` are what each entry point makes of the
result; the `notFound` branches that test for `null` are not there, because `resolve`
never returns it. A document is the set of resources it has and the set of those
listed under the expected relationship. The DID may be created, changed and deleted
at any moment; a deleted one is never created again (blacklist).

`during`, `after` and `failed` are history: the states the DID had during each call, the calls
that had been answered before it started, and those whose first query failed.

### CordConfig

`api`, `logLevel` and `loggers` are the configuration and the level of the existing loggers.
`set` is `ConfigService.set` as a whole: it merges and then applies the level of the *result*, so that a `connect`,
which sets only the api, applies the level too. Each call of `connect` opens a connection of its own; its
steps end at `await ApiPromise.create`, which may reject (`CreateThrows`), and `await cryptoWaitReady`. `Disconnect` takes the api
out of the configuration and starts to close it in one step, because there is no await in between; a rejected `api.disconnect`
(`DisconnectThrows`) leaves the cache empty all the same. The application
may set and unset the level, and close the api it finds in the configuration directly, as `src/demo/src/bench.ts` does.
`closers`, `replaced` and `deviates` are history. Seen as a `ConnectionSlot`, the put is the moment at which `connect` sets the api,
the take the one at which `disconnect` unsets it, and all other steps are stutter.

### Credential, Messaging and Exchange

The owner of a DID has numbered key pairs; `DidKeys` keeps which one authenticates it, which are
its key agreement keys, and which DIDs are deleted. A rotation may bring a new key or one that the DID had before: nothing in the
code keeps an owner from that. `resolveKey` is the answer that
the resolver's `resolveKey` gives at the moment it is asked (`DidResolver` models how).

`Content` builds a document as the code does: one statement per attribute, and the two that name holder and
issuer; a nonce and a salted hash for each; the document hash over the hashes and the evidence.
`removeContentProperties` takes contents away and filters the nonces, and leaves hashes and document hash alone. A hash is the value it
hashes, so two hashes are equal only if what they hash is. Evidence goes one level deep: the documents in `Attachments` were issued
before and verify (`AttachmentsAssumption`), since `fromContent` takes them as they are.

`Credential` cuts `verifyPresentation` of the demo at its awaits:

| `session[s].pc` | in the code | left by |
|---|---|---|
| `open` | before the call | `Verify` (data, challenge) |
| `holderKey` | `await` of the holder's key | `CheckHolder`, `QueryFails` |
| `issuerKey` | `await` of the issuer's key | `CheckIssuer`, `QueryFails` |
| `stream` | `await` of the stream | `CheckStream`, `QueryFails` |
| `accepted`, `refused` | `true`, `false` | |

Signing callbacks belong to the application and may use any key pair of the owner, also one that is no longer, or not yet,
the DID's. A presentation may be made from a presentation. `wasValid`, `restored`, `cause` and `shown` are history. Streams are created
once per document, and may be restored after a revocation, also in the middle of a verification. `restored` says that during a session
something came back that a paper had lacked: a stream, or the key of a signature.

`Messaging` cuts the demo's `encryptMessage` at its two resolutions and `decrypt` at its one. The caller supplies the sender's
key *pair*; the code names in the message the *first* key of the sender's document on chain. The two differ
after a rotation, and then nobody can open the message. A message in `network` may be read late, twice or never.

`Exchange` lets sessions read messages, whose bodies are presentations. The message may also come from another DID that has
the presentation, in its own name or in the holder's. Only messages of the type `submit-credential-document` are composed; the demo's
`decrypt_message.ts` reads another type only (`request-credential-document`), so the reader here is an application that calls `decrypt`
and `verify` itself.

`AtomicVerification` knows claims that hold or do not, and sessions that begin with a claim they were shown, find it to hold at one
moment, and accept or refuse it. The three awaits of a session map to `Begin`, at most one `Find` and a verdict; `wasValid` marks the `Find`. The
refinement allows no acceptance without it, unless a stream was restored or a key set again during the verification (`doubt`).

What the source does not do, the model does not do either: `validUntil` is never compared with the time, and the digest in the
stream is not compared with the presented document.

### EnsureStored

Every service runs `ensureStoredSchema`, `ensureStoredRegistry`, `addRegistryAdminDelegate` in that order for one DID.
Each is `Check` (or `CheckFails`: the catch block creates the item all the same), `Authorize` (the DID's next nonce), `Submit`, and
`Resolves` once the extrinsic is in a block (`src/demo/src/demo.ts:31`). A call may give up while its extrinsic is on its way; the service
is then started again, and the old extrinsic may still be executed. A block may be retracted (`Retract`, the last one first): its
extrinsic is on its way again, although the call may have returned. `executed` is what is in the blocks of the best chain, from which
`stored` and `counter` follow; `lost`, `blind`, `overtaken` and `refused` are history. The chain takes the next
nonce only and an item only once; it is *not* assumed to check that the schema of a registry exists, so that
`ProvisionsInOrder` speaks of the code. The title of a registry has a random part in the code
(`src/demo/src/utils/generateRegistry.ts:21`), here an element of `Title`: a restarted service may or may not draw the same one.

`Provisioning` knows only what is stored, what was stored and is lost, and what each service has been told: `Create` in order and once,
`Lose` at a retraction, `Tell` in order, `Forget` at a restart. What an item needs may be missing only because it was lost.

### The pure modules

They take their input as it is after parsing: bytes instead of base58, JSON values instead of text, decimal digits
instead of strings. What is cut away is named in each header. Functions that call themselves are recursive functions over a
set of values, not recursive operators, so that they can be reasoned about:

* `KeyGrouping`: `Nested[n]` are the calls with at most `n` batches around each, made of `PlainCalls`. What the application passes
  nests up to `MaxNesting` deep; `authorizeBatch` puts one more batch around it.
* `CanonicalJson`: a value is its kind and its entries, `Level[n]` the values at most `n` arrays and objects deep. A text is a sequence of numbers
  that opens with the kind of the value and closes with `End`, which stand for the brackets; the code compares texts with `<`, the model
  with `Before`. `Array.sort` is stable, which decides about keys that differ only in case. That an object has a key once is not used.
  `encodeObjectAsStr` quotes no string that is the whole value, so its text (`Characters`) may be that of a number or of an object, and it takes the
  normal form NFC of what is already sorted (`normalize`), which is not the order that the normal forms would have.
* `JsonSchema`: a schema is a value like any other, because the metaschema validates schemas with the same `validate`. The keywords are those
  the metaschema uses or admits, and a schema with others is refused before it is used. Numbers of a schema count in halves, to have
  integers and others; regular expressions and formats are a table, `Matching`. An unresolved `$ref` throws in the code and counts as "not
  valid". `dereference` registers the metaschema's definitions (`ModelLookup`), and of another schema the schema itself under its `$id` and
  its properties under pointers (`OwnLookup`), so that a schema may refer to itself. `validateTo[d]` is `validate`
  with at most `d` calls of it inside one another. That is the code's function wherever the code returns, if `d` is large enough; with a
  larger `d` it says the same.
* `Balance`: an amount is its sign, its integer part and the digits of its fraction, any number of them.
* `IdentifierFormat`, `DidDocument`: without recursion.

`PureFunctions` holds the laws. `Components` puts it beside `EnsureStored` in one state machine, in which a client either runs the setup or
calls one function: a function alone has no behaviour to explore, and its law is an invariant of the state after the call.

## 3. What the runs show

| run | instance | shows |
|---|---|---|
| `SubmitTx_finalized` | 2 calls, `IS_FINALIZED`, no timeout, 1 drop, 1 retraction | `ResolvedIsFinal`, and every behaviour is one of `TxPromise` |
| `SubmitTx_inblock` | 2 calls, `IS_IN_BLOCK`, timeout, 1 drop | `RejectionTakesPrecedent`, `WaitHearsDisconnect`, `NothingLeaks`, `FailureIsReal` |
| `SubmitTx_live` | 1 call, with and without timeout, 2 drops, 2 retractions | the liveness properties `TimeoutBoundsWait`, `FinalityEndsWait` |
| `FailproofSubmit_double` | 1 job, 1 drop | **violation**: both transfers of one job become final |
| `DidAuthorize_race` | 2 tasks, up to 2 groups, all batch functions, 2 submissions each, counter at 0 and at the maximum | `StaleNonceForCause`, `ExecutesInOrder`, `AtomicSuccessMeansExecuted`, `BatchNoncesFollow` |
| `DidAuthorize_partial` | 1 task, `batch` | **violation**: a success although a group was not executed |
| `DidAuthorize_overflow` | 1 task, counter one below the maximum | **violation** of `BatchNoncesFollow` |
| `CordConfig_overlap` | 3 connects, 2 disconnects, levels below, within and above the range | `ClosedOnce`, `LoggersFollow`, and every behaviour is one of `ConnectionSlot` |
| `Exchange_rotation` | holder, issuer, verifier; 1 document with 1 attribute and 1 document as evidence, 2 presentations, 1 message, 1 session; 1 change of keys | `PresentationsVerify`, `DisclosesOnlySelected`, `AcceptedWasValid`, `RefusedForCause`, `AcceptedCameFromHolder`, `UnreadableForCause`, and every behaviour is one of `AtomicVerification` |
| `Components` | 2 services, 2 titles, 2 faults (retractions among them), 1 restart; and, instead, calls of the pure functions | `RefusedForCause`, every behaviour of the setup is one of `Provisioning`; `BatchSignsEveryCall`, `IdentifierRoundTrip`, `CanonicalUpToOrder`, `AmountIsExact`, `DocumentSurvivesChain`, `DisclosureConforms` |
| `DidResolver_rpc` | 2 callers of any kind, 1 resource, 2 changes of the DID, failing queries | `PositiveAnswersWereTrue`, `UnregisteredWasAbsent`, `DeactivationIsFinal` |
| `DidResolver_notfound` | 1 caller, 2 resources, 3 changes | **violation** of `UnregisteredIsReported` |

The four violations are disagreements between code and documentation:

* `failproofSubmit` retries after *every* error. If the socket drops while the extrinsic is in the
  pool, or the node drops it and another one still has it, the first attempt throws, both extrinsics become final, and the credits are
  transferred twice. `FailureIsReal` shows the other side: if the first attempt
  failed with a dispatch error, and no block was retracted, a retry is safe.
* `submitSignedTx` "rejects if any errors occur during submission or execution", but
  looks only for `system.ExtrinsicFailed`, which `utility.batch` and `forceBatch` never cause.
  `AtomicSuccessMeansExecuted` shows that the sentence holds for a single group and for `batchAll`.
* `increaseNonce(n, k)` returns `k` whenever `n` is the maximum, so the first group of a batch
  whose first nonce is the maximum is signed with 0 (`authorizeBatch` calls it with k = 0).
  `BatchNoncesFollow` holds from every counter from which the nonces do not cross the maximum in
  the middle of the batch, and also when the counter *stands* at the maximum; the passing run has
  both, the violating run the case between.
* `resolveCompliant` promises an error for an unregistered DID and returns a bare
  document without one, although the DID is absent during the whole call and both queries are answered.

What the two runs of the exchange and of the components say beyond "it works":

* The three abstract specifications say at once what several invariants say in parts. `ConnectionSlot` contains that a cached
  connection is not closed and that only replacement loses one, `Provisioning` that no item comes before the one it needs, and that nobody
  is told of an item that was never there. The theorems about the former two are kept.
* `StaleNonceForCause` is the client's half of the nonces: one that was read, increased and signed for a group is wrong at its execution
  only if something took effect in between. The other half, that the chain refuses a wrong one, is the pallet's.
* `AcceptedWasValid` is about three reads at three moments. Valid at *one* moment is all that can be had, and it needs the order of
  the reads: the stream is asked last, so a stream that is not withdrawn then was not withdrawn before, unless it was
  restored meanwhile, which the property excepts because it really fails there. The same holds for keys: it fails, and is excepted, if
  during the verification an owner sets the key of a signature in a presentation again.
* `RefusedForCause` (of `Exchange`) is the other direction: a presentation that a check refuses stays bad, until a stream is restored or a key set again. A verifier who
  asks again gets the same answer, unless a query failed.
* `AcceptedCameFromHolder` joins the two components: the sender named in a message is compared with the owner of the
  presentation in it, but that the sender *sealed* it depends on a key resolved earlier, in `decrypt`.
* `RefusedForCause` (of `EnsureStored`) bounds what restarts can do: the chain refuses a creation only after a blind one,
  behind another extrinsic of the same DID, possibly an earlier one of the same service, or after a retraction.
* `CanonicalUpToOrder` has two halves, and they do not meet. Values that are equal up to order have one text; the exception are keys that differ
  only in case, which keep their insertion order (`utils/src/jsonabc.ts:59`), so two equal objects may get different texts. Values with one text are
  equal up to order *and* normal form, if neither is a mere string: `encodeObjectAsStr` leaves such a string unquoted
  (`utils/src/Crypto.ts:165`), so that it may read like a number or an object. Values that differ in their normal forms only may have one
  text or two, because the normal form is taken after sorting (`Crypto.ts:167`). `sortObj` also sorts the caller's arrays in place
  (`jsonabc.ts:42`), which no value returned shows.
* `IdentifierRoundTrip` covers every prefix of one byte, the two-byte ones up to 1100 and from 16128, and the five of the SDK.
* `DocumentSurvivesChain` goes from `getStoreTx` over the chain to the exporter, which lists only the first key of each
  relationship but all keys as verification methods.
* `DisclosureConforms` holds because the metaschema is closed: a schema cannot require an attribute, so no
  presentation fails for one that is withheld.

**Bounds.** Two calls or tasks, because every interaction in the code is between
one call and another party (the node, the socket, a second user of the same
nonce); the proofs lift this to any number. One dropped connection with two calls and two with
one: a second drop matters only to a call that survived the first. One retraction
per block is enough to contradict an update already delivered. Two tasks with two
groups use at most four nonces, so `MaxNonce = 6` separates the low end from the wrap;
`MaxHeight = 1` with `TxValidity = 0` makes an operation expire. Two changes of a DID
allow create-then-delete inside one call. In the exchange one change of some DID's keys suffices to make any paper or
message older than a key, and, where the issuer signed with a key before setting it, to make a paper good that was not. A key that is replaced
and then set again takes two changes, and is left to the proofs; two presentations give one made from another; one attribute is shown or left out at either stage (what several attributes have to do with each
other is proved for all of them, and `DisclosureConforms` has two); one session is enough because sessions meet only through the keys and
streams, which others change as freely. Two services, two titles and two faults give a blind creation that overtakes another service, an
extrinsic that outlives its call, and an item that is retracted after it was told of and needed. The pure functions get every list of up to three calls (plain, or batches; `MaxNesting = 2`), JSON values two levels deep (`MaxLevels = 2`) over
scalars and three keys, two of which differ in case and two in their normal form, amounts of up to four decimals in three units (the exponent notation that `Balance.utils.ts:84` gives for very small or
large numbers is left out), and schemas of up to two attributes out of eight property schemas. Validating one of them against the metaschema nests 11
calls of `validate`; `MaxDepth = 15` is more than enough, and `DepthSuffices` checks that 12 to 14 give the same. The laws of the pure functions are proved without these bounds.
All bounds are guards on the environment's actions
(`MaxDrops`, `MaxRetracts`, `MaxHeight`, `MaxSubmissions`, `MaxChanges`, `MaxKeyChanges`, `MaxFaults`, `MaxRestarts`), never on the SDK's. Symmetry over calls,
tasks, callers, services or titles is declared for runs that check invariants and the refinement, whose
formulas treat them alike, and not for `SubmitTx_live`.

**Deadlock** is not checked: every call ends, and the environment stops at its bounds,
so a quiet final state is expected in every run. That no call *waits* for ever is stated
instead by the liveness properties.

**Fairness.** `FairSpec` asks only for what a JavaScript runtime guarantees: updates
received are handed to their callback, timers fire, a settled promise continues its
`await`, a request whose answer is an error is answered. The node, the socket, reconnects
and `Cord.disconnect` have no fairness. `TimeoutBoundsWait` covers the wait for the promise, not `await tx.send`:
the code's timeout does not bound that one. `FinalityEndsWait` is the strongest
statement without a timeout, for a call whose status stream lives until its extrinsic is final. A stream cut off by the node's
`finalityTimeout`, or by a drop while the listener is registered, ends the call as well. A drop between the answer of `tx.send` and the
registration of the listener does not: such a call, like one whose extrinsic never becomes final, may wait for ever.

## 4. What is proved

`tlapm` checks these for every value of the constants, from the named assumptions in the modules
(finite call set, a legal criterion, natural bounds; a positive `MaxNonce`; the placeholder `NoTask` is not
a task; in the exchange the roles are DIDs, the bodies of messages are presentations, and evidence verifies).

* `SubmitTx_proofs`: `TypeCorrect`, `WaitHearsDisconnectHolds`, `NothingLeaksHolds`,
  `ResolvedIsFinalHolds`, `RejectionTakesPrecedentHolds`, `FailureIsRealHolds`, `Refinement`. The listener property needs no
  strengthening beyond types, but leak-freedom does: a call that is neither sending nor watching has no
  stream, and one that throws out of `tx.send` never had one, because its request was not accepted or its
  answer was lost together with the stream. `ResolvedIsFinal` needs that every "finalized" update, in the
  mail or already in the promise, tells of an extrinsic that *is* final with that result; `inBlock` updates carry no such
  claim, since they may be retracted. `FailureIsReal` is the converse for failures (`TruthInv`): while no block was retracted, every result that
  says "failed", in the mail, in `latestResult` (from which `handleDisconnect` makes its own) or in the promise, tells of an
  extrinsic that sits failed in a block. `Flow` adds that a call has no promise before it submits. The refinement then maps every step to a step of `TxPromise` or a stutter.
* `DidAuthorize_proofs`: `TypeCorrect`, `ExecutesInOrderHolds`, `BatchAllAtomicHolds`, `AtomicSuccessMeansExecutedHolds`,
  `BatchNoncesFollowBelowMaximum`, `StaleNonceForCauseBelowMaximum`. `OrderInv` and `AtomicInv`
  describe the extrinsic in the middle of its execution: which groups are executed once it stands at group `at`.
  `SuccessInv` adds that what a rollback restores is all groups if an earlier submission of the task succeeded. `BatchNoncesFollow` is
  proved under `BelowMaximum` (the batch does not start at the maximum nonce nor reach beyond it); without it the run
  `DidAuthorize_overflow` is the counterexample. Its invariant ties what is signed to the first nonce (`SignedRight`) and the counter in
  the middle of a batch to the one at its start (`CounterFollows`). `StaleNonceForCause` rests on the same two: a task that nobody has overtaken
  finds the counter where it read it.
* `DidResolver_proofs`: `TypeCorrect`, `PositiveAnswersWereTrueHolds`,
  `UnregisteredWasAbsentHolds`, `DeactivationIsFinalHolds`. The invariant says that a call under way has seen
  the present state, that a deletion once seen is the present state, that a call at
  the blacklist whose first query did not fail has seen the DID missing or deleted, and that a call that starts after
  somebody was told of the deletion sees nothing but a deleted DID. One lemma per kind of step (a call starts, it
  is told something true, the DID changes) carries it.

* `CordConfig_proofs`: `TypeCorrect`, `ClosedOnceHolds`, `CachedIsNotClosedHolds`, `NothingLostHolds`,
  `LoggersFollowHolds`, `CacheIsOneSlot`. The first three need each other and `Fresh`: a connection enters the cache only when its
  `connect` is through with `ApiPromise.create`, and nobody has closed it before. They are also what the refinement of `ConnectionSlot` rests on.

* `EnsureStored_proofs`: `SetupTypeCorrect`, `CreationRefusedForCause`, `SetupProvisions`. The properties speak of what is stored; the
  invariant has to speak of what is *on its way*, and, since blocks are retracted, of what *was* stored (`Seen`). `Sent`: within one attempt an item is sent
  once, so what is on its way or executed belongs to a call that has returned or to the present one. `Past`: nothing is on its way from
  an attempt that is still to come. `Based`: what is stored, sent or ensured has its base stored, unless a retraction took it away.
  `Fresh`: what a call found holds until another extrinsic is executed or retracted. No bound on services,
  titles, faults or restarts is used, except for the types: a nonce stays within its range because the counter is the number of items stored
  (`SetupTypeCorrect` carries that count). `SetupProvisions` maps the step that executes an extrinsic to `Create` and the one that retracts it to `Lose`,
  and needs that the extrinsics in flight create nothing out of order.
* `Exchange_proofs`, over the lemmas of `Credential_proofs`: the types, the six invariants of the run, for any set of DIDs, documents, presentations, messages and
  sessions, and any number of key changes. Papers: every document and presentation is `Good` (its hashes and nonces fit its contents), which
  `removeContentProperties` keeps. Time: `Later` collects what no step undoes (papers stay, a deleted DID stays deleted), `Fading` what only
  a restored stream or a key that is set again undoes (a signature that does not verify, a withdrawn stream); from these "valid at one moment" and "stays bad" follow. Messages: a DID that has never changed its agreement keys
  has key number 0 and no other (`FirstIfQuiet`), which makes an unreadable message the consequence of a change. `GoodMeeting` says that a
  session verifies the presentation of the message it has read. `VerificationIsAtomic` puts these together: a presentation that is made, an issuer's or
  holder's key that changes and a stream that is withdrawn each map to one step on the claims, and every answer of `verifyPresentation` to a verdict. That
  a refusal at a later await refuses the whole rests on "stays bad"; that an acceptance is one of the whole rests on "valid at one moment".
* `PureFunctions_proofs`: the laws, for every input. They are laws of functions and hold in every state, so there is nothing inductive about the
  states; what takes work is that most of the functions are defined by recursion. A recursive function is a `CHOOSE` in TLA+ and says nothing until a function with that definition is
  shown to exist (`Recursion`, `RecursionOnPositions`, `NestedIs`, `RecursionOnCalls`, `LevelIs`, `RecursionOnValues`, `ValidateIs`). The library's induction rules cannot be
  instantiated here, so induction over numbers, calls and JSON values is by a least counterexample among a *set* of them (`Induction`, `InductionOnCalls`, `InductionOnValues`).
  * `IdentifiersRoundTrip` for every prefix below 2^14 (but the reserved 46 and 47) and every key length, by arithmetic on the two bytes of a prefix.
  * `DocumentsSurviveTheChain` for every document `getStoreTx` accepts, in four parts: what the chain keeps of a list of keys is its set, `InOrder` lists a set once
    (`Ranks`, by the element of least rank), the conversion back finds each key under its relationship, and the export lists no key twice.
  * `AmountsAreExact` for every amount and unit: the number that digits stand for is a sum of two, split at any digit (`DigitsAfter`), and powers of ten add up (`TenAdds`).
  * `BatchesAreSigned` for every list of calls, nested as deep as `MaxNesting` allows. The key that `reduce` finds for a batch is the key of every call in
    it, or there is none (`KeyOfCall`, by induction over calls). `GroupsFit` is the invariant of the loop that groups: the groups so far hold the calls so far in their order, no group is
    empty, each has one key, and two neighbours have different ones.
  * `CanonicalTexts` for values of any size and depth. `stringify` is prefix-free, so equal texts come from equal values (`SameText`), and `Before` is a strict
    total order on texts. A stable sort arranges the entries by rank (`ByRankIs`), and two sorted arrangements of the same entries agree position by position, by the pigeonhole
    principle (`NotSmaller`, `SameInOrder`). With that, two values are sorted into the same one exactly when they are `Equivalent` (`SortedEqual`, by induction over values),
    which is the first half; and sorted values with the same normal form come from values that are `Alike` (`CanonicalAlike`), which is the second. The normal form is any
    function that keeps strings strings and keys keys.
  * `DisclosuresConform` for every schema that the metaschema accepts: acceptance leads through its `allOf` and `$ref` to a closed list of keywords (`SchemasAreClosed`), none of which is `required`, and what is
    left checks the attributes one by one, so that leaving some out leaves fewer checks. It holds for every `MaxDepth`, also for one too small for any schema to be accepted.

Types: `TypeCorrect` is proved for every module with state.

Only model-checked, and why:

* `TimeoutBoundsWait` and `FinalityEndsWait` are liveness under fairness, which the prover does not handle;
* `BatchNoncesFollow` and `StaleNonceForCause` for batches that wrap around at the maximum, where they hold only from some counters;
* `DepthSuffices`, an assumption about the constants of the run that TLC evaluates.

Every other property of a passing run is stated by a theorem. The four violations are counterexamples.

## 5. What is not modelled

* A promise that is rejected while nobody awaits it (timeout or drop during `await tx.send`): the
  unhandled rejection is an effect of the runtime. A provider that never answers a request.
* `makeSubscriptionPromiseMulti`, custom resolution criteria, and the decoding of module errors.
* Finality in the setup: `EnsureStored` has blocks that are retracted, but no moment from which one is final. It only rules retractions out.
* A connection that another one replaces in the cache stays open: `CordConfig` shows that replacement is
  the only way to lose one, not that somebody closes it.
* In `DidResolver`, keys, services and names as values: a document is the set of its resources.
* `checkIdentifier` and `validateId`: the first tests for a prefix that differs from one of five *or* another and refuses every
  identifier (`utils/src/Identifier.ts:158`), the second negates a pair, which is never falsy, and accepts every one
  (`utils/src/DataUtils.ts:30`). Their answers do not depend on the identifier, so there is nothing to explore.
* Message types other than the submission of a presentation; `verifyMessageBody` and the other structure checks, here and in documents, schemas and
  registries: each tests one value, without state.
* What the demo's `decrypt_message.ts` does with a message: it refuses every type but `request-credential-document`.
* Evidence deeper than one level, or that does not verify; authorizations whose registry is archived; `addRegistryDelegate`, which is `addRegistryAdminDelegate` for
  another delegate. `Registry.chain.ts` is commented out in the source.
* The keywords of the schema validator that no schema of the SDK can have (`not`, `anyOf`, `if`, `dependencies`, `contains`, `propertyNames`, ...), its formats and regular expressions.
* Cryptography: hashes are injective, a signature verifies for its key and data only, a box opens for its two keys only. base58, hex, JSON-LD, CBOR and URIs.
* `augment-api` (nearly half of the repository's code, generated), the vendored `yarn`, `types`, `type-definitions`, `sdk`, the
  build scripts, and the remaining demo scripts, which call the SDK in sequence. They are the larger part of the source, so that the
  share of lines covered stays small although the components with state are modelled.

## 6. What could follow

1. The composition of `KeyGrouping` with `DidAuthorize`: a task that passes a list of calls, whose groups are the operations that are signed and executed. Both halves are
   proved; joined, they would say that a final `batchAll` has executed every call with the key it needs.
2. A refinement that says how long a retraction may be seen in what a service was told: an `EnsureStored` with finality, and `IS_FINALIZED`.
3. The refinement of an abstract resolver (one read at one moment) by `DidResolver`, which the three invariants say in parts.
4. A provider that never answers `tx.send`, as a run that shows for how long a call may wait.
