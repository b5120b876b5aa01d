------------------------ MODULE EnsureStored_proofs ------------------------
(***************************************************************************)
(* Proofs about EnsureStored, for every set of services and titles and     *)
(* every bound: nothing is stored before what it refers to was, and a      *)
(* refusal has a cause; the setup implements Provisioning, and its state   *)
(* has its type.                                                           *)
(*                                                                         *)
(* The invariant relates the extrinsics to the calls: within one attempt   *)
(* an item is sent once, so what is on its way or executed belongs to a    *)
(* call that has returned or to the present one; and what was stored, sent *)
(* or ensured has its base stored, unless a retraction took it away.       *)
(***************************************************************************)
EXTENDS EnsureStored, FiniteSetTheorems, TLAPS

\* The items that are or were on chain.
Seen == stored \cup lost

\* What one service's record is, and an extrinsic, without the bounds.
Setup ==
    [pc : {"check", "authorize", "submit", "wait", "done", "threw"},
     attempt : Nat, item : Item, nonce : Nat, returned : SUBSET Item, inBlock : BOOLEAN,
     blind : BOOLEAN, overtaken : BOOLEAN, refused : BOOLEAN]

Sendable == [item : Item, nonce : Nat, by : Service, attempt : Nat]

Types ==
    /\ executed \in SUBSET Sendable /\ flight \in SUBSET Sendable
    /\ lost \in SUBSET Item
    /\ counter \in Nat
    /\ setup \in [Service -> Setup]

\* Attempts are counted: none has sent anything yet that comes later.
Past == \A x \in flight \cup executed : x.attempt <= setup[x.by].attempt

\* Whatever is stored, sent or ensured has its base stored, but for retractions.
BaseWasStored == \A item \in stored : Base(item) \subseteq Seen

Based ==
    /\ BaseWasStored
    /\ \A x \in flight : Base(x.item) \subseteq Seen
    /\ \A s \in Service : Base(setup[s].item) \subseteq Seen

\* What a service was told of when it ensures an item.
Told(item) ==
    CASE item[1] = "schema"        -> {}
      [] item[1] = "registry"      -> {<<"schema", "none">>}
      [] item[1] = "authorization" -> {<<"schema", "none">>, <<"registry", item[2]>>}

\* The extrinsics of the service's present attempt, and those of its present item.
Mine(s) == {x \in flight \cup executed : x.by = s /\ x.attempt = setup[s].attempt}
Own(s) == {x \in flight : x.by = s /\ x.attempt = setup[s].attempt /\ x.item = setup[s].item}

\* A service has sent what it was told of, and in the present call one extrinsic.
Sent(s) ==
    /\ setup[s].pc \notin {"done", "threw"} => setup[s].returned = Told(setup[s].item)
    /\ \A x \in Mine(s) :
          \/ x.item \in setup[s].returned
          \/ setup[s].pc = "wait" /\ x.item = setup[s].item /\ x.nonce = setup[s].nonce
          \/ setup[s].pc = "threw"
    /\ setup[s].inBlock => setup[s].pc = "wait" /\ setup[s].item \in Seen
    /\ setup[s].pc = "wait" /\ ~setup[s].inBlock => Own(s) # {}

\* What a call found is still so, unless another extrinsic was executed or retracted
\* since.
Fresh(s) ==
    Creating(s) /\ ~setup[s].overtaken /\ ~setup[s].inBlock
    => /\ setup[s].pc # "authorize" => setup[s].nonce = counter + 1
       /\ ~setup[s].blind => setup[s].item \notin stored

\* A refused call has thrown, for a cause.
Refusals(s) ==
    setup[s].refused => setup[s].pc = "threw" /\ (setup[s].blind \/ setup[s].overtaken)

\* The chain is finite, and has each item once.
Once == \A x, y \in executed : x.item = y.item => x = y
Chained == IsFiniteSet(executed) /\ Once

Inv ==
    /\ Types
    /\ Chained
    /\ Past
    /\ Based
    /\ \A s \in Service : Sent(s) /\ Fresh(s) /\ Refusals(s)

-----------------------------------------------------------------------------
(* Steps of one service that leave the chain alone.                        *)

\* The chain and the pool stay as they are.
LEMMA ChainStays ==
    ASSUME UNCHANGED <<executed, lost>>
    PROVE  UNCHANGED <<stored, counter>> /\ Seen' = Seen
BY DEF stored, counter, Seen

\* Only this service's record changes, to one of the right type; what it ensures
\* is well founded.
Local(s) ==
    /\ setup' \in [Service -> Setup]
    /\ \A t \in Service : t # s => setup'[t] = setup[t]
    /\ UNCHANGED <<executed, lost, flight>>
    /\ setup'[s].attempt >= setup[s].attempt
    /\ Base(setup'[s].item) \subseteq Seen

\* Then the invariant is kept if it is kept for that service.
LEMMA LocalStep ==
    ASSUME Inv, NEW s \in Service, Local(s), Sent(s)', Fresh(s)', Refusals(s)'
    PROVE  Inv'
<1>0. /\ setup' \in [Service -> Setup]
      /\ \A t \in Service : t # s => setup'[t] = setup[t]
      /\ UNCHANGED <<executed, lost, flight>> /\ UNCHANGED <<stored, counter>> /\ Seen' = Seen
      /\ setup'[s].attempt >= setup[s].attempt
      /\ Base(setup'[s].item) \subseteq Seen
    BY ChainStays DEF Local
<1>1. Types' /\ Chained'
    BY <1>0 DEF Inv, Types, Chained, Once
<1>2. Past'
    BY <1>0 DEF Inv, Types, Past, Setup, Sendable
<1>3. Based'
    BY <1>0 DEF Inv, Based, BaseWasStored
<1>4. ASSUME NEW t \in Service, t # s PROVE (Sent(t) /\ Fresh(t) /\ Refusals(t))'
    <2>1. Own(t)' = Own(t) /\ Mine(t)' = Mine(t) /\ setup'[t] = setup[t]
        BY <1>0, <1>4 DEF Own, Mine
    <2> QED
        BY <1>0, <2>1 DEF Inv, Sent, Fresh, Refusals, Creating
<1> QED
    BY <1>1, <1>2, <1>3, <1>4 DEF Inv

\* Every item but the schema is a registry's or an authorization's.
LEMMA Items ==
    ASSUME NEW item \in Item
    PROVE  \/ item = <<"schema", "none">>
           \/ \E t \in Title : item = <<"registry", t>>
           \/ \E t \in Title : item = <<"authorization", t>>
BY DEF Item

LEMMA Bases ==
    /\ Base(<<"schema", "none">>) = {} /\ Told(<<"schema", "none">>) = {}
    /\ \A t : Base(<<"registry", t>>) = {<<"schema", "none">>}
    /\ \A t : Base(<<"authorization", t>>) = {<<"registry", t>>}
    /\ \A t : Told(<<"registry", t>>) = {<<"schema", "none">>}
    /\ \A t : Told(<<"authorization", t>>) = {<<"schema", "none">>, <<"registry", t>>}
    /\ <<"schema", "none">> \in Item
    /\ \A t \in Title : <<"registry", t>> \in Item /\ <<"authorization", t>> \in Item
BY DEF Item, Base, Told

\* A call that returned goes on with an item whose base is stored, or was.
LEMMA ReturnedStep ==
    ASSUME Inv, NEW s \in Service, setup[s].item \in Seen, setup[s].pc \in {"check", "wait"},
           Returned(s), UNCHANGED <<executed, lost, flight>>
    PROVE  Local(s) /\ Sent(s)' /\ Fresh(s)' /\ Refusals(s)'
<1>1. setup[s].item \in Item /\ setup[s] \in Setup /\ setup \in [Service -> Setup]
    BY DEF Inv, Types, Setup
<1>2. setup[s].returned = Told(setup[s].item)
    BY DEF Inv, Sent
<1>3. ASSUME NEW pc \in {"check", "done"}, NEW item \in Item, Base(item) \subseteq Seen,
             pc = "check" => Told(item) = Told(setup[s].item) \cup {setup[s].item},
             GoesOn(s, pc, item)
      PROVE  Local(s) /\ Sent(s)' /\ Fresh(s)' /\ Refusals(s)'
    <2> DEFINE r == [pc |-> pc, attempt |-> setup[s].attempt, item |-> item, nonce |-> 0,
                     returned |-> setup[s].returned \cup {setup[s].item}, inBlock |-> FALSE,
                     blind |-> FALSE, overtaken |-> FALSE, refused |-> setup[s].refused]
    <2>1. r \in Setup
        BY <1>1 DEF Setup
    <2>2. setup' = [setup EXCEPT ![s] = r] /\ r.attempt = setup[s].attempt /\ ~r.inBlock
          /\ r.refused = setup[s].refused /\ r.pc = pc /\ r.item = item
          /\ r.returned = setup[s].returned \cup {setup[s].item}
        BY <1>3 DEF GoesOn
    <2>3. r.attempt \in Nat
        BY <2>1 DEF Setup
    <2> HIDE DEF r
    <2>4. setup'[s] = r /\ Local(s)
        BY <1>1, <1>3, <2>1, <2>2, <2>3 DEF Local
    <2>5. Mine(s)' = Mine(s)
        BY <2>2, <2>4 DEF Mine
    <2>6. ASSUME NEW x \in Mine(s)' PROVE x.item \in r.returned
        BY <2>2, <2>5, <2>6 DEF Inv, Sent
    <2>7. Sent(s)'
        BY <1>2, <1>3, <2>2, <2>4, <2>6 DEF Sent
    <2>8. Fresh(s)' /\ Refusals(s)'
        BY <2>2, <2>4 DEF Inv, Fresh, Refusals, Creating
    <2> QED
        BY <2>4, <2>7, <2>8
<1>4. CASE setup[s].item = <<"schema", "none">>
    <2>1. setup[s].item[1] = "schema"
        BY <1>4
    <2>2. PICK t \in Title : GoesOn(s, "check", <<"registry", t>>)
        BY <2>1 DEF Returned
    <2>3. <<"registry", t>> \in Item /\ Base(<<"registry", t>>) \subseteq Seen
          /\ Told(<<"registry", t>>) = Told(setup[s].item) \cup {setup[s].item}
        BY <1>4, Bases
    <2> QED
        BY <1>3, <2>2, <2>3
<1>5. ASSUME NEW t \in Title, setup[s].item = <<"registry", t>>
      PROVE  GoesOn(s, "check", <<"authorization", t>>)
    BY <1>5 DEF Returned
<1>6. CASE \E t \in Title : setup[s].item = <<"registry", t>>
    <2>1. PICK t \in Title : setup[s].item = <<"registry", t>>
        BY <1>6
    <2>2. GoesOn(s, "check", <<"authorization", t>>)
        BY <1>5, <2>1
    <2>3. <<"authorization", t>> \in Item /\ Base(<<"authorization", t>>) \subseteq Seen
          /\ Told(<<"authorization", t>>) = Told(setup[s].item) \cup {setup[s].item}
        BY <2>1, Bases
    <2> QED
        BY <1>3, <2>2, <2>3
<1>7. CASE \E t \in Title : setup[s].item = <<"authorization", t>>
    <2>1. GoesOn(s, "done", setup[s].item)
        BY <1>7 DEF Returned
    <2>2. Base(setup[s].item) \subseteq Seen
        BY DEF Inv, Based
    <2> QED
        BY <1>1, <1>3, <2>1, <2>2
<1> QED
    BY <1>1, <1>4, <1>6, <1>7, Items

\* The steps of a service that change its record in place.
LEMMA InPlace ==
    ASSUME Inv, NEW s \in Service, setup' \in [Service -> Setup],
           \A t \in Service : t # s => setup'[t] = setup[t],
           UNCHANGED <<executed, lost, flight>>,
           setup'[s].attempt = setup[s].attempt, setup'[s].item = setup[s].item,
           setup'[s].returned = setup[s].returned
    PROVE  Local(s) /\ Own(s)' = Own(s) /\ Mine(s)' = Mine(s)
           /\ UNCHANGED <<stored, counter>> /\ Seen' = Seen
<1>1. setup[s] \in Setup /\ setup[s].attempt \in Nat
    BY DEF Inv, Types, Setup
<1> QED
    BY <1>1, ChainStays DEF Local, Inv, Based, Own, Mine

\* Before its extrinsic is sent a call has none of its item.
LEMMA NothingSent ==
    ASSUME Inv, NEW s \in Service, setup[s].pc \in {"check", "authorize", "submit"}
    PROVE  /\ setup[s].returned = Told(setup[s].item) /\ ~setup[s].inBlock
           /\ \A x \in Mine(s) : x.item \in setup[s].returned
BY DEF Inv, Sent

\* A step in place, up to the sending.
LEMMA StillNothingSent ==
    ASSUME Inv, NEW s \in Service, setup[s].pc \in {"check", "authorize", "submit"},
           setup'[s].pc \in {"check", "authorize", "submit"},
           Mine(s)' = Mine(s), setup'[s].item = setup[s].item,
           setup'[s].returned = setup[s].returned, setup'[s].inBlock = setup[s].inBlock
    PROVE  Sent(s)'
BY NothingSent DEF Sent

LEMMA CheckPreserves ==
    ASSUME Inv, NEW s \in Service, Check(s) PROVE Inv'
<1> USE DEF Check
<1>1. CASE setup[s].item \in stored
    BY <1>1, ReturnedStep, LocalStep DEF Seen
<1>2. CASE setup[s].item \notin stored
    <2>1. setup' = [setup EXCEPT ![s].pc = "authorize"]
        BY <1>2
    <2>2. Local(s) /\ Mine(s)' = Mine(s) /\ UNCHANGED <<stored, counter>>
        BY <2>1, InPlace DEF Inv, Types, Setup
    <2>3. setup'[s].pc = "authorize" /\ setup'[s].item = setup[s].item
          /\ setup'[s].refused = setup[s].refused /\ setup'[s].returned = setup[s].returned
          /\ setup'[s].inBlock = setup[s].inBlock
        BY <2>1 DEF Inv, Types
    <2>4. Fresh(s)' /\ Refusals(s)'
        BY <1>2, <2>2, <2>3 DEF Inv, Fresh, Refusals
    <2>5. Sent(s)'
        BY <2>2, <2>3, StillNothingSent
    <2> QED
        BY <2>2, <2>4, <2>5, LocalStep
<1> QED
    BY <1>1, <1>2

LEMMA CheckFailsPreserves ==
    ASSUME Inv, NEW s \in Service, CheckFails(s) PROVE Inv'
<1> USE DEF CheckFails
<1>1. Local(s) /\ Mine(s)' = Mine(s)
    <2>1. setup' \in [Service -> Setup]
        BY ZenonT(40) DEF Inv, Types, Setup
    <2>2. /\ setup'[s].attempt = setup[s].attempt /\ setup'[s].item = setup[s].item
          /\ setup'[s].returned = setup[s].returned
          /\ \A t \in Service : t # s => setup'[t] = setup[t]
        BY DEF Inv, Types
    <2> QED
        BY <2>1, <2>2, InPlace
<1>2. setup'[s].pc = "authorize" /\ setup'[s].blind /\ setup'[s].refused = setup[s].refused
      /\ setup'[s].item = setup[s].item /\ setup'[s].returned = setup[s].returned
      /\ setup'[s].inBlock = setup[s].inBlock
    BY DEF Inv, Types
<1>3. Fresh(s)' /\ Refusals(s)'
    BY <1>2 DEF Inv, Fresh, Refusals
<1>4. Sent(s)'
    BY <1>1, <1>2, StillNothingSent
<1> QED
    BY <1>1, <1>3, <1>4, LocalStep

LEMMA AuthorizePreserves ==
    ASSUME Inv, NEW s \in Service, Authorize(s) PROVE Inv'
<1> USE DEF Authorize
<1>0. counter + 1 \in Nat /\ setup \in [Service -> Setup]
    BY DEF Inv, Types
<1>1. Local(s) /\ Mine(s)' = Mine(s) /\ UNCHANGED <<stored, counter>>
    <2>1. setup' \in [Service -> Setup]
        BY <1>0, ZenonT(40) DEF Setup
    <2> QED
        BY <1>0, <2>1, InPlace DEF Setup
<1>2. setup'[s].pc = "submit" /\ setup'[s].nonce = counter + 1
      /\ setup'[s].item = setup[s].item /\ setup'[s].blind = setup[s].blind
      /\ setup'[s].overtaken = setup[s].overtaken /\ setup'[s].refused = setup[s].refused
      /\ setup'[s].returned = setup[s].returned /\ setup'[s].inBlock = setup[s].inBlock
    BY DEF Inv, Types
<1>3. Fresh(s)' /\ Refusals(s)'
    BY <1>1, <1>2 DEF Inv, Fresh, Refusals, Creating
<1>4. Sent(s)'
    BY <1>1, <1>2, StillNothingSent
<1> QED
    BY <1>1, <1>3, <1>4, LocalStep

\* A new attempt, or the end of one, forgets everything but its number.
LEMMA StartIs ==
    ASSUME NEW n \in Nat, NEW pc \in {"check", "threw"}
    PROVE  LET r == Start(pc, n) IN
           /\ r \in Setup /\ r.pc = pc /\ r.attempt = n /\ r.item = <<"schema", "none">>
           /\ r.nonce = 0 /\ r.returned = {} /\ ~r.refused /\ ~r.inBlock
BY Bases DEF Start, Setup

LEMMA GiveUpPreserves ==
    ASSUME Inv, NEW s \in Service, GiveUp(s) PROVE Inv'
<1> USE DEF GiveUp
<1> DEFINE r == Start("threw", setup[s].attempt)
<1>1. setup[s].attempt \in Nat /\ setup \in [Service -> Setup]
    BY DEF Inv, Types, Setup
<1>2. r \in Setup /\ r.attempt = setup[s].attempt /\ r.item = <<"schema", "none">>
      /\ r.pc = "threw" /\ ~r.refused /\ ~r.inBlock
    BY <1>1, StartIs
<1>3. setup' = [setup EXCEPT ![s] = r]
    OBVIOUS
<1> HIDE DEF r
<1>4. Local(s) /\ setup'[s] = r
    <2>1. setup'[s] = r /\ (\A t \in Service : t # s => setup'[t] = setup[t])
          /\ setup' \in [Service -> Setup]
        BY <1>1, <1>2, <1>3
    <2> QED
        BY <1>1, <1>2, <2>1, Bases DEF Local
<1>5. Sent(s)' /\ Fresh(s)' /\ Refusals(s)'
    BY <1>2, <1>4 DEF Sent, Fresh, Refusals, Creating
<1> QED
    BY <1>4, <1>5, LocalStep

\* A new attempt has sent nothing yet.
LEMMA RestartPreserves ==
    ASSUME Inv, NEW s \in Service, Restart(s) PROVE Inv'
<1> USE DEF Restart
<1> DEFINE r == Start("check", setup[s].attempt + 1)
<1>1. setup[s].attempt \in Nat /\ setup[s].attempt + 1 \in Nat /\ setup \in [Service -> Setup]
    BY DEF Inv, Types, Setup
<1>2. r \in Setup /\ r.attempt = setup[s].attempt + 1 /\ r.item = <<"schema", "none">>
      /\ r.returned = {} /\ r.pc = "check" /\ ~r.refused /\ ~r.inBlock
    BY <1>1, StartIs
<1>3. setup' = [setup EXCEPT ![s] = r]
    OBVIOUS
<1> HIDE DEF r
<1>4. Local(s) /\ setup'[s] = r
    BY <1>1, <1>2, <1>3, Bases DEF Local
<1>5. Mine(s)' = {}
    BY <1>1, <1>2, <1>4 DEF Mine, Inv, Past, Types, Sendable, Local
<1>6. Sent(s)' /\ Fresh(s)' /\ Refusals(s)'
    BY <1>2, <1>4, <1>5, Bases DEF Sent, Fresh, Refusals, Creating
<1> QED
    BY <1>4, <1>6, LocalStep

LEMMA ResolvesPreserves ==
    ASSUME Inv, NEW s \in Service, Resolves(s) PROVE Inv'
<1>1. setup[s].item \in Seen
    BY DEF Resolves, Inv, Sent
<1> QED
    BY <1>1, ReturnedStep, LocalStep DEF Resolves

-----------------------------------------------------------------------------
(* Steps that send, execute, retract or refuse an extrinsic.               *)

\* A call has one extrinsic of its item, the one it sent.
LEMMA SubmitPreserves ==
    ASSUME Inv, NEW s \in Service, Submit(s) PROVE Inv'
<1> DEFINE x == [item |-> setup[s].item, nonce |-> setup[s].nonce,
                 by |-> s, attempt |-> setup[s].attempt]
<1>1. setup \in [Service -> Setup] /\ setup' = [setup EXCEPT ![s].pc = "wait"]
      /\ setup[s].pc = "submit" /\ UNCHANGED <<executed, lost>>
    BY DEF Inv, Types, Submit
<1>2. x \in Sendable /\ x.item = setup[s].item /\ x.nonce = setup[s].nonce
      /\ x.by = s /\ x.attempt = setup[s].attempt
    BY <1>1 DEF Setup, Sendable
<1>3. flight' = flight \cup {x}
    BY DEF Submit, Send
<1> HIDE DEF x
<1>4. setup' \in [Service -> Setup]
      /\ \A t \in Service :
            /\ t # s => setup'[t] = setup[t]
            /\ setup'[t].attempt = setup[t].attempt /\ setup'[t].item = setup[t].item
            /\ setup'[t].returned = setup[t].returned
    BY <1>1 DEF Setup
<1>5. UNCHANGED <<stored, counter>> /\ Seen' = Seen
    BY <1>1, ChainStays
<1>6. Types' /\ Chained' /\ Past' /\ Based'
    <2>1. Types' /\ Chained'
        BY <1>1, <1>2, <1>3, <1>4, <1>5 DEF Inv, Types, Chained, Once
    <2>2. Past'
        <3>1. \A y \in flight' \cup executed' : y = x \/ y \in flight \cup executed
            BY <1>1, <1>3
        <3>2. \A y \in flight \cup executed : y.by \in Service
            BY DEF Inv, Types, Sendable
        <3>3. setup[s].attempt \in Nat
            BY <1>1 DEF Setup
        <3> QED
            BY <1>2, <1>4, <3>1, <3>2, <3>3 DEF Inv, Past
    <2>3. Based'
        BY <1>2, <1>3, <1>4, <1>5 DEF Inv, Based, BaseWasStored
    <2> QED
        BY <2>1, <2>2, <2>3
<1>7. Sent(s)' /\ Fresh(s)' /\ Refusals(s)'
    <2>1. setup'[s].pc = "wait" /\ setup'[s].nonce = setup[s].nonce
          /\ setup'[s].item = setup[s].item /\ setup'[s].blind = setup[s].blind
          /\ setup'[s].overtaken = setup[s].overtaken /\ setup'[s].refused = setup[s].refused
          /\ setup'[s].inBlock = setup[s].inBlock
        BY <1>1 DEF Setup
    <2>2. Mine(s)' = Mine(s) \cup {x} /\ x \in Own(s)'
        BY <1>1, <1>2, <1>3, <1>4 DEF Mine, Own
    <2>3. Sent(s)'
        BY <1>1, <1>2, <1>4, <2>1, <2>2, NothingSent DEF Sent
    <2>4. Fresh(s)' /\ Refusals(s)'
        BY <1>1, <1>5, <2>1 DEF Inv, Fresh, Refusals, Creating
    <2> QED
        BY <2>3, <2>4
<1>8. ASSUME NEW t \in Service, t # s PROVE (Sent(t) /\ Fresh(t) /\ Refusals(t))'
    <2>1. Own(t)' = Own(t) /\ Mine(t)' = Mine(t) /\ setup'[t] = setup[t]
        BY <1>1, <1>2, <1>3, <1>4, <1>8 DEF Own, Mine
    <2> QED
        BY <1>5, <2>1 DEF Inv, Sent, Fresh, Refusals, Creating
<1> QED
    BY <1>6, <1>7, <1>8 DEF Inv

\* The extrinsic that a call awaits carries its nonce.
LEMMA AwaitsItsOwn ==
    ASSUME Inv, NEW s \in Service, NEW x \in flight
    PROVE  /\ Awaits(s, x) => x.nonce = setup[s].nonce /\ setup[s].item = x.item
           /\ setup[s].pc = "wait" => (Awaits(s, x) <=> x \in Own(s))
<1>1. ASSUME Awaits(s, x) PROVE x.nonce = setup[s].nonce
    <2>1. x \in Mine(s) /\ setup[s].pc = "wait" /\ x.item = setup[s].item
        BY <1>1 DEF Mine, Awaits
    <2>2. setup[s].item \notin setup[s].returned
        <3>1. setup[s].item \in Item /\ setup[s].returned = Told(setup[s].item)
            BY <2>1 DEF Inv, Types, Setup, Sent
        <3> QED
            BY <3>1, Items, Bases
    <2> QED
        BY <2>1, <2>2 DEF Inv, Sent
<1> QED
    BY <1>1 DEF Awaits, Own

\* The chain gains and loses one item at a time.
LEMMA IncludeStores ==
    ASSUME Chained, NEW x \in flight, Include(x)
    PROVE  /\ stored' = stored \cup {x.item} /\ x.item \notin stored
           /\ Seen' = Seen \cup {x.item} /\ Chained' /\ counter' = counter + 1
<1>1. executed' = executed \cup {x} /\ lost' = lost \ {x.item} /\ x.item \notin stored
    BY DEF Include, Accepts
<1>2. stored' = stored \cup {x.item} /\ x \notin executed
    BY <1>1 DEF stored
<1>3. IsFiniteSet(executed') /\ counter' = counter + 1
    BY <1>1, <1>2, FS_AddElement DEF Chained, counter
<1> QED
    BY <1>1, <1>2, <1>3 DEF Seen, Chained, Once, stored

LEMMA RetractLoses ==
    ASSUME Chained, NEW x \in executed, Retract(x)
    PROVE  /\ stored' = stored \ {x.item} /\ x.item \in stored
           /\ Seen' = Seen /\ Chained' /\ counter' = counter - 1
<1>1. executed' = executed \ {x} /\ lost' = lost \cup {x.item} /\ x.item \in stored
    BY DEF Retract, stored
<1>2. stored' = stored \ {x.item}
    BY <1>1 DEF stored, Once, Chained
<1>3. IsFiniteSet(executed') /\ counter' = counter - 1
    BY <1>1, FS_RemoveElement DEF Chained, counter
<1> QED
    BY <1>1, <1>2, <1>3 DEF Seen, Chained, Once

\* Every call that is between its check and its end was overtaken.
LEMMA IncludePreserves ==
    ASSUME Inv, NEW x \in flight, Include(x) PROVE Inv'
<1>1. setup \in [Service -> Setup]
    BY DEF Inv, Types
<1>2. \A t \in Service :
          /\ setup'[t].pc = setup[t].pc /\ setup'[t].attempt = setup[t].attempt
          /\ setup'[t].item = setup[t].item /\ setup'[t].nonce = setup[t].nonce
          /\ setup'[t].returned = setup[t].returned /\ setup'[t].refused = setup[t].refused
          /\ setup'[t].blind = setup[t].blind
          /\ setup'[t].inBlock <=> setup[t].inBlock \/ Awaits(t, x)
          /\ setup'[t].overtaken <=> setup[t].overtaken \/ (Creating(t) /\ ~Awaits(t, x))
    BY <1>1 DEF Setup, Include
<1>3. executed' = executed \cup {x} /\ flight' = flight \ {x}
      /\ Seen' = Seen \cup {x.item} /\ stored' = stored \cup {x.item}
      /\ lost' = lost \ {x.item} /\ Chained'
    BY IncludeStores DEF Include, Inv
<1>4. Past'
    BY <1>2, <1>3 DEF Inv, Past, Types, Sendable
<1>5. Based'
    BY <1>2, <1>3 DEF Inv, Based, BaseWasStored
<1>6. ASSUME NEW t \in Service PROVE (Sent(t) /\ Fresh(t) /\ Refusals(t))'
    <2>1. Own(t)' = Own(t) \ {x} /\ Mine(t)' = Mine(t)
        BY <1>2, <1>3 DEF Own, Mine
    <2>2. Refusals(t)'
        BY <1>2, <1>6 DEF Inv, Refusals
    <2>3. Fresh(t)'
        BY <1>2, <1>6 DEF Fresh, Creating
    <2> DEFINE Kept == /\ setup[t].pc \notin {"done", "threw"} => setup[t].returned = Told(setup[t].item)
                       /\ \A y \in Mine(t)' :
                             \/ y.item \in setup[t].returned
                             \/ setup[t].pc = "wait" /\ y.item = setup[t].item
                                    /\ y.nonce = setup[t].nonce
                             \/ setup[t].pc = "threw"
    <2>0. Kept
        BY <2>1 DEF Inv, Sent
    <2>4. CASE Awaits(t, x)
        <3>1. setup'[t].inBlock /\ setup'[t].pc = "wait" /\ setup'[t].item \in Seen'
            BY <1>2, <1>3, <2>4 DEF Awaits
        <3> QED
            BY <1>2, <2>0, <2>2, <2>3, <3>1 DEF Sent
    <2>5. CASE ~Awaits(t, x)
        <3>1. setup[t].pc = "wait" => Own(t)' = Own(t)
            BY <2>1, <2>5, AwaitsItsOwn
        <3> QED
            BY <1>2, <1>3, <2>0, <2>2, <2>3, <2>5, <3>1 DEF Inv, Sent
    <2> QED
        BY <2>2, <2>3, <2>4, <2>5
<1>7. Types'
    <2>1. \A t \in Service : setup'[t] \in Setup
        BY <1>1 DEF Setup, Include
    <2>2. setup' \in [Service -> Setup]
        BY <2>1 DEF Include
    <2>3. executed' \in SUBSET Sendable /\ flight' \in SUBSET Sendable /\ lost' \in SUBSET Item
        BY <1>3 DEF Inv, Types, Sendable
    <2>4. counter' \in Nat
        BY <1>3, FS_CardinalityType DEF Chained, counter
    <2> QED
        BY <2>2, <2>3, <2>4 DEF Types
<1> QED
    BY <1>3, <1>4, <1>5, <1>6, <1>7 DEF Inv

LEMMA RetractPreserves ==
    ASSUME Inv, NEW x \in executed, Retract(x) PROVE Inv'
<1>1. setup \in [Service -> Setup]
    BY DEF Inv, Types
<1>2. \A t \in Service :
          /\ setup'[t].pc = setup[t].pc /\ setup'[t].attempt = setup[t].attempt
          /\ setup'[t].item = setup[t].item /\ setup'[t].nonce = setup[t].nonce
          /\ setup'[t].returned = setup[t].returned /\ setup'[t].refused = setup[t].refused
          /\ setup'[t].blind = setup[t].blind /\ setup'[t].inBlock = setup[t].inBlock
          /\ setup'[t].overtaken <=> setup[t].overtaken \/ Creating(t)
    BY <1>1 DEF Setup, Retract
<1>3. executed' = executed \ {x} /\ flight' = flight \cup {x}
      /\ Seen' = Seen /\ stored' = stored \ {x.item} /\ x.item \in stored
      /\ lost' = lost \cup {x.item} /\ Chained'
    BY RetractLoses DEF Retract, Inv
<1>4. Past'
    BY <1>2, <1>3 DEF Inv, Past, Types, Sendable
<1>5. Based'
    BY <1>2, <1>3 DEF Inv, Based, BaseWasStored
<1>6. ASSUME NEW t \in Service PROVE (Sent(t) /\ Fresh(t) /\ Refusals(t))'
    <2>1. Own(t) \subseteq Own(t)' /\ Mine(t)' = Mine(t)
        BY <1>2, <1>3 DEF Own, Mine
    <2>2. Refusals(t)'
        BY <1>2, <1>6 DEF Inv, Refusals
    <2>3. Fresh(t)'
        BY <1>2, <1>6 DEF Fresh, Creating
    <2>4. Sent(t)'
        BY <1>2, <1>3, <2>1 DEF Inv, Sent
    <2> QED
        BY <2>2, <2>3, <2>4
<1>7. Types'
    <2>1. \A t \in Service : setup'[t] \in Setup
        BY <1>1 DEF Setup, Retract
    <2>2. setup' \in [Service -> Setup]
        BY <2>1 DEF Retract
    <2>3. executed' \in SUBSET Sendable /\ flight' \in SUBSET Sendable /\ lost' \in SUBSET Item
        BY <1>3 DEF Inv, Types, Sendable
    <2>4. counter' \in Nat
        BY <1>3, FS_CardinalityType DEF Chained, counter
    <2> QED
        BY <2>2, <2>3, <2>4 DEF Types
<1> QED
    BY <1>3, <1>4, <1>5, <1>6, <1>7 DEF Inv

\* A fresh call is not refused: its nonce is the next, and its item is not there.
LEMMA RefusePreserves ==
    ASSUME Inv, NEW x \in flight, RefuseExtrinsic(x) PROVE Inv'
<1>1. setup \in [Service -> Setup]
    BY DEF Inv, Types
<1>2. setup' \in [Service -> Setup]
    BY <1>1, ZenonT(40) DEF Setup, RefuseExtrinsic
<1>3. \A t \in Service :
          /\ setup'[t].attempt = setup[t].attempt /\ setup'[t].item = setup[t].item
          /\ setup'[t].returned = setup[t].returned /\ setup'[t].inBlock = setup[t].inBlock
          /\ ~(Awaits(t, x) /\ ~setup[t].inBlock) => setup'[t] = setup[t]
          /\ Awaits(t, x) /\ ~setup[t].inBlock => setup'[t].pc = "threw"
          /\ setup'[t].blind = setup[t].blind /\ setup'[t].overtaken = setup[t].overtaken
    BY <1>1 DEF Setup, RefuseExtrinsic
<1>4. UNCHANGED <<executed, lost>> /\ flight' = flight \ {x}
      /\ UNCHANGED <<stored, counter>> /\ Seen' = Seen
    BY ChainStays DEF RefuseExtrinsic
<1>5. Types' /\ Chained'
    BY <1>2, <1>4 DEF Inv, Types, Chained, Once
<1>6. Past'
    BY <1>3, <1>4 DEF Inv, Past, Types, Sendable
<1>7. Based'
    BY <1>3, <1>4 DEF Inv, Based, BaseWasStored
<1>8. ASSUME NEW t \in Service PROVE (Sent(t) /\ Fresh(t) /\ Refusals(t))'
    <2>1. Own(t)' = Own(t) \ {x} /\ Mine(t)' \subseteq Mine(t)
        BY <1>3, <1>4 DEF Own, Mine
    <2>2. CASE Awaits(t, x) /\ ~setup[t].inBlock
        <3>1. setup[t].pc = "wait" /\ x.item = setup[t].item /\ x.nonce = setup[t].nonce
            BY <2>2, AwaitsItsOwn DEF Awaits
        <3>2. x.nonce # counter + 1 \/ x.item \in stored
            BY DEF RefuseExtrinsic, Accepts
        <3>3. setup[t].blind \/ setup[t].overtaken
            BY <2>2, <3>1, <3>2 DEF Inv, Fresh, Creating
        <3>4. setup'[t].pc = "threw" /\ ~setup'[t].inBlock
              /\ (setup'[t].blind \/ setup'[t].overtaken)
            BY <1>3, <2>2, <3>3
        <3> QED
            BY <3>4 DEF Sent, Fresh, Refusals, Creating
    <2>3. CASE ~(Awaits(t, x) /\ ~setup[t].inBlock)
        <3>1. setup'[t] = setup[t]
            BY <1>3, <2>3
        <3>2. setup[t].pc = "wait" /\ ~setup[t].inBlock => Own(t)' = Own(t)
            BY <2>1, <2>3, AwaitsItsOwn
        <3>3. Sent(t)'
            BY <1>4, <2>1, <3>1, <3>2 DEF Inv, Sent
        <3>4. Fresh(t)' /\ Refusals(t)'
            BY <1>4, <3>1 DEF Inv, Fresh, Refusals, Creating
        <3> QED
            BY <3>3, <3>4
    <2> QED
        BY <2>2, <2>3
<1> QED
    BY <1>5, <1>6, <1>7, <1>8 DEF Inv

-----------------------------------------------------------------------------
(* The theorems.                                                           *)

LEMMA InitInv == SetupInit => Inv
<1> SUFFICES ASSUME SetupInit PROVE Inv
    OBVIOUS
<1>1. executed = {} /\ lost = {} /\ flight = {} /\ setup = [s \in Service |-> Start("check", 0)]
    BY DEF SetupInit
<1>2. Start("check", 0) \in Setup
      /\ Start("check", 0).item = <<"schema", "none">> /\ Start("check", 0).returned = {}
      /\ Start("check", 0).pc = "check" /\ ~Start("check", 0).refused /\ ~Start("check", 0).inBlock
    BY StartIs
<1>3. stored = {} /\ counter = 0 /\ Chained
    BY <1>1, FS_EmptySet DEF stored, counter, Chained, Once
<1>4. Types
    BY <1>1, <1>2, <1>3 DEF Types
<1>5. Past /\ Based
    BY <1>1, <1>2, <1>3, Bases DEF Past, Based, BaseWasStored
<1>6. \A s \in Service : Sent(s) /\ Fresh(s) /\ Refusals(s)
    BY <1>1, <1>2, Bases DEF Sent, Fresh, Refusals, Mine, Creating
<1> QED
    BY <1>3, <1>4, <1>5, <1>6 DEF Inv

LEMMA NextInv == Inv /\ [SetupNext]_setupVars => Inv'
<1> SUFFICES ASSUME Inv, [SetupNext]_setupVars PROVE Inv'
    OBVIOUS
<1>1. CASE UNCHANGED setupVars
    <2>1. UNCHANGED <<executed, lost, flight, setup, stored, counter>> /\ Seen' = Seen
        BY <1>1, ChainStays DEF setupVars
    <2>2. \A s \in Service : Own(s)' = Own(s) /\ Mine(s)' = Mine(s)
        BY <2>1 DEF Own, Mine
    <2> QED
        BY <2>1, <2>2 DEF Inv, Types, Chained, Once, Past, Based, BaseWasStored,
                          Sent, Fresh, Refusals, Creating
<1>2. ASSUME NEW s \in Service, SetupStep(s) \/ Resolves(s) PROVE Inv'
    BY <1>2, CheckPreserves, CheckFailsPreserves, AuthorizePreserves, SubmitPreserves,
       GiveUpPreserves, RestartPreserves, ResolvesPreserves DEF SetupStep
<1>3. ASSUME NEW x \in flight, Include(x) \/ RefuseExtrinsic(x) PROVE Inv'
    BY <1>3, IncludePreserves, RefusePreserves
<1>4. ASSUME NEW x \in executed, Retract(x) PROVE Inv'
    BY <1>4, RetractPreserves
<1> QED
    BY <1>1, <1>2, <1>3, <1>4 DEF SetupNext

THEOREM Invariance == SetupSpec => []Inv
BY InitInv, NextInv, PTL DEF SetupSpec

\* A creation is refused only after a failed check, behind another extrinsic of the
\* DID or after a retraction: a single service whose queries succeed is never refused
\* on a chain without forks.
THEOREM CreationRefusedForCause == SetupSpec => []RefusedForCause
<1>1. Inv => RefusedForCause
    BY DEF Inv, Refusals, RefusedForCause
<1> QED
    BY <1>1, Invariance, PTL

-----------------------------------------------------------------------------
(* The refinement: items are provisioned in order.                         *)

\* A service was told of what its present item refers to.
Ordered == \A s \in Service : Base(setup[s].item) \subseteq setup[s].returned

\* The chain and what the services know, as Provisioning sees a step.
LEMMA Stutter ==
    ASSUME UNCHANGED <<executed, lost>>, \A s \in Service : setup'[s].returned = setup[s].returned
    PROVE  UNCHANGED Promise!vars
<1>1. knownOf' = knownOf
    BY DEF knownOf
<1> QED
    BY <1>1, ChainStays DEF Promise!vars

LEMMA KnownOfOne ==
    ASSUME NEW s \in Service, NEW K, setup'[s].returned = K,
           \A t \in Service : t # s => setup'[t].returned = setup[t].returned
    PROVE  knownOf' = [knownOf EXCEPT ![s] = K]
<1>1. knownOf \in [Service -> {setup[t].returned : t \in Service}]
    BY DEF knownOf
<1>2. \A t \in Service : knownOf'[t] = setup'[t].returned /\ knownOf[t] = setup[t].returned
    BY DEF knownOf
<1>3. knownOf' = [t \in Service |-> knownOf'[t]]
    BY DEF knownOf
<1>4. [knownOf EXCEPT ![s] = K] = [t \in Service |-> IF t = s THEN K ELSE knownOf[t]]
    BY DEF knownOf
<1>5. \A t \in Service : knownOf'[t] = IF t = s THEN K ELSE knownOf[t]
    BY <1>2
<1> QED
    BY <1>3, <1>4, <1>5

\* A service that goes on was told of its item, and the next refers to that one.
LEMMA ReturnedTells ==
    ASSUME Inv, Ordered, NEW s \in Service, setup[s].item \in Seen, Returned(s),
           UNCHANGED <<executed, lost>>
    PROVE  Promise!Tell(s, setup[s].item) /\ Ordered'
<1> DEFINE item == setup[s].item
           known == setup[s].returned \cup {setup[s].item}
<1>1. item \in Item /\ setup \in [Service -> Setup]
    BY DEF Inv, Types, Setup
<1>2. ASSUME NEW pc, NEW next, Base(next) \subseteq known, GoesOn(s, pc, next)
      PROVE  Promise!Tell(s, item) /\ Ordered'
    <2> DEFINE r == [pc |-> pc, attempt |-> setup[s].attempt, item |-> next, nonce |-> 0,
                     returned |-> known, inBlock |-> FALSE,
                     blind |-> FALSE, overtaken |-> FALSE, refused |-> setup[s].refused]
    <2>1. setup' = [setup EXCEPT ![s] = r] /\ r.item = next /\ r.returned = known
        BY <1>2 DEF GoesOn
    <2> HIDE DEF r
    <2>2. setup'[s] = r /\ \A t \in Service : t # s => setup'[t] = setup[t]
        BY <1>1, <2>1
    <2>3. knownOf' = [knownOf EXCEPT ![s] = known]
        BY <2>1, <2>2, KnownOfOne
    <2>4. knownOf[s] = setup[s].returned
        BY DEF knownOf
    <2>5. Promise!Tell(s, item)
        BY <1>1, <2>3, <2>4, ChainStays DEF Promise!Tell, Ordered, Seen
    <2>6. Ordered'
        BY <1>2, <2>1, <2>2 DEF Ordered
    <2> QED
        BY <2>5, <2>6
<1>3. CASE item = <<"schema", "none">>
    <2>1. item[1] = "schema" /\ item[1] # "registry" /\ item[1] # "authorization"
        BY <1>3
    <2>2. PICK t \in Title : GoesOn(s, "check", <<"registry", t>>)
        BY <2>1 DEF Returned
    <2>3. Base(<<"registry", t>>) \subseteq known
        BY <1>3, Bases
    <2> QED
        BY <1>2, <2>2, <2>3
<1>4. ASSUME NEW t \in Title, item = <<"registry", t>> PROVE Promise!Tell(s, item) /\ Ordered'
    <2>1. GoesOn(s, "check", <<"authorization", t>>)
        BY <1>4 DEF Returned
    <2>2. Base(<<"authorization", t>>) \subseteq known
        BY <1>4, Bases
    <2> QED
        BY <1>2, <2>1, <2>2
<1>5. ASSUME NEW t \in Title, item = <<"authorization", t>>
      PROVE  Promise!Tell(s, item) /\ Ordered'
    <2>1. GoesOn(s, "done", item)
        BY <1>5 DEF Returned
    <2>2. Base(item) \subseteq known
        BY DEF Ordered
    <2> QED
        BY <1>2, <2>1, <2>2
<1> QED
    BY <1>1, <1>3, <1>4, <1>5, Items

\* Other steps of a service leave what it ensures and knows, but for a restart.
LEMMA OtherSteps ==
    ASSUME Inv, Ordered, NEW s \in Service,
           \/ Check(s) /\ setup[s].item \notin stored
           \/ CheckFails(s) \/ Authorize(s) \/ Submit(s)
    PROVE  UNCHANGED Promise!vars /\ Ordered'
<1>1. setup \in [Service -> Setup] /\ counter + 1 \in Nat
    BY DEF Inv, Types, Setup
<1>2. UNCHANGED <<executed, lost>>
      /\ \A t \in Service : setup'[t].returned = setup[t].returned /\ setup'[t].item = setup[t].item
    BY <1>1 DEF Setup, Check, CheckFails, Authorize, Submit
<1> QED
    BY <1>2, Stutter DEF Ordered

\* A service whose call throws, or that is started again, has forgotten.
LEMMA StartForgets ==
    ASSUME Inv, Ordered, NEW s \in Service, GiveUp(s) \/ Restart(s)
    PROVE  Promise!Forget(s) /\ Ordered'
<1>1. setup \in [Service -> Setup] /\ setup[s].attempt \in Nat /\ setup[s].attempt + 1 \in Nat
      /\ UNCHANGED <<executed, lost>>
    BY DEF Inv, Types, Setup, GiveUp, Restart
<1>2. PICK r : /\ setup' = [setup EXCEPT ![s] = r]
               /\ r.item = <<"schema", "none">> /\ r.returned = {}
    BY <1>1, StartIs DEF GiveUp, Restart
<1>3. setup'[s] = r /\ \A t \in Service : t # s => setup'[t] = setup[t]
    BY <1>1, <1>2
<1>4. knownOf' = [knownOf EXCEPT ![s] = {}]
    BY <1>2, <1>3, KnownOfOne
<1>5. Ordered'
    BY <1>2, <1>3, Bases DEF Ordered
<1> QED
    BY <1>1, <1>4, <1>5, ChainStays DEF Promise!Forget

\* Steps of the chain tell nobody anything.
LEMMA KnownStays ==
    ASSUME Inv, Ordered, NEW x,
           Include(x) \/ Retract(x) \/ RefuseExtrinsic(x)
    PROVE  knownOf' = knownOf /\ Ordered'
           /\ \A s \in Service : setup'[s].returned = setup[s].returned
<1>1. setup \in [Service -> Setup]
    BY DEF Inv, Types
<1>2. \A t \in Service : setup'[t].returned = setup[t].returned /\ setup'[t].item = setup[t].item
    <2>1. CASE Include(x)
        BY <1>1, <2>1 DEF Include, Setup
    <2>2. CASE Retract(x)
        BY <1>1, <2>2 DEF Retract, Setup
    <2>3. CASE RefuseExtrinsic(x)
        BY <1>1, <2>3 DEF RefuseExtrinsic, Setup
    <2> QED
        BY <2>1, <2>2, <2>3
<1> QED
    BY <1>2 DEF knownOf, Ordered

\* An item that is created is new, and what it refers to is or was there.
LEMMA IncludeCreates ==
    ASSUME Inv, Ordered, NEW x \in flight, Include(x)
    PROVE  Promise!Create(x.item) /\ x.item \in Item /\ Ordered'
<1>1. x.item \in Item /\ Base(x.item) \subseteq stored \cup lost
    BY DEF Inv, Types, Sendable, Based, Seen
<1>2. stored' = stored \cup {x.item} /\ x.item \notin stored /\ lost' = lost \ {x.item}
    BY IncludeStores DEF Include, Inv
<1> QED
    BY <1>1, <1>2, KnownStays DEF Promise!Create

LEMMA RetractTakesAway ==
    ASSUME Inv, Ordered, NEW x \in executed, Retract(x)
    PROVE  Promise!Lose(x.item) /\ x.item \in Item /\ Ordered'
<1>1. x.item \in Item
    BY DEF Inv, Types, Sendable
<1>2. stored' = stored \ {x.item} /\ x.item \in stored /\ lost' = lost \cup {x.item}
    BY RetractLoses DEF Retract, Inv
<1> QED
    BY <1>1, <1>2, KnownStays DEF Promise!Lose

LEMMA RefuseStutters ==
    ASSUME Inv, Ordered, NEW x \in flight, RefuseExtrinsic(x)
    PROVE  UNCHANGED Promise!vars /\ Ordered'
<1>1. UNCHANGED <<executed, lost>>
    BY DEF RefuseExtrinsic
<1> QED
    BY <1>1, KnownStays, Stutter

LEMMA InitProvisions == SetupInit => Promise!Init /\ Ordered
<1> SUFFICES ASSUME SetupInit PROVE Promise!Init /\ Ordered
    OBVIOUS
<1>1. \A s \in Service : setup[s].item = <<"schema", "none">> /\ setup[s].returned = {}
    BY DEF SetupInit, Start
<1>2. knownOf = [s \in Service |-> {}]
    BY <1>1 DEF knownOf
<1>3. stored = {} /\ lost = {}
    BY DEF SetupInit, stored
<1> QED
    BY <1>1, <1>2, <1>3, Bases DEF Promise!Init, Ordered

LEMMA NextProvisions ==
    Inv /\ Ordered /\ [SetupNext]_setupVars => [Promise!Next]_(Promise!vars) /\ Ordered'
<1> SUFFICES ASSUME Inv, Ordered, [SetupNext]_setupVars
             PROVE  [Promise!Next]_(Promise!vars) /\ Ordered'
    OBVIOUS
<1>1. CASE UNCHANGED setupVars
    <2>1. UNCHANGED <<executed, lost, setup>>
        BY <1>1 DEF setupVars
    <2> QED
        BY <2>1, Stutter DEF Ordered
<1>2. ASSUME NEW s \in Service, setup[s].item \in Seen, Returned(s), UNCHANGED <<executed, lost>>
      PROVE  [Promise!Next]_(Promise!vars) /\ Ordered'
    <2>1. setup[s].item \in Item
        BY DEF Inv, Types, Setup
    <2> QED
        BY <1>2, <2>1, ReturnedTells DEF Promise!Next
<1>3. ASSUME NEW s \in Service, SetupStep(s) PROVE [Promise!Next]_(Promise!vars) /\ Ordered'
    <2>1. CASE Check(s) /\ setup[s].item \in stored
        BY <1>2, <2>1 DEF Check, Seen
    <2>2. CASE Restart(s) \/ GiveUp(s)
        BY <2>2, StartForgets DEF Promise!Next
    <2>3. CASE Check(s) /\ setup[s].item \notin stored
        BY <2>3, OtherSteps
    <2>4. CASE CheckFails(s) \/ Authorize(s) \/ Submit(s)
        BY <2>4, OtherSteps
    <2> QED
        BY <1>3, <2>1, <2>2, <2>3, <2>4 DEF SetupStep
<1>4. ASSUME NEW s \in Service, Resolves(s) PROVE [Promise!Next]_(Promise!vars) /\ Ordered'
    <2>1. setup[s].item \in Seen
        BY <1>4 DEF Resolves, Inv, Sent
    <2> QED
        BY <1>2, <1>4, <2>1 DEF Resolves
<1>5. ASSUME NEW x \in flight, Include(x) \/ RefuseExtrinsic(x)
      PROVE  [Promise!Next]_(Promise!vars) /\ Ordered'
    BY <1>5, IncludeCreates, RefuseStutters DEF Promise!Next
<1>6. ASSUME NEW x \in executed, Retract(x) PROVE [Promise!Next]_(Promise!vars) /\ Ordered'
    BY <1>6, RetractTakesAway DEF Promise!Next
<1> QED
    BY <1>1, <1>3, <1>4, <1>5, <1>6 DEF SetupNext

\* Any number of services that run the setup, fail, race and start again, whatever
\* blocks are retracted, implement the provisioning of items in order: none comes on
\* chain twice or before what it refers to was there, and no service is told of an
\* item before it was there.
THEOREM SetupProvisions == SetupSpec => ProvisionsInOrder
BY InitProvisions, NextProvisions, Invariance, PTL
   DEF SetupSpec, ProvisionsInOrder, Promise!Spec

-----------------------------------------------------------------------------
(* The types with their bounds: the counter counts the stored items.       *)

MaxCount == Cardinality(Item)

LEMMA ItemsAreFinite == IsFiniteSet(Item) /\ MaxCount \in Nat
<1> DEFINE Kind == {"schema", "registry", "authorization"}
           Name == Title \cup {"none"}
<1>1. IsFiniteSet(Kind)
    <2>1. IsFiniteSet({"schema"})
        BY FS_Singleton
    <2>2. IsFiniteSet({"schema"} \cup {"registry"})
        BY <2>1, FS_AddElement
    <2>3. IsFiniteSet(({"schema"} \cup {"registry"}) \cup {"authorization"})
        BY <2>2, FS_AddElement
    <2>4. ({"schema"} \cup {"registry"}) \cup {"authorization"} = Kind
        OBVIOUS
    <2> QED
        BY <2>3, <2>4
<1>2. IsFiniteSet(Name)
    BY SetupAssumption, FS_AddElement
<1>3. IsFiniteSet(Kind \X Name)
    BY <1>1, <1>2, FS_Product
<1>4. Item \in SUBSET (Kind \X Name)
    BY DEF Item
<1> HIDE DEF Kind, Name
<1> QED
    BY <1>3, <1>4, FS_Subset, FS_CardinalityType DEF MaxCount

\* Every extrinsic that is executed stores one item, and takes one nonce.
Counted ==
    /\ IsFiniteSet(stored)
    /\ counter = Cardinality(stored)

\* A nonce is at most the next of the counter, and a call that sends has one.
Bounded ==
    /\ counter \in 0 .. MaxCount
    /\ faults \in 0 .. MaxFaults
    /\ \A x \in flight \cup executed :
          x.nonce \in 1 .. MaxCount + 1 /\ x.attempt \in 0 .. MaxRestarts
    /\ \A s \in Service :
          /\ setup[s].attempt \in 0 .. MaxRestarts
          /\ setup[s].nonce \in 0 .. MaxCount + 1
          /\ setup[s].pc = "submit" => setup[s].nonce # 0

BoundsInv == Counted /\ Bounded

LEMMA BoundIsConstant == MaxCount' = MaxCount /\ MaxCount \in Nat
BY ItemsAreFinite DEF MaxCount, Item

\* Only the record of one service changes, within its bounds.
LEMMA OneService ==
    ASSUME Inv, BoundsInv, NEW s \in Service,
           UNCHANGED <<executed, lost, flight>>, faults' \in 0 .. MaxFaults,
           \A t \in Service : t # s => setup'[t] = setup[t],
           setup'[s].attempt \in 0 .. MaxRestarts, setup'[s].nonce \in 0 .. MaxCount + 1,
           setup'[s].pc = "submit" => setup'[s].nonce # 0
    PROVE  BoundsInv'
<1>1. Counted'
    BY ChainStays DEF BoundsInv, Counted
<1>2. Bounded'
    BY ChainStays, BoundIsConstant DEF BoundsInv, Bounded
<1> QED
    BY <1>1, <1>2 DEF BoundsInv

LEMMA ReturnedBounds ==
    ASSUME Inv, BoundsInv, NEW s \in Service, Returned(s),
           UNCHANGED <<executed, lost, flight, faults>>
    PROVE  BoundsInv'
<1>1. setup \in [Service -> Setup]
    BY DEF Inv, Types
<1>2. PICK pc \in {"check", "done"} : \E item : GoesOn(s, pc, item)
    BY DEF Returned
<1>3. PICK item : GoesOn(s, pc, item)
    BY <1>2
<1>4. setup'[s].attempt = setup[s].attempt /\ setup'[s].nonce = 0 /\ setup'[s].pc = pc
      /\ \A t \in Service : t # s => setup'[t] = setup[t]
    BY <1>1, <1>3 DEF GoesOn
<1> QED
    BY <1>2, <1>4, BoundIsConstant, OneService DEF BoundsInv, Bounded

LEMMA ServiceBounds ==
    ASSUME Inv, BoundsInv, NEW s \in Service,
           \/ Check(s) /\ setup[s].item \notin stored
           \/ CheckFails(s) \/ Authorize(s) \/ GiveUp(s) \/ Restart(s)
    PROVE  BoundsInv'
<1>1. setup \in [Service -> Setup] /\ counter \in 0 .. MaxCount /\ faults \in 0 .. MaxFaults
      /\ setup[s].attempt \in 0 .. MaxRestarts /\ setup[s].nonce \in 0 .. MaxCount + 1
      /\ MaxCount \in Nat
    BY BoundIsConstant DEF BoundsInv, Inv, Types, Bounded
<1>2. CASE GiveUp(s) \/ Restart(s)
    <2>1. ASSUME NEW pc \in {"check", "threw"}, NEW n \in 0 .. MaxRestarts,
                 setup' = [setup EXCEPT ![s] = Start(pc, n)]
          PROVE  BoundsInv'
        <3>1. n \in Nat
            BY SetupAssumption
        <3>2. setup'[s] = Start(pc, n) /\ \A t \in Service : t # s => setup'[t] = setup[t]
            BY <1>1, <2>1
        <3>3. faults' \in 0 .. MaxFaults /\ UNCHANGED <<executed, lost, flight>>
            BY <1>1, <1>2, SetupAssumption DEF GiveUp, Restart, Fault
        <3>4. setup'[s].attempt = n /\ setup'[s].nonce = 0 /\ setup'[s].pc # "submit"
            BY <3>1, <3>2, StartIs
        <3> QED
            BY <1>1, <3>2, <3>3, <3>4, OneService
    <2>2. CASE GiveUp(s)
        BY <1>1, <2>1, <2>2 DEF GiveUp
    <2>3. CASE Restart(s)
        <3>1. setup[s].attempt + 1 \in 0 .. MaxRestarts
            BY <1>1, <2>3, SetupAssumption DEF Restart
        <3>2. setup' = [setup EXCEPT ![s] = Start("check", setup[s].attempt + 1)]
            BY <2>3 DEF Restart
        <3> QED
            BY <2>1, <3>1, <3>2
    <2> QED
        BY <1>2, <2>2, <2>3
<1>3. CASE ~(GiveUp(s) \/ Restart(s))
    <2>1. /\ UNCHANGED <<executed, lost, flight>>
          /\ faults' \in 0 .. MaxFaults
          /\ \A t \in Service : t # s => setup'[t] = setup[t]
          /\ setup'[s].attempt = setup[s].attempt
        BY <1>1, <1>3, SetupAssumption DEF Setup, Check, CheckFails, Authorize, Fault
    <2>2. /\ setup'[s].nonce \in {setup[s].nonce, counter + 1}
          /\ setup'[s].pc = "submit" => setup'[s].nonce = counter + 1
        BY <1>1, <1>3 DEF Setup, Check, CheckFails, Authorize
    <2> QED
        BY <1>1, <2>1, <2>2, OneService
<1> QED
    BY <1>2, <1>3

LEMMA SubmitBounds ==
    ASSUME Inv, BoundsInv, NEW s \in Service, Submit(s)
    PROVE  BoundsInv'
<1> DEFINE x == [item |-> setup[s].item, nonce |-> setup[s].nonce,
                 by |-> s, attempt |-> setup[s].attempt]
<1>1. setup \in [Service -> Setup] /\ setup[s].pc = "submit" /\ MaxCount \in Nat
    BY BoundIsConstant DEF Inv, Types, Submit
<1>2. flight' = flight \cup {x} /\ x.nonce = setup[s].nonce /\ x.attempt = setup[s].attempt
      /\ UNCHANGED <<executed, lost, faults>>
    BY DEF Submit, Send
<1>3. \A t \in Service : /\ setup'[t].attempt = setup[t].attempt
                         /\ setup'[t].nonce = setup[t].nonce
                         /\ setup'[t].pc = IF t = s THEN "wait" ELSE setup[t].pc
    BY <1>1 DEF Submit, Setup
<1>4. x.nonce \in 1 .. MaxCount + 1 /\ x.attempt \in 0 .. MaxRestarts
    BY <1>1, <1>2 DEF BoundsInv, Bounded
<1> HIDE DEF x
<1>5. Counted'
    BY <1>2, ChainStays DEF BoundsInv, Counted
<1>6. Bounded'
    BY <1>1, <1>2, <1>3, <1>4, ChainStays, BoundIsConstant DEF BoundsInv, Bounded
<1> QED
    BY <1>5, <1>6 DEF BoundsInv

\* The steps of the chain leave the nonces of the calls.
LEMMA ChainBounds ==
    ASSUME Inv, BoundsInv, NEW x \in flight \cup executed,
           Include(x) \/ Retract(x) \/ RefuseExtrinsic(x)
    PROVE  /\ flight' \cup executed' \subseteq flight \cup executed
           /\ faults' \in 0 .. MaxFaults
           /\ \A t \in Service : /\ setup'[t].attempt = setup[t].attempt
                                 /\ setup'[t].nonce = setup[t].nonce
                                 /\ setup'[t].pc = "submit" => setup[t].pc = "submit"
<1>1. setup \in [Service -> Setup] /\ faults \in 0 .. MaxFaults
    BY DEF Inv, Types, BoundsInv, Bounded
<1> QED
    <2>1. CASE Include(x)
        BY <1>1, <2>1 DEF Include, Setup
    <2>2. CASE Retract(x)
        BY <1>1, <2>2, SetupAssumption DEF Retract, Setup, Fault
    <2>3. CASE RefuseExtrinsic(x)
        BY <1>1, <2>3 DEF RefuseExtrinsic, Setup
    <2> QED
        BY <2>1, <2>2, <2>3

LEMMA ChainBounded ==
    ASSUME Inv, BoundsInv, NEW x \in flight \cup executed,
           Include(x) \/ Retract(x) \/ RefuseExtrinsic(x), counter' \in 0 .. MaxCount
    PROVE  Bounded'
<1>1. \A y \in flight' \cup executed' :
          y.nonce \in 1 .. MaxCount + 1 /\ y.attempt \in 0 .. MaxRestarts
    BY ChainBounds DEF BoundsInv, Bounded
<1>2. \A t \in Service : /\ setup'[t].attempt \in 0 .. MaxRestarts
                         /\ setup'[t].nonce \in 0 .. MaxCount + 1
                         /\ setup'[t].pc = "submit" => setup'[t].nonce # 0
    <2>1. MaxCount \in Nat
        BY BoundIsConstant
    <2>2. \A t \in Service : /\ setup'[t].attempt = setup[t].attempt
                             /\ setup'[t].nonce = setup[t].nonce
                             /\ setup'[t].pc = "submit" => setup[t].pc = "submit"
        BY ChainBounds
    <2>3. ASSUME NEW t \in Service
          PROVE  /\ setup[t].attempt \in 0 .. MaxRestarts
                 /\ setup[t].nonce \in 0 .. MaxCount + 1
                 /\ setup[t].pc = "submit" => setup[t].nonce # 0
        BY DEF BoundsInv, Bounded
    <2> QED
        BY <2>1, <2>2, <2>3
<1>3. faults' \in 0 .. MaxFaults
    BY ChainBounds
<1> QED
    BY <1>1, <1>2, <1>3, BoundIsConstant DEF Bounded

\* An item that comes on chain is counted: it is not there yet.
LEMMA IncludeBounds ==
    ASSUME Inv, Inv', BoundsInv, NEW x \in flight, Include(x)
    PROVE  BoundsInv'
<1>1. stored' = stored \cup {x.item} /\ x.item \notin stored /\ counter' = counter + 1
    BY IncludeStores DEF Inv
<1>2. Counted'
    BY <1>1, FS_AddElement DEF BoundsInv, Counted
<1>3. counter' \in 0 .. MaxCount
    <2>1. stored' \subseteq Item /\ counter' \in Nat
        BY DEF Inv, Types, stored, Sendable
    <2>2. Cardinality(stored') <= MaxCount
        BY <2>1, ItemsAreFinite, FS_Subset DEF MaxCount
    <2> QED
        BY <1>2, <2>1, <2>2, BoundIsConstant DEF Counted
<1>4. Bounded'
    BY <1>3, ChainBounded
<1> QED
    BY <1>2, <1>4 DEF BoundsInv

LEMMA RetractBounds ==
    ASSUME Inv, Inv', BoundsInv, NEW x \in executed, Retract(x)
    PROVE  BoundsInv'
<1>1. stored' = stored \ {x.item} /\ x.item \in stored /\ counter' = counter - 1
    BY RetractLoses DEF Inv
<1>2. Counted'
    BY <1>1, FS_RemoveElement DEF BoundsInv, Counted
<1>3. counter' \in 0 .. MaxCount
    BY <1>1, BoundIsConstant DEF Inv, Types, BoundsInv, Bounded
<1>4. Bounded'
    BY <1>3, ChainBounded
<1> QED
    BY <1>2, <1>4 DEF BoundsInv

LEMMA RefuseBounds ==
    ASSUME Inv, BoundsInv, NEW x \in flight, RefuseExtrinsic(x)
    PROVE  BoundsInv'
<1>1. UNCHANGED <<stored, counter>>
    BY ChainStays DEF RefuseExtrinsic
<1>2. Counted' /\ counter' \in 0 .. MaxCount
    BY <1>1 DEF BoundsInv, Counted, Bounded
<1>3. Bounded'
    BY <1>2, ChainBounded
<1> QED
    BY <1>2, <1>3 DEF BoundsInv

LEMMA InitBounds == SetupInit => BoundsInv
<1> SUFFICES ASSUME SetupInit PROVE BoundsInv
    OBVIOUS
<1>1. executed = {} /\ flight = {} /\ faults = 0 /\ stored = {} /\ counter = 0
    BY FS_EmptySet DEF SetupInit, stored, counter
<1>2. Counted
    BY <1>1, FS_EmptySet DEF Counted
<1>3. \A s \in Service : setup[s].attempt = 0 /\ setup[s].nonce = 0 /\ setup[s].pc = "check"
    BY DEF SetupInit, Start
<1>4. Bounded
    BY <1>1, <1>3, BoundIsConstant, SetupAssumption DEF Bounded
<1> QED
    BY <1>2, <1>4 DEF BoundsInv

LEMMA NextBounds == BoundsInv /\ Inv /\ Inv' /\ [SetupNext]_setupVars => BoundsInv'
<1> SUFFICES ASSUME BoundsInv, Inv, Inv', [SetupNext]_setupVars PROVE BoundsInv'
    OBVIOUS
<1>1. CASE UNCHANGED setupVars
    <2>1. UNCHANGED <<executed, lost, flight, setup, faults>>
        BY <1>1 DEF setupVars
    <2> QED
        BY <2>1, ChainStays, BoundIsConstant DEF BoundsInv, Counted, Bounded
<1>2. ASSUME NEW s \in Service, SetupStep(s) PROVE BoundsInv'
    <2>1. CASE Check(s) /\ setup[s].item \in stored
        BY <2>1, ReturnedBounds DEF Check
    <2>2. CASE Submit(s)
        BY <2>2, SubmitBounds
    <2> QED
        BY <1>2, <2>1, <2>2, ServiceBounds DEF SetupStep
<1>3. ASSUME NEW s \in Service, Resolves(s) PROVE BoundsInv'
    BY <1>3, ReturnedBounds DEF Resolves
<1>4. ASSUME NEW x \in flight, Include(x) \/ RefuseExtrinsic(x) PROVE BoundsInv'
    BY <1>4, IncludeBounds, RefuseBounds
<1>5. ASSUME NEW x \in executed, Retract(x) PROVE BoundsInv'
    BY <1>5, RetractBounds
<1> QED
    BY <1>1, <1>2, <1>3, <1>4, <1>5 DEF SetupNext

LEMMA BoundsInvariance == SetupSpec => []BoundsInv
BY InitBounds, NextBounds, Invariance, PTL DEF SetupSpec

\* The state of every setup is of its type and within its bounds: as many nonces of
\* the DID are used as items are stored, so no nonce beyond the number of items and
\* one is ever signed.
THEOREM SetupTypeCorrect == SetupSpec => []SetupTypeOK
<1>1. Inv /\ BoundsInv => SetupTypeOK
    <2> SUFFICES ASSUME Inv, BoundsInv PROVE SetupTypeOK
        OBVIOUS
    <2> DEFINE R == [pc : {"check", "authorize", "submit", "wait", "done", "threw"},
                     attempt : 0 .. MaxRestarts, item : Item, nonce : 0 .. MaxNonce,
                     returned : SUBSET Item, inBlock : BOOLEAN,
                     blind : BOOLEAN, overtaken : BOOLEAN, refused : BOOLEAN]
    <2>1. MaxNonce = MaxCount + 1
        BY DEF MaxNonce, MaxCount
    <2>2. ASSUME NEW s \in Service PROVE setup[s] \in R
        <3>1. setup[s] \in Setup /\ setup[s].attempt \in 0 .. MaxRestarts
              /\ setup[s].nonce \in 0 .. MaxNonce
            BY <2>1 DEF BoundsInv, Inv, Types, Bounded
        <3> QED
            BY <3>1 DEF Setup
    <2>3. setup \in [Service -> R]
        BY <2>2 DEF Inv, Types
    <2>4. ASSUME NEW x \in flight \cup executed PROVE x \in Extrinsic
        <3>1. x \in [item : Item, nonce : Nat, by : Service, attempt : Nat]
            BY DEF Inv, Types, Sendable
        <3>2. x.nonce \in 1 .. MaxNonce /\ x.attempt \in 0 .. MaxRestarts
            BY <2>1 DEF BoundsInv, Bounded
        <3> QED
            BY <3>1, <3>2 DEF Extrinsic
    <2>5. counter <= Cardinality(Item) /\ faults \in 0 .. MaxFaults /\ lost \in SUBSET Item
        BY ItemsAreFinite DEF BoundsInv, Inv, Types, Bounded, MaxCount
    <2> QED
        BY <2>3, <2>4, <2>5 DEF SetupTypeOK
<1> QED
    BY <1>1, Invariance, BoundsInvariance, PTL
==============================================================================
