---------------------------- MODULE MCFrontDoor ----------------------------
(* Two payees on testnet, one misconfigured for mainnet; an honest request for
   each offer and the requests that differ from it in one place of the
   requirements and one of the PCZT. *)
EXTENDS FrontDoor, TLC

Shop == Address("shop", "testnet", "unified", {"sapling", "orchard"})
Deli == Address("deli", "testnet", "unified", {"sapling"})
Far  == Address("far", "mainnet", "unified", {"sapling", "orchard"})
Clear == Address("shop", "testnet", "transparent", {})
Torn  == Address("nobody", "testnet", "undecodable", {})

Entry(network, payTo, amount, delta) ==
    [scheme |-> "zcash", network |-> network, payTo |-> payTo, amount |-> amount,
     expiryDelta |-> delta]

MCRegistry == [shop |-> << Entry("testnet", Shop, 5, Missing) >>,
               deli |-> << Entry("testnet", Deli, 120, 0) >>,
               far  |-> << Entry("mainnet", Far, 7, Missing) >>]
MCPayments == << "p1" >>

(* The requirements of an honest request, and what may differ in them. *)
RequirementsOf(payment, offer) ==
    LET honest == PaymentRequirements("exact", offer.network, "ZEC", offer.amount, offer.to, payment)
    IN  {honest}
        \union {[honest EXCEPT !.amount = a] : a \in {0, 1, Missing, MaxZat + 1}}
        \union {[honest EXCEPT !.payTo = a] : a \in {Shop, Deli, Clear, Torn}}
        \union {[honest EXCEPT !.payment = p] : p \in {"none", "unparseable", "unissued"}}
        \union {[honest EXCEPT !.network = n] : n \in {"mainnet", "other"}}
        \union {[honest EXCEPT !.scheme = "upto"], [honest EXCEPT !.asset = "BTC"]}

(* The PCZT of the wallet, and what may differ in it. *)
PcztsOf(offer) ==
    LET honest == SignedPczt(offer.uri, offer.expiry)
        pay == honest.outputs[1]
        change == honest.outputs[2]
        With(outputs) == [honest EXCEPT !.outputs = outputs \o << change >>]
    IN  {honest}
        \union {With(<< o >>) : o \in {
                [pay EXCEPT !.value = 1], [pay EXCEPT !.value = Missing],
                [pay EXCEPT !.to = "payer"], [pay EXCEPT !.to = "omitted"],
                [pay EXCEPT !.to = "garbled"], [pay EXCEPT !.label = Deli],
                [pay EXCEPT !.label = NoAddress], [pay EXCEPT !.pool = "orchard"],
                [pay EXCEPT !.label = Deli, !.to = "deli"]}}
        \union {[honest EXCEPT !.outputs = << change, [pay EXCEPT !.pool = "transparent"] >>],
                With(<< [pay EXCEPT !.value = 1], [pay EXCEPT !.value = offer.amount - 1] >>),
                With(<< pay, [pay EXCEPT !.label = NoAddress] >>),
                [With(<< [pay EXCEPT !.value = U64Max], [pay EXCEPT !.value = offer.amount + 1] >>)
                     EXCEPT !.extractable = FALSE],
                [honest EXCEPT !.expiry = @ + 1], [honest EXCEPT !.parses = FALSE],
                [honest EXCEPT !.extractable = FALSE]}

MCFacilitatorInputs(payment, offer) ==
    LET req == BuildX402PcztFacilitatorRequest(offer.network, offer.to, offer.amount, payment,
                                               SignedPczt(offer.uri, offer.expiry))
    IN  {FacilitatorRequest(PaymentPayload(r, "pczt-v2-extractable", "base64url", p), r) :
            r \in RequirementsOf(payment, offer), p \in PcztsOf(offer)}
        \union {[req EXCEPT !.version = 1], [req EXCEPT !.payload.version = 1],
                [req EXCEPT !.payload.accepted.amount = 1],
                [req EXCEPT !.payload.format = "none"], [req EXCEPT !.payload.format = "raw"],
                [req EXCEPT !.payload.encoding = "missing"],
                [req EXCEPT !.payload.encoding = "base64"]}

(* A disclosure of some outputs of a transaction, and what may differ in it. *)
MCDisclosureInputs(offer, tx) ==
    LET disclosure(profile, selects) ==
            [codec |-> "decodes", profile |-> profile, tx |-> tx, selects |-> selects,
             proof |-> "genuine", message |-> "m"]
        query(profile, selects, amount) ==
            [messageIsHex |-> TRUE, payloadIsHex |-> TRUE, txid |-> tx, payTo |-> offer.to,
             amount |-> amount, message |-> "m", disclosure |-> disclosure(profile, selects)]
        honest == query("zally_ironwood", {1}, offer.amount)
    IN  {query(profile, selects, amount) :
            profile \in {"zip311_draft1", "zally_ironwood"},
            selects \in SUBSET (1 .. Len(tx.outputs)),
            amount \in {1, offer.amount, offer.amount + 1}}
        \union {[honest EXCEPT !.messageIsHex = FALSE], [honest EXCEPT !.payloadIsHex = FALSE],
                [honest EXCEPT !.message = "other"], [honest EXCEPT !.payTo = Deli],
                [honest EXCEPT !.payTo = Far], [honest EXCEPT !.txid.expiry = 99]}
        \union {[honest EXCEPT !.disclosure.codec = c] : c \in {"malformed", "profile_unsupported"}}
        \union {[honest EXCEPT !.disclosure.proof = p] :
                   p \in {"authority_invalid", "recovery_failed", "index_out_of_bounds"}}

MCSymmetry == Permutations(Proofs)
=============================================================================
