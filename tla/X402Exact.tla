----------------------------- MODULE X402Exact -----------------------------
(***************************************************************************)
(* What zpay computes from one facilitator request, without any state: the *)
(* zcash "exact" scheme of x402 (zpay-x402, zcash_exact.rs and the request *)
(* checks of lib.rs), the verification of the PCZT that carries the        *)
(* payment (zpay-core, settle.rs), and what /prepare hands to a wallet:    *)
(* registry entry, binding memo and ZIP-321 URI (accepts.rs, binding.rs,   *)
(* prepare.rs).  Texts that only get compared are values; an amount that   *)
(* does not parse is -1, and so is one that a PCZT leaves out.             *)
(***************************************************************************)
EXTENDS Refusals

CONSTANTS
    U64Max,      \* the largest u64
    MaxZat,      \* ZCASH_EXACT_MAX_ZAT
    ZecDigits    \* decimal places of a ZEC amount, eight in the code

ASSUME X402ExactAssumption ==
    /\ {U64Max, MaxZat} \subseteq Nat /\ MaxZat <= U64Max
    /\ ZecDigits \in Nat \ {0}

Networks == {"mainnet", "testnet", "regtest"}
Missing == -1

(* An address text: who can spend what is sent there, the network of its prefix,
   its kind and the receivers it bundles. *)
Address(owner, network, kind, receivers) ==
    [owner |-> owner, network |-> network, kind |-> kind, receivers |-> receivers]
NoAddress == Address("nobody", "none", "none", {})

(* A PCZT output: its pool, the user_address label, the bearer of the recipient
   bytes ("omitted" or "garbled" if there are none) and the value. *)
Output(pool, label, to, value) == [pool |-> pool, label |-> label, to |-> to, value |-> value]
ReceiverOf == [sapling |-> "sapling", orchard |-> "orchard", ironwood |-> "orchard"]

-----------------------------------------------------------------------------
(* Request checks *)

X402Version == 2

(* The wire shapes PaymentRequirements, PaymentPayload and FacilitatorRequest. *)
PaymentRequirements(scheme, network, asset, amount, payTo, payment) ==
    [scheme |-> scheme, network |-> network, asset |-> asset, amount |-> amount,
     payTo |-> payTo, payment |-> payment]
PaymentPayload(accepted, format, encoding, pczt) ==
    [version |-> X402Version, accepted |-> accepted, format |-> format,
     encoding |-> encoding, pczt |-> pczt]
FacilitatorRequest(payload, requirements) ==
    [version |-> X402Version, payload |-> payload, requirements |-> requirements]

(* has_zcash_exact_network *)
IsZcashExactRequest(req) ==
    req.requirements.scheme = "exact" /\ req.requirements.network \in Networks

(* is_valid_zat_amount *)
IsValidZatAmount(amount) == amount # Missing /\ amount > 0 /\ amount <= MaxZat

(* has_valid_recipient_prefix: shielded prefixes of the network, nothing decoded. *)
HasValidRecipientPrefix(network, payTo) ==
    payTo.network = network /\ payTo.kind \in {"unified", "sapling", "undecodable"}

(* requirements_invalid_reason *)
RequirementsRefusals(r) == <<
    Refusal(r.scheme # "exact", "zcash_exact_scheme_invalid"),
    Refusal(r.network \notin Networks, "zcash_exact_network_invalid"),
    Refusal(r.asset # "ZEC", "zcash_exact_asset_unsupported"),
    Refusal(~IsValidZatAmount(r.amount), "zcash_exact_amount_invalid"),
    Refusal(~HasValidRecipientPrefix(r.network, r.payTo), "zcash_exact_pay_to_invalid") >>

(* authorization_invalid_reason *)
AuthorizationRefusals(payload) == <<
    Refusal(payload.format = "none", "zcash_exact_authorization_malformed"),
    Refusal(payload.format # "pczt-v2-extractable",
            "zcash_exact_authorization_format_unsupported"),
    Refusal(payload.encoding # "base64url", "zcash_exact_authorization_malformed") >>

(* x402_request_invalid_reason; settlement_request asks the last two again. *)
RequestRefusals(req) == <<
    Refusal(req.version # X402Version \/ req.payload.version # X402Version,
            "x402_version_unsupported"),
    Refusal(req.payload.accepted # req.requirements, "payment_requirements_mismatch"),
    Refusal(~IsZcashExactRequest(req), "scheme_network_not_supported"),
    Refusal(req.requirements.payment = "unparseable", "zpay_payment_id_invalid") >>
    \o RequirementsRefusals(req.requirements) \o AuthorizationRefusals(req.payload)

X402RequestInvalidReason(req) == First(RequestRefusals(req))

(* supported_response: the one kind this deployment serves. *)
SupportedKinds(chainNetwork) ==
    {[version |-> X402Version, scheme |-> "exact", network |-> n] : n \in Networks \cap {chainNetwork}}

-----------------------------------------------------------------------------
(* PCZT verification *)

(* add_matched_amount_zat: checked_add *)
AddMatchedAmountZat(sum, value) ==
    IF sum + value > U64Max
    THEN [reason |-> "zcash_exact_amount_mismatch", sum |-> sum]
    ELSE [reason |-> "pass", sum |-> sum + value]

(* Receiver::corresponds: the recipient bytes are a receiver of the address. *)
Corresponds_ByLabel(output, payTo) == output.label = payTo
Corresponds(output, payTo) ==
    output.to = payTo.owner /\ ReceiverOf[output.pool] \in payTo.receivers

(* One labelled output of a shielded pool, or of the transparent one. *)
OutputRefusals(output, payTo) ==
    IF output.pool = "transparent"
    THEN << Refusal(TRUE, "zcash_exact_pczt_not_verifiable") >>
    ELSE << Refusal(output.label # payTo, "zcash_exact_pay_to_mismatch"),
            Refusal(output.to = "omitted", "zcash_exact_pczt_not_verifiable"),
            Refusal(output.value = Missing, "zcash_exact_amount_mismatch"),
            Refusal(output.to = "garbled", "zcash_exact_pczt_not_verifiable"),
            Refusal(~Corresponds(output, payTo), "zcash_exact_pay_to_mismatch") >>

(* A PCZT lists its outputs bundle by bundle, in the order of the pools; a value is a
   u64 or left out. *)
PoolOrder == [sapling |-> 1, orchard |-> 2, ironwood |-> 3, transparent |-> 4]
IsSequence(s) == s \in Seq({s[i] : i \in DOMAIN s})
IsPczt(pczt) ==
    /\ IsSequence(pczt.outputs)
    /\ \A i \in DOMAIN pczt.outputs :
          /\ pczt.outputs[i].value \in (0 .. U64Max) \union {Missing}
          /\ \A j \in 1 .. i - 1 :
                PoolOrder[pczt.outputs[j].pool] <= PoolOrder[pczt.outputs[i].pool]

(* One output after what came before it: the first refusal stays, and an output
   without a label is skipped. *)
MatchOutput(before, output, payTo) ==
    LET reason == First(OutputRefusals(output, payTo))
    IN  IF before.reason # "pass" \/ output.label = NoAddress THEN before
        ELSE IF reason # "pass" THEN [reason |-> reason, sum |-> 0]
        ELSE AddMatchedAmountZat(before.sum, output.value)

(* matched_pczt_amount_zat: the walk over all outputs of all pools. *)
MatchedPcztAmountZat(pczt, network, payTo) ==
    LET walk[i \in 0 .. Len(pczt.outputs)] ==
            IF i = 0 THEN [reason |-> "pass", sum |-> 0]
            ELSE MatchOutput(walk[i - 1], pczt.outputs[i], payTo)
    IN  IF payTo.network # network \/ payTo.kind = "undecodable"
        THEN [reason |-> "zcash_exact_pay_to_invalid", sum |-> 0]
        ELSE walk[Len(pczt.outputs)]

(* The transaction a PCZT extracts to; it stands for its own id. *)
Extracted(pczt) == [outputs |-> pczt.outputs, expiry |-> pczt.expiry]

(* verify_pczt_settlement: parse, match, compare, and only then extract. *)
VerifyPcztSettlement(req) ==
    LET r == req.requirements
        pczt == req.payload.pczt
        matched == MatchedPcztAmountZat(pczt, r.network, r.payTo)
    IN  First(<< Refusal(~pczt.parses, "zcash_exact_pczt_malformed"),
                 Refusal(matched.reason # "pass", matched.reason),
                 Refusal(matched.sum # r.amount, "zcash_exact_amount_mismatch"),
                 Refusal(~pczt.extractable, "zcash_exact_pczt_not_extractable") >>)

(* What POST /x402/v2/verify answers: "pass", or why the request is not valid. *)
X402Verdict(req) ==
    LET early == X402RequestInvalidReason(req)
    IN  IF early # "pass" THEN early ELSE VerifyPcztSettlement(req)

-----------------------------------------------------------------------------
(* What /prepare hands to the wallet *)

(* PayeeRegistry::resolve: the first entry of the payee for scheme and network. *)
Resolve(entries, scheme, network) ==
    {i \in DOMAIN entries :
        /\ entries[i].scheme = scheme /\ entries[i].network = network
        /\ \A j \in 1 .. i - 1 : ~(entries[j].scheme = scheme /\ entries[j].network = network)}

(* compose_binding_memo: tag, version, the two domain-separated digests (each is
   what it is taken over) and the evidence-pack slot. *)
ProtocolMemoVersion == 2
ComposeBindingMemo(payee, scheme, network, resource, evidence) ==
    << 255, ProtocolMemoVersion, <<"challenge", payee, scheme, network, resource>>,
       <<"resource", resource>> >> \o evidence

PowerOfTen[k \in 0 .. ZecDigits] == IF k = 0 THEN 1 ELSE 10 * PowerOfTen[k - 1]
ZatPerZec == PowerOfTen[ZecDigits]

(* The digits of a fraction, most significant first and zero-padded. *)
PaddedDigits(fraction) ==
    LET rest[k \in 0 .. ZecDigits] == IF k = 0 THEN fraction ELSE rest[k - 1] \div 10
    IN  [i \in 1 .. ZecDigits |-> rest[ZecDigits - i] % 10]

TrimEndZeros(digits) ==
    LET kept == {0} \union {i \in DOMAIN digits : digits[i] # 0}
    IN  SubSeq(digits, 1, Max(kept))

FormatZecFromZat_Unpadded(zat) ==
    LET digits == PaddedDigits(zat % ZatPerZec)
        first == {i \in DOMAIN digits : digits[i] # 0}
    IN  [whole |-> zat \div ZatPerZec,
         fraction |-> IF first = {} THEN <<>>
                      ELSE TrimEndZeros(SubSeq(digits, Min(first), ZecDigits))]

(* format_zec_from_zat: whole part and trimmed, zero-padded fraction. *)
FormatZecFromZat(zat) ==
    [whole |-> zat \div ZatPerZec, fraction |-> TrimEndZeros(PaddedDigits(zat % ZatPerZec))]

(* compose_payment_uri *)
ComposePaymentUri(payTo, zat, memo) ==
    [to |-> payTo, amount |-> FormatZecFromZat(zat), memo |-> memo]

(* How a ZIP-321 parser reads the amount back (a library outside the repository): the
   decimals that are not written are zeros. *)
ParseZec(amount) ==
    LET digit(i) == IF i <= Len(amount.fraction) THEN amount.fraction[i] ELSE 0
        value[i \in 0 .. ZecDigits] == IF i = 0 THEN 0 ELSE 10 * value[i - 1] + digit(i)
    IN  amount.whole * ZatPerZec + value[ZecDigits]

(* What the signing wallet builds from the URI and the pinned expiry height: one
   labelled output and its change. *)
SignedPczt(uri, expiry) ==
    [parses |-> TRUE, extractable |-> TRUE, expiry |-> expiry,
     outputs |-> << Output(IF "orchard" \in uri.to.receivers THEN "ironwood" ELSE "sapling",
                           uri.to, uri.to.owner, ParseZec(uri.amount)),
                    Output("ironwood", NoAddress, "payer", 1) >>]

(* build_x402_pczt_facilitator_request: the request the agent sends. *)
BuildX402PcztFacilitatorRequest(network, payTo, zat, payment, pczt) ==
    LET requirements == PaymentRequirements("exact", network, "ZEC", zat, payTo, payment)
    IN  FacilitatorRequest(
            PaymentPayload(requirements, "pczt-v2-extractable", "base64url", pczt),
            requirements)
=============================================================================
