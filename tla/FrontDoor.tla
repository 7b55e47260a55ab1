----------------------------- MODULE FrontDoor -----------------------------
(***************************************************************************)
(* The HTTP surface of zpay (zpay-x402, lib.rs), one exchange at a time:   *)
(* the lifecycle routes /prepare, /settle, /verify, /accepts and /tip and  *)
(* the facilitator routes /supported, /verify and /settle, over what they  *)
(* compute (X402Exact, DisclosureVerify).  A request is answered in one    *)
(* step here: how two of them interleave inside the stores is modelled by  *)
(* PaymentLifecycle, what the limiter decides by RateLimiter, which proofs *)
(* are accepted by DpopReplay.  What stays across exchanges is what one    *)
(* route tells a client and another holds it to: the prepared rows, the    *)
(* proofs spent, and the transactions on their way into the chain.         *)
(***************************************************************************)
EXTENDS DisclosureVerify

CONSTANTS
    Payments,                \* payment ids, in the order they are issued
    Agents, IdempotencyKeys, \* DPoP keys, and the keys they retry under
    Proofs,                  \* DPoP proofs that arrive
    Registry,                \* payees.toml: payee -> its entries
    UnknownPayee,            \* a payee id the registry does not have
    ChainNetwork,            \* network of the chain plane
    DefaultExpiryDelta,      \* DEFAULT_EXPIRY_DELTA_BLOCKS
    Resource,                \* the resource paid for
    MaxTip,                  \* bound: height of the chain
    MaxBroadcasts,           \* bound: transactions the chain plane takes
    FacilitatorInputs(_, _), \* the facilitator requests made of one offer
    DisclosureInputs(_, _)   \* the disclosures made of one offer and one transaction

ASSUME FrontDoorAssumption ==
    /\ ChainNetwork \in Networks /\ UnknownPayee \notin DOMAIN Registry
    /\ {DefaultExpiryDelta, MaxTip, MaxBroadcasts} \subseteq Nat
    /\ {"", "none", "unparseable"} \cap {Payments[i] : i \in DOMAIN Payments} = {}
    /\ IsSequence(Payments)
    /\ \A i, j \in DOMAIN Payments : Payments[i] = Payments[j] => i = j

(* What payees.toml says of an entry: a u64 amount, and an address that some payee
   can spend from; a unified address has a shielded receiver. *)
IsAcceptsEntry(entry) ==
    /\ entry.amount \in 0 .. U64Max
    /\ entry.payTo.owner \notin {"omitted", "garbled"}
    /\ entry.payTo.kind = "unified" =>
          "sapling" \in entry.payTo.receivers \/ "orchard" \in entry.payTo.receivers

ASSUME RegistryAssumption ==
    \A payee \in DOMAIN Registry : \A i \in DOMAIN Registry[payee] :
        IsAcceptsEntry(Registry[payee][i])

VARIABLES
    tip,          \* the height the tip oracle reports, 0 before it knows one
    offers,       \* every preparation /prepare has answered with
    prepared,     \* the payments whose prepared row is still there
    burned,       \* DPoP proofs already seen
    mempool,      \* transactions the chain plane has taken
    mined,        \* transactions in a block
    settlements,  \* what was broadcast for which payment, through which route
    said          \* the exchange that has just been answered

vars == <<tip, offers, prepared, burned, mempool, mined, settlements, said>>

Quiet == [route |-> "none", req |-> <<>>, answer |-> "none"]

Init ==
    /\ tip = 0
    /\ offers = <<>>
    /\ prepared = {}
    /\ burned = {}
    /\ mempool = {}
    /\ mined = {}
    /\ settlements = {}
    /\ said = Quiet

Answer(route, req, answer) ==
    said' = [route |-> route, req |-> req, answer |-> answer]

(* The client has its answer. *)
HangUp ==
    /\ said # Quiet
    /\ said' = Quiet
    /\ UNCHANGED <<tip, offers, prepared, burned, mempool, mined, settlements>>

Issued == {i \in DOMAIN Payments : i <= Len(offers)}
Offer(payment) == offers[CHOOSE i \in Issued : Payments[i] = payment]
IssuedIds == {Payments[i] : i \in Issued}

-----------------------------------------------------------------------------
(* Routes that carry a DPoP proof *)

(* accept_lifecycle_write: a proof is spent before the limiter is asked, so a
   limited request cannot be repeated as it is. *)
WriteRefusals(proof, limited) == <<
    Refusal(proof = "missing", "dpop_missing"),
    Refusal(proof = "invalid", "dpop_invalid_proof"),
    Refusal(proof = "skewed", "dpop_clock_skew"),
    Refusal(proof \in burned, "dpop_replay"),
    Refusal(limited, "rate_limited") >>

Spend(proof) ==
    burned' = IF proof \in Proofs THEN burned \union {proof} ELSE burned

PresentedProofs == Proofs \union {"missing", "invalid", "skewed"}

(* The row an idempotent retry finds. *)
PriorRows(agent, key) ==
    {p \in prepared : key # "" /\ Offer(p).agent = agent /\ Offer(p).key = key}

(* The expiry height of a preparation: tip plus the delta of the entry. *)
ExpiryHeight(entry) ==
    tip + (IF entry.expiryDelta = Missing THEN DefaultExpiryDelta ELSE entry.expiryDelta)

(* The refusals of propose, in prepare_error_response's words. *)
ProposeRefusals(payee, network, storeUp, tipUp) ==
    LET entries == Registry[payee]
        chosen == Resolve(entries, "zcash", network)
    IN  IF payee = UnknownPayee THEN << Refusal(TRUE, "payee_unknown") >>
        ELSE << Refusal(chosen = {}, "scheme_network_unsupported"),
                Refusal(~tipUp, "tip_oracle_unavailable"),
                Refusal(\E i \in chosen : ExpiryHeight(entries[i]) = 0, "tip_oracle_zero_tip"),
                Refusal(~storeUp, "prepared_store_unavailable") >>

(* What propose stores and answers with. *)
Preparation(payee, network, agent, key) ==
    LET entry == Registry[payee][CHOOSE i \in Resolve(Registry[payee], "zcash", network) : TRUE]
        memo == ComposeBindingMemo(payee, "zcash", network, Resource, <<>>)
    IN  [payee |-> payee, network |-> network, to |-> entry.payTo, amount |-> entry.amount,
         expiry |-> ExpiryHeight(entry), memo |-> memo, agent |-> agent, key |-> key,
         uri |-> ComposePaymentUri(entry.payTo, entry.amount, memo)]

(* prepare_handler *)
Prepare(payee, network, agent, key, proof) ==
    \E limited, storeUp, tipUp \in BOOLEAN :
        LET gate == First(WriteRefusals(proof, limited))
            refused == First(ProposeRefusals(payee, network, storeUp, tipUp))
        IN  \/ /\ gate # "pass"
               /\ Answer("prepare", <<>>, gate)
               /\ UNCHANGED <<offers, prepared>>
            \/ /\ gate = "pass" /\ key # "" /\ ~storeUp
               /\ Answer("prepare", <<>>, "prepared_store_unavailable")
               /\ UNCHANGED <<offers, prepared>>
            \/ /\ gate = "pass" /\ storeUp /\ PriorRows(agent, key) # {}
               /\ Answer("prepare", <<>>, "prepared")
               /\ UNCHANGED <<offers, prepared>>
            \/ /\ gate = "pass" /\ (storeUp \/ key = "") /\ PriorRows(agent, key) = {}
               /\ refused # "pass"
               /\ Answer("prepare", <<>>, refused)
               /\ UNCHANGED <<offers, prepared>>
            \/ /\ gate = "pass" /\ PriorRows(agent, key) = {} /\ refused = "pass"
               /\ Len(offers) < Len(Payments)
               /\ Answer("prepare", <<>>, "prepared")
               /\ offers' = Append(offers, Preparation(payee, network, agent, key))
               /\ prepared' = prepared \union {Payments[Len(offers) + 1]}

PrepareHandler ==
    /\ said = Quiet
    /\ \E payee \in DOMAIN Registry \union {UnknownPayee}, network \in {ChainNetwork, "mainnet"},
          agent \in Agents, key \in IdempotencyKeys, proof \in PresentedProofs :
           Prepare(payee, network, agent, key, proof) /\ Spend(proof)
    /\ UNCHANGED <<tip, mempool, mined, settlements>>

-----------------------------------------------------------------------------
(* Broadcasting *)

(* What the chain plane may answer to a submission.  Known transactions are
   duplicates; an unknown outcome and an error leave open whether it arrived. *)
SubmitOutcomes(tx) ==
    {"rejected_encoding", "rejected"} \union
    CASE tx \in mempool \union mined -> {"duplicate", "unrecognised", "error"}
      [] Cardinality(mempool \union mined) < MaxBroadcasts ->
             {"accepted", "queued", "unrecognised", "error"}
      [] OTHER -> {}

(* BroadcastOutcome::from_submit_outcome *)
FromSubmitOutcome(submitted) ==
    CASE submitted \in {"accepted", "queued"} -> "accepted"
      [] submitted = "rejected_encoding" -> "invalid_encoding"
      [] submitted = "unrecognised" -> "unknown"
      [] submitted = "error" -> "chain_unavailable"
      [] OTHER -> submitted

IsSuccess(outcome) == outcome \in {"accepted", "duplicate"}

Reaches(tx, submitted) ==
    CASE submitted \in {"accepted", "queued"} -> mempool' = mempool \union {tx}
      [] submitted \in {"unrecognised", "error"} ->
             mempool' \in {mempool, IF tx \in mined THEN mempool ELSE mempool \union {tx}}
      [] OTHER -> mempool' = mempool

(* broadcast_failure_reason, and success. *)
SettleAnswer(outcome) ==
    CASE IsSuccess(outcome) -> "settled"
      [] outcome = "invalid_encoding" -> "zcash_exact_transaction_invalid_encoding"
      [] outcome = "rejected" -> "zcash_exact_transaction_rejected"
      [] outcome = "chain_unavailable" -> "chain_unavailable"
      [] OTHER -> "zcash_exact_settlement_unknown"

(* On success the settlement is recorded and the row removed, unless a store fails. *)
Recorded(payment, tx, route, outcome, storeUp) ==
    /\ settlements' = IF IsSuccess(outcome) /\ payment # "none"
                      THEN settlements \union {[payment |-> payment, tx |-> tx, route |-> route]}
                      ELSE settlements
    /\ prepared' = IF IsSuccess(outcome) /\ storeUp THEN prepared \ {payment} ELSE prepared

-----------------------------------------------------------------------------
(* The facilitator routes *)

(* find_prepared_x402_settlement: a request without a payment id has no row to match. *)
FindPreparedRefusals(req, storeUp) ==
    LET r == req.requirements
    IN  IF r.payment = "none" THEN <<>>
        ELSE << Refusal(~storeUp, "zpay_payment_store_unavailable"),
                Refusal(r.payment \notin prepared, "zpay_payment_not_prepared") >>
             \o IF r.payment \notin prepared THEN <<>>
                ELSE << Refusal(\/ Offer(r.payment).network # r.network
                                \/ Offer(r.payment).amount # r.amount
                                \/ Offer(r.payment).to # r.payTo,
                                "zpay_payment_requirements_mismatch") >>

(* The expiry check, and the network check of broadcast_verified_pczt_settlement. *)
BroadcastRefusals(req) ==
    LET r == req.requirements
    IN  << Refusal(r.payment \in prepared /\ Offer(r.payment).expiry # req.payload.pczt.expiry,
                   "zpay_payment_expiry_mismatch"),
           Refusal(r.network # ChainNetwork, "zcash_exact_network_mismatch") >>

(* x402_settle_handler up to the broadcast. *)
SettleRefusal_SkipsPczt(req, limited, storeUp) ==
    LET early == First(<< Refusal(limited, "rate_limited") >> \o RequestRefusals(req))
        found == First(FindPreparedRefusals(req, storeUp))
    IN  CASE early # "pass" -> early
          [] found # "pass" -> found
          [] OTHER -> First(BroadcastRefusals(req))
SettleRefusal(req, limited, storeUp) ==
    LET early == First(<< Refusal(limited, "rate_limited") >> \o RequestRefusals(req))
        found == First(FindPreparedRefusals(req, storeUp))
        verdict == VerifyPcztSettlement(req)
    IN  CASE early # "pass" -> early
          [] early = "pass" /\ found # "pass" -> found
          [] early = "pass" /\ found = "pass" /\ verdict # "pass" -> verdict
          [] OTHER -> First(BroadcastRefusals(req))

X402Settle(req) ==
    \E limited, storeUp \in BOOLEAN :
        LET refusal == SettleRefusal(req, limited, storeUp)
            tx == Extracted(req.payload.pczt)
        IN  \/ /\ refusal # "pass"
               /\ Answer("x402_settle", req, refusal)
               /\ UNCHANGED <<mempool, settlements, prepared>>
            \/ /\ refusal = "pass"
               /\ \E submitted \in SubmitOutcomes(tx), recordUp \in BOOLEAN :
                      LET outcome == FromSubmitOutcome(submitted)
                      IN  /\ Answer("x402_settle", req, SettleAnswer(outcome))
                          /\ Reaches(tx, submitted)
                          /\ Recorded(req.requirements.payment, tx, "x402", outcome, recordUp)

FacilitatorRequests ==
    {req \in UNION {FacilitatorInputs(Payments[i], offers[i]) : i \in Issued} :
        IsPczt(req.payload.pczt)}

X402SettleHandler ==
    /\ said = Quiet
    /\ \E req \in FacilitatorRequests : X402Settle(req)
    /\ UNCHANGED <<tip, offers, burned, mined>>

(* x402_verify_handler and supported_handler change nothing. *)
X402VerifyHandler ==
    /\ said = Quiet
    /\ \E req \in FacilitatorRequests, limited \in BOOLEAN :
           Answer("x402_verify", req, IF limited THEN "rate_limited" ELSE X402Verdict(req))
    /\ UNCHANGED <<tip, offers, prepared, burned, mempool, mined, settlements>>

SupportedHandler ==
    /\ said = Quiet
    /\ Answer("supported", <<>>, SupportedKinds(ChainNetwork))
    /\ UNCHANGED <<tip, offers, prepared, burned, mempool, mined, settlements>>

-----------------------------------------------------------------------------
(* The other lifecycle routes *)

(* submit_settlement: the relay looks at the hex, the row, its owner, its memo version
   and the expiry height of the transaction; it cannot see whom the outputs pay. *)
RelayRefusals(payment, agent, raw, storeUp) == <<
    Refusal(raw.hex = "invalid", "raw_tx_hex_invalid"),
    Refusal(~storeUp, "settle_store_unavailable"),
    Refusal(payment \notin prepared, "preparation_not_found") >>
    \o IF payment \notin prepared THEN <<>>
       ELSE << Refusal(Offer(payment).agent # agent, "dpop_mismatch"),
               Refusal(Offer(payment).memo[2] # ProtocolMemoVersion, "obsolete_memo_version"),
               Refusal(raw.hex = "not_a_transaction", "transaction_malformed"),
               Refusal(raw.tx.expiry # Offer(payment).expiry, "expiry_height_mismatch") >>

RawTransactions ==
    {[hex |-> hex, tx |-> Extracted(SignedPczt(offers[i].uri, offers[i].expiry))] :
        i \in Issued, hex \in {"transaction", "invalid", "not_a_transaction"}}

(* settle_handler *)
Settle(payment, agent, raw, proof) ==
    \E limited, storeUp \in BOOLEAN :
        LET refusal == First(WriteRefusals(proof, limited)
                             \o RelayRefusals(payment, agent, raw, storeUp))
        IN  \/ /\ refusal # "pass"
               /\ Answer("settle", <<>>, refusal)
               /\ UNCHANGED <<mempool, settlements, prepared>>
            \/ /\ refusal = "pass"
               /\ \E submitted \in SubmitOutcomes(raw.tx), recordUp \in BOOLEAN :
                      LET outcome == FromSubmitOutcome(submitted)
                      IN  /\ Answer("settle", <<>>,
                                    IF outcome = "chain_unavailable" \/ recordUp THEN outcome
                                    ELSE "settle_store_unavailable")
                          /\ Reaches(raw.tx, submitted)
                          /\ Recorded(payment, raw.tx, "lifecycle", outcome, recordUp)

SettleHandler ==
    /\ said = Quiet
    /\ \E payment \in IssuedIds, agent \in Agents, raw \in RawTransactions,
          proof \in PresentedProofs :
           Settle(payment, agent, raw, proof) /\ Spend(proof)
    /\ UNCHANGED <<tip, offers, mined>>

(* The disclosures of one offer and one transaction; what a transaction sends is known. *)
Disclosures(offer, tx) ==
    {q \in DisclosureInputs(offer, tx) :
        IsPczt(q.disclosure.tx) /\ \A i \in DOMAIN q.disclosure.tx.outputs :
                                      q.disclosure.tx.outputs[i].value # Missing}

(* verify_handler *)
VerifyHandler ==
    /\ said = Quiet
    /\ \E i \in Issued, tx \in mempool \union mined :
           \E q \in Disclosures(offers[i], tx), limited \in BOOLEAN,
              answer \in [status : {"mined", "not_found", "in_mempool", "conflicting", "error"},
                          tx : mined \union {tx}, bytes : BOOLEAN] :
               /\ answer.status = "mined" => answer.tx \in mined
               /\ Answer("verify", q, IF limited THEN InvalidArgument("rate_limited")
                                      ELSE Verify(q, ChainNetwork, answer))
    /\ UNCHANGED <<tip, offers, prepared, burned, mempool, mined, settlements>>

(* accepts_handler and tip_handler *)
AcceptsHandler ==
    /\ said = Quiet
    /\ \E payee \in DOMAIN Registry \union {UnknownPayee, "none"}, limited \in BOOLEAN :
           Answer("accepts", <<>>,
                  CASE limited -> "rate_limited"
                    [] ~limited /\ payee = "none" -> "payee_id_required"
                    [] ~limited /\ payee = UnknownPayee -> "payee_unknown"
                    [] OTHER -> "entries")
    /\ UNCHANGED <<tip, offers, prepared, burned, mempool, mined, settlements>>

TipHandler ==
    /\ said = Quiet
    /\ \E network \in Networks \union {"none", "other"}, limited, up \in BOOLEAN :
           Answer("tip", <<>>,
                  First(<< Refusal(limited, "rate_limited"),
                           Refusal(network = "none", "network_required"),
                           Refusal(network = "other", "network_invalid"),
                           Refusal(~up, "tip_oracle_unavailable"),
                           Refusal(TRUE, "tip") >>))
    /\ UNCHANGED <<tip, offers, prepared, burned, mempool, mined, settlements>>

-----------------------------------------------------------------------------
(* Around it: blocks are found, rows lapse. *)

NewBlock ==
    /\ said = Quiet /\ tip < MaxTip
    /\ tip' = tip + 1
    /\ \E included \in SUBSET mempool :
           mined' = mined \union included /\ mempool' = mempool \ included
    /\ UNCHANGED <<offers, prepared, burned, settlements, said>>

(* sweep_expired *)
Lapse ==
    /\ said = Quiet
    /\ \E payment \in prepared : prepared' = prepared \ {payment}
    /\ UNCHANGED <<tip, offers, burned, mempool, mined, settlements, said>>

Next ==
    \/ PrepareHandler \/ SettleHandler \/ VerifyHandler \/ AcceptsHandler \/ TipHandler
    \/ X402VerifyHandler \/ X402SettleHandler \/ SupportedHandler
    \/ HangUp \/ NewBlock \/ Lapse

Spec == Init /\ [][Next]_vars

-----------------------------------------------------------------------------
(* Properties *)

(* What a transaction is known to pay to an owner. *)
PaidBy(output, owner) ==
    IF output.to = owner /\ output.value # Missing THEN output.value ELSE 0
PaidTo(tx, owner) ==
    LET paid[i \in 0 .. Len(tx.outputs)] ==
            IF i = 0 THEN 0 ELSE paid[i - 1] + PaidBy(tx.outputs[i], owner)
    IN  paid[Len(tx.outputs)]

(* What the facilitator settles under a payment id pays the payee of that preparation
   at least the amount it was offered for, on the network and until the height the
   preparation named, whichever requirements and whichever PCZT the request carried. *)
SettledPaysThePayee ==
    \A s \in settlements : s.route = "x402" =>
        LET offer == Offer(s.payment)
        IN  /\ PaidTo(s.tx, offer.to.owner) >= offer.amount
            /\ s.tx.expiry = offer.expiry
            /\ offer.network = ChainNetwork

(* "This keeps /verify and /settle on the same contract": nothing is submitted that
   /verify would call invalid, and what /verify calls valid is refused by /settle only
   for the prepared row, the network of the chain plane, or the limiter. *)
AboutTheRow == {"zpay_payment_store_unavailable", "zpay_payment_not_prepared",
                "zpay_payment_requirements_mismatch", "zpay_payment_expiry_mismatch"}
SettleOutcomes == {"settled", "zcash_exact_transaction_invalid_encoding", "chain_unavailable",
                   "zcash_exact_transaction_rejected", "zcash_exact_settlement_unknown"}
VerifyAndSettleAgree ==
    said.route = "x402_settle" =>
        \/ said.answer \in AboutTheRow \union {"rate_limited"}
        \/ IF X402Verdict(said.req) = "pass"
           THEN said.answer \in SettleOutcomes \union {"zcash_exact_network_mismatch"}
           ELSE said.answer = X402Verdict(said.req)

(* An agent that pays what it was offered - the amount and the address of the URI, the
   pinned expiry height, the request of the test kit - on a well-formed registry entry
   is never told its payment is wrong: only that the row is gone, that a service is
   down, or what the network made of the transaction. *)
WellFormed(offer) ==
    /\ offer.network = ChainNetwork /\ IsValidZatAmount(offer.amount)
    /\ offer.to.network = ChainNetwork /\ offer.to.kind = "unified"
HonestRequest(payment) ==
    LET offer == Offer(payment)
    IN  BuildX402PcztFacilitatorRequest(offer.network, offer.to, offer.amount, payment,
                                        SignedPczt(offer.uri, offer.expiry))
HonestPaymentSettles ==
    said.route \in {"x402_settle", "x402_verify"} =>
        \A payment \in IssuedIds :
            WellFormed(Offer(payment)) /\ said.req = HonestRequest(payment) =>
                \/ said.answer \in SettleOutcomes \union {"pass", "rate_limited"}
                \/ said.answer = "zpay_payment_store_unavailable"
                \/ said.answer = "zpay_payment_not_prepared" /\ payment \notin prepared

(* A disclosure that /zpay/v1/verify finds valid, with amount and recipient matching,
   belongs to a mined transaction that pays the expected address at least that much. *)
DisclosureProvesPayment ==
    (/\ said.route = "verify" /\ said.answer.verdict = "valid"
     /\ said.answer.amount = "match" /\ said.answer.recipient = "match") =>
        /\ said.req.txid \in mined
        /\ PaidTo(said.req.txid, said.req.payTo.owner) >= said.req.amount
=============================================================================
