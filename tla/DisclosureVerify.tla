-------------------------- MODULE DisclosureVerify --------------------------
(***************************************************************************)
(* POST /zpay/v1/verify: checking a ZIP-311 payment disclosure (zpay-core, *)
(* verify/mod.rs) against the transaction the chain plane returns for it   *)
(* (zpay-runtime, zinder_fetcher.rs, rejecting_fetcher.rs).  The proofs of *)
(* a disclosure are what their library says of them: genuine ones recover  *)
(* the selected outputs of the transaction they were made for.             *)
(***************************************************************************)
EXTENDS X402Exact

NotAnswered == "not_checked"

(* VerifyResponse; the four axes are independent verdicts. *)
Response(verdict, presence, amount, recipient, message) ==
    [verdict |-> verdict, presence |-> presence, amount |-> amount,
     recipient |-> recipient, message |-> message]

(* short_circuit_malformed, short_circuit_inconclusive, verification_failure_response *)
ShortCircuitMalformed ==
    Response("malformed", "oracle_unavailable", NotAnswered, NotAnswered, NotAnswered)
ShortCircuitInconclusive(presence) ==
    Response("inconclusive", presence, NotAnswered, NotAnswered, NotAnswered)
VerificationFailure(verdict) ==
    Response(verdict, "mined", NotAnswered, NotAnswered, NotAnswered)

(* VerifyError of verify, as verify_error_response words it: not a verdict at all. *)
InvalidArgument(kind) ==
    Response(kind, NotAnswered, NotAnswered, NotAnswered, NotAnswered)

(* PaymentDisclosureProfile: the pool whose outputs the profile discloses. *)
ProfilePool == [zip311_draft1 |-> "sapling", zally_ironwood |-> "ironwood"]

(* expected_shielded_recipient: a Unified Address of the configured network that has
   the receiver of the profile. *)
HasExpectedRecipient(payTo, network, profile) ==
    /\ payTo.kind = "unified" /\ payTo.network = network
    /\ ReceiverOf[ProfilePool[profile]] \in payTo.receivers

(* ZinderTransactionFetcher: only a mined transaction, under the id asked for, with
   its bytes retained, is returned; an index that fails, keeps no bytes or answers
   for another transaction is unavailable.  Without a chain source every fetch is. *)
FetchTransaction(tx, answer) ==
    CASE answer.status \in {"not_found", "in_mempool"} -> "not_found"
      [] answer.status = "mined" /\ answer.tx = tx /\ answer.bytes -> "mined"
      [] OTHER -> "unavailable"

(* chain_presence_for *)
ChainPresenceFor(fetched) == IF fetched = "not_found" THEN "not_found" ELSE "oracle_unavailable"

(* DisclosureVerificationError::verdict *)
FailureVerdict(proof) ==
    IF proof \in {"authority_invalid", "recovery_failed"} THEN "invalid_signature" ELSE "malformed"

(* The outputs a genuine disclosure recovers, by position: the selected ones of the
   pool of its profile. *)
Recovered(d) ==
    {i \in d.selects \cap DOMAIN d.tx.outputs : d.tx.outputs[i].pool = ProfilePool[d.profile]}

(* compute_payment_reconciliation: checked sum and recipients of what was disclosed. *)
RecipientMatches_Some(d, payTo) == \E i \in Recovered(d) : d.tx.outputs[i].to = payTo.owner
RecipientMatches(d, payTo) == \A i \in Recovered(d) : d.tx.outputs[i].to = payTo.owner

AddDisclosed(before, output) ==
    IF before.reason # "pass" THEN before ELSE AddMatchedAmountZat(before.sum, output.value)

DisclosedValueZat(d) ==
    LET sum[i \in 0 .. Len(d.tx.outputs)] ==
            IF i = 0 THEN [reason |-> "pass", sum |-> 0]
            ELSE IF i \notin Recovered(d) THEN sum[i - 1]
            ELSE AddDisclosed(sum[i - 1], d.tx.outputs[i])
    IN  sum[Len(d.tx.outputs)]

MatchOr(matches) == IF matches THEN "match" ELSE "mismatch"

PaymentReconciliation(q) ==
    LET value == DisclosedValueZat(q.disclosure)
        message == MatchOr(q.disclosure.message = q.message)
    IN  CASE Recovered(q.disclosure) = {} ->
                 Response("valid", "mined", NotAnswered, NotAnswered, message)
          [] Recovered(q.disclosure) # {} /\ value.reason # "pass" -> ShortCircuitMalformed
          [] OTHER -> Response("valid", "mined", MatchOr(value.sum = q.amount),
                               MatchOr(RecipientMatches(q.disclosure, q.payTo)), message)

(* verify: hex envelopes, codec, expected recipient, transaction id, chain, proofs,
   reconciliation, in this order. *)
Verify(q, network, answer) ==
    LET d == q.disclosure
        fetched == FetchTransaction(d.tx, answer)
    IN  First(<<
            Refusal(~q.messageIsHex, InvalidArgument("expected_disclosure_message_invalid")),
            Refusal(~q.payloadIsHex, InvalidArgument("disclosure_payload_invalid")),
            Refusal(d.codec = "profile_unsupported",
                    ShortCircuitInconclusive("oracle_unavailable")),
            Refusal(d.codec = "malformed", ShortCircuitMalformed),
            Refusal(~HasExpectedRecipient(q.payTo, network, d.profile),
                    InvalidArgument("expected_pay_to_invalid")),
            Refusal(q.txid # d.tx, ShortCircuitMalformed),
            Refusal(fetched # "mined", ShortCircuitInconclusive(ChainPresenceFor(fetched))),
            Refusal(d.proof # "genuine", VerificationFailure(FailureVerdict(d.proof))),
            Refusal(TRUE, PaymentReconciliation(q)) >>)
=============================================================================
