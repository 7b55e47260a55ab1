----------------------------- MODULE WalletSign -----------------------------
(***************************************************************************)
(* POST /v1/payments/sign of zspend: what a request must show before the   *)
(* wallet signs, in the order the handler asks, what each refusal says,    *)
(* and what a refusal leaves behind.  Everything up to the revocation      *)
(* check runs without an await; after it the handler waits for the issuer, *)
(* for the single-use ledger and for the wallet.  SingleUse, Revocation    *)
(* and DpopReplay model those parts from the inside; here each is reduced  *)
(* to what it answers.  A hash is the tuple it is taken over.              *)
(***************************************************************************)
EXTENDS Refusals

CONSTANTS
    Requests,          \* clients; all of them hold tokens with the same jti
    Proofs,            \* ids of DPoP proofs
    MaxAmount,         \* backstop cap of the signing policy
    MaxLag, StaleAfter,\* wallet_sync_max_lag_blocks, ..._stale_after_seconds
    Inputs(_),         \* what each client may present
    Snapshots,         \* wallet sync snapshots that occur
    MaxDisturbances    \* bound on everything that goes wrong

(* WalletSyncSnapshot.  `known' says that the three heights are there, `age' *)
(* is the time since published_at_ms; faults and scan status gate nothing.  *)
WalletSyncPhases == {"starting", "syncing", "waiting", "recovering", "parked",
                     "closing", "closed", "unknown"}
WalletSyncSnapshot == [network : {"main", "test", "regtest"}, phase : WalletSyncPhases,
                       age : Nat, known : BOOLEAN, lag : Nat]

ASSUME WalletSignAssumption ==
    /\ MaxAmount \in Nat /\ MaxLag \in Nat /\ StaleAfter \in Nat
    /\ MaxDisturbances \in Nat /\ Snapshots \subseteq WalletSyncSnapshot
    /\ "none" \notin Requests

(* The amount of a ZIP 321 payment is parsed into an unsigned number of zatoshis. *)
ASSUME AmountAssumption ==
    \A r \in Requests : \A q \in Inputs(r) :
        q.body.uri # <<>> => q.body.uri[1].amount \in Nat

VARIABLES
    requests,      \* one per client
    seen,          \* dpop_proof_jti_seen
    usage,         \* the single-use row of the shared jti
    snapshot,      \* WalletSyncState
    revocation,    \* what the revocation store answers
    signed,        \* <<request, plan>> the wallet has signed
    disturbances

vars == <<requests, seen, usage, snapshot, revocation, signed, disturbances>>

-----------------------------------------------------------------------------
(* Presented inputs *)

PolicyNetwork == "test"

(* ChainId.reference of a wire network. *)
Reference == [mainnet |-> "main", testnet |-> "test", regtest |-> "regtest"]

(* The payment_authorization entry of the token, and the body of the request. *)
PaymentAuthorization(namespace, reference, recipient, amount, payment, expires, intent) ==
    [namespace |-> namespace, reference |-> reference, recipient |-> recipient,
     amount |-> amount, payment |-> payment, expires |-> expires, intent |-> intent]
SignPaymentRequest(network, uri, payment, expiry, scheme) ==
    [network |-> network, uri |-> uri, payment |-> payment, expiry |-> expiry,
     scheme |-> scheme]

(* recompute_intent_hash: chain, recipient, amount, payment id and expiry.   *)
(* The recipient carries the chain reference of the authorization.          *)
RecomputeIntentHash(auth, recipient, amount) ==
    <<auth.namespace, auth.reference, recipient, amount, auth.payment, auth.expires.value>>

(* Mutant: the signed recipient is hashed in place of the parsed one. *)
IntentMatches_SignedRecipient(auth, recipient, amount) ==
    RecomputeIntentHash(auth, auth.recipient, amount) = auth.intent

IntentMatches(auth, recipient, amount) ==
    RecomputeIntentHash(auth, recipient, amount) = auth.intent

(* extract_dpop_bearer *)
HeaderRefusals(q) == <<
    Refusal(q.headers = "no_authorization", "access_token_invalid"),
    Refusal(q.headers = "no_proof", "dpop_proof_invalid") >>

(* verify_access_token: header, kid, algorithm of the JWKS key, signature,  *)
(* expiry and audience.                                                     *)
TokenRefusals(q) == <<
    Refusal(q.token \in {"malformed", "no_kid", "unknown_kid", "unsupported_key",
                         "alg_confusion", "bad_signature"}, "access_token_invalid"),
    Refusal(q.token = "expired", "authorization_expired"),
    Refusal(q.token = "other_audience", "audience_mismatch") >>

(* verify_dpop_proof of the wallet: type and algorithm, key bound to the    *)
(* token, signature, method, url, clock skew, token hash.                   *)
ProofRefusals(q) == <<
    Refusal(q.proofFault # "none", "dpop_proof_invalid") >>

(* payment_authorization and cross_check_request. *)
CrossCheckRefusals(q) == <<
    Refusal(q.entries # 1, "rar_too_many_entries"),
    Refusal(q.body.payment # q.auth.payment, "intent_mismatch"),
    Refusal(q.auth.expires.kind # "block_height", "payment_request_invalid"),
    Refusal(q.body.expiry # q.auth.expires.value, "intent_mismatch"),
    Refusal(q.auth.namespace # "zcash" \/ q.auth.reference # Reference[q.body.network],
            "intent_mismatch") >>

RequestRefusals(q) == <<
    Refusal(q.body.scheme # "zip321", "payment_request_invalid"),
    Refusal(Reference[q.body.network] # PolicyNetwork, "payment_request_invalid"),
    Refusal(q.body.uri = <<>>, "payment_request_invalid") >>

(* classify_intent_divergence: was the recipient the only thing off? *)
ClassifyIntentDivergence(auth, amount) ==
    IF RecomputeIntentHash(auth, auth.recipient, amount) = auth.intent
    THEN "recipient_mismatch" ELSE "intent_mismatch"

(* The binding to what the issuer signed, and the local cap. *)
BindingRefusals(q) ==
    LET pay == q.body.uri[1]
    IN  << Refusal(~IntentMatches(q.auth, pay.recipient, pay.amount),
                   ClassifyIntentDivergence(q.auth, pay.amount)),
           Refusal(pay.amount > MaxAmount, "amount_exceeded") >>

(* The gates in front of the replay set, and behind it. *)
AuthorizationGate(q) == First(HeaderRefusals(q) \o TokenRefusals(q) \o ProofRefusals(q))
BodyGate(q) ==
    LET early == First(CrossCheckRefusals(q) \o RequestRefusals(q))
    IN  IF early # "pass" THEN early ELSE First(BindingRefusals(q))

-----------------------------------------------------------------------------
(* Problem details *)

(* status_for_kind, and ProblemResponse::server_error for what the wallet   *)
(* reports while signing.                                                   *)
StatusForKind(kind) ==
    CASE kind = "payment_request_invalid" -> 400
      [] kind \in {"dpop_proof_invalid", "access_token_invalid", "token_revoked"} -> 401
      [] kind \in {"intent_mismatch", "recipient_mismatch", "amount_exceeded",
                   "audience_mismatch"} -> 403
      [] kind \in {"token_already_consumed", "target_expiry_stale"} -> 409
      [] kind = "authorization_expired" -> 410
      [] kind \in {"rar_too_many_entries", "insufficient_funds"} -> 422
      [] kind \in {"wallet_unavailable", "revocation_cache_stale", "not_ready"} -> 503
      [] OTHER -> 500

RetryableKinds == {"wallet_unavailable", "revocation_cache_stale", "not_ready"}

(* retry_after_seconds looks at the kind alone. *)
HasRetryAfter(kind) == kind \in RetryableKinds

NoReply == [status |-> 0, retryable |-> FALSE, retryAfter |-> FALSE]
Signed  == [NoReply EXCEPT !.status = 200]

Problem(kind) ==
    [status |-> StatusForKind(kind), retryable |-> kind \in RetryableKinds,
     retryAfter |-> HasRetryAfter(kind)]

(* map_wallet_err: every wallet error but a stale expiry is a server error  *)
(* that is not retryable, "not_ready" included.                             *)
WalletProblem(error) ==
    CASE error = "target_expiry_stale" -> Problem("target_expiry_stale")
      [] error = "target_expiry_mismatch" -> Problem("target_expiry_mismatch_internal")
      [] error = "insufficient_balance" ->
            [Problem("insufficient_funds") EXCEPT !.status = 500]
      [] OTHER -> [Problem("not_ready") EXCEPT !.status = 500, !.retryable = FALSE]

-----------------------------------------------------------------------------
(* Readiness *)

(* Mutant: a lag of exactly the limit is stale, for the sign path as well. *)
RequireWalletSyncFresh_Strict(s) ==
    /\ s.network = PolicyNetwork /\ s.age <= StaleAfter
    /\ s.phase \in {"syncing", "waiting"}
    /\ s.known /\ s.lag < MaxLag

(* is_wallet_sync_fresh *)
IsWalletSyncFresh(s) ==
    /\ s.network = PolicyNetwork /\ s.age <= StaleAfter
    /\ s.phase \in {"syncing", "waiting"}
    /\ s.known /\ s.lag <= MaxLag

RequireWalletSyncFresh(s) == IsWalletSyncFresh(s)

(* readyz_state of a wallet with a JWKS loaded and revocation enabled. *)
Ready == revocation # "stale" /\ IsWalletSyncFresh(snapshot)

-----------------------------------------------------------------------------
Plan(q) == [recipient |-> q.body.uri[1].recipient, amount |-> q.body.uri[1].amount,
            expiry |-> q.body.expiry, network |-> Reference[q.body.network]]

(* The row of the jti: none, pending, pending past its lifetime, completed.  *)
(* `owner' is the request that works under a pending row; `stranded' tells   *)
(* what took the owner away without ending the row.                          *)
UsageRow(state, intent, owner, stranded) ==
    [state |-> state, intent |-> intent, owner |-> owner, stranded |-> stranded]
FreeJti == UsageRow("free", <<>>, "none", "none")
StrandedRow(why) == [usage EXCEPT !.owner = "none", !.stranded = why]
NoInput == <<>>
IdleRequest == [pc |-> "idle", q |-> NoInput, reply |-> NoReply]

Init ==
    /\ requests = [r \in Requests |-> IdleRequest]
    /\ seen = {}
    /\ usage = FreeJti
    /\ snapshot \in Snapshots
    /\ revocation \in {"live", "stale"}
    /\ signed = {}
    /\ disturbances = 0

Disturb == disturbances < MaxDisturbances /\ disturbances' = disturbances + 1

At(r, pc) == requests[r].pc = pc
Goto(r, pc) == requests' = [requests EXCEPT ![r].pc = pc]
Reply(r, reply) == requests' = [requests EXCEPT ![r].pc = "answered", ![r].reply = reply]

(* verify_spend_authorization and the checks of the body.  The proof id is  *)
(* burned by every request whose token and proof hold, whatever follows.    *)
(* Only a request that passes is remembered: the others are refused for     *)
(* good.                                                                    *)
Authorize(r, q, proof) ==
    /\ CASE AuthorizationGate(q) # "pass" ->
              Reply(r, Problem(AuthorizationGate(q))) /\ UNCHANGED seen
         [] AuthorizationGate(q) = "pass" /\ proof \in seen ->
              Reply(r, Problem("dpop_proof_invalid")) /\ UNCHANGED seen
         [] OTHER ->
              /\ seen' = seen \cup {proof}
              /\ IF BodyGate(q) = "pass"
                 THEN requests' = [requests EXCEPT ![r] = [IdleRequest EXCEPT
                                      !.pc = "revocation", !.q = q]]
                 ELSE Reply(r, Problem(BodyGate(q)))
    /\ UNCHANGED <<usage, snapshot, revocation, signed>>

(* The revocation store answers, then the sync snapshot is looked at. *)
CheckRevocation(r) ==
    /\ At(r, "revocation")
    /\ CASE revocation = "revoked" -> Reply(r, Problem("token_revoked"))
         [] revocation = "stale" -> Reply(r, Problem("revocation_cache_stale"))
         [] OTHER -> IF RequireWalletSyncFresh(snapshot) THEN Goto(r, "reserve")
                     ELSE Reply(r, Problem("wallet_unavailable"))
    /\ UNCHANGED <<seen, usage, snapshot, revocation, signed, disturbances>>

(* Mutant: a completed row answers whatever intent is asked for. *)
Reserve_AnyIntent(r) ==
    /\ At(r, "reserve")
    /\ CASE usage.state = "free" ->
              /\ usage' = UsageRow("pending", requests[r].q.auth.intent, r, "none")
              /\ Goto(r, "sign")
         [] usage.state = "completed" -> Reply(r, Signed) /\ UNCHANGED usage
         [] OTHER -> Reply(r, Problem("not_ready")) /\ UNCHANGED usage
    /\ UNCHANGED <<seen, snapshot, revocation, signed, disturbances>>

(* try_reserve of the single-use ledger: a fresh reservation, a lapsed one   *)
(* taken over under the same intent, the cached payload of that intent, or  *)
(* a refusal.  Another intent is refused whatever the age of the row.       *)
Reserve(r) ==
    LET intent == requests[r].q.auth.intent
    IN  /\ At(r, "reserve")
        /\ CASE usage.state = "free" \/ (usage.state = "lapsed" /\ usage.intent = intent) ->
                  /\ usage' = UsageRow("pending", intent, r, "none")
                  /\ Goto(r, "sign")
             [] usage.state # "free" /\ usage.intent # intent ->
                  Reply(r, Problem("token_already_consumed")) /\ UNCHANGED usage
             [] usage.state = "completed" /\ usage.intent = intent ->
                  Reply(r, Signed) /\ UNCHANGED usage
             [] OTHER -> Reply(r, Problem("not_ready")) /\ UNCHANGED usage
        /\ UNCHANGED <<seen, snapshot, revocation, signed, disturbances>>

LedgerUnavailable(r) ==
    /\ At(r, "reserve")
    /\ Disturb
    /\ Reply(r, Problem("not_ready"))
    /\ UNCHANGED <<seen, usage, snapshot, revocation, signed>>

(* propose, prove, sign, extract into the CaptureSubmitter. *)
SignPczt(r) ==
    /\ At(r, "sign")
    /\ signed' = signed \cup {[by |-> r, plan |-> Plan(requests[r].q),
                               intent |-> requests[r].q.auth.intent]}
    /\ Goto(r, "commit")
    /\ UNCHANGED <<seen, usage, snapshot, revocation, disturbances>>

WalletErrors == {"target_expiry_stale", "target_expiry_mismatch", "insufficient_balance", "other"}

(* Mutant: a wallet error leaves the reservation behind. *)
WalletFails_KeepsReservation(r) ==
    /\ At(r, "sign")
    /\ Disturb
    /\ \E error \in WalletErrors : Reply(r, WalletProblem(error))
    /\ UNCHANGED <<seen, usage, snapshot, revocation, signed>>

(* One of the four steps errs, or no bytes were captured:                   *)
(* release_reservation, then the problem.  A release that fails is only     *)
(* logged: the problem is the same and the row stays until it lapses.       *)
WalletFails(r) ==
    /\ At(r, "sign")
    /\ Disturb
    /\ \E error \in WalletErrors : Reply(r, WalletProblem(error))
    /\ usage' \in {FreeJti, StrandedRow("release")}
    /\ UNCHANGED <<seen, snapshot, revocation, signed>>

(* The caller hangs up and the handler is dropped at the await it is at: no  *)
(* answer, and a row it has reserved stays.                                 *)
CallerHangsUp(r) ==
    /\ requests[r].pc \in {"revocation", "reserve", "sign", "commit"}
    /\ Disturb
    /\ Reply(r, NoReply)
    /\ usage' = IF usage.owner = r THEN StrandedRow("hang_up") ELSE usage
    /\ UNCHANGED <<seen, snapshot, revocation, signed>>

(* A failed commit is logged and the payload is answered all the same. *)
Commit(r) ==
    /\ At(r, "commit")
    /\ \/ /\ usage' = [usage EXCEPT !.state = "completed", !.owner = "none"]
          /\ UNCHANGED disturbances
       \/ Disturb /\ usage' = StrandedRow("commit")
    /\ Reply(r, Signed)
    /\ UNCHANGED <<seen, snapshot, revocation, signed>>

(* A pending row nobody works under passes PENDING_RESERVATION_TTL.  It     *)
(* keeps its intent: only a request for the same one may take it over.      *)
ReservationLapses ==
    /\ usage.state = "pending" /\ usage.owner = "none"
    /\ usage' = [usage EXCEPT !.state = "lapsed"]
    /\ UNCHANGED <<requests, seen, snapshot, revocation, signed, disturbances>>

(* Past the replay window a proof id is forgotten. *)
ForgetProof(p) ==
    /\ p \in seen
    /\ seen' = seen \ {p}
    /\ UNCHANGED <<requests, usage, snapshot, revocation, signed, disturbances>>

-----------------------------------------------------------------------------
(* The clients and the world *)

(* A first request, with whatever the client presents. *)
Send(r) ==
    /\ At(r, "idle")
    /\ UNCHANGED disturbances
    /\ \E q \in Inputs(r), p \in Proofs : Authorize(r, q, p)

(* A retryable problem: the same token and body under a fresh proof. *)
Retry(r) ==
    /\ At(r, "answered") /\ requests[r].reply.retryable
    /\ UNCHANGED disturbances
    /\ \E p \in Proofs \ seen : Authorize(r, requests[r].q, p)

(* A lost answer: the same request once more, its proof included. *)
Resend(r) ==
    /\ At(r, "answered") /\ requests[r].q # NoInput
    /\ Disturb
    /\ \E p \in Proofs : Authorize(r, requests[r].q, p)

(* observe_wallet_sync publishes a snapshot; the issuer comes and goes. *)
PublishSnapshot(s) ==
    /\ s # snapshot
    /\ \/ IsWalletSyncFresh(s) /\ UNCHANGED disturbances
       \/ ~IsWalletSyncFresh(s) /\ Disturb
    /\ snapshot' = s
    /\ UNCHANGED <<requests, seen, usage, revocation, signed>>

RevocationChanges ==
    /\ \/ revocation = "stale" /\ revocation' = "live" /\ UNCHANGED disturbances
       \/ revocation = "live" /\ revocation' \in {"stale", "revoked"} /\ Disturb
    /\ UNCHANGED <<requests, seen, usage, snapshot, signed>>

Handle(r) ==
    \/ CheckRevocation(r) \/ Reserve(r) \/ LedgerUnavailable(r)
    \/ SignPczt(r) \/ WalletFails(r) \/ Commit(r)

Next ==
    \/ \E r \in Requests :
          Send(r) \/ Handle(r) \/ CallerHangsUp(r) \/ Retry(r) \/ Resend(r)
    \/ ReservationLapses
    \/ \E p \in Proofs : ForgetProof(p)
    \/ \E s \in Snapshots : PublishSnapshot(s)
    \/ RevocationChanges

(* Handlers run on, clients retry what they are told to retry, time passes. *)
Progress ==
    /\ \A r \in Requests : WF_vars(Handle(r)) /\ WF_vars(Retry(r))
    /\ WF_vars(ReservationLapses)
    /\ \A p \in Proofs : WF_vars(ForgetProof(p))

Spec == Init /\ [][Next]_vars /\ Progress

-----------------------------------------------------------------------------
(* Properties *)

(* Type correctness of the requests, the reservation and the replay set. *)
TypeOK ==
    /\ \A r \in Requests :
          /\ requests[r].pc \in {"idle", "revocation", "reserve", "sign", "commit", "answered"}
          /\ requests[r].q # NoInput => BodyGate(requests[r].q) = "pass"
    /\ seen \subseteq Proofs
    /\ usage.state \in {"free", "pending", "lapsed", "completed"}
    /\ usage.owner \in Requests \cup {"none"}
    /\ usage.stranded \in {"none", "release", "commit", "hang_up"}
    /\ snapshot \in Snapshots /\ revocation \in {"live", "stale", "revoked"}
    /\ disturbances \in 0 .. MaxDisturbances

(* Whatever a client puts into the body, the transaction the wallet signs    *)
(* pays the recipient, the amount, on the network and up to the height that *)
(* the issuer's intent hash is over, and no more than the cap.              *)
SignedAsAuthorized ==
    \A x \in signed :
        /\ <<x.plan.network, x.plan.recipient, x.plan.amount>> = SubSeq(x.intent, 2, 4)
        /\ x.plan.expiry = x.intent[6]
        /\ x.plan.network = PolicyNetwork
        /\ x.plan.amount <= MaxAmount

(* A token that is not completed is kept from other requests only for a     *)
(* reason: a request is still signing under its row, or the row was left     *)
(* behind by a hang-up or by a release or commit that failed.  No refusal   *)
(* leaves it otherwise, whichever step refused.  And behind a row that a    *)
(* failed commit left there is a transaction for the intent it holds.       *)
RowHasAReason ==
    /\ usage.state \in {"pending", "lapsed"} =>
          \/ \E r \in Requests : usage.owner = r /\ requests[r].pc \in {"sign", "commit"}
          \/ usage.stranded # "none"
    /\ usage.stranded = "commit" => \E x \in signed : x.intent = usage.intent

(* What an answer tells the client is true.  A retryable problem is a 503    *)
(* with a Retry-After, and a client that was answered "signed" holds a      *)
(* transaction for the intent of its own token, even when another request   *)
(* with the same jti was the one that signed.                               *)
AnswersAreHonest ==
    \A r \in Requests :
        LET reply == requests[r].reply
        IN  At(r, "answered") =>
            /\ reply.retryable => reply.status = 503 /\ reply.retryAfter
            /\ reply = Signed =>
                   \E x \in signed : x.intent = requests[r].q.auth.intent

(* Readiness tells the truth: once the wallet reports itself ready for good, *)
(* a client that retries what it is told to retry comes to an end: signed,  *)
(* refused for good, or gone.                                               *)
ReadyWalletAnswers ==
    <>[]Ready => \A r \in Requests :
                    ~At(r, "idle") ~> (At(r, "answered") /\ ~requests[r].reply.retryable)
=============================================================================
