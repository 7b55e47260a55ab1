---------------------------- MODULE Wallet_proofs ----------------------------
(***************************************************************************)
(* Proofs about the wallet service: the sign handler (WalletSign), the     *)
(* single-use ledger it reserves a token in (SingleUse) and the revocation *)
(* cache it asks (Revocation), each for every value of its constants.      *)
(* The three have no name in common, so one module can speak of them all;  *)
(* nothing proved of one is used for another.                              *)
(***************************************************************************)
EXTENDS WalletSign, SingleUse, Revocation, SequenceTheorems, WellFoundedInduction, TLAPS

-----------------------------------------------------------------------------
(* The gates *)

(* A set of positions has a least one: what Min chooses is one of them. *)
LEMMA MinIsAHit ==
    ASSUME NEW S, S \subseteq Nat, S # {}
    PROVE  Min(S) \in S
<1>1. PICK x \in S : \A y \in S : ~(<<y, x>> \in OpToRel(<, Nat))
  BY NatLessThanWellFounded, WFMin
<1>2. \A y \in S : ~(y < x)
  BY <1>1 DEF OpToRel
<1>3. \A y \in S : x <= y
  BY <1>2
<1> QED
  BY <1>3 DEF Min

(* A list of refusals that lets a request pass refuses nothing. *)
LEMMA PassRefusesNothing ==
    ASSUME NEW refusals, DOMAIN refusals \subseteq Nat, First(refusals) = "pass",
           \A i \in DOMAIN refusals : refusals[i].kind # "pass"
    PROVE  \A i \in DOMAIN refusals : ~refusals[i].when
<1> DEFINE hits == {i \in DOMAIN refusals : refusals[i].when}
<1>1. hits # {} => Min(hits) \in hits
  BY MinIsAHit
<1>2. hits = {}
  BY <1>1 DEF First
<1> QED
  BY <1>2

(* What the gates refuse with.  None of it is worth a retry: each kind says *)
(* that the request itself is wrong.                                        *)
GateKinds == {"access_token_invalid", "dpop_proof_invalid", "authorization_expired",
              "audience_mismatch", "rar_too_many_entries", "intent_mismatch",
              "recipient_mismatch", "payment_request_invalid", "amount_exceeded"}

LEMMA FirstIsAKind ==
    ASSUME NEW refusals, DOMAIN refusals \subseteq Nat,
           \A i \in DOMAIN refusals : refusals[i].kind \in GateKinds
    PROVE  First(refusals) \in GateKinds \cup {"pass"}
<1> DEFINE hits == {i \in DOMAIN refusals : refusals[i].when}
<1>1. hits # {} => Min(hits) \in hits
  BY MinIsAHit
<1> QED
  BY <1>1 DEF First

(* The early refusals one after the other, by position. *)
LEMMA EarlyRefusals ==
    ASSUME NEW q, NEW list, list = CrossCheckRefusals(q) \o RequestRefusals(q)
    PROVE  /\ DOMAIN list = 1..8
           /\ \A i \in 1..8 : list[i].kind \in GateKinds
           /\ list[4] = Refusal(q.body.expiry # q.auth.expires.value, "intent_mismatch")
           /\ list[5] = Refusal(q.auth.namespace # "zcash" \/ q.auth.reference # Reference[q.body.network],
                             "intent_mismatch")
           /\ list[7] = Refusal(Reference[q.body.network] # PolicyNetwork, "payment_request_invalid")
           /\ list[8] = Refusal(q.body.uri = <<>>, "payment_request_invalid")
<1> DEFINE c == CrossCheckRefusals(q)
           d == RequestRefusals(q)
           S == {c[1], c[2], c[3], c[4], c[5], d[1], d[2], d[3]}
<1>1. c \in Seq(S) /\ Len(c) = 5
  BY DEF CrossCheckRefusals
<1>2. d \in Seq(S) /\ Len(d) = 3
  BY DEF RequestRefusals
<1>3. /\ c[4] = Refusal(q.body.expiry # q.auth.expires.value, "intent_mismatch")
      /\ c[5] = Refusal(q.auth.namespace # "zcash" \/ q.auth.reference # Reference[q.body.network],
                             "intent_mismatch")
  BY DEF CrossCheckRefusals
<1>4. /\ d[2] = Refusal(Reference[q.body.network] # PolicyNetwork, "payment_request_invalid")
      /\ d[3] = Refusal(q.body.uri = <<>>, "payment_request_invalid")
  BY DEF RequestRefusals
<1>5. \A x \in S : x.kind \in GateKinds
  BY DEF CrossCheckRefusals, RequestRefusals, Refusal, GateKinds
<1>6. list = c \o d
  OBVIOUS
<1> HIDE DEF c, d, S
<1>7. /\ list \in Seq(S) /\ Len(list) = 8
      /\ \A i \in 1..8 : list[i] = IF i <= 5 THEN c[i] ELSE d[i - 5]
  <2>1. /\ c \o d \in Seq(S) /\ Len(c \o d) = Len(c) + Len(d)
        /\ \A i \in 1..(Len(c) + Len(d)) :
              (c \o d)[i] = IF i <= Len(c) THEN c[i] ELSE d[i - Len(c)]
    BY <1>1, <1>2, ConcatProperties, Zenon
  <2>2. Len(c) + Len(d) = 8
    BY <1>1, <1>2
  <2> QED
    BY <1>1, <1>6, <2>1, <2>2, Zenon
<1>8. DOMAIN list = 1..8 /\ \A i \in 1..8 : list[i] \in S
  BY <1>7, LenProperties, ElementOfSeq, Zenon
<1>9. list[4] = c[4] /\ list[5] = c[5] /\ list[7] = d[2] /\ list[8] = d[3]
  BY <1>7
<1> QED
  BY <1>3, <1>4, <1>5, <1>8, <1>9

(* A condition that does not refuse does not hold, in the forms that occur. *)
LEMMA NotUnequal ==
    ASSUME NEW a, NEW b, NEW k, NEW r, r = Refusal(a # b, k), ~r.when
    PROVE  a = b
BY DEF Refusal

LEMMA NotEqual ==
    ASSUME NEW a, NEW b, NEW k, NEW r, r = Refusal(a = b, k), ~r.when
    PROVE  a # b
BY DEF Refusal

LEMMA NotEitherUnequal ==
    ASSUME NEW a, NEW b, NEW c, NEW d, NEW k, NEW r,
           r = Refusal(c # d \/ a # b, k), ~r.when
    PROVE  a = b
BY DEF Refusal

LEMMA NotAbove ==
    ASSUME NEW a, NEW b, NEW k, NEW r, r = Refusal(a > b, k), ~r.when
    PROVE  ~(a > b)
BY DEF Refusal

(* What BodyGate has made sure of when it lets a request pass. *)
LEMMA BodyGatePasses ==
    ASSUME NEW q, BodyGate(q) = "pass"
    PROVE  /\ q.body.uri # <<>>
           /\ Reference[q.body.network] = PolicyNetwork
           /\ q.auth.reference = Reference[q.body.network]
           /\ q.body.expiry = q.auth.expires.value
           /\ IntentMatches(q.auth, q.body.uri[1].recipient, q.body.uri[1].amount)
           /\ ~(q.body.uri[1].amount > MaxAmount)
<1>1. PICK list : list = CrossCheckRefusals(q) \o RequestRefusals(q)
  OBVIOUS
<1>2. First(list) = "pass" /\ First(BindingRefusals(q)) = "pass"
  BY <1>1 DEF BodyGate
<1>3. \A i \in 1..8 : ~list[i].when
  <2>1. DOMAIN list = 1..8 /\ \A i \in 1..8 : list[i].kind # "pass"
    BY <1>1, EarlyRefusals DEF GateKinds
  <2> QED
    BY <1>2, <2>1, PassRefusesNothing
<1>4. /\ ~list[4].when /\ ~list[5].when /\ ~list[7].when /\ ~list[8].when
  BY <1>3
<1>5. /\ q.body.expiry = q.auth.expires.value
      /\ q.auth.reference = Reference[q.body.network]
      /\ Reference[q.body.network] = PolicyNetwork
      /\ q.body.uri # <<>>
  <2>1. list[4] = Refusal(q.body.expiry # q.auth.expires.value, "intent_mismatch")
    BY <1>1, EarlyRefusals
  <2>2. list[5] = Refusal(q.auth.namespace # "zcash" \/ q.auth.reference # Reference[q.body.network],
                          "intent_mismatch")
    BY <1>1, EarlyRefusals
  <2>3. list[7] = Refusal(Reference[q.body.network] # PolicyNetwork, "payment_request_invalid")
    BY <1>1, EarlyRefusals
  <2>4. list[8] = Refusal(q.body.uri = <<>>, "payment_request_invalid")
    BY <1>1, EarlyRefusals
  <2>5. q.body.expiry = q.auth.expires.value
    BY <1>4, <2>1, NotUnequal, Zenon
  <2>6. q.auth.reference = Reference[q.body.network]
    <3>1. PICK n, z, r : n = Reference[q.body.network] /\ z = "zcash" /\ r = list[5]
      OBVIOUS
    <3>2. r = Refusal(q.auth.namespace # z \/ q.auth.reference # n, "intent_mismatch") /\ ~r.when
      BY <1>4, <2>2, <3>1
    <3>3. q.auth.reference = n
      BY <3>2, NotEitherUnequal, Zenon
    <3> QED
      BY <3>1, <3>3
  <2>7. Reference[q.body.network] = PolicyNetwork
    <3>1. PICK n, m, r : n = Reference[q.body.network] /\ m = PolicyNetwork /\ r = list[7]
      OBVIOUS
    <3>2. r = Refusal(n # m, "payment_request_invalid") /\ ~r.when
      BY <1>4, <2>3, <3>1
    <3>3. n = m
      BY <3>2, NotUnequal, Zenon
    <3> QED
      BY <3>1, <3>3
  <2>8. q.body.uri # <<>>
    BY <1>4, <2>4, NotEqual, Zenon
  <2> QED
    BY <2>5, <2>6, <2>7, <2>8
<1>6. PICK binding : binding = BindingRefusals(q)
  OBVIOUS
<1>7. /\ DOMAIN binding = 1..2
      /\ \A i \in 1..2 : binding[i].kind # "pass"
  BY <1>6 DEF BindingRefusals, Refusal, ClassifyIntentDivergence
<1>8. ~binding[1].when /\ ~binding[2].when
  <2>1. \A i \in 1..2 : ~binding[i].when
    BY <1>2, <1>6, <1>7, PassRefusesNothing
  <2> QED
    BY <2>1
<1>9. /\ binding[1] = Refusal(~IntentMatches(q.auth, q.body.uri[1].recipient, q.body.uri[1].amount),
                              ClassifyIntentDivergence(q.auth, q.body.uri[1].amount))
      /\ binding[2] = Refusal(q.body.uri[1].amount > MaxAmount, "amount_exceeded")
  BY <1>6 DEF BindingRefusals
<1>10. /\ IntentMatches(q.auth, q.body.uri[1].recipient, q.body.uri[1].amount)
       /\ ~(q.body.uri[1].amount > MaxAmount)
  <2>1. IntentMatches(q.auth, q.body.uri[1].recipient, q.body.uri[1].amount)
    BY <1>8, <1>9, NotUnequal, Zenon DEF IntentMatches
  <2>2. ~(q.body.uri[1].amount > MaxAmount)
    BY <1>8, <1>9, NotAbove, Zenon
  <2> QED
    BY <2>1, <2>2
<1> QED
  BY <1>5, <1>10

(* Both gates let a request pass or refuse it with one of those kinds. *)
LEMMA BodyGateKinds == \A q : BodyGate(q) \in GateKinds \cup {"pass"}
<1> TAKE q
<1>1. PICK list : list = CrossCheckRefusals(q) \o RequestRefusals(q)
  OBVIOUS
<1>2. First(list) \in GateKinds \cup {"pass"}
  <2>1. DOMAIN list = 1..8 /\ \A i \in 1..8 : list[i].kind \in GateKinds
    BY <1>1, EarlyRefusals
  <2> QED
    BY <2>1, FirstIsAKind
<1>3. PICK binding : binding = BindingRefusals(q)
  OBVIOUS
<1>4. DOMAIN binding = 1..2 /\ \A i \in 1..2 : binding[i].kind \in GateKinds
  BY <1>3 DEF BindingRefusals, Refusal, ClassifyIntentDivergence, GateKinds
<1>5. First(binding) \in GateKinds \cup {"pass"}
  BY <1>4, FirstIsAKind
<1> QED
  BY <1>1, <1>2, <1>3, <1>5 DEF BodyGate

LEMMA AuthorizationGateKinds == \A q : AuthorizationGate(q) \in GateKinds \cup {"pass"}
<1> TAKE q
<1> DEFINE h == HeaderRefusals(q)
           t == TokenRefusals(q)
           p == ProofRefusals(q)
           S == {h[1], h[2], t[1], t[2], t[3], p[1]}
<1>1. h \in Seq(S)
  BY DEF HeaderRefusals
<1>2. t \in Seq(S)
  BY DEF TokenRefusals
<1>3. p \in Seq(S)
  BY DEF ProofRefusals
<1>4. \A x \in S : x.kind \in GateKinds
  BY DEF HeaderRefusals, TokenRefusals, ProofRefusals, Refusal, GateKinds
<1>5. AuthorizationGate(q) = First(h \o t \o p)
  BY DEF AuthorizationGate
<1> HIDE DEF h, t, p, S
<1>6. h \o t \in Seq(S)
  BY <1>1, <1>2, ConcatProperties, Zenon
<1>7. h \o t \o p \in Seq(S)
  BY <1>3, <1>6, ConcatProperties, Zenon
<1>8. PICK list : list = h \o t \o p
  OBVIOUS
<1>9. DOMAIN list \subseteq Nat /\ \A i \in DOMAIN list : list[i].kind \in GateKinds
  <2>1. list \in Seq(S) /\ DOMAIN list = 1..Len(list) /\ Len(list) \in Nat
    BY <1>7, <1>8, LenProperties, Zenon
  <2>2. \A i \in DOMAIN list : list[i] \in S
    BY <2>1, ElementOfSeq, Zenon
  <2> QED
    BY <1>4, <2>1, <2>2
<1> QED
  BY <1>5, <1>8, <1>9, FirstIsAKind

(* The plan of a request that passed is what the issuer's intent is over. *)
IsAuthorized(plan, intent) ==
    /\ <<plan.network, plan.recipient, plan.amount>> = SubSeq(intent, 2, 4)
    /\ plan.expiry = intent[6]
    /\ plan.network = PolicyNetwork
    /\ plan.amount <= MaxAmount

LEMMA PassedIsAuthorized ==
    ASSUME NEW q, BodyGate(q) = "pass", q.body.uri # <<>> => q.body.uri[1].amount \in Nat
    PROVE  IsAuthorized(Plan(q), q.auth.intent)
<1> DEFINE pay == q.body.uri[1]
           intent == q.auth.intent
           S == {intent[i] : i \in 1..6}
<1>1. intent = <<q.auth.namespace, q.auth.reference, pay.recipient, pay.amount, q.auth.payment,
                 q.auth.expires.value>>
  BY BodyGatePasses DEF IntentMatches, RecomputeIntentHash
<1>2. /\ Plan(q).network = intent[2] /\ Plan(q).recipient = intent[3]
      /\ Plan(q).amount = intent[4] /\ Plan(q).expiry = intent[6]
      /\ Plan(q).network = PolicyNetwork
  BY <1>1, BodyGatePasses DEF Plan
<1>3. intent \in Seq(S) /\ Len(intent) = 6
  <2>1. DOMAIN intent = 1..6 /\ Len(intent) = 6 /\ intent = [i \in 1..6 |-> intent[i]]
    BY <1>1
  <2> QED
    BY <2>1
<1>4. Plan(q).amount <= MaxAmount
  BY BodyGatePasses, WalletSignAssumption DEF Plan
<1> HIDE DEF intent
<1>5. /\ SubSeq(intent, 2, 4) \in Seq(S) /\ Len(SubSeq(intent, 2, 4)) = 3
      /\ SubSeq(intent, 2, 4)[1] = intent[2] /\ SubSeq(intent, 2, 4)[2] = intent[3]
      /\ SubSeq(intent, 2, 4)[3] = intent[4]
  BY <1>3, SubSeqProperties
<1>6. <<intent[2], intent[3], intent[4]>> = SubSeq(intent, 2, 4)
  BY <1>5
<1> QED
  BY <1>2, <1>4, <1>6 DEF IsAuthorized, intent

(* No problem reads like a success, and a retryable one is a 503 with a     *)
(* Retry-After.                                                             *)
IsProblem(reply) ==
    /\ reply # Signed
    /\ reply.retryable => reply.status = 503 /\ reply.retryAfter

LEMMA ProblemsAreProblems == \A kind : IsProblem(Problem(kind))
<1> TAKE kind
<1>1. StatusForKind(kind) # 200
  BY DEF StatusForKind
<1>2. kind \in RetryableKinds => StatusForKind(kind) = 503
  BY DEF StatusForKind, RetryableKinds
<1>3. /\ Problem(kind).status = StatusForKind(kind)
      /\ Problem(kind).retryable = (kind \in RetryableKinds)
      /\ Problem(kind).retryAfter = (kind \in RetryableKinds)
  BY DEF Problem, HasRetryAfter
<1>4. Signed.status = 200
  BY DEF Signed, NoReply
<1> QED
  <2>1. Problem(kind) # Signed
    BY <1>1, <1>3, <1>4
  <2>2. Problem(kind).retryable => kind \in RetryableKinds
    BY <1>3
  <2> QED
    BY <1>2, <1>3, <2>1, <2>2 DEF IsProblem

LEMMA WalletProblemsAreProblems == \A error : IsProblem(WalletProblem(error))
<1> TAKE error
<1>1. CASE error \in {"target_expiry_stale", "target_expiry_mismatch"}
  BY <1>1, ProblemsAreProblems DEF WalletProblem
<1>2. Signed.status = 200
  BY DEF Signed, NoReply
<1>3. CASE error = "insufficient_balance"
  <2>1. WalletProblem(error).status = 500 /\ ~WalletProblem(error).retryable
    BY <1>3 DEF WalletProblem, Problem, RetryableKinds
  <2> QED
    BY <1>2, <2>1 DEF IsProblem
<1>4. CASE error \notin {"target_expiry_stale", "target_expiry_mismatch", "insufficient_balance"}
  <2>1. WalletProblem(error).status = 500 /\ ~WalletProblem(error).retryable
    BY <1>4 DEF WalletProblem, Problem
  <2> QED
    BY <1>2, <2>1 DEF IsProblem
<1> QED
  BY <1>1, <1>3, <1>4

-----------------------------------------------------------------------------
(* The invariant *)

Presented == UNION {Inputs(r) : r \in Requests}
PCs == {"idle", "revocation", "reserve", "sign", "commit", "answered"}
Replies == [status : Nat, retryable : BOOLEAN, retryAfter : BOOLEAN]
RequestRecords == [pc : PCs, q : Presented \cup {NoInput}, reply : Replies]
UsageRows == [state : {"free", "pending", "lapsed", "completed"},
              intent : {<<>>} \cup {q.auth.intent : q \in Presented},
              owner : Requests \cup {"none"},
              stranded : {"none", "release", "commit", "hang_up"}]

Types ==
    /\ requests \in [Requests -> RequestRecords]
    /\ seen \subseteq Proofs
    /\ usage \in UsageRows
    /\ snapshot \in Snapshots /\ revocation \in {"live", "stale", "revoked"}
    /\ disturbances \in 0 .. MaxDisturbances

(* The client has presented this request, and the body got past its gate. *)
Passed(r) == requests[r].q \in Inputs(r) /\ BodyGate(requests[r].q) = "pass"

Remembered == \A r \in Requests : requests[r].q # NoInput => Passed(r)

InHand(r) == requests[r].pc \in {"revocation", "reserve", "sign", "commit"}
Holds(r) == requests[r].pc \in {"sign", "commit"}

WorksOnPassed == \A r \in Requests : InHand(r) => Passed(r)

(* The row is reserved for the one request that works under it. *)
HolderOwns ==
    \A r \in Requests : Holds(r) =>
        /\ usage.owner = r /\ usage.state = "pending"
        /\ usage.intent = requests[r].q.auth.intent
OwnerHolds == \A r \in Requests : usage.owner = r => Holds(r)

SignedFor(intent) == \E x \in signed : x.intent = intent

CommitsTheSigned == \A r \in Requests : At(r, "commit") => SignedFor(requests[r].q.auth.intent)

(* Behind a completed row, or one whose commit failed, there is a signature; *)
(* an open row has an owner or was stranded.                                 *)
RowExplained ==
    /\ usage.state = "completed" \/ usage.stranded = "commit" => SignedFor(usage.intent)
    /\ usage.state \in {"pending", "lapsed"} => usage.owner # "none" \/ usage.stranded # "none"

(* What a request was answered with: nothing, a problem, or its transaction. *)
AnswerHolds(r) ==
    LET reply == requests[r].reply
    IN  \/ reply = NoReply
        \/ IsProblem(reply) /\ (reply.retryable => Passed(r))
        \/ reply = Signed /\ SignedFor(requests[r].q.auth.intent)
Answers == \A r \in Requests : At(r, "answered") => AnswerHolds(r)

AllAuthorized == \A x \in signed : IsAuthorized(x.plan, x.intent)

SignInv ==
    /\ Types /\ Remembered /\ WorksOnPassed
    /\ HolderOwns /\ OwnerHolds /\ CommitsTheSigned /\ RowExplained
    /\ Answers /\ AllAuthorized

-----------------------------------------------------------------------------
(* Replies *)

LEMMA ProblemsAreReplies == \A kind : Problem(kind) \in Replies
BY DEF Problem, HasRetryAfter, StatusForKind, Replies

LEMMA WalletProblemsAreReplies == \A error : WalletProblem(error) \in Replies
<1> TAKE error
<1>1. CASE error \in {"target_expiry_stale", "target_expiry_mismatch"}
  BY <1>1, ProblemsAreReplies DEF WalletProblem
<1>2. CASE error = "insufficient_balance"
  <2>1. WalletProblem(error) = [Problem("insufficient_funds") EXCEPT !.status = 500]
    BY <1>2 DEF WalletProblem
  <2>2. PICK B, y : /\ B = BOOLEAN /\ y = Problem("insufficient_funds")
                    /\ y \in [status : Nat, retryable : B, retryAfter : B]
    BY ProblemsAreReplies, Zenon DEF Replies
  <2>3. [y EXCEPT !.status = 500] \in [status : Nat, retryable : B, retryAfter : B]
    <3>1. y \in [status : Nat, retryable : B, retryAfter : B]
      BY <2>2
    <3> QED
      BY <3>1
  <2>4. WalletProblem(error) = [y EXCEPT !.status = 500]
    BY <2>1, <2>2, Zenon
  <2> QED
    BY <2>2, <2>3, <2>4, Zenon DEF Replies
<1>3. CASE error \notin {"target_expiry_stale", "target_expiry_mismatch", "insufficient_balance"}
  <2>1. WalletProblem(error) = [status |-> 500, retryable |-> FALSE, retryAfter |-> TRUE]
    BY <1>3 DEF WalletProblem, Problem, HasRetryAfter, RetryableKinds
  <2> QED
    BY <2>1 DEF Replies
<1> QED
  BY <1>1, <1>2, <1>3

LEMMA SignedIsAReply == Signed \in Replies /\ NoReply \in Replies
BY DEF Signed, NoReply, Replies

(* A gate's refusal is final. *)
LEMMA GateRefusalsAreFinal == \A kind \in GateKinds : ~Problem(kind).retryable
BY DEF GateKinds, Problem, RetryableKinds

(* What Reply and Goto do to the requests. *)
LEMMA ReplyEffect ==
    ASSUME NEW r \in Requests, NEW reply \in Replies,
           requests \in [Requests -> RequestRecords], Reply(r, reply)
    PROVE  /\ requests' \in [Requests -> RequestRecords]
           /\ requests'[r].pc = "answered" /\ requests'[r].reply = reply
           /\ requests'[r].q = requests[r].q
           /\ \A o \in Requests : o # r => requests'[o] = requests[o]
<1> DEFINE new == [requests[r] EXCEPT !.pc = "answered", !.reply = reply]
<1>1. /\ new \in RequestRecords /\ new.pc = "answered" /\ new.reply = reply
      /\ new.q = requests[r].q
  BY DEF RequestRecords, PCs
<1>2. requests' = [requests EXCEPT ![r] = new]
  BY DEF Reply
<1> QED
  BY <1>1, <1>2

LEMMA GotoEffect ==
    ASSUME NEW r \in Requests, NEW pc \in PCs,
           requests \in [Requests -> RequestRecords], Goto(r, pc)
    PROVE  /\ requests' \in [Requests -> RequestRecords]
           /\ requests'[r].pc = pc /\ requests'[r].q = requests[r].q
           /\ \A o \in Requests : o # r => requests'[o] = requests[o]
<1> DEFINE new == [requests[r] EXCEPT !.pc = pc]
<1>1. new \in RequestRecords /\ new.pc = pc /\ new.q = requests[r].q
  BY DEF RequestRecords
<1>2. requests' = [requests EXCEPT ![r] = new]
  BY DEF Goto
<1> QED
  BY <1>1, <1>2

(* A request that holds no reservation is refused, or hangs up: nothing     *)
(* else moves.                                                              *)
LEMMA RefusalKeeps ==
    ASSUME SignInv, NEW r \in Requests, NEW reply \in Replies, Reply(r, reply),
           reply = NoReply \/ IsProblem(reply), reply.retryable => Passed(r), ~Holds(r),
           usage' = usage, signed' = signed, seen' \subseteq Proofs,
           snapshot' = snapshot, revocation' = revocation,
           disturbances' \in 0 .. MaxDisturbances
    PROVE  SignInv'
<1>1. /\ requests' \in [Requests -> RequestRecords]
      /\ requests'[r].pc = "answered" /\ requests'[r].reply = reply
      /\ requests'[r].q = requests[r].q
      /\ \A o \in Requests : o # r => requests'[o] = requests[o]
  BY ReplyEffect DEF SignInv, Types
<1>2. Types'
  BY <1>1 DEF SignInv, Types
<1>3. \A o \in Requests : Passed(o) => Passed(o)'
  BY <1>1 DEF Passed
<1>4. Remembered' /\ WorksOnPassed'
  BY <1>1, <1>3 DEF SignInv, Remembered, WorksOnPassed, InHand
<1>5. HolderOwns' /\ OwnerHolds'
  BY <1>1 DEF SignInv, HolderOwns, OwnerHolds, Holds
<1>6. CommitsTheSigned' /\ RowExplained'
  BY <1>1 DEF SignInv, CommitsTheSigned, RowExplained, SignedFor, At
<1>7. Answers'
  <2> SUFFICES ASSUME NEW o \in Requests, At(o, "answered")'
               PROVE  AnswerHolds(o)'
    BY DEF Answers
  <2>1. CASE o = r
    BY <1>1, <1>3, <2>1 DEF AnswerHolds
  <2>2. CASE o # r
    BY <1>1, <1>3, <2>2 DEF SignInv, Answers, AnswerHolds, At, SignedFor
  <2> QED
    BY <2>1, <2>2
<1>8. AllAuthorized'
  BY DEF SignInv, AllAuthorized
<1> QED
  BY <1>2, <1>4, <1>5, <1>6, <1>7, <1>8 DEF SignInv

-----------------------------------------------------------------------------
(* Every step *)

(* Steps that leave the requests, the row and the transactions alone. *)
LEMMA WorldKeeps ==
    ASSUME SignInv, UNCHANGED <<requests, usage, signed>>, seen' \subseteq Proofs,
           snapshot' \in Snapshots, revocation' \in {"live", "stale", "revoked"},
           disturbances' \in 0 .. MaxDisturbances
    PROVE  SignInv'
<1>1. Types'
  BY DEF SignInv, Types
<1>2. Remembered' /\ WorksOnPassed'
  BY DEF SignInv, Remembered, WorksOnPassed, InHand, Passed
<1>3. HolderOwns' /\ OwnerHolds' /\ CommitsTheSigned' /\ RowExplained'
  BY DEF SignInv, HolderOwns, OwnerHolds, CommitsTheSigned, RowExplained, Holds, SignedFor, At
<1>4. Answers' /\ AllAuthorized'
  BY DEF SignInv, Answers, AnswerHolds, AllAuthorized, SignedFor, At, Passed
<1> QED
  BY <1>1, <1>2, <1>3, <1>4 DEF SignInv

LEMMA DisturbKeeps ==
    ASSUME disturbances \in 0 .. MaxDisturbances, Disturb
    PROVE  disturbances' \in 0 .. MaxDisturbances
BY WalletSignAssumption DEF Disturb

(* A request comes in, for the first time or once more. *)
LEMMA AuthorizeKeeps ==
    ASSUME SignInv, NEW r \in Requests, NEW q, NEW p \in Proofs, Authorize(r, q, p), ~InHand(r),
           BodyGate(q) = "pass" => q \in Inputs(r),
           disturbances' \in 0 .. MaxDisturbances
    PROVE  SignInv'
<1>1. /\ usage' = usage /\ signed' = signed /\ snapshot' = snapshot /\ revocation' = revocation
      /\ seen' \subseteq Proofs /\ ~Holds(r)
  BY DEF SignInv, Types, Authorize, InHand, Holds
<1>2. ASSUME NEW kind \in GateKinds, Reply(r, Problem(kind))
      PROVE  SignInv'
  <2>1. PICK reply : reply = Problem(kind)
    OBVIOUS
  <2>2. reply \in Replies /\ IsProblem(reply) /\ ~reply.retryable /\ Reply(r, reply)
    BY <1>2, <2>1, ProblemsAreReplies, ProblemsAreProblems, GateRefusalsAreFinal
  <2> QED
    BY <1>1, <2>2, RefusalKeeps
<1>3. CASE AuthorizationGate(q) # "pass"
  BY <1>2, <1>3, AuthorizationGateKinds DEF Authorize
<1>4. CASE AuthorizationGate(q) = "pass" /\ p \in seen
  <2>1. Reply(r, Problem("dpop_proof_invalid"))
    BY <1>4 DEF Authorize
  <2> QED
    BY <1>2, <2>1 DEF GateKinds
<1>5. CASE AuthorizationGate(q) = "pass" /\ p \notin seen /\ BodyGate(q) # "pass"
  <2>1. Reply(r, Problem(BodyGate(q)))
    BY <1>5 DEF Authorize
  <2> QED
    BY <1>2, <1>5, <2>1, BodyGateKinds
<1>6. CASE AuthorizationGate(q) = "pass" /\ p \notin seen /\ BodyGate(q) = "pass"
  <2> DEFINE new == [IdleRequest EXCEPT !.pc = "revocation", !.q = q]
  <2>1. requests' = [requests EXCEPT ![r] = new]
    BY <1>6 DEF Authorize
  <2>2. q \in Inputs(r)
    BY <1>6
  <2>3. new \in RequestRecords /\ new.pc = "revocation" /\ new.q = q
    BY <2>2, SignedIsAReply DEF IdleRequest, RequestRecords, PCs, Presented
  <2> HIDE DEF new
  <2>4. /\ requests' \in [Requests -> RequestRecords]
        /\ requests'[r].pc = "revocation" /\ requests'[r].q = q
        /\ \A o \in Requests : o # r => requests'[o] = requests[o]
    BY <2>1, <2>3 DEF SignInv, Types
  <2>5. Types'
    BY <1>1, <2>4 DEF SignInv, Types
  <2>6. Passed(r)' /\ \A o \in Requests : Passed(o) => Passed(o)'
    BY <1>6, <2>2, <2>4 DEF Passed
  <2>7. Remembered' /\ WorksOnPassed'
    BY <2>4, <2>6 DEF SignInv, Remembered, WorksOnPassed, InHand
  <2>8. HolderOwns' /\ OwnerHolds'
    BY <1>1, <2>4 DEF SignInv, HolderOwns, OwnerHolds, Holds
  <2>9. CommitsTheSigned' /\ RowExplained'
    BY <1>1, <2>4 DEF SignInv, CommitsTheSigned, RowExplained, SignedFor, At
  <2>10. Answers' /\ AllAuthorized'
    BY <1>1, <2>4, <2>6 DEF SignInv, Answers, AnswerHolds, AllAuthorized, SignedFor, At
  <2> QED
    BY <2>5, <2>7, <2>8, <2>9, <2>10 DEF SignInv
<1> QED
  BY <1>3, <1>4, <1>5, <1>6

LEMMA RevocationKeeps ==
    ASSUME SignInv, NEW r \in Requests, CheckRevocation(r)
    PROVE  SignInv'
<1>1. /\ usage' = usage /\ signed' = signed /\ snapshot' = snapshot /\ revocation' = revocation
      /\ seen' \subseteq Proofs /\ disturbances' \in 0 .. MaxDisturbances
      /\ At(r, "revocation") /\ ~Holds(r) /\ Passed(r)
  BY DEF SignInv, Types, CheckRevocation, WorksOnPassed, InHand, Holds, At
<1>2. ASSUME NEW kind, Reply(r, Problem(kind))
      PROVE  SignInv'
  <2>1. PICK reply : reply = Problem(kind)
    OBVIOUS
  <2>2. reply \in Replies /\ IsProblem(reply) /\ Reply(r, reply)
    BY <1>2, <2>1, ProblemsAreReplies, ProblemsAreProblems
  <2> QED
    BY <1>1, <2>2, RefusalKeeps
<1>3. CASE Goto(r, "reserve")
  <2>1. "reserve" \in PCs
    BY DEF PCs
  <2>2. /\ requests' \in [Requests -> RequestRecords]
        /\ requests'[r].pc = "reserve" /\ requests'[r].q = requests[r].q
        /\ \A o \in Requests : o # r => requests'[o] = requests[o]
    BY <1>3, <2>1, GotoEffect DEF SignInv, Types
  <2>3. Types'
    BY <1>1, <2>2 DEF SignInv, Types
  <2>4. \A o \in Requests : Passed(o) => Passed(o)'
    BY <2>2 DEF Passed
  <2>5. Remembered' /\ WorksOnPassed'
    BY <1>1, <2>2, <2>4 DEF SignInv, Remembered, WorksOnPassed, InHand
  <2>6. HolderOwns' /\ OwnerHolds'
    BY <1>1, <2>2 DEF SignInv, HolderOwns, OwnerHolds, Holds
  <2>7. CommitsTheSigned' /\ RowExplained'
    BY <1>1, <2>2 DEF SignInv, CommitsTheSigned, RowExplained, SignedFor, At
  <2>8. Answers' /\ AllAuthorized'
    BY <1>1, <2>2, <2>4 DEF SignInv, Answers, AnswerHolds, AllAuthorized, SignedFor, At
  <2> QED
    BY <2>3, <2>5, <2>6, <2>7, <2>8 DEF SignInv
<1> QED
  <2>1. \/ Goto(r, "reserve") \/ Reply(r, Problem("token_revoked"))
        \/ Reply(r, Problem("revocation_cache_stale")) \/ Reply(r, Problem("wallet_unavailable"))
    BY DEF CheckRevocation
  <2> QED
    BY <1>2, <1>3, <2>1

(* The row is reserved, read back, or refuses. *)
LEMMA ReserveKeeps ==
    ASSUME SignInv, NEW r \in Requests, Reserve(r)
    PROVE  SignInv'
<1> DEFINE intent == requests[r].q.auth.intent
<1>1. /\ signed' = signed /\ snapshot' = snapshot /\ revocation' = revocation
      /\ seen' \subseteq Proofs /\ disturbances' \in 0 .. MaxDisturbances
      /\ At(r, "reserve") /\ ~Holds(r) /\ Passed(r)
  BY DEF SignInv, Types, Reserve, WorksOnPassed, InHand, Holds, At
<1>2. ASSUME NEW kind, Reply(r, Problem(kind)), usage' = usage
      PROVE  SignInv'
  <2>1. PICK reply : reply = Problem(kind)
    OBVIOUS
  <2>2. reply \in Replies /\ IsProblem(reply) /\ Reply(r, reply)
    BY <1>2, <2>1, ProblemsAreReplies, ProblemsAreProblems
  <2> QED
    BY <1>1, <1>2, <2>2, RefusalKeeps
<1>3. CASE usage.state = "free" \/ (usage.state = "lapsed" /\ usage.intent = intent)
  <2>1. usage' = UsageRow("pending", intent, r, "none") /\ Goto(r, "sign")
    BY <1>3 DEF Reserve
  <2>2. "sign" \in PCs
    BY DEF PCs
  <2>3. /\ requests' \in [Requests -> RequestRecords]
        /\ requests'[r].pc = "sign" /\ requests'[r].q = requests[r].q
        /\ \A o \in Requests : o # r => requests'[o] = requests[o]
    BY <2>1, <2>2, GotoEffect DEF SignInv, Types
  <2>4. \A o \in Requests : ~Holds(o)
    BY <1>3 DEF SignInv, HolderOwns
  <2>5. intent \in {q.auth.intent : q \in Presented}
    BY <1>1 DEF Passed, Presented
  <2>6. usage' \in UsageRows
    BY <2>1, <2>5 DEF UsageRow, UsageRows
  <2>7. Types'
    BY <1>1, <2>3, <2>6 DEF SignInv, Types
  <2>8. \A o \in Requests : Passed(o) => Passed(o)'
    BY <2>3 DEF Passed
  <2>9. Remembered' /\ WorksOnPassed'
    BY <1>1, <2>3, <2>8 DEF SignInv, Remembered, WorksOnPassed, InHand
  <2>10. HolderOwns' /\ OwnerHolds'
    BY <2>1, <2>3, <2>4 DEF HolderOwns, OwnerHolds, Holds, UsageRow
  <2>11. CommitsTheSigned' /\ RowExplained'
    BY <1>1, <2>1, <2>3, WalletSignAssumption
       DEF SignInv, CommitsTheSigned, RowExplained, SignedFor, At, UsageRow
  <2>12. Answers' /\ AllAuthorized'
    BY <1>1, <2>3, <2>8 DEF SignInv, Answers, AnswerHolds, AllAuthorized, SignedFor, At
  <2> QED
    BY <2>7, <2>9, <2>10, <2>11, <2>12 DEF SignInv
<1>4. CASE usage.state = "completed" /\ usage.intent = intent
  <2>1. usage' = usage /\ Reply(r, Signed)
    BY <1>4 DEF Reserve
  <2>2. /\ requests' \in [Requests -> RequestRecords]
        /\ requests'[r].pc = "answered" /\ requests'[r].reply = Signed
        /\ requests'[r].q = requests[r].q
        /\ \A o \in Requests : o # r => requests'[o] = requests[o]
    BY <2>1, SignedIsAReply, ReplyEffect DEF SignInv, Types
  <2>3. Types'
    BY <1>1, <2>1, <2>2 DEF SignInv, Types
  <2>4. \A o \in Requests : Passed(o) => Passed(o)'
    BY <2>2 DEF Passed
  <2>5. Remembered' /\ WorksOnPassed'
    BY <2>2, <2>4 DEF SignInv, Remembered, WorksOnPassed, InHand
  <2>6. HolderOwns' /\ OwnerHolds'
    BY <1>1, <2>1, <2>2 DEF SignInv, HolderOwns, OwnerHolds, Holds
  <2>7. CommitsTheSigned' /\ RowExplained'
    BY <1>1, <2>1, <2>2 DEF SignInv, CommitsTheSigned, RowExplained, SignedFor, At
  <2>8. AnswerHolds(r)'
    BY <1>1, <1>4, <2>2 DEF SignInv, RowExplained, AnswerHolds, SignedFor
  <2>9. Answers' /\ AllAuthorized'
    BY <1>1, <2>2, <2>4, <2>8 DEF SignInv, Answers, AnswerHolds, AllAuthorized, SignedFor, At
  <2> QED
    BY <2>3, <2>5, <2>6, <2>7, <2>9 DEF SignInv
<1>5. CASE /\ usage.state # "free" /\ ~(usage.state = "lapsed" /\ usage.intent = intent)
           /\ ~(usage.state = "completed" /\ usage.intent = intent)
  <2>1. usage' = usage /\ (Reply(r, Problem("token_already_consumed")) \/ Reply(r, Problem("not_ready")))
    BY <1>5 DEF Reserve
  <2> QED
    BY <1>2, <2>1
<1> QED
  BY <1>3, <1>4, <1>5

LEMMA LedgerFailureKeeps ==
    ASSUME SignInv, NEW r \in Requests, LedgerUnavailable(r)
    PROVE  SignInv'
<1>1. /\ usage' = usage /\ signed' = signed /\ snapshot' = snapshot /\ revocation' = revocation
      /\ seen' \subseteq Proofs /\ ~Holds(r) /\ Passed(r)
  BY DEF SignInv, Types, LedgerUnavailable, WorksOnPassed, InHand, Holds, At
<1>2. disturbances' \in 0 .. MaxDisturbances
  BY DisturbKeeps DEF SignInv, Types, LedgerUnavailable
<1>3. PICK reply : reply = Problem("not_ready")
  OBVIOUS
<1>4. reply \in Replies /\ IsProblem(reply) /\ Reply(r, reply)
  BY <1>3, ProblemsAreReplies, ProblemsAreProblems DEF LedgerUnavailable
<1> QED
  BY <1>1, <1>2, <1>4, RefusalKeeps

(* The wallet signs what the request was let through with. *)
LEMMA SignKeeps ==
    ASSUME SignInv, NEW r \in Requests, SignPczt(r)
    PROVE  SignInv'
<1> DEFINE intent == requests[r].q.auth.intent
           new == [by |-> r, plan |-> Plan(requests[r].q), intent |-> intent]
<1>1. /\ usage' = usage /\ snapshot' = snapshot /\ revocation' = revocation
      /\ seen' \subseteq Proofs /\ disturbances' \in 0 .. MaxDisturbances
      /\ signed' = signed \cup {new} /\ Goto(r, "commit")
      /\ At(r, "sign") /\ Holds(r) /\ Passed(r)
  BY DEF SignInv, Types, SignPczt, WorksOnPassed, InHand, Holds, At
<1>2. "commit" \in PCs
  BY DEF PCs
<1>3. /\ requests' \in [Requests -> RequestRecords]
      /\ requests'[r].pc = "commit" /\ requests'[r].q = requests[r].q
      /\ \A o \in Requests : o # r => requests'[o] = requests[o]
  BY <1>1, <1>2, GotoEffect DEF SignInv, Types
<1>4. Types'
  BY <1>1, <1>3 DEF SignInv, Types
<1>5. \A o \in Requests : Passed(o) => Passed(o)'
  BY <1>3 DEF Passed
<1>6. Remembered' /\ WorksOnPassed'
  BY <1>1, <1>3, <1>5 DEF SignInv, Remembered, WorksOnPassed, InHand
<1>7. HolderOwns' /\ OwnerHolds'
  BY <1>1, <1>3 DEF SignInv, HolderOwns, OwnerHolds, Holds
<1>8. SignedFor(intent)' /\ \A i : SignedFor(i) => \E x \in signed' : x.intent = i
  <2>1. new \in signed' /\ new.intent = intent /\ signed \subseteq signed'
    BY <1>1
  <2>2. intent' = intent
    BY <1>3
  <2> QED
    BY <2>1, <2>2 DEF SignedFor
<1>9. AllAuthorized'
  <2>1. IsAuthorized(Plan(requests[r].q), intent)
    BY <1>1, PassedIsAuthorized, AmountAssumption DEF Passed
  <2>2. IsAuthorized(new.plan, new.intent)
    BY <2>1
  <2> QED
    BY <1>1, <2>2 DEF SignInv, AllAuthorized
<1>10. CommitsTheSigned' /\ RowExplained'
  BY <1>1, <1>3, <1>8 DEF SignInv, CommitsTheSigned, RowExplained, SignedFor, At
<1>11. Answers'
  <2> SUFFICES ASSUME NEW o \in Requests, At(o, "answered")'
               PROVE  AnswerHolds(o)'
    BY DEF Answers
  <2>1. o # r /\ requests'[o] = requests[o] /\ AnswerHolds(o)
    BY <1>3 DEF SignInv, Answers, At
  <2>2. SignedFor(requests[o].q.auth.intent) => SignedFor(requests[o].q.auth.intent)'
    BY <1>8, <2>1 DEF SignedFor
  <2> QED
    BY <1>5, <2>1, <2>2 DEF AnswerHolds
<1> QED
  BY <1>4, <1>6, <1>7, <1>9, <1>10, <1>11 DEF SignInv

(* A request ends under its row without an answer the client may use: the   *)
(* row is given up, or stranded.                                            *)
LEMMA EndUnderRowKeeps ==
    ASSUME SignInv, NEW r \in Requests, NEW reply \in Replies, Reply(r, reply),
           reply = NoReply \/ IsProblem(reply), Holds(r), Passed(r),
           NEW why \in {"release", "hang_up"}, usage' \in {FreeJti, StrandedRow(why)},
           signed' = signed, seen' \subseteq Proofs,
           snapshot' = snapshot, revocation' = revocation,
           disturbances' \in 0 .. MaxDisturbances
    PROVE  SignInv'
<1>1. usage.owner = r /\ usage.state = "pending"
  BY DEF SignInv, HolderOwns
<1>2. /\ usage' \in UsageRows /\ usage'.owner = "none" /\ usage'.state \in {"free", "pending"}
      /\ usage'.stranded # "commit" /\ (usage'.state = "pending" => usage'.stranded # "none")
  <2>1. CASE usage' = FreeJti
    BY <2>1 DEF UsageRows, FreeJti, UsageRow
  <2>2. CASE usage' = StrandedRow(why)
    <3>1. usage \in UsageRows
      BY DEF SignInv, Types
    <3>2. usage' = [usage EXCEPT !.owner = "none", !.stranded = why]
      BY <2>2 DEF StrandedRow
    <3>3. why \in {"release", "hang_up"}
      OBVIOUS
    <3> QED
      BY ONLY <1>1, <3>1, <3>2, <3>3 DEF UsageRows
  <2> QED
    BY <2>1, <2>2
<1>3. /\ requests' \in [Requests -> RequestRecords]
      /\ requests'[r].pc = "answered" /\ requests'[r].reply = reply
      /\ requests'[r].q = requests[r].q
      /\ \A o \in Requests : o # r => requests'[o] = requests[o]
  BY ReplyEffect DEF SignInv, Types
<1>4. Types'
  BY <1>2, <1>3 DEF SignInv, Types
<1>5. \A o \in Requests : Passed(o) => Passed(o)'
  BY <1>3 DEF Passed
<1>6. Remembered' /\ WorksOnPassed'
  BY <1>3, <1>5 DEF SignInv, Remembered, WorksOnPassed, InHand
<1>7. \A o \in Requests : ~Holds(o)'
  BY <1>1, <1>3 DEF SignInv, HolderOwns, Holds
<1>8. HolderOwns' /\ OwnerHolds'
  BY <1>2, <1>7, WalletSignAssumption DEF HolderOwns, OwnerHolds
<1>9. CommitsTheSigned' /\ RowExplained'
  BY <1>2, <1>7 DEF CommitsTheSigned, RowExplained, At, Holds
<1>10. Answers'
  <2> SUFFICES ASSUME NEW o \in Requests, At(o, "answered")'
               PROVE  AnswerHolds(o)'
    BY DEF Answers
  <2>1. CASE o = r
    BY <1>3, <1>5, <2>1 DEF AnswerHolds
  <2>2. CASE o # r
    BY <1>3, <1>5, <2>2 DEF SignInv, Answers, AnswerHolds, At, SignedFor
  <2> QED
    BY <2>1, <2>2
<1>11. AllAuthorized'
  BY DEF SignInv, AllAuthorized
<1> QED
  BY <1>4, <1>6, <1>8, <1>9, <1>10, <1>11 DEF SignInv

(* An error of the wallet gives the row up, or strands it if that fails. *)
LEMMA WalletFailureKeeps ==
    ASSUME SignInv, NEW r \in Requests, WalletFails(r)
    PROVE  SignInv'
<1>1. /\ signed' = signed /\ snapshot' = snapshot /\ revocation' = revocation
      /\ seen' \subseteq Proofs /\ Holds(r) /\ Passed(r)
      /\ usage' \in {FreeJti, StrandedRow("release")}
  BY DEF SignInv, Types, WalletFails, WorksOnPassed, InHand, Holds, At
<1>2. disturbances' \in 0 .. MaxDisturbances
  BY DisturbKeeps DEF SignInv, Types, WalletFails
<1>3. PICK reply \in Replies : IsProblem(reply) /\ Reply(r, reply)
  BY WalletProblemsAreReplies, WalletProblemsAreProblems DEF WalletFails
<1> QED
  BY <1>1, <1>2, <1>3, EndUnderRowKeeps

(* A hang-up strands the row of a request that has one. *)
LEMMA HangUpKeeps ==
    ASSUME SignInv, NEW r \in Requests, CallerHangsUp(r)
    PROVE  SignInv'
<1>1. /\ signed' = signed /\ snapshot' = snapshot /\ revocation' = revocation
      /\ seen' \subseteq Proofs /\ InHand(r) /\ Passed(r)
  BY DEF SignInv, Types, CallerHangsUp, WorksOnPassed, InHand
<1>2. disturbances' \in 0 .. MaxDisturbances
  BY DisturbKeeps DEF SignInv, Types, CallerHangsUp
<1>3. PICK reply \in Replies : reply = NoReply /\ Reply(r, reply)
  BY SignedIsAReply DEF CallerHangsUp
<1>4. CASE Holds(r)
  <2>1. usage' = StrandedRow("hang_up")
    BY <1>4 DEF CallerHangsUp, SignInv, HolderOwns
  <2> QED
    BY <1>1, <1>2, <1>3, <1>4, <2>1, EndUnderRowKeeps
<1>5. CASE ~Holds(r)
  <2>1. usage' = usage
    BY <1>5 DEF CallerHangsUp, SignInv, OwnerHolds
  <2> QED
    BY <1>1, <1>2, <1>3, <1>5, <2>1, RefusalKeeps
<1> QED
  BY <1>4, <1>5

(* A commit completes the row, or fails and leaves it to lapse; the client  *)
(* has its transaction either way.                                          *)
LEMMA CommitKeeps ==
    ASSUME SignInv, NEW r \in Requests, Commit(r)
    PROVE  SignInv'
<1>1. /\ signed' = signed /\ snapshot' = snapshot /\ revocation' = revocation
      /\ seen' \subseteq Proofs /\ At(r, "commit") /\ Holds(r) /\ Passed(r) /\ Reply(r, Signed)
  BY DEF SignInv, Types, Commit, WorksOnPassed, InHand, Holds, At
<1>2. disturbances' \in 0 .. MaxDisturbances
  BY DisturbKeeps DEF SignInv, Types, Commit
<1>3. usage.owner = r /\ usage.state = "pending" /\ usage.intent = requests[r].q.auth.intent
  BY <1>1 DEF SignInv, HolderOwns
<1>4. /\ usage' \in UsageRows /\ usage'.owner = "none" /\ usage'.intent = usage.intent
      /\ usage'.state = "completed" \/ usage'.stranded = "commit"
  BY DEF SignInv, Types, Commit, UsageRows, StrandedRow
<1>5. /\ requests' \in [Requests -> RequestRecords]
      /\ requests'[r].pc = "answered" /\ requests'[r].reply = Signed
      /\ requests'[r].q = requests[r].q
      /\ \A o \in Requests : o # r => requests'[o] = requests[o]
  BY <1>1, SignedIsAReply, ReplyEffect DEF SignInv, Types
<1>6. Types'
  BY <1>1, <1>2, <1>4, <1>5 DEF SignInv, Types
<1>7. \A o \in Requests : Passed(o) => Passed(o)'
  BY <1>5 DEF Passed
<1>8. Remembered' /\ WorksOnPassed'
  BY <1>5, <1>7 DEF SignInv, Remembered, WorksOnPassed, InHand
<1>9. \A o \in Requests : ~Holds(o)'
  BY <1>3, <1>5 DEF SignInv, HolderOwns, Holds
<1>10. HolderOwns' /\ OwnerHolds'
  BY <1>4, <1>9, WalletSignAssumption DEF HolderOwns, OwnerHolds
<1>11. SignedFor(requests[r].q.auth.intent)
  BY <1>1 DEF SignInv, CommitsTheSigned
<1>12. CommitsTheSigned' /\ RowExplained'
  BY <1>1, <1>3, <1>4, <1>9, <1>11 DEF CommitsTheSigned, RowExplained, SignedFor, At, Holds
<1>13. Answers'
  <2> SUFFICES ASSUME NEW o \in Requests, At(o, "answered")'
               PROVE  AnswerHolds(o)'
    BY DEF Answers
  <2>1. CASE o = r
    BY <1>1, <1>5, <1>11, <2>1 DEF AnswerHolds, SignedFor
  <2>2. CASE o # r
    BY <1>1, <1>5, <1>7, <2>2 DEF SignInv, Answers, AnswerHolds, At, SignedFor
  <2> QED
    BY <2>1, <2>2
<1>14. AllAuthorized'
  BY <1>1 DEF SignInv, AllAuthorized
<1> QED
  BY <1>6, <1>8, <1>10, <1>12, <1>13, <1>14 DEF SignInv

(* Only a row nobody works under lapses. *)
LEMMA LapseKeeps ==
    ASSUME SignInv, ReservationLapses
    PROVE  SignInv'
<1>1. UNCHANGED <<requests, seen, snapshot, revocation, signed, disturbances>>
  BY DEF ReservationLapses
<1>2. \A r \in Requests : ~Holds(r)
  BY WalletSignAssumption DEF SignInv, HolderOwns, ReservationLapses
<1>a. /\ usage' \in UsageRows /\ usage'.state = "lapsed" /\ usage'.owner = "none"
      /\ usage'.intent = usage.intent /\ usage'.stranded = usage.stranded
      /\ usage.state = "pending" /\ usage.owner = "none"
  BY DEF SignInv, Types, UsageRows, ReservationLapses
<1>3. Types'
  BY <1>1, <1>a DEF SignInv, Types
<1>4. Remembered' /\ WorksOnPassed'
  BY <1>1 DEF SignInv, Remembered, WorksOnPassed, InHand, Passed
<1>5. HolderOwns' /\ OwnerHolds' /\ CommitsTheSigned' /\ RowExplained'
  BY <1>1, <1>2, <1>a, WalletSignAssumption
     DEF SignInv, HolderOwns, OwnerHolds, CommitsTheSigned, RowExplained, SignedFor, Holds, At
<1>6. Answers' /\ AllAuthorized'
  BY <1>1 DEF SignInv, Answers, AnswerHolds, AllAuthorized, SignedFor, At, Passed
<1> QED
  BY <1>3, <1>4, <1>5, <1>6 DEF SignInv

LEMMA InitHolds == Init => SignInv
<1> SUFFICES ASSUME Init PROVE SignInv
  OBVIOUS
<1>1. IdleRequest \in RequestRecords /\ IdleRequest.pc = "idle" /\ IdleRequest.q = NoInput
  BY SignedIsAReply DEF IdleRequest, RequestRecords, PCs
<1>2. \A r \in Requests : requests[r].pc = "idle" /\ requests[r].q = NoInput
  BY <1>1 DEF Init
<1>3. Types
  BY <1>1, WalletSignAssumption DEF Init, Types, FreeJti, UsageRow, UsageRows
<1>4. Remembered /\ WorksOnPassed /\ HolderOwns /\ CommitsTheSigned /\ Answers
  BY <1>2 DEF Remembered, WorksOnPassed, InHand, HolderOwns, Holds, CommitsTheSigned, Answers, At
<1>5. OwnerHolds /\ RowExplained /\ AllAuthorized
  BY WalletSignAssumption DEF Init, OwnerHolds, RowExplained, AllAuthorized, FreeJti, UsageRow
<1> QED
  BY <1>3, <1>4, <1>5 DEF SignInv

LEMMA StepKeeps == SignInv /\ [Next]_vars => SignInv'
<1> SUFFICES ASSUME SignInv, [Next]_vars PROVE SignInv'
  OBVIOUS
<1>1. /\ seen \subseteq Proofs /\ snapshot \in Snapshots
      /\ revocation \in {"live", "stale", "revoked"} /\ disturbances \in 0 .. MaxDisturbances
  BY DEF SignInv, Types
<1>2. CASE UNCHANGED vars
  BY <1>1, <1>2, WorldKeeps DEF vars
<1>3. ASSUME NEW r \in Requests, Send(r)
      PROVE  SignInv'
  <2>1. PICK q \in Inputs(r), p \in Proofs : Authorize(r, q, p)
    BY <1>3 DEF Send
  <2>2. ~InHand(r) /\ disturbances' \in 0 .. MaxDisturbances
    BY <1>1, <1>3 DEF Send, At, InHand
  <2> QED
    BY <2>1, <2>2, AuthorizeKeeps
<1>4. ASSUME NEW r \in Requests, Retry(r)
      PROVE  SignInv'
  <2>1. PICK p \in Proofs : Authorize(r, requests[r].q, p)
    BY <1>4 DEF Retry
  <2>2. ~InHand(r) /\ disturbances' \in 0 .. MaxDisturbances
    BY <1>1, <1>4 DEF Retry, At, InHand
  <2>3. requests[r].reply # Signed /\ requests[r].reply # NoReply
    BY <1>4 DEF Retry, Signed, NoReply
  <2>4. Passed(r)
    BY <1>4, <2>3 DEF Retry, SignInv, Answers, AnswerHolds
  <2> QED
    BY <2>1, <2>2, <2>4, AuthorizeKeeps DEF Passed
<1>5. ASSUME NEW r \in Requests, Resend(r)
      PROVE  SignInv'
  <2>1. PICK p \in Proofs : Authorize(r, requests[r].q, p)
    BY <1>5 DEF Resend
  <2>2. ~InHand(r)
    BY <1>5 DEF Resend, At, InHand
  <2>3. disturbances' \in 0 .. MaxDisturbances
    BY <1>1, <1>5, DisturbKeeps DEF Resend
  <2>4. Passed(r)
    BY <1>5 DEF Resend, SignInv, Remembered
  <2> QED
    BY <2>1, <2>2, <2>3, <2>4, AuthorizeKeeps DEF Passed
<1>6. ASSUME NEW r \in Requests, Handle(r)
      PROVE  SignInv'
  BY <1>6, RevocationKeeps, ReserveKeeps, LedgerFailureKeeps, SignKeeps, WalletFailureKeeps,
     CommitKeeps DEF Handle
<1>7. ASSUME NEW p \in Proofs, ForgetProof(p)
      PROVE  SignInv'
  BY <1>1, <1>7, WorldKeeps DEF ForgetProof
<1>8. ASSUME NEW s \in Snapshots, PublishSnapshot(s)
      PROVE  SignInv'
  <2>1. disturbances' \in 0 .. MaxDisturbances
    BY <1>1, <1>8, DisturbKeeps DEF PublishSnapshot
  <2> QED
    BY <1>1, <1>8, <2>1, WorldKeeps DEF PublishSnapshot
<1>9. CASE RevocationChanges
  <2>1. disturbances' \in 0 .. MaxDisturbances
    BY <1>1, <1>9, DisturbKeeps DEF RevocationChanges
  <2> QED
    BY <1>1, <1>9, <2>1, WorldKeeps DEF RevocationChanges
<1> QED
  BY <1>2, <1>3, <1>4, <1>5, <1>6, <1>7, <1>8, <1>9, LapseKeeps, HangUpKeeps DEF Next

-----------------------------------------------------------------------------
(* Theorems *)

LEMMA SignInvHolds == Spec => []SignInv
BY InitHolds, StepKeeps, PTL DEF Spec

(* Types, and that a request the wallet works on or remembers got past the  *)
(* gate of its body.                                                        *)
THEOREM TypeCorrect == Spec => []TypeOK
<1>1. SignInv => TypeOK
  <2> SUFFICES ASSUME SignInv PROVE TypeOK
    OBVIOUS
  <2>1. \A r \in Requests : requests[r].pc \in PCs
    BY DEF SignInv, Types, RequestRecords
  <2>2. \A r \in Requests : requests[r].q # NoInput => BodyGate(requests[r].q) = "pass"
    BY DEF SignInv, Remembered, Passed
  <2> QED
    BY <2>1, <2>2 DEF SignInv, Types, TypeOK, PCs, UsageRows
<1> QED
  BY <1>1, SignInvHolds, PTL

(* Whatever clients put into their bodies and however their requests        *)
(* interleave, the wallet signs only what an issuer's intent is over, on    *)
(* its own network and within its cap.                                      *)
THEOREM OnlyAuthorizedIsSigned == Spec => []SignedAsAuthorized
<1>1. SignInv => SignedAsAuthorized
  BY DEF SignInv, AllAuthorized, IsAuthorized, SignedAsAuthorized
<1> QED
  BY <1>1, SignInvHolds, PTL

(* A token that is not completed is kept from others only by a request that *)
(* is signing under it, or since a hang-up or a failed release or commit;   *)
(* in the last case there is a transaction for the intent it holds.         *)
THEOREM OnlyFailuresStrandTheRow == Spec => []RowHasAReason
<1>1. SignInv => RowHasAReason
  <2> SUFFICES ASSUME SignInv PROVE RowHasAReason
    OBVIOUS
  <2>1. usage.owner \in Requests \cup {"none"}
    BY DEF SignInv, Types, UsageRows
  <2>2. usage.owner # "none" =>
          \E r \in Requests : usage.owner = r /\ requests[r].pc \in {"sign", "commit"}
    BY <2>1 DEF SignInv, OwnerHolds, Holds
  <2> QED
    BY <2>2 DEF SignInv, RowExplained, RowHasAReason, SignedFor
<1> QED
  BY <1>1, SignInvHolds, PTL

(* A retryable problem is a 503 with a Retry-After, and a client answered   *)
(* "signed" has a transaction for its own intent, whoever signed it.        *)
THEOREM AnswersAreTrue == Spec => []AnswersAreHonest
<1>1. ~Signed.retryable
  BY DEF Signed, NoReply
<1>2. SignInv => AnswersAreHonest
  <2> SUFFICES ASSUME SignInv, NEW r \in Requests, At(r, "answered")
               PROVE  /\ requests[r].reply.retryable =>
                            requests[r].reply.status = 503 /\ requests[r].reply.retryAfter
                      /\ requests[r].reply = Signed =>
                            \E x \in signed : x.intent = requests[r].q.auth.intent
    BY DEF AnswersAreHonest
  <2>1. AnswerHolds(r)
    BY DEF SignInv, Answers
  <2> QED
    BY <1>1, <2>1 DEF AnswerHolds, IsProblem, SignedFor, NoReply, Signed
<1> QED
  BY <1>2, SignInvHolds, PTL

-----------------------------------------------------------------------------
(* The single-use ledger: SingleUse for any number of requests and tokens *)

(* Types *)

(* A request under way names a jti and an intent. *)
TaskKnows ==
    \A t \in Tasks : tasks[t].pc # "idle" =>
        tasks[t].jti \in Jtis /\ tasks[t].intent \in Intents /\ tasks[t].stamp <= now

TypeInv == TypeOKSingleUse /\ TaskKnows

LEMMA TypeInit == SingleUseInit => TypeInv
  BY DEF SingleUseInit, TypeInv, TypeOKSingleUse, TaskKnows, TaskState, Idle

(* Ending a request and moving it on leave the requests well typed. *)
LEMMA DoneType ==
    ASSUME TypeOKSingleUse, NEW t \in Tasks
    PROVE  /\ Done(t) \in [Tasks -> TaskState]
           /\ Done(t)[t].pc = "idle"
           /\ \A u \in Tasks : u # t => Done(t)[u] = tasks[u]
<1>1. Idle \in TaskState /\ Idle.pc = "idle"
  BY DEF Idle, TaskState
<1> QED
  BY <1>1 DEF Done, TypeOKSingleUse

LEMMA GotoType ==
    ASSUME TypeOKSingleUse, NEW t \in Tasks, NEW pc \in {"idle", "reserve", "sign", "commit", "release"}
    PROVE  /\ TaskGoto(t, pc) \in [Tasks -> TaskState]
           /\ TaskGoto(t, pc)[t].pc = pc /\ TaskGoto(t, pc)[t].jti = tasks[t].jti
           /\ TaskGoto(t, pc)[t].intent = tasks[t].intent /\ TaskGoto(t, pc)[t].stamp = tasks[t].stamp
           /\ \A u \in Tasks : u # t => TaskGoto(t, pc)[u] = tasks[u]
<1> DEFINE n == [tasks[t] EXCEPT !.pc = pc]
<1>1. tasks \in [Tasks -> TaskState] /\ tasks[t] \in TaskState
  BY DEF TypeOKSingleUse
<1>2. n \in TaskState /\ n.pc = pc /\ n.jti = tasks[t].jti /\ n.intent = tasks[t].intent
      /\ n.stamp = tasks[t].stamp
  BY <1>1 DEF TaskState
<1>3. TaskGoto(t, pc) = [tasks EXCEPT ![t] = n]
  BY DEF TaskGoto
<1> HIDE DEF n
<1> QED
  BY <1>1, <1>2, <1>3

LEMMA TypeStep == TypeInv /\ [SingleUseNext]_singleUseVars => TypeInv'
<1> SUFFICES ASSUME TypeInv, [SingleUseNext]_singleUseVars PROVE TypeInv'
  OBVIOUS
<1> USE SingleUseAssumption
<1>0. TypeOKSingleUse /\ TaskKnows
  BY DEF TypeInv
<1> USE DEF TypeInv
<1>1. ASSUME NEW t \in Tasks, NEW jti \in Jtis, NEW intent \in Intents, Arrive(t, jti, intent)
      PROVE  TypeInv'
  <2> DEFINE n == [pc |-> "reserve", jti |-> jti, intent |-> intent, stamp |-> now, payload |-> 0]
  <2>1. n \in TaskState /\ n.pc = "reserve" /\ n.jti = jti /\ n.intent = intent /\ n.stamp = now
    BY <1>0 DEF TypeOKSingleUse, TaskState
  <2>2. tasks' = [tasks EXCEPT ![t] = n] /\ UNCHANGED <<now, entries, made, delivered, unrecorded>>
    BY <1>1 DEF Arrive
  <2> HIDE DEF n
  <2> QED
    BY <1>0, <2>1, <2>2 DEF TypeOKSingleUse, TaskKnows
<1>2. ASSUME NEW t \in Tasks, ReserveUnseen(t) PROVE TypeInv'
  <2> DEFINE r == tasks[t]
             row == [intent |-> r.intent, completed |-> FALSE, at |-> r.stamp, payload |-> 0]
  <2>1. r.jti \in Jtis /\ r.intent \in Intents /\ r.stamp \in Nat /\ r.pc = "reserve"
    BY <1>0, <1>2 DEF ReserveUnseen, TypeOKSingleUse, TaskKnows, TaskState
  <2>2. row \in Entry
    BY <2>1 DEF Entry
  <2>3. entries' = Put(entries, r.jti, row) /\ tasks' = TaskGoto(t, "sign")
        /\ UNCHANGED <<now, made, delivered, unrecorded>>
    BY <1>2 DEF ReserveUnseen
  <2> HIDE DEF row
  <2>4. entries' \in [DOMAIN entries' -> Entry] /\ DOMAIN entries' \subseteq Jtis
    BY <1>0, <2>1, <2>2, <2>3 DEF TypeOKSingleUse, Put
  <2>5. /\ tasks' \in [Tasks -> TaskState]
        /\ tasks'[t].jti = r.jti /\ tasks'[t].intent = r.intent /\ tasks'[t].stamp = r.stamp
        /\ \A u \in Tasks : u # t => tasks'[u] = tasks[u]
    BY <1>0, <2>3, GotoType
  <2>6. r.stamp <= now
    BY <1>0, <2>1 DEF TaskKnows
  <2>7. TypeOKSingleUse'
    BY <1>0, <2>3, <2>4, <2>5 DEF TypeOKSingleUse
  <2>8. TaskKnows'
    BY <1>0, <2>1, <2>3, <2>5, <2>6 DEF TaskKnows
  <2> QED
    BY <2>7, <2>8
<1>3. ASSUME NEW t \in Tasks, ReserveReclaim(t) PROVE TypeInv'
  <2> DEFINE row == [entries[tasks[t].jti] EXCEPT !.at = tasks[t].stamp]
  <2>1. tasks[t].stamp \in Nat /\ entries[tasks[t].jti] \in Entry
    BY <1>0, <1>3 DEF ReserveReclaim, TypeOKSingleUse, TaskState
  <2>2. row \in Entry
    BY <2>1 DEF Entry
  <2>3. entries' = [entries EXCEPT ![tasks[t].jti] = row] /\ tasks' = TaskGoto(t, "sign")
        /\ UNCHANGED <<now, made, delivered, unrecorded>>
    BY <1>3 DEF ReserveReclaim
  <2>4. tasks[t].pc = "reserve"
    BY <1>3 DEF ReserveReclaim
  <2> HIDE DEF row
  <2>5. entries' \in [DOMAIN entries' -> Entry] /\ DOMAIN entries' \subseteq Jtis
    BY <1>0, <2>2, <2>3 DEF TypeOKSingleUse
  <2> QED
    BY <1>0, <2>3, <2>4, <2>5, GotoType DEF TypeOKSingleUse, TaskKnows
<1>4. ASSUME NEW t \in Tasks, ReserveReplay(t) PROVE TypeInv'
  <2>1. entries[tasks[t].jti].payload \in Nat
    BY <1>0, <1>4 DEF ReserveReplay, TypeOKSingleUse, Entry
  <2> QED
    BY <1>0, <1>4, <2>1, DoneType DEF ReserveReplay, TypeOKSingleUse, TaskKnows
<1>5. ASSUME NEW t \in Tasks, ReserveRefuse(t) \/ Abandon(t) PROVE TypeInv'
  BY <1>0, <1>5, DoneType DEF ReserveRefuse, Abandon, TypeOKSingleUse, TaskKnows
<1>6. ASSUME NEW t \in Tasks, Sign(t) PROVE TypeInv'
  <2> DEFINE next == made[tasks[t].jti] + 1
             n == [tasks[t] EXCEPT !.pc = "commit", !.payload = next]
  <2>1. tasks[t] \in TaskState /\ tasks[t].jti \in Jtis /\ next \in Nat
        /\ tasks[t].pc # "idle"
    BY <1>0, <1>6 DEF Sign, TypeOKSingleUse, TaskKnows
  <2>3. tasks' = [tasks EXCEPT ![t] = n] /\ UNCHANGED <<now, entries, delivered, unrecorded>>
        /\ made' = [made EXCEPT ![tasks[t].jti] = next]
    BY <1>6 DEF Sign
  <2> HIDE DEF next
  <2>2. n \in TaskState /\ n.jti = tasks[t].jti /\ n.intent = tasks[t].intent
        /\ n.stamp = tasks[t].stamp
    BY <2>1 DEF TaskState
  <2> HIDE DEF n
  <2> QED
    BY <1>0, <2>1, <2>2, <2>3 DEF TypeOKSingleUse, TaskKnows
<1>7. ASSUME NEW t \in Tasks, SignFails(t) PROVE TypeInv'
  BY <1>0, <1>7, GotoType DEF SignFails, TypeOKSingleUse, TaskKnows
<1>8. ASSUME NEW t \in Tasks, CommitEntry(t) PROVE TypeInv'
  <2> DEFINE r == tasks[t]
             at == IF r.jti \in DOMAIN entries THEN entries[r.jti].at ELSE now
             row == [intent |-> r.intent, completed |-> TRUE, at |-> at, payload |-> r.payload]
  <2>1. r.jti \in Jtis /\ r.intent \in Intents /\ r.payload \in Nat /\ at \in Nat
    BY <1>0, <1>8 DEF CommitEntry, TypeOKSingleUse, TaskKnows, TaskState, Entry
  <2>2. row \in Entry
    BY <2>1 DEF Entry
  <2>3. entries' = Put(entries, r.jti, row) /\ tasks' = Done(t)
        /\ delivered' = [delivered EXCEPT ![r.jti] = @ \cup {r.payload}]
        /\ UNCHANGED <<now, made, unrecorded>>
    BY <1>8 DEF CommitEntry
  <2> HIDE DEF row, at
  <2> QED
    BY <1>0, <2>1, <2>2, <2>3, DoneType DEF TypeOKSingleUse, TaskKnows, Put
<1>9. ASSUME NEW t \in Tasks, CommitFails(t) PROVE TypeInv'
  <2>1. tasks[t].jti \in Jtis /\ tasks[t].payload \in Nat
    BY <1>0, <1>9 DEF CommitFails, TypeOKSingleUse, TaskKnows, TaskState
  <2> QED
    BY <1>0, <1>9, <2>1, DoneType DEF CommitFails, TypeOKSingleUse, TaskKnows
<1>10. ASSUME NEW t \in Tasks, Release(t) PROVE TypeInv'
  BY <1>0, <1>10, DoneType DEF Release, TypeOKSingleUse, TaskKnows, Restrict
<1>11. CASE Tick
  BY <1>0, <1>11 DEF Tick, TypeOKSingleUse, TaskKnows, TaskState
<1>12. CASE UNCHANGED singleUseVars
  BY <1>0, <1>12 DEF singleUseVars, TypeOKSingleUse, TaskKnows
<1> QED
  BY <1>1, <1>2, <1>3, <1>4, <1>5, <1>6, <1>7, <1>8, <1>9, <1>10, <1>11, <1>12 DEF SingleUseNext

(* The table, the requests and the clock keep their types. *)
THEOREM SingleUseTypeCorrect == SingleUseSpec => []TypeOKSingleUse
<1>1. TypeInv => TypeOKSingleUse
  BY DEF TypeInv
<1> QED
  BY TypeInit, TypeStep, <1>1, PTL DEF SingleUseSpec

-----------------------------------------------------------------------------
(* The inductive invariant, for punctual requests *)

(* A request under way took the time less than a window ago. *)
Timely == \A t \in Tasks : tasks[t].pc # "idle" => now - tasks[t].stamp < TTL

(* A request that holds the wallet owns the pending row of its jti: the row *)
(* carries the time this very request took.                                 *)
OwnsRow(t) ==
    /\ tasks[t].jti \in DOMAIN entries
    /\ ~entries[tasks[t].jti].completed
    /\ entries[tasks[t].jti].at = tasks[t].stamp
HoldersOwn == \A t \in Tasks : Holding(t) => OwnsRow(t)

(* What was handed out is what the completed row stores. *)
Stored(j, x) == j \in DOMAIN entries /\ entries[j].completed /\ entries[j].payload = x
DeliveredIsStored == \A j \in Jtis \ unrecorded : \A x \in delivered[j] : Stored(j, x)

UseInv == TypeInv /\ Timely /\ HoldersOwn /\ OneSigner /\ DeliveredIsStored

LEMMA UseInit == SingleUseInit => UseInv
<1> SUFFICES ASSUME SingleUseInit PROVE UseInv
  OBVIOUS
<1>1. \A t \in Tasks : tasks[t].pc = "idle"
  BY DEF SingleUseInit, Idle
<1>2. \A j \in Jtis : delivered[j] = {}
  BY DEF SingleUseInit
<1> QED
  BY <1>1, <1>2, TypeInit DEF UseInv, Timely, HoldersOwn, OneSigner, Holding, DeliveredIsStored

(* A step of one request that leaves the table alone and takes no           *)
(* reservation keeps who owns what.                                         *)
LEMMA OwnersKept ==
    ASSUME UseInv, TypeInv', NEW t \in Tasks,
           \A u \in Tasks : u # t => tasks'[u] = tasks[u],
           Holding(t)' => Holding(t),
           tasks'[t].pc # "idle" => /\ tasks[t].pc # "idle"
                                    /\ tasks'[t].jti = tasks[t].jti
                                    /\ tasks'[t].stamp = tasks[t].stamp,
           entries' = entries, now' = now
    PROVE  Timely' /\ HoldersOwn' /\ OneSigner'
<1>1. Timely'
  BY DEF UseInv, Timely
<1>2. \A u \in Tasks : Holding(u)' =>
        Holding(u) /\ tasks'[u].jti = tasks[u].jti /\ tasks'[u].stamp = tasks[u].stamp
  BY DEF Holding
<1>3. HoldersOwn'
  BY <1>2 DEF UseInv, HoldersOwn, OwnsRow
<1>4. OneSigner'
  BY <1>2 DEF UseInv, OneSigner
<1> QED
  BY <1>1, <1>3, <1>4

(* A request that takes a reservation of a jti no other request holds, and  *)
(* writes it with the time it took, becomes its one owner.                  *)
LEMMA OwnerTakes ==
    ASSUME UseInv, NEW t \in Tasks,
           tasks[t].pc # "idle",
           tasks'[t].jti = tasks[t].jti, tasks'[t].stamp = tasks[t].stamp,
           \A u \in Tasks : u # t => tasks'[u] = tasks[u],
           \A u \in Tasks : u # t /\ Holding(u) => tasks[u].jti # tasks[t].jti,
           tasks[t].jti \in DOMAIN entries', ~entries'[tasks[t].jti].completed,
           entries'[tasks[t].jti].at = tasks[t].stamp,
           \A j \in DOMAIN entries : j # tasks[t].jti => j \in DOMAIN entries' /\ entries'[j] = entries[j],
           now' = now
    PROVE  Timely' /\ HoldersOwn' /\ OneSigner'
<1>1. Timely'
  BY DEF UseInv, Timely
<1>2. \A u \in Tasks : u # t /\ Holding(u)' => Holding(u) /\ tasks[u].jti # tasks[t].jti
  BY DEF Holding
<1>3. OwnsRow(t)'
  BY DEF OwnsRow
<1>4. HoldersOwn'
  BY <1>2, <1>3 DEF UseInv, HoldersOwn, OwnsRow
<1>5. OneSigner'
  BY <1>2 DEF UseInv, OneSigner
<1> QED
  BY <1>1, <1>4, <1>5

(* A holder that ends, and touches only its own row, leaves the others be.  *)
LEMMA OwnerLeaves ==
    ASSUME UseInv, NEW t \in Tasks, Holding(t), tasks'[t].pc = "idle",
           \A u \in Tasks : u # t => tasks'[u] = tasks[u],
           \A j \in DOMAIN entries : j # tasks[t].jti => j \in DOMAIN entries' /\ entries'[j] = entries[j],
           now' = now
    PROVE  Timely' /\ HoldersOwn' /\ OneSigner'
<1>1. Timely'
  BY DEF UseInv, Timely
<1>2. \A u \in Tasks : Holding(u)' => u # t /\ Holding(u) /\ tasks[u].jti # tasks[t].jti
  BY DEF Holding, UseInv, OneSigner
<1>3. HoldersOwn'
  BY <1>2 DEF UseInv, HoldersOwn, OwnsRow
<1>4. OneSigner'
  BY <1>2 DEF UseInv, OneSigner
<1> QED
  BY <1>1, <1>3, <1>4

LEMMA UseStep ==
    ASSUME Punctual, UseInv, [SingleUseNext]_singleUseVars
    PROVE  UseInv'
<1> USE SingleUseAssumption
<1>0. TypeInv' /\ TypeOKSingleUse /\ TaskKnows /\ Timely /\ HoldersOwn /\ OneSigner /\ DeliveredIsStored
  BY TypeStep DEF UseInv, TypeInv
<1>a. ASSUME UNCHANGED <<entries, delivered, unrecorded>> PROVE DeliveredIsStored'
  BY <1>0, <1>a DEF DeliveredIsStored, Stored
<1>1. ASSUME NEW t \in Tasks, NEW jti \in Jtis, NEW intent \in Intents, Arrive(t, jti, intent)
      PROVE  UseInv'
  <2>1. /\ tasks'[t].pc = "reserve" /\ tasks'[t].stamp = now /\ now' = now
        /\ UNCHANGED <<entries, delivered, unrecorded>>
        /\ \A u \in Tasks : u # t => tasks'[u] = tasks[u]
    BY <1>0, <1>1 DEF Arrive, TypeOKSingleUse
  <2>2. Timely'
    BY <1>0, <2>1 DEF Timely, TypeOKSingleUse
  <2>3. \A u \in Tasks : Holding(u)' => u # t /\ Holding(u)
    BY <2>1 DEF Holding
  <2>4. HoldersOwn' /\ OneSigner'
    BY <1>0, <2>1, <2>3 DEF HoldersOwn, OneSigner, OwnsRow
  <2> QED
    BY <1>0, <1>a, <2>1, <2>2, <2>4 DEF UseInv
<1>2. ASSUME NEW t \in Tasks, ReserveUnseen(t) PROVE UseInv'
  <2> DEFINE r == tasks[t]
             row == [intent |-> r.intent, completed |-> FALSE, at |-> r.stamp, payload |-> 0]
  <2>1. r.pc = "reserve" /\ r.jti \notin DOMAIN entries /\ entries' = Put(entries, r.jti, row)
        /\ tasks' = TaskGoto(t, "sign") /\ UNCHANGED <<now, made, delivered, unrecorded>>
    BY <1>2 DEF ReserveUnseen
  <2>2. ~row.completed /\ row.at = r.stamp
    OBVIOUS
  <2> HIDE DEF row
  <2>3. /\ r.jti \in DOMAIN entries' /\ entries'[r.jti] = row
        /\ \A j \in DOMAIN entries : j # r.jti /\ j \in DOMAIN entries' /\ entries'[j] = entries[j]
    BY <2>1 DEF Put
  <2>4. \A u \in Tasks : Holding(u) => tasks[u].jti # r.jti
    BY <1>0, <2>1 DEF HoldersOwn, OwnsRow
  <2>5. /\ tasks'[t].jti = r.jti /\ tasks'[t].stamp = r.stamp
        /\ \A u \in Tasks : u # t => tasks'[u] = tasks[u]
    BY <1>0, <2>1, GotoType
  <2>6. Timely' /\ HoldersOwn' /\ OneSigner'
    BY <2>1, <2>2, <2>3, <2>4, <2>5, OwnerTakes
  <2>7. DeliveredIsStored'
    BY <1>0, <2>1, <2>3 DEF DeliveredIsStored, Stored
  <2> QED
    BY <1>0, <2>6, <2>7 DEF UseInv
<1>3. ASSUME NEW t \in Tasks, ReserveReclaim(t) PROVE UseInv'
  <2> DEFINE r == tasks[t]
             row == [entries[r.jti] EXCEPT !.at = r.stamp]
  <2>1. r.pc = "reserve" /\ r.jti \in DOMAIN entries /\ entries' = [entries EXCEPT ![r.jti] = row]
        /\ tasks' = TaskGoto(t, "sign") /\ UNCHANGED <<now, made, delivered, unrecorded>>
        /\ ~entries[r.jti].completed /\ r.stamp - entries[r.jti].at >= TTL
    BY <1>3 DEF ReserveReclaim, IsAbandoned
  <2>2. entries[r.jti] \in Entry /\ r.stamp \in Nat /\ r.stamp <= now /\ now \in Nat
    BY <1>0, <2>1 DEF TypeOKSingleUse, TaskKnows, TaskState
  <2>3. ~row.completed /\ row.at = r.stamp
    BY <2>1, <2>2 DEF Entry
  <2> HIDE DEF row
  <2>4. /\ r.jti \in DOMAIN entries' /\ entries'[r.jti] = row /\ DOMAIN entries' = DOMAIN entries
        /\ \A j \in DOMAIN entries : j # r.jti => entries'[j] = entries[j]
    BY <1>0, <2>1 DEF TypeOKSingleUse
  <2>5. ASSUME NEW u \in Tasks, Holding(u), tasks[u].jti = r.jti PROVE FALSE
    <3>1. entries[r.jti].at = tasks[u].stamp /\ now - tasks[u].stamp < TTL
      BY <1>0, <2>5 DEF HoldersOwn, OwnsRow, Timely, Holding
    <3>2. tasks[u].stamp \in Nat /\ TTL \in Nat
      BY <1>0 DEF TypeOKSingleUse, TaskState
    <3> QED
      BY <2>1, <2>2, <3>1, <3>2
  <2>6. /\ tasks'[t].jti = r.jti /\ tasks'[t].stamp = r.stamp
        /\ \A u \in Tasks : u # t => tasks'[u] = tasks[u]
    BY <1>0, <2>1, GotoType
  <2>7. Timely' /\ HoldersOwn' /\ OneSigner'
    BY <2>1, <2>3, <2>4, <2>5, <2>6, OwnerTakes
  <2>8. DeliveredIsStored'
    BY <1>0, <2>1, <2>4 DEF DeliveredIsStored, Stored
  <2> QED
    BY <1>0, <2>7, <2>8 DEF UseInv
<1>4. ASSUME NEW t \in Tasks, ReserveReplay(t) PROVE UseInv'
  <2>1. /\ tasks'[t].pc = "idle" /\ \A u \in Tasks : u # t => tasks'[u] = tasks[u]
        /\ entries' = entries /\ now' = now /\ unrecorded' = unrecorded
    BY <1>0, <1>4, DoneType DEF ReserveReplay
  <2>2. Timely' /\ HoldersOwn' /\ OneSigner'
    BY <1>0, <2>1, OwnersKept DEF Holding
  <2>3. /\ Stored(tasks[t].jti, entries[tasks[t].jti].payload)
        /\ delivered' = [delivered EXCEPT ![tasks[t].jti] =
                            delivered[tasks[t].jti] \cup {entries[tasks[t].jti].payload}]
    BY <1>4 DEF ReserveReplay, Stored
  <2>4. DeliveredIsStored'
    BY <1>0, <2>1, <2>3 DEF DeliveredIsStored, Stored, TypeOKSingleUse
  <2> QED
    BY <1>0, <2>2, <2>4 DEF UseInv
<1>5. ASSUME NEW t \in Tasks, ReserveRefuse(t) \/ Abandon(t) PROVE UseInv'
  <2>1. /\ tasks'[t].pc = "idle" /\ \A u \in Tasks : u # t => tasks'[u] = tasks[u]
        /\ now' = now /\ UNCHANGED <<entries, delivered, unrecorded>>
    BY <1>0, <1>5, DoneType DEF ReserveRefuse, Abandon
  <2>2. Timely' /\ HoldersOwn' /\ OneSigner'
    BY <1>0, <2>1, OwnersKept DEF Holding
  <2> QED
    BY <1>0, <1>a, <2>1, <2>2 DEF UseInv
<1>6. ASSUME NEW t \in Tasks, Sign(t) PROVE UseInv'
  <2> DEFINE next == made[tasks[t].jti] + 1
             n == [tasks[t] EXCEPT !.pc = "commit", !.payload = next]
  <2>1. /\ tasks[t].pc = "sign" /\ tasks' = [tasks EXCEPT ![t] = n]
        /\ now' = now /\ UNCHANGED <<entries, delivered, unrecorded>>
    BY <1>6 DEF Sign
  <2> HIDE DEF next
  <2>2. tasks[t] \in TaskState
    BY <1>0 DEF TypeOKSingleUse
  <2>3. n.pc = "commit" /\ n.jti = tasks[t].jti /\ n.stamp = tasks[t].stamp
    BY <2>2 DEF TaskState
  <2> HIDE DEF n
  <2>4. tasks'[t] = n /\ \A u \in Tasks : u # t => tasks'[u] = tasks[u]
    BY <1>0, <2>1 DEF TypeOKSingleUse
  <2>5. Timely' /\ HoldersOwn' /\ OneSigner'
    BY <1>0, <2>1, <2>3, <2>4, OwnersKept DEF Holding
  <2> QED
    BY <1>0, <1>a, <2>1, <2>5 DEF UseInv
<1>7. ASSUME NEW t \in Tasks, SignFails(t) PROVE UseInv'
  <2>1. /\ tasks[t].pc = "sign" /\ tasks' = TaskGoto(t, "release")
        /\ now' = now /\ UNCHANGED <<entries, delivered, unrecorded>>
    BY <1>7 DEF SignFails
  <2>2. /\ tasks'[t].jti = tasks[t].jti /\ tasks'[t].stamp = tasks[t].stamp
        /\ \A u \in Tasks : u # t => tasks'[u] = tasks[u]
    BY <1>0, <2>1, GotoType
  <2>3. Timely' /\ HoldersOwn' /\ OneSigner'
    BY <1>0, <2>1, <2>2, OwnersKept DEF Holding
  <2> QED
    BY <1>0, <1>a, <2>1, <2>3 DEF UseInv
<1>8. ASSUME NEW t \in Tasks, CommitEntry(t) PROVE UseInv'
  <2> DEFINE r == tasks[t]
             at == IF r.jti \in DOMAIN entries THEN entries[r.jti].at ELSE now
             row == [intent |-> r.intent, completed |-> TRUE, at |-> at, payload |-> r.payload]
  <2>1. /\ r.pc = "commit" /\ entries' = Put(entries, r.jti, row) /\ tasks' = Done(t)
        /\ delivered' = [delivered EXCEPT ![r.jti] = delivered[r.jti] \cup {r.payload}]
        /\ now' = now /\ unrecorded' = unrecorded
    BY <1>8 DEF CommitEntry
  <2>2. row.completed /\ row.payload = r.payload
    OBVIOUS
  <2> HIDE DEF row, at
  <2>3. /\ r.jti \in DOMAIN entries' /\ entries'[r.jti] = row
        /\ \A j \in DOMAIN entries : j \in DOMAIN entries' /\ (j # r.jti => entries'[j] = entries[j])
    BY <2>1 DEF Put
  <2>4. tasks'[t].pc = "idle" /\ \A u \in Tasks : u # t => tasks'[u] = tasks[u]
    BY <1>0, <2>1, DoneType
  <2>5. Holding(t) /\ r.jti \in Jtis /\ ~entries[r.jti].completed
    BY <1>0, <2>1 DEF Holding, TaskKnows, HoldersOwn, OwnsRow
  <2>6. Timely' /\ HoldersOwn' /\ OneSigner'
    BY <2>1, <2>3, <2>4, <2>5, OwnerLeaves
  <2>7. r.jti \notin unrecorded => delivered[r.jti] = {}
    BY <1>0, <2>5 DEF DeliveredIsStored, Stored
  <2>8. DeliveredIsStored'
    BY <1>0, <2>1, <2>2, <2>3, <2>5, <2>7 DEF DeliveredIsStored, Stored, TypeOKSingleUse
  <2> QED
    BY <1>0, <2>6, <2>8 DEF UseInv
<1>9. ASSUME NEW t \in Tasks, CommitFails(t) PROVE UseInv'
  <2>1. /\ tasks[t].pc = "commit" /\ tasks' = Done(t) /\ now' = now /\ entries' = entries
        /\ unrecorded' = unrecorded \cup {tasks[t].jti}
        /\ delivered' = [delivered EXCEPT ![tasks[t].jti] =
                            delivered[tasks[t].jti] \cup {tasks[t].payload}]
    BY <1>9 DEF CommitFails
  <2>2. tasks'[t].pc = "idle" /\ \A u \in Tasks : u # t => tasks'[u] = tasks[u]
    BY <1>0, <2>1, DoneType
  <2>3. Timely' /\ HoldersOwn' /\ OneSigner'
    BY <1>0, <2>1, <2>2, OwnersKept DEF Holding
  <2>4. DeliveredIsStored'
    BY <1>0, <2>1 DEF DeliveredIsStored, Stored, TypeOKSingleUse
  <2> QED
    BY <1>0, <2>3, <2>4 DEF UseInv
<1>10. ASSUME NEW t \in Tasks, Release(t) PROVE UseInv'
  <2> DEFINE gone == {j \in DOMAIN entries : j = tasks[t].jti /\ ~entries[j].completed}
  <2>1. /\ tasks[t].pc = "release" /\ tasks' = Done(t) /\ now' = now
        /\ entries' = Restrict(entries, DOMAIN entries \ gone)
        /\ UNCHANGED <<delivered, unrecorded>>
    BY <1>10 DEF Release
  <2>2. tasks'[t].pc = "idle" /\ \A u \in Tasks : u # t => tasks'[u] = tasks[u]
    BY <1>0, <2>1, DoneType
  <2>3. \A j \in DOMAIN entries : j # tasks[t].jti \/ entries[j].completed
                                  => j \in DOMAIN entries' /\ entries'[j] = entries[j]
    BY <2>1 DEF Restrict
  <2>4. Timely' /\ HoldersOwn' /\ OneSigner'
    BY <2>1, <2>2, <2>3, OwnerLeaves DEF Holding
  <2>5. DeliveredIsStored'
    BY <1>0, <2>1, <2>3 DEF DeliveredIsStored, Stored
  <2> QED
    BY <1>0, <2>4, <2>5 DEF UseInv
<1>11. CASE Tick
  <2>1. Timely'
    <3>1. \A t \in Tasks : tasks[t].pc # "idle" => (now + 1) - tasks[t].stamp < TTL
      BY <1>11, Zenon DEF Tick
    <3>2. now' = now + 1 /\ tasks' = tasks
      BY <1>11, Zenon DEF Tick
    <3>3. now \in Nat /\ \A t \in Tasks : tasks[t].stamp \in Nat
      BY <1>0 DEF TypeOKSingleUse, TaskState
    <3> QED
      BY <3>1, <3>2, <3>3 DEF Timely
  <2>2. HoldersOwn' /\ OneSigner'
    BY <1>0, <1>11 DEF Tick, HoldersOwn, OneSigner, Holding, OwnsRow
  <2> QED
    BY <1>0, <1>a, <1>11, <2>1, <2>2 DEF UseInv, Tick
<1>12. CASE UNCHANGED singleUseVars
  <2>1. Timely' /\ HoldersOwn' /\ OneSigner'
    BY <1>0, <1>12 DEF singleUseVars, Timely, HoldersOwn, OneSigner, Holding, OwnsRow
  <2> QED
    BY <1>0, <1>a, <1>12, <2>1 DEF UseInv, singleUseVars
<1> QED
  BY <1>1, <1>2, <1>3, <1>4, <1>5, <1>6, <1>7, <1>8, <1>9, <1>10, <1>11, <1>12 DEF SingleUseNext

LEMMA UseHolds == ASSUME Punctual PROVE SingleUseSpec => []UseInv
<1>1. UseInv /\ [SingleUseNext]_singleUseVars => UseInv'
  BY UseStep
<1> QED
  BY UseInit, <1>1, PTL DEF SingleUseSpec

(* As long as requests end within the reservation window, no two of them    *)
(* have the wallet sign for one jti at the same time, over any number of    *)
(* replicas that share the table.                                           *)
THEOREM OneSignerAtATime == ASSUME Punctual PROVE SingleUseSpec => []OneSigner
<1>1. UseInv => OneSigner
  BY DEF UseInv
<1> QED
  BY UseHolds, <1>1, PTL

(* As long as requests end within the reservation window, a caller is       *)
(* handed at most one payload for a jti whose commits did not fail.         *)
THEOREM PayloadIsUnique == ASSUME Punctual PROVE SingleUseSpec => []SignedOnce
<1>1. UseInv => SignedOnce
  BY DEF UseInv, SignedOnce, DeliveredIsStored, Stored
<1> QED
  BY UseHolds, <1>1, PTL

-----------------------------------------------------------------------------
(* The revocation cache: Revocation *)

(* The inductive invariant *)

(* What a request r has found together with the cache holds every           *)
(* revocation up to the place it has drained to.                            *)
Drained(r) ==
    /\ r.since <= issued
    /\ \A j \in Tokens : position[j] \in 1..r.since => j \in revoked \cup r.found

(* What a request with its last page in hand has not seen is younger than   *)
(* the page, and the page is no older than Latency.                         *)
PageInHand(r) ==
    /\ r.asked <= clock /\ clock <= r.asked + Latency
    /\ \A j \in Tokens : position[j] > r.since => revokedAt[j] >= r.asked

(* An admission was made while the cache was fresh. *)
InTime(r) ==
    /\ r.jti \in Tokens /\ r.at <= clock /\ MaxStaleness > 0
    /\ position[r.jti] # 0 => r.at - revokedAt[r.jti] < MaxStaleness + Latency

Knows(r) ==
    /\ r.pc # "idle" => r.jti \in Tokens
    /\ r.pc \in {"fetch", "store"} => Drained(r)
    /\ r.pc = "store" => PageInHand(r)
    /\ r.outcome = "live" => InTime(r)

ChecksKnow == \A t \in Checks : Knows(checks[t])

(* A revocation that the cache has not seen came at most Latency before the *)
(* cache was stamped.                                                       *)
StampIsHonest ==
    lastRefresh # Never =>
        \A j \in Tokens \ revoked : position[j] # 0 => lastRefresh - revokedAt[j] <= Latency

RevocationInv == TypeOKRevocation /\ ChecksKnow /\ CursorCovers /\ StampIsHonest

LEMMA RevocationInvInit == RevocationInit => RevocationInv
<1> SUFFICES ASSUME RevocationInit PROVE RevocationInv
  OBVIOUS
<1>1. NoCheck \in CheckState /\ NoCheck.pc = "idle" /\ NoCheck.outcome = "none"
  BY DEF NoCheck, CheckState, Outcomes
<1>2. TypeOKRevocation
  BY <1>1 DEF RevocationInit, TypeOKRevocation
<1>3. ChecksKnow
  BY <1>1 DEF RevocationInit, ChecksKnow, Knows
<1> QED
  BY <1>2, <1>3 DEF RevocationInit, RevocationInv, CursorCovers, StampIsHonest

(* What a request knows stays true while the issuer and the clock stand     *)
(* still and the cache only grows.                                          *)
LEMMA KnowsKept ==
    ASSUME NEW r \in CheckState, Knows(r), revoked \subseteq revoked', UNCHANGED <<clock, issuer>>
    PROVE  Knows(r)'
  BY DEF Knows, Drained, PageInHand, InTime, issuer, CheckState

(* A step of request t alone that leaves issuer and clock be. *)
LEMMA CheckMoves ==
    ASSUME RevocationInv, NEW t \in Checks, NEW n \in CheckState, checks' = [checks EXCEPT ![t] = n],
           revoked \subseteq revoked', UNCHANGED <<clock, issuer>>, Knows(checks[t])'
    PROVE  ChecksKnow' /\ checks' \in [Checks -> CheckState]
<1>1. checks \in [Checks -> CheckState] /\ \A u \in Checks : Knows(checks[u])
  BY DEF RevocationInv, TypeOKRevocation, ChecksKnow
<1>2. checks' \in [Checks -> CheckState] /\ checks'[t] = n
      /\ \A u \in Checks : u # t => checks'[u] = checks[u]
  BY <1>1
<1>3. ASSUME NEW u \in Checks PROVE Knows(checks[u])'
  <2>1. CASE u = t
    BY <2>1
  <2>2. CASE u # t
    BY <1>1, <1>2, <2>2, KnowsKept DEF Knows, Drained, PageInHand, InTime
  <2> QED
    BY <2>1, <2>2
<1> QED
  BY <1>2, <1>3 DEF ChecksKnow

(* A step of request t that leaves the cache be as well keeps the rest. *)
LEMMA CheckMovesAlone ==
    ASSUME RevocationInv, NEW t \in Checks, NEW n \in CheckState, checks' = [checks EXCEPT ![t] = n],
           UNCHANGED <<clock, issuer, cache>>, Knows(checks[t])'
    PROVE  RevocationInv'
<1>1. ChecksKnow' /\ checks' \in [Checks -> CheckState]
  BY CheckMoves DEF cache
<1>2. TypeOKRevocation' /\ CursorCovers' /\ StampIsHonest'
  BY <1>1 DEF RevocationInv, TypeOKRevocation, CursorCovers, StampIsHonest, cache, issuer
<1> QED
  BY <1>1, <1>2 DEF RevocationInv

LEMMA RevocationInvStep == RevocationInv /\ [RevocationNext]_revocationVars => RevocationInv'
<1> SUFFICES ASSUME RevocationInv, [RevocationNext]_revocationVars PROVE RevocationInv'
  OBVIOUS
<1> USE RevocationAssumption
<1>0. TypeOKRevocation /\ ChecksKnow /\ CursorCovers /\ StampIsHonest
  BY DEF RevocationInv
<1>a. ASSUME NEW t \in Checks PROVE checks[t] \in CheckState /\ Knows(checks[t])
  BY <1>0 DEF TypeOKRevocation, ChecksKnow
<1>e. checks \in [Checks -> CheckState]
  BY <1>0 DEF TypeOKRevocation
<1>b. clock \in Nat /\ issued \in Nat /\ cursor \in 0..issued /\ revoked \subseteq Tokens
      /\ position \in [Tokens -> 0..issued] /\ revokedAt \in [Tokens -> 0..clock]
      /\ lastRefresh \in 0..clock \cup {Never}
  BY <1>0 DEF TypeOKRevocation
<1>1. ASSUME NEW t \in Checks, NEW jti \in Tokens, CheckFresh(t, jti) PROVE RevocationInv'
  <2> DEFINE n == [NoCheck EXCEPT !.pc = "read", !.jti = jti]
  <2>1. n \in CheckState /\ n.pc = "read" /\ n.jti = jti /\ n.outcome = "none"
    BY DEF NoCheck, CheckState, Outcomes
  <2>2. checks' = [checks EXCEPT ![t] = n] /\ UNCHANGED <<clock, issuer, cache>>
    BY <1>1 DEF CheckFresh
  <2> HIDE DEF n
  <2>n. checks'[t] = n
    BY <1>e, <2>2
  <2>3. Knows(checks[t])'
    BY <2>n, <2>1 DEF Knows
  <2> QED
    BY <2>1, <2>2, <2>3, CheckMovesAlone
<1>2. ASSUME NEW t \in Checks, NEW jti \in Tokens, CheckStale(t, jti) PROVE RevocationInv'
  <2> DEFINE n == [NoCheck EXCEPT !.pc = "fetch", !.jti = jti, !.since = cursor]
  <2>1. n \in CheckState /\ n.pc = "fetch" /\ n.jti = jti /\ n.outcome = "none"
        /\ n.since = cursor /\ n.found = {}
    <3>1. cursor \in Nat
      BY <1>b
    <3> QED
      BY <3>1 DEF NoCheck, CheckState, Outcomes
  <2>2. checks' = [checks EXCEPT ![t] = n] /\ UNCHANGED <<clock, issuer, cache>>
    BY <1>2 DEF CheckStale
  <2> HIDE DEF n
  <2>n. checks'[t] = n
    BY <1>e, <2>2
  <2>3. Knows(checks[t])'
    BY <2>n, <1>0, <1>b, <2>1, <2>2 DEF Knows, Drained, CursorCovers, issuer, cache
  <2> QED
    BY <2>1, <2>2, <2>3, CheckMovesAlone
<1>c. ASSUME NEW since \in 0..issued
      PROVE  /\ PageEnd(since) \in since..issued /\ Page(since) \subseteq Tokens
             /\ \A j \in Tokens : position[j] \in 1..PageEnd(since) =>
                    position[j] \in 1..since \/ j \in Page(since)
             /\ ~IsTruncated(since) => PageEnd(since) = issued
  BY <1>b DEF PageEnd, Page, IsTruncated
<1>3. ASSUME NEW t \in Checks, FetchLastPage(t) PROVE RevocationInv'
  <2> DEFINE r == checks[t]
             last == PageEnd(r.since)
             more == r.found \cup Page(r.since)
             n == [r EXCEPT !.pc = "store", !.since = last, !.found = more, !.asked = clock]
  <2>1. r.pc = "fetch" /\ ~IsTruncated(r.since) /\ checks' = [checks EXCEPT ![t] = n]
        /\ UNCHANGED <<clock, issuer, cache>>
    BY <1>3 DEF FetchLastPage
  <2>2. r \in CheckState /\ Knows(r) /\ r.since \in 0..issued
    BY <1>a, <1>b, <2>1 DEF Knows, Drained, CheckState
  <2>3. last = issued /\ last \in Nat /\ more \subseteq Tokens
        /\ \A j \in Tokens : position[j] \in 1..last =>
              position[j] \in 1..r.since \/ j \in Page(r.since)
    BY <1>b, <1>c, <2>1, <2>2 DEF CheckState
  <2>4. \A j \in Tokens : position[j] \in 1..last => j \in revoked \cup more
    BY <2>1, <2>2, <2>3 DEF Knows, Drained
  <2> HIDE DEF last, more
  <2>5. n \in CheckState /\ n.pc = "store" /\ n.since = last /\ n.found = more /\ n.asked = clock
        /\ n.jti = r.jti /\ n.outcome = r.outcome /\ n.at = r.at
    BY <1>b, <2>2, <2>3 DEF CheckState
  <2> HIDE DEF n
  <2>n. checks'[t] = n
    BY <1>e, <2>1
  <2>6. Drained(checks[t])' /\ PageInHand(checks[t])'
    BY <2>n, <1>b, <2>1, <2>3, <2>4, <2>5 DEF Drained, PageInHand, issuer, cache
  <2>7. r.jti \in Tokens /\ (r.outcome = "live" => InTime(checks[t])')
    BY <2>n, <2>1, <2>2, <2>5 DEF Knows, InTime, issuer
  <2>8. Knows(checks[t])'
    BY <2>n, <2>5, <2>6, <2>7 DEF Knows
  <2> QED
    BY <2>1, <2>5, <2>8, CheckMovesAlone
<1>4. ASSUME NEW t \in Checks, FetchMore(t) PROVE RevocationInv'
  <2> DEFINE r == checks[t]
             last == PageEnd(r.since)
             more == r.found \cup Page(r.since)
             pages == r.pages + 1
             pc == IF pages >= MaxPages THEN "read" ELSE "fetch"
             n == [r EXCEPT !.pc = pc, !.since = last, !.found = more, !.pages = pages]
  <2>1. r.pc = "fetch" /\ checks' = [checks EXCEPT ![t] = n] /\ UNCHANGED <<clock, issuer, cache>>
    BY <1>4 DEF FetchMore
  <2>2. r \in CheckState /\ Knows(r) /\ r.since \in 0..issued
    BY <1>a, <1>b, <2>1 DEF Knows, Drained, CheckState
  <2>3. last \in 0..issued /\ last \in Nat /\ more \subseteq Tokens
        /\ \A j \in Tokens : position[j] \in 1..last =>
              position[j] \in 1..r.since \/ j \in Page(r.since)
    BY <1>b, <1>c, <2>1, <2>2 DEF CheckState
  <2>4. \A j \in Tokens : position[j] \in 1..last => j \in revoked \cup more
    BY <2>1, <2>2, <2>3 DEF Knows, Drained
  <2>5. pages \in Nat /\ pc \in {"read", "fetch"}
    BY <2>2 DEF CheckState
  <2> HIDE DEF last, more, pages, pc
  <2>6. n \in CheckState /\ n.pc = pc /\ n.since = last /\ n.found = more
        /\ n.jti = r.jti /\ n.outcome = r.outcome /\ n.at = r.at
    BY <1>b, <2>2, <2>3, <2>5 DEF CheckState
  <2> HIDE DEF n
  <2>n. checks'[t] = n
    BY <1>e, <2>1
  <2>7. Drained(checks[t])'
    BY <2>n, <1>b, <2>1, <2>3, <2>4, <2>6 DEF Drained, issuer, cache
  <2>8. r.jti \in Tokens /\ (r.outcome = "live" => InTime(checks[t])')
    BY <2>n, <2>1, <2>2, <2>6 DEF Knows, InTime, issuer
  <2>9. Knows(checks[t])'
    BY <2>n, <2>5, <2>6, <2>7, <2>8 DEF Knows
  <2> QED
    BY <2>1, <2>6, <2>9, CheckMovesAlone
<1>d. ASSUME NEW t \in Checks, checks[t].pc # "idle", checks' = CheckGoto(t, "read"),
             UNCHANGED <<clock, issuer>>
      PROVE  LET n == [checks[t] EXCEPT !.pc = "read"]
             IN  n \in CheckState /\ Knows(checks[t])' /\ checks' = [checks EXCEPT ![t] = n]
  <2> DEFINE r == checks[t]
             n == [r EXCEPT !.pc = "read"]
  <2>1. r \in CheckState /\ Knows(r)
    BY <1>a
  <2>2. n \in CheckState /\ n.pc = "read" /\ n.jti = r.jti /\ n.outcome = r.outcome /\ n.at = r.at
    BY <2>1 DEF CheckState
  <2>3. checks' = [checks EXCEPT ![t] = n]
    BY <1>d DEF CheckGoto
  <2> HIDE DEF n
  <2>n. checks'[t] = n
    BY <1>e, <2>3
  <2>4. Knows(checks[t])'
    BY <2>n, <1>d, <2>1, <2>2 DEF Knows, InTime, issuer
  <2> QED
    BY <2>2, <2>3, <2>4 DEF n
<1>5. ASSUME NEW t \in Checks, FetchFails(t) PROVE RevocationInv'
  BY <1>5, <1>d, CheckMovesAlone DEF FetchFails
<1>6. ASSUME NEW t \in Checks, StoreRefresh(t) PROVE RevocationInv'
  <2> DEFINE r == checks[t]
  <2>1. r.pc = "store" /\ revoked' = revoked \cup r.found /\ cursor' = r.since
        /\ lastRefresh' = clock /\ checks' = CheckGoto(t, "read") /\ UNCHANGED <<clock, issuer>>
    BY <1>6 DEF StoreRefresh
  <2>2. ChecksKnow' /\ checks' \in [Checks -> CheckState]
    BY <1>d, <2>1, CheckMoves
  <2>3. r \in CheckState /\ Drained(r) /\ PageInHand(r)
    BY <1>a, <2>1 DEF Knows
  <2>4. CursorCovers'
    BY <2>1, <2>3 DEF CursorCovers, Drained, issuer
  <2>5. ASSUME NEW j \in Tokens, j \notin revoked', position[j] # 0
        PROVE  clock - revokedAt[j] <= Latency
    <3>1. position[j] > r.since
      BY <1>b, <2>1, <2>3, <2>5 DEF Drained, CheckState
    <3>2. revokedAt[j] >= r.asked /\ clock <= r.asked + Latency /\ r.asked \in Nat
      BY <2>3, <3>1 DEF PageInHand, CheckState
    <3>3. revokedAt[j] \in Nat
      BY <1>b
    <3> QED
      BY <1>b, <3>2, <3>3
  <2>6. StampIsHonest'
    BY <2>1, <2>5 DEF StampIsHonest, issuer
  <2>7. TypeOKRevocation'
    BY <1>b, <2>1, <2>2, <2>3 DEF TypeOKRevocation, Drained, CheckState, issuer
  <2> QED
    BY <2>2, <2>4, <2>6, <2>7 DEF RevocationInv
<1>7. ASSUME NEW t \in Checks, Read(t) PROVE RevocationInv'
  <2> DEFINE jti == checks[t].jti
             outcome == Outcome(jti)
             n == [NoCheck EXCEPT !.jti = jti, !.at = clock, !.outcome = outcome]
  <2>1. checks[t].pc = "read" /\ checks' = [checks EXCEPT ![t] = n]
        /\ UNCHANGED <<clock, issuer, cache>>
    BY <1>7 DEF Read
  <2>2. jti \in Tokens /\ outcome \in Outcomes
    BY <1>a, <2>1 DEF Knows, Outcome, Outcomes
  <2>3. ASSUME outcome = "live"
        PROVE  /\ MaxStaleness > 0
               /\ position[jti] # 0 => clock - revokedAt[jti] < MaxStaleness + Latency
    <3>1. jti \notin revoked /\ lastRefresh # Never /\ clock - lastRefresh < MaxStaleness
      BY <2>3 DEF Outcome, IsFresh
    <3>2. lastRefresh \in 0..clock /\ revokedAt[jti] \in Nat
      BY <1>b, <2>2, <3>1
    <3>3. position[jti] # 0 => lastRefresh - revokedAt[jti] <= Latency
      BY <1>0, <2>2, <3>1 DEF StampIsHonest
    <3> QED
      BY <1>b, <3>1, <3>2, <3>3
  <2> HIDE DEF outcome, jti
  <2>4. n \in CheckState /\ n.pc = "idle" /\ n.jti = jti /\ n.at = clock /\ n.outcome = outcome
    BY <1>b, <2>2 DEF NoCheck, CheckState
  <2> HIDE DEF n
  <2>n. checks'[t] = n
    BY <1>e, <2>1
  <2>5. Knows(checks[t])'
    BY <2>n, <1>b, <2>1, <2>2, <2>3, <2>4 DEF Knows, InTime, issuer
  <2> QED
    BY <2>1, <2>4, <2>5, CheckMovesAlone
<1>8. ASSUME NEW jti \in Tokens, Revoke(jti) PROVE RevocationInv'
  <2>1. /\ issued' = issued + 1 /\ position' = [position EXCEPT ![jti] = issued + 1]
        /\ revokedAt' = [revokedAt EXCEPT ![jti] = clock] /\ position[jti] = 0
        /\ clock' = clock /\ revoked' = revoked /\ cursor' = cursor
        /\ lastRefresh' = lastRefresh /\ checks' = checks
    BY <1>8 DEF Revoke, cache
  <2>2. position'[jti] = issued + 1 /\ revokedAt'[jti] = clock
        /\ \A j \in Tokens : j # jti => position'[j] = position[j] /\ revokedAt'[j] = revokedAt[j]
    BY <1>b, <2>1
  <2>3. TypeOKRevocation'
    BY <1>0, <1>b, <2>1 DEF TypeOKRevocation
  <2>4. CursorCovers'
    BY <1>0, <1>b, <2>1, <2>2 DEF CursorCovers
  <2>5. StampIsHonest'
    BY <1>0, <1>b, <2>1, <2>2 DEF StampIsHonest
  <2>6. ASSUME NEW u \in Checks PROVE Knows(checks[u])'
    <3> DEFINE r == checks[u]
    <3>1. r \in CheckState /\ Knows(r) /\ checks'[u] = r
      BY <1>a, <2>1
    <3>2. r.since \in Nat /\ r.asked \in Nat /\ r.at \in Nat
      BY <3>1 DEF CheckState
    <3> HIDE DEF r
    <3>3. ASSUME Drained(r)
          PROVE  /\ r.since <= issued'
                 /\ \A j \in Tokens : position'[j] \in 1..r.since => j \in revoked' \cup r.found
      BY <1>b, <2>1, <2>2, <3>2, <3>3 DEF Drained
    <3>4. ASSUME Drained(r), PageInHand(r)
          PROVE  /\ r.asked <= clock' /\ clock' <= r.asked + Latency
                 /\ \A j \in Tokens : position'[j] > r.since => revokedAt'[j] >= r.asked
      BY <1>b, <2>1, <2>2, <3>2, <3>4 DEF Drained, PageInHand
    <3>5. ASSUME InTime(r)
          PROVE  /\ r.jti \in Tokens /\ r.at <= clock' /\ MaxStaleness > 0
                 /\ position'[r.jti] # 0 =>
                        r.at - revokedAt'[r.jti] < MaxStaleness + Latency
      BY <1>b, <2>1, <2>2, <3>2, <3>5 DEF InTime
    <3> QED
      BY <3>1, <3>3, <3>4, <3>5 DEF Knows, Drained, PageInHand, InTime
  <2> QED
    BY <2>3, <2>4, <2>5, <2>6 DEF RevocationInv, ChecksKnow
<1>9. CASE ClockTick
  <2>1. /\ clock' = clock + 1 /\ UNCHANGED <<position, revokedAt, issued, revoked, cursor>>
        /\ lastRefresh' = lastRefresh /\ checks' = checks
        /\ \A t \in Checks : checks[t].pc = "store" => clock < checks[t].asked + Latency
    BY <1>9 DEF ClockTick, issuer, cache
  <2>2. TypeOKRevocation' /\ CursorCovers' /\ StampIsHonest'
    BY <1>0, <1>b, <2>1 DEF TypeOKRevocation, CursorCovers, StampIsHonest
  <2>3. ASSUME NEW u \in Checks PROVE Knows(checks[u])'
    <3> DEFINE r == checks[u]
    <3>1. r \in CheckState /\ Knows(r) /\ checks'[u] = r
          /\ (r.pc = "store" => clock < r.asked + Latency)
      BY <1>a, <2>1
    <3>2. r.since \in Nat /\ r.asked \in Nat /\ r.at \in Nat
      BY <3>1 DEF CheckState
    <3> HIDE DEF r
    <3> QED
      BY <1>b, <2>1, <3>1, <3>2 DEF Knows, Drained, PageInHand, InTime
  <2> QED
    BY <2>2, <2>3 DEF RevocationInv, ChecksKnow
<1>10. CASE Restart
  <2>1. NoCheck \in CheckState /\ NoCheck.pc = "idle" /\ NoCheck.outcome = "none"
    BY DEF NoCheck, CheckState, Outcomes
  <2>2. \A t \in Checks : checks'[t] = NoCheck
    BY <1>10 DEF Restart
  <2>3. ChecksKnow'
    BY <2>1, <2>2 DEF ChecksKnow, Knows
  <2>4. TypeOKRevocation' /\ CursorCovers' /\ StampIsHonest'
    BY <1>b, <1>10, <2>1 DEF Restart, TypeOKRevocation, CursorCovers, StampIsHonest, issuer, Never
  <2> QED
    BY <2>3, <2>4 DEF RevocationInv
<1>11. CASE UNCHANGED revocationVars
  <2>1. TypeOKRevocation' /\ CursorCovers' /\ StampIsHonest'
    BY <1>0, <1>11 DEF revocationVars, TypeOKRevocation, CursorCovers, StampIsHonest
  <2>2. ChecksKnow'
    BY <1>0, <1>11 DEF revocationVars, ChecksKnow, Knows, Drained, PageInHand, InTime
  <2> QED
    BY <2>1, <2>2 DEF RevocationInv
<1> QED
  BY <1>1, <1>2, <1>3, <1>4, <1>5, <1>6, <1>7, <1>8, <1>9, <1>10, <1>11 DEF RevocationNext

LEMMA RevocationInvHolds == RevocationSpec => []RevocationInv
  BY RevocationInvInit, RevocationInvStep, PTL DEF RevocationSpec

(* The cache, the issuer and the requests keep their types; in particular   *)
(* no refresh is stamped ahead of the clock.                                *)
THEOREM RevocationTypeCorrect == RevocationSpec => []TypeOKRevocation
<1>1. RevocationInv => TypeOKRevocation
  BY DEF RevocationInv
<1> QED
  BY RevocationInvHolds, <1>1, PTL

(* No interleaving of refreshes, failures, pages and restarts lets the      *)
(* cursor pass a revocation that is not in the set.                         *)
THEOREM NothingIsSkipped == RevocationSpec => []CursorCovers
<1>1. RevocationInv => CursorCovers
  BY DEF RevocationInv
<1> QED
  BY RevocationInvHolds, <1>1, PTL

(* A jti is never admitted once it has been revoked for MaxStaleness plus   *)
(* the latency of one page, whatever refreshes overlap.                     *)
THEOREM AdmissionIsTimely == RevocationSpec => []NoLateAdmission
<1>1. RevocationInv => NoLateAdmission
  BY DEF RevocationInv, ChecksKnow, Knows, InTime, NoLateAdmission
<1> QED
  BY RevocationInvHolds, <1>1, PTL
=============================================================================
