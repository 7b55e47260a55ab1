------------------------ MODULE PaymentClients_proofs ------------------------
(***************************************************************************)
(* Proofs about the clients of zpay, for any number of payments, settle    *)
(* requests, event streams and faults: what the demo gateway shows and     *)
(* forwards, and what a run of the end-to-end harness exits with, is true  *)
(* of the network.                                                         *)
(***************************************************************************)
EXTENDS PaymentClients, TLAPS

-----------------------------------------------------------------------------
(* The inductive invariant *)

Views == [known : BOOLEAN, visible : Nat, settled : Nat]
ClientCalls == [pc : CallPcs, payment : Payments \cup {NoTx},
                route : {"x402", "lifecycle"}, kind : Kinds]
AttemptRecords == [pc : Running \cup {"idle", "failed", "done"}, payment : Payments \cup {NoTx}]
StreamRecords == [pc : {"none", "tick", "ledger", "prepared", "closed"},
                  payment : Payments \cup {NoTx}, override : Stages \cup {NoOverride},
                  stage : Stages \cup {NoOverride}]
RunRecords == [pc : RunSteps, flow : Flows, completion : Completions,
               payment : Payments \cup {NoTx}, exit : Exits]

Types ==
    /\ prepared \subseteq Payments
    /\ ledger \in [DOMAIN ledger -> Row] /\ DOMAIN ledger \subseteq Payments
    /\ taken \subseteq Payments \X Txs /\ irreversible \subseteq taken
    /\ view \in Views
    /\ calls \in [Txs -> ClientCalls]
    /\ faults \in 0 .. MaxFaults
    /\ stored \in [DOMAIN stored -> StoredPayment] /\ DOMAIN stored \subseteq Payments
    /\ attempts \in [Attempts -> AttemptRecords]
    /\ streams \in [Streams -> StreamRecords]
    /\ run \in RunRecords
    /\ client \in {"demo", "harness"}

(* A settle call is under way on behalf of one attempt of the gateway, or of  *)
(* the harness run, that waits for its answer, and is about its payment.     *)
Waits(a) ==
    IF client = "demo"
    THEN /\ a \in Attempts /\ attempts[a].pc = "settle"
         /\ calls[a].payment = attempts[a].payment
    ELSE /\ a = Harness /\ run.pc = "settle"
         /\ calls[a].payment = run.payment

(* What a call that got past the broadcast with a success kind knows. *)
CallKnows(a) ==
    calls[a].pc # "idle" =>
        /\ calls[a].payment \in Payments
        /\ Waits(a)
        /\ calls[a].kind \in SuccessKinds => <<calls[a].payment, a>> \in taken

CallsKnow == \A a \in Txs : CallKnows(a)

(* The network has taken transactions of the one client there is. *)
TakenFromClient ==
    \A p \in Payments, tx \in Txs :
        <<p, tx>> \in taken => IF client = "demo" THEN tx \in Attempts ELSE tx = Harness

(* A settlement row with a success kind, and so every row that was ever mined, *)
(* names a transaction the network has taken; below the settled tip it is     *)
(* irreversible.                                                              *)
RowKnows(p) ==
    /\ IsSuccess(ledger[p]) => <<p, ledger[p].tx>> \in taken
    /\ ledger[p].mined # NoHeight \/ ledger[p].count >= 1 => IsSuccess(ledger[p])
    /\ ledger[p].mined # NoHeight /\ ledger[p].mined <= view.settled
          => <<p, ledger[p].tx>> \in irreversible

RowsKnow == \A p \in DOMAIN ledger : RowKnows(p)

(* The gateway *)
Overrides == {NoOverride, "needs_funds", "review", "signing", "settling"}

AttemptKnows(a) ==
    /\ attempts[a].pc \in Running => attempts[a].payment \in Payments
    /\ attempts[a].pc = "disclose" => <<attempts[a].payment, a>> \in taken

AttemptsKnow == \A a \in Attempts : AttemptKnows(a)

StoredKnows(p) ==
    /\ stored[p].tx # NoTx => <<p, stored[p].tx>> \in taken
    /\ stored[p].disclosure \in {NoTx, stored[p].tx}
    /\ stored[p].override \in Overrides

AllStoredKnow == \A p \in DOMAIN stored : StoredKnows(p)

IsPaid(p) == \E tx \in Attempts : <<p, tx>> \in irreversible

StreamKnows(s) ==
    /\ streams[s].pc \in {"tick", "ledger", "prepared"} => streams[s].payment \in DOMAIN stored
    /\ streams[s].override \in Overrides
    /\ streams[s].stage = "paid" => IsPaid(streams[s].payment)

StreamsKnow == \A s \in Streams : StreamKnows(s)

(* The harness *)
Unsent == run.pc \in {"prepare", "balance", "sign", "verify"}

(* A call that may yet be answered with a refusal or a rejection. *)
Refusable(call) ==
    \/ call.pc \in {"find", "broadcast", "refused"}
    \/ call.pc # "unavailable" /\ call.kind = "rejected"
MayReject == run.pc = "settle" /\ Refusable(calls[Harness])

Observed ==
    /\ run.payment \in DOMAIN ledger /\ IsSuccess(ledger[run.payment])
    /\ run.completion = "settled" => <<run.payment, Harness>> \in irreversible

RunKnows ==
    /\ client = "demo" => run.pc = "prepare"
    /\ run.exit # "none" => run.pc = "exit"
    /\ run.pc \in {"balance", "sign", "verify"} => run.payment \in Payments
    /\ client = "harness" =>
          /\ Unsent \/ MayReject \/ run.exit = "rejected" => taken = {}
          /\ run.pc = "zexplorer" \/ run.exit = "ok" => Observed

ClientInv ==
    /\ Types /\ CallsKnow /\ TakenFromClient /\ RowsKnow
    /\ AttemptsKnow /\ AllStoredKnow /\ StreamsKnow /\ RunKnows
    /\ StuckStageHasACause

-----------------------------------------------------------------------------
(* What a step leaves alone *)

(* What the gateway knows stays true while it stands still: the network only *)
(* takes more.                                                              *)
LEMMA GatewayFrame ==
    ASSUME ClientInv, UNCHANGED gatewayVars,
           taken \subseteq taken', irreversible \subseteq irreversible'
    PROVE  AttemptsKnow' /\ AllStoredKnow' /\ StreamsKnow' /\ StuckStageHasACause'
<1>1. stored' = stored /\ attempts' = attempts /\ streams' = streams
  BY DEF gatewayVars
<1>2. AttemptsKnow'
  BY <1>1 DEF ClientInv, AttemptsKnow, AttemptKnows
<1>3. AllStoredKnow'
  BY <1>1 DEF ClientInv, AllStoredKnow, StoredKnows
<1>4. StreamsKnow'
  BY <1>1 DEF ClientInv, StreamsKnow, StreamKnows, IsPaid
<1>5. StuckStageHasACause'
  BY <1>1 DEF ClientInv, StuckStageHasACause, InFlight, Ended
<1> QED
  BY <1>2, <1>3, <1>4, <1>5

(* The rows stay true while the table and the settled tip stand still. *)
LEMMA RowsFrame ==
    ASSUME ClientInv, ledger' = ledger, view'.settled = view.settled,
           taken \subseteq taken', irreversible \subseteq irreversible'
    PROVE  RowsKnow'
<1> SUFFICES ASSUME NEW p \in (DOMAIN ledger)' PROVE RowKnows(p)'
  BY DEF RowsKnow
<1>1. RowKnows(p)
  BY DEF ClientInv, RowsKnow
<1> QED
  BY <1>1 DEF RowKnows

(* In a behaviour of the gateway the harness never starts. *)
LEMMA RunFrame ==
    ASSUME ClientInv, client = "demo", UNCHANGED <<run, client>>
    PROVE  RunKnows'
  BY DEF ClientInv, RunKnows

(* The count of faults stays below its bound. *)
LEMMA FaultType ==
    ASSUME ClientInv, Fault
    PROVE  faults' \in 0 .. MaxFaults
<1>1. faults \in 0 .. MaxFaults /\ MaxFaults \in Nat
  BY FacilitatorAssumption DEF ClientInv, Types
<1> QED
  BY <1>1 DEF Fault

(* One row put into the table. *)
LEMMA LedgerPut ==
    ASSUME ClientInv, NEW p \in Payments, NEW row \in Row, ledger' = Put(ledger, p, row)
    PROVE  /\ ledger' \in [DOMAIN ledger' -> Row] /\ DOMAIN ledger' \subseteq Payments
           /\ DOMAIN ledger' = DOMAIN ledger \cup {p}
           /\ ledger'[p] = row
           /\ \A q \in DOMAIN ledger : q # p => ledger'[q] = ledger[q]
<1>1. ledger \in [DOMAIN ledger -> Row] /\ DOMAIN ledger \subseteq Payments
  BY DEF ClientInv, Types
<1>2. /\ DOMAIN ledger' = DOMAIN ledger \cup {p}
      /\ ledger'[p] = row
      /\ \A q \in DOMAIN ledger : q # p => ledger'[q] = ledger[q]
      /\ ledger' = [x \in DOMAIN ledger' |-> ledger'[x]]
  BY DEF Put
<1>3. \A q \in DOMAIN ledger' : ledger'[q] \in Row
  BY <1>1, <1>2
<1> QED
  BY <1>1, <1>2, <1>3

-----------------------------------------------------------------------------
(* The settle call inside zpay *)

(* A step of a call moves its own record on, and keeps its payment. *)
LEMMA CallMoves ==
    ASSUME ClientInv, NEW a \in Txs, NEW pc \in CallPcs, NEW kind \in Kinds,
           calls' = [calls EXCEPT ![a] = [@ EXCEPT !.pc = pc, !.kind = kind]]
    PROVE  /\ calls' \in [Txs -> ClientCalls]
           /\ calls'[a].pc = pc /\ calls'[a].kind = kind
           /\ calls'[a].payment = calls[a].payment
           /\ \A b \in Txs : b # a => calls'[b] = calls[b]
<1> DEFINE new == [calls[a] EXCEPT !.pc = pc, !.kind = kind]
<1>1. calls \in [Txs -> ClientCalls] /\ calls[a] \in ClientCalls
  BY DEF ClientInv, Types
<1>2. new \in ClientCalls /\ new.pc = pc /\ new.kind = kind /\ new.payment = calls[a].payment
  BY <1>1 DEF ClientCalls
<1>3. calls' = [calls EXCEPT ![a] = new]
  OBVIOUS
<1> HIDE DEF new
<1> QED
  BY <1>1, <1>2, <1>3

LEMMA GotoMoves ==
    ASSUME ClientInv, NEW a \in Txs, NEW pc \in CallPcs, Goto(a, pc)
    PROVE  /\ calls' \in [Txs -> ClientCalls]
           /\ calls'[a].pc = pc /\ calls'[a].kind = calls[a].kind
           /\ calls'[a].payment = calls[a].payment
           /\ \A b \in Txs : b # a => calls'[b] = calls[b]
<1> DEFINE new == [calls[a] EXCEPT !.pc = pc]
<1>1. calls \in [Txs -> ClientCalls] /\ calls[a] \in ClientCalls
  BY DEF ClientInv, Types
<1>2. new \in ClientCalls /\ new.pc = pc /\ new.kind = calls[a].kind /\ new.payment = calls[a].payment
  BY <1>1 DEF ClientCalls
<1>3. calls' = [calls EXCEPT ![a] = new]
  BY DEF Goto
<1> HIDE DEF new
<1> QED
  BY <1>1, <1>2, <1>3

(* While a call is under way, its client is the one that waits for it. *)
LEMMA BusyCall ==
    ASSUME ClientInv, NEW a \in Txs, calls[a].pc # "idle"
    PROVE  /\ calls[a].payment \in Payments /\ Waits(a)
           /\ calls[a].kind \in SuccessKinds => <<calls[a].payment, a>> \in taken
  BY DEF ClientInv, CallsKnow, CallKnows

(* What a step of a call has to establish: its own record, the rows and what *)
(* the network has taken.  The rest of the invariant follows.               *)
LEMMA CallKeeps ==
    ASSUME ClientInv, NEW a \in Txs, calls[a].pc # "idle",
           UNCHANGED <<gatewayVars, run, client, irreversible, view>>,
           prepared' \subseteq Payments, faults' \in 0 .. MaxFaults,
           ledger' \in [DOMAIN ledger' -> Row], DOMAIN ledger' \subseteq Payments,
           taken' \in {taken, taken \cup {<<calls[a].payment, a>>}},
           calls' \in [Txs -> ClientCalls], calls'[a].pc # "idle",
           calls'[a].payment = calls[a].payment,
           \A b \in Txs : b # a => calls'[b] = calls[b],
           calls'[a].kind \in SuccessKinds => <<calls[a].payment, a>> \in taken',
           Refusable(calls'[a]) => taken' = taken /\ Refusable(calls[a]),
           RowsKnow'
    PROVE  ClientInv'
<1>1. calls[a].payment \in Payments /\ Waits(a)
  BY BusyCall
<1>2. taken \subseteq taken' /\ taken' \subseteq Payments \X Txs
  BY <1>1 DEF ClientInv, Types
<1>3. UNCHANGED <<stored, attempts, streams>>
  BY DEF gatewayVars
<1>4. Types'
  BY <1>2, <1>3 DEF ClientInv, Types
<1>5. CallsKnow'
  <2> SUFFICES ASSUME NEW b \in Txs PROVE CallKnows(b)'
    BY DEF CallsKnow
  <2>1. CASE b = a
    BY <2>1, <1>1, <1>3 DEF CallKnows, Waits
  <2>2. CASE b # a
    BY <2>2, <1>2, <1>3 DEF ClientInv, CallsKnow, CallKnows, Waits
  <2> QED
    BY <2>1, <2>2
<1>6. TakenFromClient'
  <2> SUFFICES ASSUME NEW p \in Payments, NEW tx \in Txs, <<p, tx>> \in taken'
               PROVE  IF client = "demo" THEN tx \in Attempts ELSE tx = Harness
    BY DEF TakenFromClient
  <2>1. CASE <<p, tx>> \in taken
    BY <2>1 DEF ClientInv, TakenFromClient
  <2>2. CASE <<p, tx>> \notin taken
    <3>1. tx = a
      BY <2>2
    <3> QED
      BY <3>1, <1>1 DEF Waits
  <2> QED
    BY <2>1, <2>2
<1>7. RunKnows'
  <2>1. CASE client = "demo"
    BY <2>1, RunFrame
  <2>2. CASE client = "harness"
    <3>1. a = Harness /\ run.pc = "settle" /\ run.exit = "none"
      BY <1>1, <2>2 DEF Waits, ClientInv, RunKnows
    <3>2. MayReject' => MayReject /\ taken' = taken
      BY <3>1 DEF MayReject
    <3>3. MayReject' => taken' = {}
      BY <3>2, <2>2 DEF ClientInv, RunKnows
    <3> QED
      BY <3>1, <3>3, <2>2 DEF RunKnows, Unsent
  <2> QED
    BY <2>1, <2>2 DEF ClientInv, Types
<1>8. AttemptsKnow' /\ AllStoredKnow' /\ StreamsKnow' /\ StuckStageHasACause'
  BY <1>2, GatewayFrame
<1> QED
  BY <1>4, <1>5, <1>6, <1>7, <1>8 DEF ClientInv

LEMMA FindKeeps ==
    ASSUME ClientInv, NEW a \in Txs, FindPreparation(a), UNCHANGED <<gatewayVars, run, client>>
    PROVE  ClientInv'
<1> DEFINE pc == IF calls[a].payment \in prepared THEN "broadcast" ELSE "refused"
<1>1. /\ calls[a].pc = "find" /\ Goto(a, pc)
      /\ UNCHANGED <<prepared, ledger, taken, irreversible, view, faults>>
  BY DEF FindPreparation, At, chainState
<1>2. pc \in CallPcs /\ pc \in {"broadcast", "refused"}
  BY DEF CallPcs
<1> HIDE DEF pc
<1>3. /\ calls' \in [Txs -> ClientCalls]
      /\ calls'[a].pc = pc /\ calls'[a].kind = calls[a].kind
      /\ calls'[a].payment = calls[a].payment
      /\ \A b \in Txs : b # a => calls'[b] = calls[b]
  BY <1>1, <1>2, GotoMoves
<1>4. RowsKnow'
  BY <1>1, RowsFrame
<1>5. calls[a].kind \in SuccessKinds => <<calls[a].payment, a>> \in taken
  BY <1>1, BusyCall
<1>6. /\ prepared' \subseteq Payments /\ faults' \in 0 .. MaxFaults
      /\ ledger' \in [DOMAIN ledger' -> Row] /\ DOMAIN ledger' \subseteq Payments
  BY <1>1 DEF ClientInv, Types
<1> QED
  BY <1>1, <1>2, <1>3, <1>4, <1>5, <1>6, CallKeeps DEF Refusable

LEMMA BroadcastKeeps ==
    ASSUME ClientInv, NEW a \in Txs, Broadcast(a), UNCHANGED <<gatewayVars, run, client>>
    PROVE  ClientInv'
<1> DEFINE pair == <<calls[a].payment, a>>
<1>1. calls[a].pc = "broadcast" /\ UNCHANGED <<prepared, ledger, irreversible, view>>
  BY DEF Broadcast, At
<1>2. calls[a] \in ClientCalls /\ calls[a].kind \in Kinds
  BY DEF ClientInv, Types, ClientCalls
<1>3. "record" \in CallPcs /\ "unavailable" \in CallPcs /\ "accepted" \in Kinds
      /\ FailureKinds \subseteq Kinds /\ "accepted" # "rejected"
      /\ \A kind \in FailureKinds : kind \notin SuccessKinds
  BY DEF CallPcs, Kinds, SuccessKinds, FailureKinds
<1>4. calls[a].kind \in SuccessKinds => pair \in taken
  BY <1>1, BusyCall
<1>5. \/ /\ calls' = [calls EXCEPT ![a] = [@ EXCEPT !.pc = "record", !.kind = "accepted"]]
         /\ taken' = taken \cup {pair} /\ UNCHANGED faults
      \/ \E kind \in FailureKinds :
         /\ calls' = [calls EXCEPT ![a] = [@ EXCEPT !.pc = "record", !.kind = kind]]
         /\ taken' \in {taken, taken \cup {pair}}
         /\ kind = "rejected" => taken' = taken
         /\ Fault
      \/ /\ Fault /\ Goto(a, "unavailable") /\ taken' \in {taken, taken \cup {pair}}
  BY DEF Broadcast, FailureKinds
<1>6. taken \subseteq taken' /\ taken' \in {taken, taken \cup {pair}}
  BY <1>5
<1>7. RowsKnow'
  BY <1>1, <1>6, RowsFrame
<1>8. faults' \in 0 .. MaxFaults
  BY <1>5, FaultType DEF ClientInv, Types
<1>9. /\ prepared' \subseteq Payments
      /\ ledger' \in [DOMAIN ledger' -> Row] /\ DOMAIN ledger' \subseteq Payments
  BY <1>1 DEF ClientInv, Types
<1>10. CASE /\ calls' = [calls EXCEPT ![a] = [@ EXCEPT !.pc = "record", !.kind = "accepted"]]
            /\ taken' = taken \cup {pair}
  <2>1. /\ calls' \in [Txs -> ClientCalls]
        /\ calls'[a].pc = "record" /\ calls'[a].kind = "accepted"
        /\ calls'[a].payment = calls[a].payment
        /\ \A b \in Txs : b # a => calls'[b] = calls[b]
    BY <1>10, <1>3, CallMoves
  <2> QED
    BY <2>1, <1>1, <1>6, <1>7, <1>8, <1>9, <1>10, CallKeeps DEF Refusable
<1>11. ASSUME NEW kind \in FailureKinds,
              calls' = [calls EXCEPT ![a] = [@ EXCEPT !.pc = "record", !.kind = kind]],
              kind = "rejected" => taken' = taken
       PROVE  ClientInv'
  <2>1. /\ calls' \in [Txs -> ClientCalls]
        /\ calls'[a].pc = "record" /\ calls'[a].kind = kind
        /\ calls'[a].payment = calls[a].payment
        /\ \A b \in Txs : b # a => calls'[b] = calls[b]
    BY <1>11, <1>3, CallMoves
  <2>2. calls'[a].kind \notin SuccessKinds
    BY <2>1, <1>3
  <2> QED
    BY <2>1, <2>2, <1>1, <1>6, <1>7, <1>8, <1>9, <1>11, CallKeeps DEF Refusable
<1>12. CASE Goto(a, "unavailable")
  <2>1. /\ calls' \in [Txs -> ClientCalls]
        /\ calls'[a].pc = "unavailable" /\ calls'[a].kind = calls[a].kind
        /\ calls'[a].payment = calls[a].payment
        /\ \A b \in Txs : b # a => calls'[b] = calls[b]
    BY <1>12, <1>3, GotoMoves
  <2>2. ~Refusable(calls'[a])
    BY <2>1 DEF Refusable
  <2> QED
    BY <2>1, <2>2, <1>1, <1>4, <1>6, <1>7, <1>8, <1>9, <1>12, CallKeeps DEF Refusable
<1> QED
  BY <1>5, <1>10, <1>11, <1>12

(* A fresh row names the call's own transaction when the broadcast succeeded, *)
(* and has not been mined.                                                   *)
LEMMA FreshIs ==
    ASSUME NEW kind \in Kinds, NEW a \in Txs
    PROVE  /\ FreshRow(kind, a, Expiry) \in Row
           /\ FreshRow(kind, a, Expiry).kind = kind
           /\ kind \in SuccessKinds => FreshRow(kind, a, Expiry).tx = a
           /\ FreshRow(kind, a, Expiry).mined = NoHeight
           /\ FreshRow(kind, a, Expiry).count = NoCount
  BY FacilitatorAssumption DEF FreshRow, Row, NoCount, NoHeight

LEMMA RecordKeeps ==
    ASSUME ClientInv, NEW a \in Txs, RecordOutcome(a), UNCHANGED <<gatewayVars, run, client>>
    PROVE  ClientInv'
<1> DEFINE pc == IF calls[a].kind \in SuccessKinds THEN "remove" ELSE "answered"
           row == FreshRow(calls[a].kind, a, Expiry)
           p == calls[a].payment
<1>1. /\ calls[a].pc = "record" /\ Goto(a, pc) /\ ledger' = Put(ledger, p, row)
      /\ UNCHANGED <<prepared, taken, irreversible, view, faults>>
  BY DEF RecordOutcome, At, chainState, Record
<1>2. pc \in CallPcs /\ pc \in {"remove", "answered"}
  BY DEF CallPcs
<1>3. calls[a].kind \in Kinds
  BY DEF ClientInv, Types, ClientCalls
<1>4. p \in Payments /\ (calls[a].kind \in SuccessKinds => <<p, a>> \in taken)
  BY <1>1, BusyCall
<1>5. /\ row \in Row /\ row.kind = calls[a].kind
      /\ calls[a].kind \in SuccessKinds => row.tx = a
      /\ row.mined = NoHeight /\ row.count = NoCount
  BY <1>3, FreshIs
<1> HIDE DEF pc, row
<1>6. /\ calls' \in [Txs -> ClientCalls]
      /\ calls'[a].pc = pc /\ calls'[a].kind = calls[a].kind
      /\ calls'[a].payment = calls[a].payment
      /\ \A b \in Txs : b # a => calls'[b] = calls[b]
  BY <1>1, <1>2, GotoMoves
<1>7. /\ ledger' \in [DOMAIN ledger' -> Row] /\ DOMAIN ledger' \subseteq Payments
      /\ DOMAIN ledger' = DOMAIN ledger \cup {p} /\ ledger'[p] = row
      /\ \A q \in DOMAIN ledger : q # p => ledger'[q] = ledger[q]
  BY <1>1, <1>4, <1>5, LedgerPut
<1>8. RowsKnow'
  <2> SUFFICES ASSUME NEW q \in (DOMAIN ledger)' PROVE RowKnows(q)'
    BY DEF RowsKnow
  <2>1. CASE q = p
    BY <2>1, <1>1, <1>4, <1>5, <1>7 DEF RowKnows, IsSuccess, NoCount
  <2>2. CASE q # p
    <3>1. RowKnows(q) /\ ledger'[q] = ledger[q]
      BY <2>2, <1>7 DEF ClientInv, RowsKnow
    <3> QED
      BY <3>1, <1>1 DEF RowKnows
  <2> QED
    BY <2>1, <2>2
<1>9. prepared' \subseteq Payments /\ faults' \in 0 .. MaxFaults
  BY <1>1 DEF ClientInv, Types
<1> QED
  BY <1>1, <1>2, <1>4, <1>6, <1>7, <1>8, <1>9, CallKeeps DEF Refusable

LEMMA RemoveKeeps ==
    ASSUME ClientInv, NEW a \in Txs, RemovePreparation(a), UNCHANGED <<gatewayVars, run, client>>
    PROVE  ClientInv'
<1>1. /\ calls[a].pc = "remove" /\ Goto(a, "answered") /\ prepared' \subseteq prepared
      /\ UNCHANGED <<ledger, taken, irreversible, view, faults>>
  BY DEF RemovePreparation, At, chainState
<1>2. /\ calls' \in [Txs -> ClientCalls]
      /\ calls'[a].pc = "answered" /\ calls'[a].kind = calls[a].kind
      /\ calls'[a].payment = calls[a].payment
      /\ \A b \in Txs : b # a => calls'[b] = calls[b]
  BY <1>1, GotoMoves DEF CallPcs
<1>3. RowsKnow'
  BY <1>1, RowsFrame
<1>4. calls[a].kind \in SuccessKinds => <<calls[a].payment, a>> \in taken
  BY <1>1, BusyCall
<1>5. /\ prepared' \subseteq Payments /\ faults' \in 0 .. MaxFaults
      /\ ledger' \in [DOMAIN ledger' -> Row] /\ DOMAIN ledger' \subseteq Payments
  BY <1>1 DEF ClientInv, Types
<1> QED
  BY <1>1, <1>2, <1>3, <1>4, <1>5, CallKeeps DEF Refusable

LEMMA StoreErrorKeeps ==
    ASSUME ClientInv, NEW a \in Txs, StoreError(a), UNCHANGED <<gatewayVars, run, client>>
    PROVE  ClientInv'
<1> DEFINE pc == IF calls[a].route = "x402" THEN "answered" ELSE "unavailable"
<1>1. /\ calls[a].pc \in {"record", "remove"} /\ Goto(a, pc) /\ Fault
      /\ UNCHANGED <<prepared, ledger, taken, irreversible, view>>
  BY DEF StoreError, chainState
<1>2. pc \in CallPcs /\ pc \in {"answered", "unavailable"}
  BY DEF CallPcs
<1> HIDE DEF pc
<1>3. /\ calls' \in [Txs -> ClientCalls]
      /\ calls'[a].pc = pc /\ calls'[a].kind = calls[a].kind
      /\ calls'[a].payment = calls[a].payment
      /\ \A b \in Txs : b # a => calls'[b] = calls[b]
  BY <1>1, <1>2, GotoMoves
<1>4. RowsKnow'
  BY <1>1, RowsFrame
<1>5. calls[a].kind \in SuccessKinds => <<calls[a].payment, a>> \in taken
  BY <1>1, BusyCall
<1>6. /\ prepared' \subseteq Payments /\ faults' \in 0 .. MaxFaults
      /\ ledger' \in [DOMAIN ledger' -> Row] /\ DOMAIN ledger' \subseteq Payments
  BY <1>1, FaultType DEF ClientInv, Types
<1> QED
  BY <1>1, <1>2, <1>3, <1>4, <1>5, <1>6, CallKeeps DEF Refusable

LEMMA CallStepKeeps ==
    ASSUME ClientInv, NEW a \in Txs, CallStep(a), UNCHANGED <<gatewayVars, run, client>>
    PROVE  ClientInv'
  BY FindKeeps, BroadcastKeeps, RecordKeeps, RemoveKeeps, StoreErrorKeeps DEF CallStep

-----------------------------------------------------------------------------
(* The chain plane *)

(* What a step of the chain plane has to establish: the rows keep their kind *)
(* and know where they are.                                                 *)
LEMMA ChainKeeps ==
    ASSUME ClientInv, UNCHANGED <<gatewayVars, run, client, calls, taken>>,
           prepared' \subseteq Payments, faults' \in 0 .. MaxFaults, view' \in Views,
           irreversible \subseteq irreversible', irreversible' \subseteq taken,
           ledger' \in [DOMAIN ledger' -> Row], DOMAIN ledger' = DOMAIN ledger,
           \A q \in DOMAIN ledger : ledger'[q].kind = ledger[q].kind,
           RowsKnow'
    PROVE  ClientInv'
<1>1. UNCHANGED <<stored, attempts, streams>>
  BY DEF gatewayVars
<1>2. Types'
  BY <1>1 DEF ClientInv, Types
<1>3. CallsKnow'
  BY <1>1 DEF ClientInv, CallsKnow, CallKnows, Waits
<1>4. TakenFromClient'
  BY DEF ClientInv, TakenFromClient
<1>5. RunKnows'
  <2>1. Observed => Observed'
    BY DEF Observed, IsSuccess
  <2> QED
    BY <2>1 DEF ClientInv, RunKnows, Unsent, MayReject
<1>6. AttemptsKnow' /\ AllStoredKnow' /\ StreamsKnow' /\ StuckStageHasACause'
  BY GatewayFrame
<1> QED
  BY <1>2, <1>3, <1>4, <1>5, <1>6 DEF ClientInv

(* One row is replaced by another of its kind and transaction, which is not  *)
(* below the settled tip unless it was there before.                        *)
LEMMA RowKeeps ==
    ASSUME ClientInv, NEW p \in DOMAIN ledger, NEW row \in Row,
           ledger' = Put(ledger, p, row),
           row.kind = ledger[p].kind, row.tx = ledger[p].tx,
           row.mined # NoHeight \/ row.count >= 1 => IsSuccess(row),
           row.mined = ledger[p].mined \/ row.mined = NoHeight \/ row.mined > view.settled,
           UNCHANGED <<gatewayVars, run, client, calls, prepared, taken, irreversible, view>>,
           faults' \in 0 .. MaxFaults
    PROVE  ClientInv'
<1>1. p \in Payments /\ view \in Views /\ prepared \subseteq Payments /\ irreversible \subseteq taken
  BY DEF ClientInv, Types
<1>2. /\ ledger' \in [DOMAIN ledger' -> Row]
      /\ DOMAIN ledger' = DOMAIN ledger /\ ledger'[p] = row
      /\ \A q \in DOMAIN ledger : q # p => ledger'[q] = ledger[q]
  BY <1>1, LedgerPut
<1>3. RowsKnow'
  <2> SUFFICES ASSUME NEW q \in (DOMAIN ledger)' PROVE RowKnows(q)'
    BY DEF RowsKnow
  <2>1. RowKnows(q) /\ q \in DOMAIN ledger
    BY <1>2 DEF ClientInv, RowsKnow
  <2>2. CASE q = p
    <3>1. row.mined \in Nat /\ view.settled \in Nat
      BY <1>1 DEF Row, Views
    <3> QED
      BY <2>1, <2>2, <3>1, <1>2 DEF RowKnows, IsSuccess
  <2>3. CASE q # p
    BY <2>1, <2>3, <1>2 DEF RowKnows
  <2> QED
    BY <2>2, <2>3
<1>4. \A q \in DOMAIN ledger : ledger'[q].kind = ledger[q].kind
  BY <1>2
<1> QED
  BY <1>1, <1>2, <1>3, <1>4, ChainKeeps

(* record_confirmation on a row. *)
LEMMA ConfirmedRow ==
    ASSUME NEW row \in Row, NEW count \in Int, NEW height \in Nat
    PROVE  LET new == [row EXCEPT !.count = count,
                                  !.mined = IF height # NoHeight THEN height ELSE @]
           IN  /\ new \in Row /\ new.kind = row.kind /\ new.tx = row.tx /\ new.count = count
               /\ new.mined = IF height # NoHeight THEN height ELSE row.mined
<1> DEFINE mined == IF height # NoHeight THEN height ELSE row.mined
<1>1. mined \in Nat
  BY DEF Row
<1> HIDE DEF mined
<1>2. /\ [row EXCEPT !.count = count, !.mined = mined] \in Row
      /\ [row EXCEPT !.count = count, !.mined = mined].kind = row.kind
      /\ [row EXCEPT !.count = count, !.mined = mined].tx = row.tx
      /\ [row EXCEPT !.count = count, !.mined = mined].count = count
      /\ [row EXCEPT !.count = count, !.mined = mined].mined = mined
  BY <1>1 DEF Row
<1> QED
  BY <1>2 DEF mined

LEMMA ConfirmKeeps ==
    ASSUME ClientInv, NEW p \in Payments, Confirm(p), UNCHANGED <<gatewayVars, run, client>>
    PROVE  ClientInv'
<1>1. /\ p \in DOMAIN ledger /\ IsSuccess(ledger[p]) /\ ledger[p] \in Row
      /\ UNCHANGED <<prepared, taken, irreversible, view, calls, faults>>
  BY DEF Confirm, chainState, ClientInv, Types
<1>2. view.settled \in Nat /\ faults \in 0 .. MaxFaults /\ ledger[p].count \in Int
  BY <1>1 DEF ClientInv, Types, Views, Row
<1>3. PICK count \in Int, height \in Nat :
        /\ ledger' = RecordConfirmation(ledger, p, count, height)
        /\ height = NoHeight \/ height > view.settled
  <2>1. CASE ledger' = RecordConfirmation(ledger, p, 1, view.settled + 1)
    BY <2>1, <1>2
  <2>2. CASE ledger' = RecordConfirmation(ledger, p, ledger[p].count + 1, NoHeight)
    BY <2>2, <1>2 DEF NoHeight
  <2> QED
    BY <2>1, <2>2 DEF Confirm
<1> DEFINE row == [ledger[p] EXCEPT !.count = count,
                                    !.mined = IF height # NoHeight THEN height ELSE @]
<1>4. ledger' = Put(ledger, p, row)
  BY <1>1, <1>3 DEF RecordConfirmation
<1>5. /\ row \in Row /\ row.kind = ledger[p].kind /\ row.tx = ledger[p].tx
      /\ row.mined = IF height # NoHeight THEN height ELSE ledger[p].mined
  <2>1. PICK old \in Row : old = ledger[p]
    BY <1>1
  <2>2. /\ [old EXCEPT !.count = count, !.mined = IF height # NoHeight THEN height ELSE @] \in Row
        /\ [old EXCEPT !.count = count,
                       !.mined = IF height # NoHeight THEN height ELSE @].kind = old.kind
        /\ [old EXCEPT !.count = count,
                       !.mined = IF height # NoHeight THEN height ELSE @].tx = old.tx
        /\ [old EXCEPT !.count = count,
                       !.mined = IF height # NoHeight THEN height ELSE @].mined
              = IF height # NoHeight THEN height ELSE old.mined
    BY ConfirmedRow, Zenon
  <2>3. row = [old EXCEPT !.count = count, !.mined = IF height # NoHeight THEN height ELSE @]
    BY <2>1, Zenon
  <2> HIDE DEF row
  <2> QED
    BY <2>1, <2>2, <2>3, Zenon
<1> HIDE DEF row
<1>6. IsSuccess(row)
  BY <1>1, <1>5 DEF IsSuccess
<1>7. row.mined = ledger[p].mined \/ row.mined > view.settled
  BY <1>3, <1>5
<1> QED
  BY <1>1, <1>2, <1>4, <1>5, <1>6, <1>7, RowKeeps

(* downgrade_on_reorg on a row. *)
LEMMA DowngradedRow ==
    ASSUME NEW row \in Row
    PROVE  LET new == Downgraded(row)
           IN  /\ new \in Row /\ new.kind = row.kind /\ new.tx = row.tx
               /\ new.mined = NoHeight /\ new.count = 0
<1>1. PICK reorgs \in Nat : reorgs = row.reorgs + 1
  BY DEF Row
<1>2. PICK mined \in Nat : mined = NoHeight
  BY DEF NoHeight
<1>3. PICK count \in Int : count = 0
  OBVIOUS
<1> DEFINE new == [row EXCEPT !.mined = mined, !.count = count, !.reorgs = reorgs]
<1>4. new \in Row /\ new.kind = row.kind /\ new.tx = row.tx /\ new.mined = mined /\ new.count = count
  BY DEF Row
<1>5. Downgraded(row) = new
  BY <1>1, <1>2, <1>3 DEF Downgraded
<1> HIDE DEF new
<1> QED
  BY <1>2, <1>3, <1>4, <1>5

LEMMA ReorgKeeps ==
    ASSUME ClientInv, NEW p \in Payments, Reorg(p), UNCHANGED <<gatewayVars, run, client>>
    PROVE  ClientInv'
<1> DEFINE row == Downgraded(ledger[p])
<1>1. /\ p \in DOMAIN ledger /\ ledger[p] \in Row /\ ledger[p].mined > view.settled /\ Fault
      /\ ledger' = DowngradeOnReorg(ledger, p)
      /\ UNCHANGED <<prepared, taken, irreversible, view, calls>>
  BY DEF Reorg, chainState, ClientInv, Types
<1>2. ledger[p].mined \in Nat /\ view.settled \in Nat /\ ledger[p].reorgs + 1 \in Nat
  BY <1>1 DEF ClientInv, Types, Views, Row
<1>3. ledger' = Put(ledger, p, row)
  BY <1>1, <1>2 DEF DowngradeOnReorg, NoHeight
<1>6. /\ row \in Row /\ row.kind = ledger[p].kind /\ row.tx = ledger[p].tx
      /\ row.mined = NoHeight /\ row.count = 0
  BY <1>1, DowngradedRow
<1> HIDE DEF row
<1>7. faults' \in 0 .. MaxFaults
  BY <1>1, FaultType
<1> QED
  BY <1>1, <1>3, <1>6, <1>7, RowKeeps

LEMMA AdvanceKeeps ==
    ASSUME ClientInv, AdvanceSettled, UNCHANGED <<gatewayVars, run, client>>
    PROVE  ClientInv'
<1> DEFINE height == view.settled + 1
           below == {p \in DOMAIN ledger : ledger[p].mined = height}
<1>1. /\ view' = [view EXCEPT !.settled = height]
      /\ irreversible' = irreversible \cup {<<p, ledger[p].tx>> : p \in below}
      /\ UNCHANGED <<prepared, ledger, taken, calls, faults>>
  BY DEF AdvanceSettled
<1>2. view \in Views /\ height \in Nat /\ height # NoHeight
  BY DEF ClientInv, Types, Views, NoHeight
<1>3. view' \in Views /\ view'.settled = view.settled + 1
  BY <1>1, <1>2 DEF Views
<1>4. \A p \in below : <<p, ledger[p].tx>> \in taken
  BY <1>2 DEF ClientInv, RowsKnow, RowKnows
<1>5. irreversible' \subseteq taken
  BY <1>1, <1>4 DEF ClientInv, Types
<1>6. RowsKnow'
  <2> SUFFICES ASSUME NEW q \in (DOMAIN ledger)' PROVE RowKnows(q)'
    BY DEF RowsKnow
  <2>1. RowKnows(q) /\ q \in DOMAIN ledger /\ ledger[q] \in Row
    BY <1>1 DEF ClientInv, RowsKnow, Types
  <2>2. ledger[q].mined \in Nat /\ view.settled \in Nat
    BY <2>1, <1>2 DEF Row, Views
  <2>3. CASE q \in below
    BY <2>1, <2>3, <1>1 DEF RowKnows
  <2>4. CASE q \notin below
    <3>1. ledger[q].mined <= view.settled + 1 => ledger[q].mined <= view.settled
      BY <2>1, <2>2, <2>4
    <3> QED
      BY <2>1, <3>1, <1>1, <1>3 DEF RowKnows
  <2> QED
    BY <2>3, <2>4
<1>7. /\ prepared' \subseteq Payments /\ faults' \in 0 .. MaxFaults
      /\ ledger' \in [DOMAIN ledger' -> Row] /\ irreversible \subseteq irreversible'
  BY <1>1 DEF ClientInv, Types
<1> QED
  BY <1>1, <1>3, <1>5, <1>6, <1>7, ChainKeeps

LEMMA LapseKeeps ==
    ASSUME ClientInv, Lapse \/ SweepExpired, UNCHANGED <<gatewayVars, run, client>>
    PROVE  ClientInv'
<1>1. /\ UNCHANGED <<ledger, taken, irreversible, calls>> /\ prepared' \subseteq prepared
      /\ view' \in Views /\ view'.settled = view.settled
      /\ faults' \in 0 .. MaxFaults
  <2>1. CASE Lapse
    <3>1. view \in Views /\ Expiry \in Nat
      BY FacilitatorAssumption DEF ClientInv, Types
    <3>2. /\ [view EXCEPT !.visible = Expiry] \in Views
          /\ [view EXCEPT !.visible = Expiry].settled = view.settled
      BY <3>1 DEF Views
    <3> QED
      BY <2>1, <3>2, FaultType DEF Lapse
  <2>2. CASE SweepExpired
    BY <2>2 DEF SweepExpired, chainState, ClientInv, Types
  <2> QED
    BY <2>1, <2>2
<1>2. RowsKnow'
  BY <1>1, RowsFrame
<1>3. /\ prepared' \subseteq Payments /\ irreversible \subseteq taken
      /\ ledger' \in [DOMAIN ledger' -> Row]
  BY <1>1 DEF ClientInv, Types
<1> QED
  BY <1>1, <1>2, <1>3, ChainKeeps

LEMMA ChainStepKeeps ==
    ASSUME ClientInv, ChainStep, UNCHANGED <<gatewayVars, run, client>>
    PROVE  ClientInv'
  BY ConfirmKeeps, ReorgKeeps, AdvanceKeeps, LapseKeeps DEF ChainStep

-----------------------------------------------------------------------------
(* The end-to-end harness *)

(* The client reads its answer or goes away; the client submits. *)
LEMMA HangUpMoves ==
    ASSUME ClientInv, NEW a \in Txs, HangUp(a)
    PROVE  /\ calls' \in [Txs -> ClientCalls] /\ calls'[a].pc = "idle"
           /\ \A b \in Txs : b # a => calls'[b] = calls[b]
<1>1. IdleCall \in ClientCalls /\ IdleCall.pc = "idle"
  BY DEF IdleCall, ClientCalls, CallPcs, Kinds, FailureKinds
<1> QED
  BY <1>1 DEF HangUp, ClientInv, Types

LEMMA SubmitMoves ==
    ASSUME ClientInv, NEW a \in Txs, NEW p \in Payments, NEW route \in {"x402", "lifecycle"},
           Submit(a, p, route)
    PROVE  /\ calls' \in [Txs -> ClientCalls] /\ calls'[a].pc = "find"
           /\ calls'[a].payment = p /\ calls'[a].kind \notin SuccessKinds
           /\ \A b \in Txs : b # a => calls'[b] = calls[b]
<1> DEFINE new == [IdleCall EXCEPT !.pc = "find", !.payment = p, !.route = route]
<1>1. IdleCall \in ClientCalls /\ IdleCall.kind = "unknown"
  BY DEF IdleCall, ClientCalls, CallPcs, Kinds, FailureKinds
<1>2. /\ new \in ClientCalls /\ new.pc = "find" /\ new.payment = p
      /\ new.kind \notin SuccessKinds
  BY <1>1 DEF ClientCalls, CallPcs, SuccessKinds
<1>3. calls' = [calls EXCEPT ![a] = new]
  BY DEF Submit
<1> HIDE DEF new
<1> QED
  BY <1>2, <1>3 DEF ClientInv, Types

(* Moving the run on, and ending it. *)
LEMMA RunToMoves ==
    ASSUME ClientInv, NEW pc \in RunSteps, RunTo(pc)
    PROVE  /\ run' \in RunRecords /\ run'.pc = pc /\ run'.payment = run.payment
           /\ run'.completion = run.completion /\ run'.exit = run.exit
<1>1. run \in RunRecords
  BY DEF ClientInv, Types
<1> QED
  BY <1>1 DEF RunTo, RunRecords

LEMMA ExitMoves ==
    ASSUME ClientInv, NEW exit \in Exits, Exit(exit)
    PROVE  /\ run' \in RunRecords /\ run'.pc = "exit" /\ run'.payment = run.payment
           /\ run'.completion = run.completion /\ run'.exit = exit
<1>1. run \in RunRecords /\ "exit" \in RunSteps
  BY DEF ClientInv, Types, RunSteps
<1> QED
  BY <1>1 DEF Exit, RunRecords

(* What a step of the run has to establish. *)
LEMMA RunKeeps ==
    ASSUME ClientInv, client = "harness",
           UNCHANGED <<gatewayVars, client, ledger, taken, irreversible, view>>,
           prepared' \subseteq Payments, faults' \in 0 .. MaxFaults, run' \in RunRecords,
           calls' \in [Txs -> ClientCalls], CallKnows(Harness)',
           \A b \in Txs : b # Harness => calls'[b] = calls[b],
           RunKnows'
    PROVE  ClientInv'
<1>1. UNCHANGED <<stored, attempts, streams>>
  BY DEF gatewayVars
<1>2. Types'
  BY <1>1 DEF ClientInv, Types
<1>3. CallsKnow'
  <2> SUFFICES ASSUME NEW b \in Txs, b # Harness PROVE CallKnows(b)'
    BY DEF CallsKnow
  <2>1. calls[b].pc = "idle"
    BY DEF ClientInv, CallsKnow, CallKnows, Waits
  <2> QED
    BY <2>1 DEF CallKnows
<1>4. TakenFromClient'
  BY DEF ClientInv, TakenFromClient
<1>5. RowsKnow'
  BY RowsFrame
<1>6. AttemptsKnow' /\ AllStoredKnow' /\ StreamsKnow' /\ StuckStageHasACause'
  BY GatewayFrame
<1> QED
  BY <1>2, <1>3, <1>4, <1>5, <1>6 DEF ClientInv

(* Unless the run waits for an answer, it has no call under way. *)
LEMMA NoCallUnderWay ==
    ASSUME ClientInv, client = "harness", run.pc # "settle"
    PROVE  calls[Harness].pc = "idle"
  BY HarnessAssumption DEF ClientInv, CallsKnow, CallKnows, Waits

(* A step that changes nothing but the run, away from the settle call. *)
LEMMA RunAloneKeeps ==
    ASSUME ClientInv, client = "harness", run.pc # "settle", UNCHANGED <<gatewayVars, client>>,
           UNCHANGED <<ledger, taken, irreversible, view, calls>>,
           prepared' \subseteq Payments, faults' \in 0 .. MaxFaults, run' \in RunRecords, RunKnows'
    PROVE  ClientInv'
<1>1. calls[Harness].pc = "idle"
  BY NoCallUnderWay
<1>2. CallKnows(Harness)'
  BY <1>1 DEF CallKnows
<1>3. calls' \in [Txs -> ClientCalls]
  BY DEF ClientInv, Types
<1> QED
  BY <1>2, <1>3, RunKeeps

LEMMA HarnessPrepareKeeps ==
    ASSUME ClientInv, client = "harness", UNCHANGED <<gatewayVars, client>>,
           NEW p \in Payments, HarnessPrepare(p)
    PROVE  ClientInv'
<1> DEFINE pc == IF run.flow = "run" THEN "balance" ELSE "sign"
<1>1. /\ run.pc = "prepare" /\ prepared' = prepared \cup {p}
      /\ run' = [run EXCEPT !.payment = p, !.pc = pc]
      /\ UNCHANGED <<ledger, taken, irreversible, view, calls, faults>>
  BY DEF HarnessPrepare, RunAt, IssuePreparation, chainState
<1>2. run \in RunRecords /\ prepared \subseteq Payments /\ faults \in 0 .. MaxFaults
  BY DEF ClientInv, Types
<1>3. pc \in {"balance", "sign"} /\ pc \in RunSteps
  BY DEF RunSteps
<1> HIDE DEF pc
<1>4. run' \in RunRecords /\ run'.pc = pc /\ run'.payment = p /\ run'.exit = run.exit
  BY <1>1, <1>2, <1>3 DEF RunRecords
<1>5. run.exit = "none" /\ taken = {}
  BY <1>1 DEF ClientInv, RunKnows, Unsent
<1>6. RunKnows'
  BY <1>1, <1>3, <1>4, <1>5 DEF RunKnows
<1> QED
  BY <1>1, <1>2, <1>4, <1>6, RunAloneKeeps

(* The send of either flow: the call goes out and nothing is taken yet. *)
LEMMA HarnessSubmitKeeps ==
    ASSUME ClientInv, client = "harness", UNCHANGED <<gatewayVars, client>>,
           HarnessSend \/ HarnessVerified
    PROVE  ClientInv'
<1>1. /\ run.pc \in {"balance", "verify"} /\ RunTo("settle")
      /\ \E route \in {"x402", "lifecycle"} : Submit(Harness, run.payment, route)
      /\ UNCHANGED <<prepared, ledger, taken, irreversible, view, faults>>
  BY DEF HarnessSend, HarnessVerified, RunAt, chainState
<1>2. run.payment \in Payments /\ run.exit = "none" /\ taken = {}
  BY <1>1 DEF ClientInv, RunKnows, Unsent
<1>3. /\ calls' \in [Txs -> ClientCalls] /\ calls'[Harness].pc = "find"
      /\ calls'[Harness].payment = run.payment /\ calls'[Harness].kind \notin SuccessKinds
      /\ \A b \in Txs : b # Harness => calls'[b] = calls[b]
  BY <1>1, <1>2, SubmitMoves, HarnessAssumption
<1>4. /\ run' \in RunRecords /\ run'.pc = "settle" /\ run'.payment = run.payment
      /\ run'.exit = run.exit
  BY <1>1, RunToMoves DEF RunSteps
<1>5. CallKnows(Harness)'
  BY <1>2, <1>3, <1>4 DEF CallKnows, Waits
<1>6. RunKnows'
  BY <1>1, <1>2, <1>4 DEF RunKnows
<1>7. prepared' \subseteq Payments /\ faults' \in 0 .. MaxFaults
  BY <1>1 DEF ClientInv, Types
<1> QED
  BY <1>1, <1>3, <1>4, <1>5, <1>6, <1>7, RunKeeps

(* A step before the send, or the end of it: nothing is taken yet. *)
LEMMA HarnessUnsentKeeps ==
    ASSUME ClientInv, client = "harness", UNCHANGED <<gatewayVars, client>>,
           HarnessInsufficientFunds \/ HarnessSigned
    PROVE  ClientInv'
<1>1. run.pc \in {"balance", "sign"} /\ UNCHANGED zpayVars
  BY DEF HarnessInsufficientFunds, HarnessSigned, RunAt
<1>2. run.payment \in Payments /\ run.exit = "none" /\ taken = {}
  BY <1>1 DEF ClientInv, RunKnows, Unsent
<1>3. UNCHANGED <<prepared, ledger, taken, irreversible, view, calls, faults>>
  BY <1>1 DEF zpayVars
<1>4. run' \in RunRecords /\ RunKnows'
  <2>1. CASE HarnessInsufficientFunds
    <3>1. run' \in RunRecords /\ run'.pc = "exit" /\ run'.exit = "error"
      BY <2>1, ExitMoves DEF HarnessInsufficientFunds, Exits
    <3> QED
      BY <3>1, <1>2, <1>3 DEF RunKnows
  <2>2. CASE HarnessSigned
    <3>1. /\ run' \in RunRecords /\ run'.pc = "verify" /\ run'.exit = run.exit
          /\ run'.payment = run.payment
      BY <2>2, RunToMoves DEF HarnessSigned, RunSteps
    <3> QED
      BY <3>1, <1>2, <1>3 DEF RunKnows
  <2> QED
    BY <2>1, <2>2
<1>5. prepared' \subseteq Payments /\ faults' \in 0 .. MaxFaults
  BY <1>3 DEF ClientInv, Types
<1> QED
  BY <1>1, <1>3, <1>4, <1>5, RunAloneKeeps

(* A run is told of a rejection only for what zpay refused before the        *)
(* broadcast or what the network turned down, whichever way it settled.     *)
LEMMA VerdictIsHonest ==
    ASSUME ClientInv, Replied(Harness), NEW verdict \in Verdicts, verdict # "ok"
    PROVE  /\ verdict \in Exits
           /\ verdict # "none"
           /\ verdict = "rejected" => Refusable(calls[Harness])
<1>1. calls[Harness].pc \in {"answered", "refused", "unavailable"}
  BY DEF Replied
<1>2. CASE verdict \in X402SettleVerdict
  BY <1>2 DEF X402SettleVerdict, Exits
<1>3. CASE verdict \in SubmitVerdict
  <2>1. CASE RepliedSuccess(Harness)
    <3>1. calls[Harness].pc = "answered" /\ calls[Harness].kind # "rejected"
      BY <2>1 DEF RepliedSuccess, SuccessKinds
    <3> QED
      BY <1>3, <2>1, <3>1 DEF SubmitVerdict
  <2>2. CASE ~RepliedSuccess(Harness)
    BY <1>1, <1>3, <2>2 DEF SubmitVerdict, Refusable, Exits
  <2> QED
    BY <2>1, <2>2
<1> QED
  BY <1>2, <1>3 DEF Verdicts

LEMMA HarnessSettledKeeps ==
    ASSUME ClientInv, client = "harness", UNCHANGED <<gatewayVars, client>>, HarnessSettled
    PROVE  ClientInv'
<1>1. /\ run.pc = "settle" /\ Replied(Harness) /\ HangUp(Harness)
      /\ UNCHANGED <<prepared, ledger, taken, irreversible, view, faults>>
  BY DEF HarnessSettled, RunAt, chainState
<1>2. /\ calls' \in [Txs -> ClientCalls] /\ calls'[Harness].pc = "idle"
      /\ \A b \in Txs : b # Harness => calls'[b] = calls[b]
  BY <1>1, HangUpMoves, HarnessAssumption
<1>3. run.exit = "none"
  BY <1>1 DEF ClientInv, RunKnows
<1>4. run' \in RunRecords /\ RunKnows'
  <2>1. PICK verdict \in Verdicts :
           IF verdict # "ok" THEN Exit(verdict)
           ELSE RunTo(IF run.flow = "run" THEN "wait" ELSE "confirm")
    BY DEF HarnessSettled
  <2>2. CASE verdict # "ok"
    <3>1. /\ verdict \in Exits /\ verdict # "none"
          /\ verdict = "rejected" => Refusable(calls[Harness])
      BY <2>2, <1>1, VerdictIsHonest
    <3>2. verdict = "rejected" => taken = {}
      BY <3>1, <1>1 DEF ClientInv, RunKnows, MayReject
    <3>3. run' \in RunRecords /\ run'.pc = "exit" /\ run'.exit = verdict
      BY <2>1, <2>2, <3>1, ExitMoves
    <3> QED
      BY <2>2, <3>2, <3>3, <1>1 DEF RunKnows, Unsent, MayReject
  <2>3. CASE verdict = "ok"
    <3>1. PICK pc \in {"wait", "confirm"} : RunTo(pc)
      BY <2>1, <2>3
    <3>2. run' \in RunRecords /\ run'.pc = pc /\ run'.exit = run.exit
      BY <3>1, RunToMoves DEF RunSteps
    <3> QED
      BY <3>2, <1>3 DEF RunKnows, Unsent, MayReject
  <2> QED
    BY <2>2, <2>3
<1>5. CallKnows(Harness)'
  BY <1>2 DEF CallKnows
<1>6. prepared' \subseteq Payments /\ faults' \in 0 .. MaxFaults
  BY <1>1 DEF ClientInv, Types
<1> QED
  BY <1>1, <1>2, <1>4, <1>5, <1>6, RunKeeps

LEMMA HarnessConfirmKeeps ==
    ASSUME ClientInv, client = "harness", UNCHANGED <<gatewayVars, client>>, HarnessConfirm
    PROVE  ClientInv'
<1>1. run.pc = "confirm" /\ UNCHANGED zpayVars
  BY DEF HarnessConfirm, RunAt
<1>2. run.exit = "none"
  BY <1>1 DEF ClientInv, RunKnows
<1>3. run' \in RunRecords /\ RunKnows'
  <2>1. CASE RunTo("wait")
    <3>1. run' \in RunRecords /\ run'.pc = "wait" /\ run'.exit = run.exit
      BY <2>1, RunToMoves DEF RunSteps
    <3> QED
      BY <3>1, <1>2 DEF RunKnows, Unsent, MayReject
  <2>2. CASE Exit("lifecycle_status")
    <3>1. run' \in RunRecords /\ run'.pc = "exit" /\ run'.exit = "lifecycle_status"
      BY <2>2, ExitMoves DEF Exits
    <3> QED
      BY <3>1 DEF RunKnows, Unsent, MayReject
  <2> QED
    BY <2>1, <2>2 DEF HarnessConfirm
<1>4. /\ UNCHANGED <<ledger, taken, irreversible, view, calls>>
      /\ prepared' \subseteq Payments /\ faults' \in 0 .. MaxFaults
  BY <1>1 DEF ClientInv, Types, zpayVars
<1> QED
  BY <1>1, <1>3, <1>4, RunAloneKeeps

(* What the poll waits for is there only when the payment has a settlement   *)
(* row of the run's own transaction; settled, only when that is irreversible. *)
LEMMA ObservedIsThere ==
    ASSUME ClientInv, client = "harness", run.payment \in Payments \cup {NoTx},
           IsObserved(run.completion, PaymentStatus)
    PROVE  Observed
<1>1. run.completion \in Completions /\ view \in Views
  BY DEF ClientInv, Types, RunRecords
<1>2. ASSUME run.payment \notin DOMAIN ledger PROVE FALSE
  <2>1. PaymentStatus = PreparedAnswer(run.payment)
    BY <1>2 DEF PaymentStatus
  <2>2. /\ PaymentStatus.count = -1 /\ PaymentStatus.settled = FALSE
        /\ PaymentStatus.status \in {"never_issued", "expired", "awaiting"}
    BY <2>1 DEF PreparedAnswer, NoAnswer, NoCount
  <2>3. run.completion # "mined"
    <3>1. run.completion = "mined" => PaymentStatus.count >= 1
      BY DEF IsObserved
    <3> QED
      BY <2>2, <3>1
  <2>4. run.completion # "final"
    BY <2>2 DEF IsObserved
  <2>5. run.completion # "settled"
    BY <2>2 DEF IsObserved
  <2> QED
    BY <1>1, <2>3, <2>4, <2>5 DEF Completions
<1> DEFINE row == ledger[run.payment]
<1>3. run.payment \in DOMAIN ledger /\ row \in Row /\ RowKnows(run.payment)
      /\ run.payment \in Payments
  BY <1>2 DEF ClientInv, Types, RowsKnow
<1>4. /\ PaymentStatus.count = row.count
      /\ PaymentStatus.status = LedgerStatus(row, view)
      /\ PaymentStatus.settled = ReadsSettled(row, view)
  BY <1>3 DEF PaymentStatus, LedgerAnswer
<1>5. IsSuccess(row)
  <2>1. CASE run.completion = "mined"
    BY <2>1, <1>3, <1>4 DEF IsObserved, RowKnows
  <2>2. CASE run.completion = "final"
    BY <2>2, <1>4 DEF IsObserved, LedgerStatus
  <2>3. CASE run.completion = "settled"
    BY <2>3, <1>4 DEF IsObserved, ReadsSettled
  <2> QED
    BY <1>1, <2>1, <2>2, <2>3 DEF Completions
<1>6. row.tx = Harness
  BY <1>3, <1>5 DEF ClientInv, RowKnows, TakenFromClient, Types
<1>7. run.completion = "settled" => <<run.payment, Harness>> \in irreversible
  <2> SUFFICES ASSUME run.completion = "settled" PROVE <<run.payment, row.tx>> \in irreversible
    BY <1>6
  <2>1. ReadsSettled(row, view)
    BY <1>4 DEF IsObserved
  <2> QED
    BY <2>1, <1>3 DEF ReadsSettled, ReadsMined, IsSettledAt, RowKnows
<1> QED
  BY <1>3, <1>5, <1>7 DEF Observed

LEMMA HarnessPollKeeps ==
    ASSUME ClientInv, client = "harness", UNCHANGED <<gatewayVars, client>>, HarnessPoll
    PROVE  ClientInv'
<1>1. run.pc = "wait" /\ UNCHANGED <<prepared, ledger, taken, irreversible, view, calls, faults>>
  BY DEF HarnessPoll, RunAt, zpayVars
<1>2. run.exit = "none" /\ run.payment \in Payments \cup {NoTx}
  BY <1>1 DEF ClientInv, RunKnows, Types, RunRecords
<1>3. run' \in RunRecords /\ RunKnows'
  <2>1. CASE Exit("timed_out")
    <3>1. run' \in RunRecords /\ run'.pc = "exit" /\ run'.exit = "timed_out"
      BY <2>1, ExitMoves DEF Exits
    <3> QED
      BY <3>1 DEF RunKnows, Unsent, MayReject
  <2>2. CASE IsObserved(run.completion, PaymentStatus) /\ (Exit("ok") \/ RunTo("zexplorer"))
    <3>1. Observed
      BY <2>2, <1>2, ObservedIsThere
    <3>2. /\ run' \in RunRecords /\ run'.pc \in {"exit", "zexplorer"}
          /\ run'.payment = run.payment /\ run'.completion = run.completion
          /\ run'.exit \in {"none", "ok"} /\ (run'.exit = "ok" => run'.pc = "exit")
      <4>1. CASE Exit("ok")
        BY <4>1, ExitMoves DEF Exits
      <4>2. CASE RunTo("zexplorer")
        BY <4>2, <1>2, RunToMoves DEF RunSteps
      <4> QED
        BY <2>2, <4>1, <4>2
    <3>3. Observed'
      BY <3>1, <3>2, <1>1 DEF Observed
    <3> QED
      BY <3>2, <3>3 DEF RunKnows, Unsent, MayReject
  <2> QED
    BY <2>1, <2>2 DEF HarnessPoll
<1>4. prepared' \subseteq Payments /\ faults' \in 0 .. MaxFaults
  BY <1>1 DEF ClientInv, Types
<1> QED
  BY <1>1, <1>3, <1>4, RunAloneKeeps

LEMMA HarnessExplorerKeeps ==
    ASSUME ClientInv, client = "harness", UNCHANGED <<gatewayVars, client>>, HarnessExplorer
    PROVE  ClientInv'
<1>1. /\ run.pc = "zexplorer" /\ Exit("ok")
      /\ UNCHANGED <<prepared, ledger, taken, irreversible, view, calls, faults>>
  BY DEF HarnessExplorer, RunAt, zpayVars
<1>2. Observed
  BY <1>1 DEF ClientInv, RunKnows
<1>3. /\ run' \in RunRecords /\ run'.pc = "exit" /\ run'.exit = "ok"
      /\ run'.payment = run.payment /\ run'.completion = run.completion
  BY <1>1, ExitMoves DEF Exits
<1>4. Observed'
  BY <1>1, <1>2, <1>3 DEF Observed
<1>5. RunKnows'
  BY <1>3, <1>4 DEF RunKnows, Unsent, MayReject
<1>6. prepared' \subseteq Payments /\ faults' \in 0 .. MaxFaults
  BY <1>1 DEF ClientInv, Types
<1> QED
  BY <1>1, <1>3, <1>5, <1>6, RunAloneKeeps

LEMMA HarnessErrorKeeps ==
    ASSUME ClientInv, client = "harness", UNCHANGED <<gatewayVars, client>>, HarnessError
    PROVE  ClientInv'
<1>1. /\ Fault /\ HangUp(Harness) /\ Exit("error")
      /\ UNCHANGED <<prepared, ledger, taken, irreversible, view>>
  BY DEF HarnessError, chainState
<1>2. /\ calls' \in [Txs -> ClientCalls] /\ calls'[Harness].pc = "idle"
      /\ \A b \in Txs : b # Harness => calls'[b] = calls[b]
  BY <1>1, HangUpMoves, HarnessAssumption
<1>3. run' \in RunRecords /\ run'.pc = "exit" /\ run'.exit = "error"
  BY <1>1, ExitMoves DEF Exits
<1>4. RunKnows'
  BY <1>3 DEF RunKnows, Unsent, MayReject
<1>5. CallKnows(Harness)'
  BY <1>2 DEF CallKnows
<1>6. prepared' \subseteq Payments /\ faults' \in 0 .. MaxFaults
  BY <1>1, FaultType DEF ClientInv, Types
<1> QED
  BY <1>1, <1>2, <1>3, <1>4, <1>5, <1>6, RunKeeps

LEMMA HarnessNextKeeps ==
    ASSUME ClientInv, client = "harness", UNCHANGED <<gatewayVars, client>>, HarnessNext
    PROVE  ClientInv'
  BY HarnessPrepareKeeps, HarnessSubmitKeeps, HarnessUnsentKeeps, HarnessSettledKeeps,
     HarnessConfirmKeeps, HarnessPollKeeps, HarnessExplorerKeeps, HarnessErrorKeeps
     DEF HarnessNext

-----------------------------------------------------------------------------
(* The demo gateway: settle requests *)

(* What set_stage_override and record_settlement do to the map. *)
LEMMA OverrideMoves ==
    ASSUME ClientInv, NEW p, NEW stage \in Overrides, SetStageOverride(p, stage)
    PROVE  /\ stored' \in [DOMAIN stored' -> StoredPayment] /\ DOMAIN stored' = DOMAIN stored
           /\ AllStoredKnow
           /\ \A q \in DOMAIN stored : q # p => stored'[q] = stored[q]
           /\ \A q \in DOMAIN stored : /\ stored'[q].tx = stored[q].tx
                                       /\ stored'[q].disclosure = stored[q].disclosure
                                       /\ stored'[q].override \in {stored[q].override, stage}
<1>1. stored \in [DOMAIN stored -> StoredPayment] /\ AllStoredKnow
  BY DEF ClientInv, Types
<1>2. CASE p \notin DOMAIN stored
  BY <1>1, <1>2 DEF SetStageOverride
<1>3. CASE p \in DOMAIN stored
  <2> DEFINE new == [stored[p] EXCEPT !.override = stage]
  <2>1. stored[p] \in StoredPayment /\ stage \in Stages \cup {NoOverride}
    BY <1>1, <1>3 DEF Overrides, Stages
  <2>2. /\ new \in StoredPayment /\ new.tx = stored[p].tx
        /\ new.disclosure = stored[p].disclosure /\ new.override = stage
    BY <2>1 DEF StoredPayment
  <2>3. stored' = [stored EXCEPT ![p] = new]
    BY <1>3 DEF SetStageOverride
  <2> HIDE DEF new
  <2> QED
    BY <1>1, <1>3, <2>2, <2>3
<1> QED
  BY <1>2, <1>3

LEMMA OverrideKnows ==
    ASSUME ClientInv, NEW p, NEW stage \in Overrides, SetStageOverride(p, stage),
           UNCHANGED taken
    PROVE  AllStoredKnow'
<1> SUFFICES ASSUME NEW q \in (DOMAIN stored)' PROVE StoredKnows(q)'
  BY DEF AllStoredKnow
<1>1. /\ q \in DOMAIN stored /\ stored'[q].tx = stored[q].tx
      /\ stored'[q].disclosure = stored[q].disclosure
      /\ stored'[q].override \in {stored[q].override, stage}
  BY OverrideMoves
<1>2. StoredKnows(q)
  BY <1>1 DEF ClientInv, AllStoredKnow
<1> QED
  BY <1>1, <1>2 DEF StoredKnows

LEMMA SettlementMoves ==
    ASSUME ClientInv, NEW p \in Payments, NEW tx \in Attempts, NEW disclosure \in {NoTx, tx},
           RecordSettlement(p, tx, disclosure), <<p, tx>> \in taken, UNCHANGED taken
    PROVE  /\ stored' \in [DOMAIN stored' -> StoredPayment] /\ DOMAIN stored' = DOMAIN stored
           /\ AllStoredKnow'
           /\ \A q \in DOMAIN stored : q # p => stored'[q] = stored[q]
           /\ p \in DOMAIN stored => stored'[p].override = NoOverride
<1>1. stored \in [DOMAIN stored -> StoredPayment] /\ AllStoredKnow
  BY DEF ClientInv, Types
<1>2. CASE p \notin DOMAIN stored
  BY <1>1, <1>2 DEF RecordSettlement, AllStoredKnow, StoredKnows
<1>3. CASE p \in DOMAIN stored
  <2> DEFINE new == [stored[p] EXCEPT !.tx = tx, !.disclosure = disclosure,
                                      !.override = NoOverride]
  <2>1. stored[p] \in StoredPayment
    BY <1>1, <1>3
  <2>2. /\ new \in StoredPayment /\ new.tx = tx /\ new.disclosure = disclosure
        /\ new.override = NoOverride
    BY <2>1 DEF StoredPayment
  <2>3. stored' = [stored EXCEPT ![p] = new]
    BY <1>3 DEF RecordSettlement
  <2> HIDE DEF new
  <2>4. /\ stored' \in [DOMAIN stored' -> StoredPayment] /\ DOMAIN stored' = DOMAIN stored
        /\ stored'[p] = new
        /\ \A q \in DOMAIN stored : q # p => stored'[q] = stored[q]
    BY <1>1, <1>3, <2>2, <2>3
  <2>5. AllStoredKnow'
    <3> SUFFICES ASSUME NEW q \in (DOMAIN stored)' PROVE StoredKnows(q)'
      BY DEF AllStoredKnow
    <3>1. CASE q = p
      BY <3>1, <2>2, <2>4 DEF StoredKnows, Overrides
    <3>2. CASE q # p
      BY <3>2, <1>1, <2>4 DEF AllStoredKnow, StoredKnows
    <3> QED
      BY <3>1, <3>2
  <2> QED
    BY <2>2, <2>4, <2>5
<1> QED
  BY <1>2, <1>3

(* What a step of a settle request has to establish: its own record and call, *)
(* the stored payment, and that it leaves no stage override without a cause. *)
LEMMA AttemptKeeps ==
    ASSUME ClientInv, client = "demo", NEW a \in Attempts, NEW new \in AttemptRecords,
           attempts' = [attempts EXCEPT ![a] = new],
           attempts[a].pc = "idle" \/ attempts[a].payment = new.payment,
           UNCHANGED <<run, client, streams, prepared, ledger, taken, irreversible, view>>,
           faults' \in 0 .. MaxFaults,
           calls' \in [Txs -> ClientCalls], \A b \in Txs : b # a => calls'[b] = calls[b],
           CallKnows(a)', AttemptKnows(a)',
           stored' \in [DOMAIN stored' -> StoredPayment], DOMAIN stored' = DOMAIN stored,
           AllStoredKnow', \A q \in DOMAIN stored : q # new.payment => stored'[q] = stored[q],
           \/ new.pc \in Running \cup {"failed"}
           \/ new.payment \in DOMAIN stored => stored'[new.payment].override = NoOverride
    PROVE  ClientInv'
<1>1. /\ attempts' \in [Attempts -> AttemptRecords] /\ attempts'[a] = new
      /\ \A b \in Attempts : b # a => attempts'[b] = attempts[b]
  BY DEF ClientInv, Types
<1>2. Types'
  BY <1>1 DEF ClientInv, Types
<1>3. CallsKnow'
  <2> SUFFICES ASSUME NEW b \in Txs, b # a PROVE CallKnows(b)'
    BY DEF CallsKnow
  <2>1. CallKnows(b) /\ calls'[b] = calls[b]
    BY DEF ClientInv, CallsKnow
  <2> QED
    BY <2>1, <1>1 DEF CallKnows, Waits
<1>4. TakenFromClient'
  BY DEF ClientInv, TakenFromClient
<1>5. RowsKnow'
  BY RowsFrame
<1>6. AttemptsKnow'
  <2> SUFFICES ASSUME NEW b \in Attempts, b # a PROVE AttemptKnows(b)'
    BY DEF AttemptsKnow
  <2> QED
    BY <1>1 DEF ClientInv, AttemptsKnow, AttemptKnows
<1>7. StreamsKnow'
  BY DEF ClientInv, StreamsKnow, StreamKnows, IsPaid
<1>8. RunKnows'
  BY RunFrame
<1>9. StuckStageHasACause'
  <2> SUFFICES ASSUME NEW p \in (DOMAIN stored)',
                      stored'[p].override \in {"signing", "settling"}
               PROVE  InFlight(p)' \/ Ended(p, "failed")'
    BY DEF StuckStageHasACause
  <2>1. CASE p = new.payment
    <3>1. new.pc \in Running \cup {"failed"}
      BY <2>1 DEF NoOverride
    <3> QED
      BY <2>1, <3>1, <1>1 DEF InFlight, Ended
  <2>2. CASE p # new.payment
    <3>1. InFlight(p) \/ Ended(p, "failed")
      BY <2>2 DEF ClientInv, StuckStageHasACause
    <3>2. PICK b \in Attempts : /\ attempts[b].payment = p
                                /\ attempts[b].pc \in Running \cup {"failed"}
      BY <3>1 DEF InFlight, Ended
    <3>3. b # a
      BY <2>2, <3>2 DEF Running
    <3> QED
      BY <3>2, <3>3, <1>1 DEF InFlight, Ended
  <2> QED
    BY <2>1, <2>2
<1> QED
  BY <1>2, <1>3, <1>4, <1>5, <1>6, <1>7, <1>8, <1>9 DEF ClientInv

AttemptPcs == Running \cup {"idle", "failed", "done"}

LEMMA MoveMoves ==
    ASSUME ClientInv, NEW a \in Attempts, NEW pc \in AttemptPcs, Move(a, pc)
    PROVE  \E new \in AttemptRecords : /\ attempts' = [attempts EXCEPT ![a] = new]
                                       /\ new.pc = pc /\ new.payment = attempts[a].payment
                                       /\ attempts'[a] = new
<1> DEFINE new == [attempts[a] EXCEPT !.pc = pc]
<1>1. attempts \in [Attempts -> AttemptRecords] /\ attempts[a] \in AttemptRecords
  BY DEF ClientInv, Types
<1>2. new \in AttemptRecords /\ new.pc = pc /\ new.payment = attempts[a].payment
  BY <1>1 DEF AttemptRecords, AttemptPcs
<1>3. attempts' = [attempts EXCEPT ![a] = new]
  BY DEF Move
<1> HIDE DEF new
<1> QED
  BY <1>1, <1>2, <1>3

(* A request that does not wait for zpay has no call under way. *)
LEMMA NoCallOfAttempt ==
    ASSUME ClientInv, client = "demo", NEW a \in Attempts, attempts[a].pc # "settle"
    PROVE  calls[a].pc = "idle"
  BY GatewayAssumption DEF ClientInv, CallsKnow, CallKnows, Waits

LEMMA SettleBeginKeeps ==
    ASSUME ClientInv, client = "demo", UNCHANGED <<run, client>>,
           NEW a \in Attempts, NEW p \in Payments, SettleBegin(a, p)
    PROVE  ClientInv'
<1> DEFINE pc == IF stored[p].mode = "checkout" THEN "balance" ELSE "sign"
           new == [pc |-> pc, payment |-> p]
<1>1. /\ attempts[a].pc = "idle" /\ attempts' = [attempts EXCEPT ![a] = new]
      /\ SetStageOverride(p, "signing")
      /\ UNCHANGED <<prepared, ledger, taken, irreversible, view, calls, faults, streams>>
  BY DEF SettleBegin, AtStep, zpayVars
<1>2. pc \in {"balance", "sign"}
  OBVIOUS
<1> HIDE DEF pc
<1>3. new \in AttemptRecords /\ new.pc = pc /\ new.payment = p /\ pc \in Running
  BY <1>2 DEF AttemptRecords, Running
<1> HIDE DEF new
<1>4. calls[a].pc = "idle" /\ "signing" \in Overrides
  BY <1>1, NoCallOfAttempt DEF Overrides
<1>5. attempts'[a] = new
  BY <1>1 DEF ClientInv, Types
<1>6. CallKnows(a)' /\ AttemptKnows(a)'
  BY <1>1, <1>2, <1>3, <1>4, <1>5 DEF CallKnows, AttemptKnows
<1>7. /\ stored' \in [DOMAIN stored' -> StoredPayment] /\ DOMAIN stored' = DOMAIN stored
      /\ \A q \in DOMAIN stored : q # p => stored'[q] = stored[q]
  BY <1>1, <1>4, OverrideMoves
<1>8. AllStoredKnow'
  BY <1>1, <1>4, OverrideKnows
<1>9. calls' \in [Txs -> ClientCalls] /\ faults' \in 0 .. MaxFaults
  BY <1>1 DEF ClientInv, Types
<1> QED
  BY <1>1, <1>3, <1>6, <1>7, <1>8, <1>9, AttemptKeeps

(* A step that moves on before the settle call goes out, or fails there, and *)
(* writes an override.                                                      *)
LEMMA StageKeeps ==
    ASSUME ClientInv, client = "demo", UNCHANGED <<run, client>>, NEW a \in Attempts,
           NEW stage \in Overrides, NEW pc \in {"wallet", "verify", "failed"},
           attempts[a].pc \in {"balance", "wallet", "sign"},
           SetStageOverride(attempts[a].payment, stage), Move(a, pc),
           UNCHANGED <<prepared, ledger, taken, irreversible, view, calls, faults, streams>>
    PROVE  ClientInv'
<1>1. pc \in AttemptPcs /\ pc \in Running \cup {"failed"} /\ pc # "disclose"
  BY DEF AttemptPcs, Running
<1>2. PICK new \in AttemptRecords : /\ attempts' = [attempts EXCEPT ![a] = new]
                                    /\ new.pc = pc /\ new.payment = attempts[a].payment
                                    /\ attempts'[a] = new
  BY <1>1, MoveMoves
<1>3. calls[a].pc = "idle" /\ attempts[a].payment \in Payments
  BY NoCallOfAttempt DEF ClientInv, AttemptsKnow, AttemptKnows, Running
<1>4. CallKnows(a)' /\ AttemptKnows(a)'
  BY <1>1, <1>2, <1>3 DEF CallKnows, AttemptKnows
<1>5. /\ stored' \in [DOMAIN stored' -> StoredPayment] /\ DOMAIN stored' = DOMAIN stored
      /\ \A q \in DOMAIN stored : q # attempts[a].payment => stored'[q] = stored[q]
  BY OverrideMoves
<1>6. AllStoredKnow'
  BY OverrideKnows
<1>7. calls' \in [Txs -> ClientCalls] /\ faults' \in 0 .. MaxFaults
  BY DEF ClientInv, Types
<1> QED
  BY <1>1, <1>2, <1>4, <1>5, <1>6, <1>7, AttemptKeeps

(* A step that leaves the map alone. *)
LEMMA QuietAttemptKeeps ==
    ASSUME ClientInv, client = "demo", NEW a \in Attempts,
           NEW pc \in Running \cup {"failed"}, Move(a, pc), attempts[a].pc \in Running,
           UNCHANGED <<run, client, stored, streams, prepared, ledger, taken, irreversible, view>>,
           faults' \in 0 .. MaxFaults,
           calls' \in [Txs -> ClientCalls], \A b \in Txs : b # a => calls'[b] = calls[b],
           CallKnows(a)',
           pc = "disclose" => <<attempts[a].payment, a>> \in taken
    PROVE  ClientInv'
<1>1. pc \in AttemptPcs
  BY DEF AttemptPcs
<1>2. PICK new \in AttemptRecords : /\ attempts' = [attempts EXCEPT ![a] = new]
                                    /\ new.pc = pc /\ new.payment = attempts[a].payment
                                    /\ attempts'[a] = new
  BY <1>1, MoveMoves
<1>3. attempts[a].payment \in Payments
  BY DEF ClientInv, AttemptsKnow, AttemptKnows
<1>4. AttemptKnows(a)'
  BY <1>2, <1>3 DEF AttemptKnows
<1>5. /\ stored' \in [DOMAIN stored' -> StoredPayment] /\ AllStoredKnow'
  BY DEF ClientInv, Types, AllStoredKnow, StoredKnows
<1> QED
  BY <1>2, <1>4, <1>5, AttemptKeeps

LEMMA VerifiedKeeps ==
    ASSUME ClientInv, client = "demo", UNCHANGED <<run, client>>,
           NEW a \in Attempts, VerifiedThenSettle(a)
    PROVE  ClientInv'
<1>1. /\ attempts[a].pc = "verify" /\ Submit(a, attempts[a].payment, "x402") /\ Move(a, "settle")
      /\ UNCHANGED <<prepared, ledger, taken, irreversible, view, faults, stored, streams>>
  BY DEF VerifiedThenSettle, AtStep, chainState
<1>2. a \in Txs /\ attempts[a].payment \in Payments
  BY <1>1, GatewayAssumption DEF ClientInv, AttemptsKnow, AttemptKnows, Running
<1>3. /\ calls' \in [Txs -> ClientCalls] /\ calls'[a].pc = "find"
      /\ calls'[a].payment = attempts[a].payment /\ calls'[a].kind \notin SuccessKinds
      /\ \A b \in Txs : b # a => calls'[b] = calls[b]
  BY <1>1, <1>2, SubmitMoves
<1>4. attempts'[a].pc = "settle" /\ attempts'[a].payment = attempts[a].payment
  BY <1>1, MoveMoves DEF AttemptPcs, Running
<1>5. CallKnows(a)'
  BY <1>2, <1>3, <1>4 DEF CallKnows, Waits
<1>6. faults' \in 0 .. MaxFaults
  BY <1>1 DEF ClientInv, Types
<1> QED
  BY <1>1, <1>3, <1>5, <1>6, QuietAttemptKeeps DEF Running

(* A request that is told of a success was taken by the network for its own  *)
(* payment.                                                                 *)
LEMMA SuccessIsTaken ==
    ASSUME ClientInv, client = "demo", NEW a \in Attempts, RepliedSuccess(a)
    PROVE  attempts[a].payment \in Payments /\ <<attempts[a].payment, a>> \in taken
<1>1. a \in Txs /\ calls[a].pc # "idle" /\ calls[a].kind \in SuccessKinds
  BY GatewayAssumption DEF RepliedSuccess
<1> QED
  BY <1>1, BusyCall DEF Waits

LEMMA AnsweredKeeps ==
    ASSUME ClientInv, client = "demo", UNCHANGED <<run, client>>,
           NEW a \in Attempts, SettleAnswered(a)
    PROVE  ClientInv'
<1> DEFINE p == attempts[a].payment
<1>1. /\ attempts[a].pc = "settle" /\ RepliedSuccess(a) /\ HangUp(a)
      /\ UNCHANGED <<prepared, ledger, taken, irreversible, view, faults, streams>>
      /\ \/ Move(a, "disclose") /\ UNCHANGED stored
         \/ Move(a, "done") /\ RecordSettlement(p, a, NoTx)
  BY DEF SettleAnswered, AtStep, chainState
<1>2. p \in Payments /\ <<p, a>> \in taken
  BY <1>1, SuccessIsTaken
<1>3. /\ calls' \in [Txs -> ClientCalls] /\ calls'[a].pc = "idle"
      /\ \A b \in Txs : b # a => calls'[b] = calls[b]
  BY <1>1, HangUpMoves, GatewayAssumption
<1>4. CallKnows(a)'
  BY <1>3 DEF CallKnows
<1>5. faults' \in 0 .. MaxFaults
  BY <1>1 DEF ClientInv, Types
<1>6. CASE Move(a, "disclose") /\ UNCHANGED stored
  BY <1>1, <1>2, <1>3, <1>4, <1>5, <1>6, QuietAttemptKeeps DEF Running
<1>7. CASE Move(a, "done") /\ RecordSettlement(p, a, NoTx)
  <2>1. PICK new \in AttemptRecords : /\ attempts' = [attempts EXCEPT ![a] = new]
                                      /\ new.pc = "done" /\ new.payment = p
                                      /\ attempts'[a] = new
    BY <1>7, MoveMoves DEF AttemptPcs
  <2>2. /\ stored' \in [DOMAIN stored' -> StoredPayment] /\ DOMAIN stored' = DOMAIN stored
        /\ AllStoredKnow'
        /\ \A q \in DOMAIN stored : q # p => stored'[q] = stored[q]
        /\ p \in DOMAIN stored => stored'[p].override = NoOverride
    BY <1>1, <1>2, <1>7, SettlementMoves
  <2>3. AttemptKnows(a)'
    BY <2>1 DEF AttemptKnows, Running
  <2> QED
    BY <1>1, <1>3, <1>4, <1>5, <2>1, <2>2, <2>3, AttemptKeeps
<1> QED
  BY <1>1, <1>6, <1>7

LEMMA DisclosedKeeps ==
    ASSUME ClientInv, client = "demo", UNCHANGED <<run, client>>,
           NEW a \in Attempts, CheckoutDisclosed(a)
    PROVE  ClientInv'
<1> DEFINE p == attempts[a].payment
<1>1. /\ attempts[a].pc = "disclose" /\ RecordSettlement(p, a, a) /\ Move(a, "done")
      /\ UNCHANGED <<prepared, ledger, taken, irreversible, view, calls, faults, streams>>
  BY DEF CheckoutDisclosed, AtStep, zpayVars
<1>2. p \in Payments /\ <<p, a>> \in taken
  BY <1>1 DEF ClientInv, AttemptsKnow, AttemptKnows, Running
<1>3. calls[a].pc = "idle"
  BY <1>1, NoCallOfAttempt
<1>4. PICK new \in AttemptRecords : /\ attempts' = [attempts EXCEPT ![a] = new]
                                    /\ new.pc = "done" /\ new.payment = p
                                    /\ attempts'[a] = new
  BY <1>1, MoveMoves DEF AttemptPcs
<1>5. /\ stored' \in [DOMAIN stored' -> StoredPayment] /\ DOMAIN stored' = DOMAIN stored
      /\ AllStoredKnow'
      /\ \A q \in DOMAIN stored : q # p => stored'[q] = stored[q]
      /\ p \in DOMAIN stored => stored'[p].override = NoOverride
  BY <1>1, <1>2, SettlementMoves
<1>6. CallKnows(a)' /\ AttemptKnows(a)'
  BY <1>1, <1>3, <1>4 DEF CallKnows, AttemptKnows, Running
<1>7. calls' \in [Txs -> ClientCalls] /\ faults' \in 0 .. MaxFaults
  BY <1>1 DEF ClientInv, Types
<1> QED
  BY <1>1, <1>4, <1>5, <1>6, <1>7, AttemptKeeps

(* A refusal, an error or a browser that goes away. *)
LEMMA FailedKeeps ==
    ASSUME ClientInv, client = "demo", UNCHANGED <<run, client>>,
           NEW a \in Attempts, SettleRefused(a) \/ AttemptError(a)
    PROVE  ClientInv'
<1>1. /\ attempts[a].pc \in Running /\ HangUp(a) /\ Move(a, "failed")
      /\ UNCHANGED <<prepared, ledger, taken, irreversible, view, stored, streams>>
      /\ UNCHANGED faults \/ Fault
  BY DEF SettleRefused, AttemptError, AtStep, chainState, Running
<1>2. /\ calls' \in [Txs -> ClientCalls] /\ calls'[a].pc = "idle"
      /\ \A b \in Txs : b # a => calls'[b] = calls[b]
  BY <1>1, HangUpMoves, GatewayAssumption
<1>3. CallKnows(a)'
  BY <1>2 DEF CallKnows
<1>4. faults' \in 0 .. MaxFaults
  BY <1>1, FaultType DEF ClientInv, Types
<1> QED
  BY <1>1, <1>2, <1>3, <1>4, QuietAttemptKeeps

LEMMA SignedKeeps ==
    ASSUME ClientInv, client = "demo", UNCHANGED <<run, client>>,
           NEW a \in Attempts, CheckoutSigned(a)
    PROVE  ClientInv'
<1>1. /\ attempts[a].pc = "wallet" /\ Move(a, "verify")
      /\ UNCHANGED <<prepared, ledger, taken, irreversible, view, calls, faults, stored, streams>>
  BY DEF CheckoutSigned, AtStep, zpayVars
<1>2. calls[a].pc = "idle"
  BY <1>1, NoCallOfAttempt
<1>3. CallKnows(a)' /\ calls' \in [Txs -> ClientCalls] /\ faults' \in 0 .. MaxFaults
  BY <1>1, <1>2 DEF CallKnows, ClientInv, Types
<1> QED
  BY <1>1, <1>3, QuietAttemptKeeps DEF Running

LEMMA AttemptStepKeeps ==
    ASSUME ClientInv, client = "demo", UNCHANGED <<run, client>>, NEW a \in Attempts, AttemptStep(a)
    PROVE  ClientInv'
<1>1. ASSUME CheckoutNeedsFunds(a) PROVE ClientInv'
  <2>1. "needs_funds" \in Overrides
    BY DEF Overrides
  <2> QED
    BY <1>1, <2>1, StageKeeps DEF CheckoutNeedsFunds, AtStep, zpayVars
<1>2. ASSUME CheckoutFunded(a) \/ AutopaySigned(a) PROVE ClientInv'
  <2>1. "settling" \in Overrides
    BY DEF Overrides
  <2> QED
    BY <1>2, <2>1, StageKeeps DEF CheckoutFunded, AutopaySigned, AtStep, zpayVars
<1> QED
  BY <1>1, <1>2, SettleBeginKeeps, SignedKeeps, VerifiedKeeps, AnsweredKeeps, DisclosedKeeps,
     FailedKeeps DEF AttemptStep

-----------------------------------------------------------------------------
(* The demo gateway: preparation, streams, restart *)

LEMMA CreateKeeps ==
    ASSUME ClientInv, client = "demo", UNCHANGED <<run, client>>,
           NEW p \in Payments, NEW mode \in Modes, CreatePayment(p, mode)
    PROVE  ClientInv'
<1> DEFINE new == [mode |-> mode, override |-> "review", tx |-> NoTx, disclosure |-> NoTx]
<1>1. /\ prepared' = prepared \cup {p} /\ p \notin DOMAIN stored
      /\ stored' = Put(stored, p, new) \/ stored' = stored
      /\ UNCHANGED <<ledger, taken, irreversible, view, calls, attempts, streams>>
      /\ UNCHANGED faults \/ Fault
  BY DEF CreatePayment, CallPrepare, IssuePreparation, Unissued, chainState
<1>2. /\ new \in StoredPayment /\ new.tx = NoTx /\ new.disclosure = NoTx
      /\ new.override = "review"
  BY DEF StoredPayment, Stages
<1> HIDE DEF new
<1>3. stored \in [DOMAIN stored -> StoredPayment] /\ DOMAIN stored \subseteq Payments
  BY DEF ClientInv, Types
<1>4. /\ stored' \in [DOMAIN stored' -> StoredPayment] /\ DOMAIN stored' \subseteq Payments
      /\ DOMAIN stored \subseteq DOMAIN stored'
      /\ \A q \in DOMAIN stored' :
            IF q \in DOMAIN stored THEN stored'[q] = stored[q] ELSE stored'[q] = new
  BY <1>1, <1>2, <1>3 DEF Put
<1>5. Types'
  BY <1>1, <1>4, FaultType DEF ClientInv, Types
<1>6. CallsKnow' /\ TakenFromClient' /\ AttemptsKnow'
  BY <1>1 DEF ClientInv, CallsKnow, CallKnows, Waits, TakenFromClient, AttemptsKnow, AttemptKnows
<1>7. RowsKnow' /\ RunKnows'
  BY <1>1, RowsFrame, RunFrame
<1>8. AllStoredKnow'
  BY <1>1, <1>2, <1>4 DEF ClientInv, AllStoredKnow, StoredKnows, Overrides
<1>9. StreamsKnow'
  BY <1>1, <1>4 DEF ClientInv, StreamsKnow, StreamKnows, IsPaid
<1>10. StuckStageHasACause'
  BY <1>1, <1>2, <1>4 DEF ClientInv, StuckStageHasACause, InFlight, Ended
<1> QED
  BY <1>5, <1>6, <1>7, <1>8, <1>9, <1>10 DEF ClientInv

(* What a step of an event stream has to establish. *)
LEMMA StreamKeeps ==
    ASSUME ClientInv, client = "demo", NEW s \in Streams, NEW new \in StreamRecords,
           streams' = [streams EXCEPT ![s] = new], StreamKnows(s)',
           UNCHANGED <<run, client, prepared, ledger, taken, irreversible, view, calls>>,
           UNCHANGED <<stored, attempts>>, UNCHANGED faults \/ Fault
    PROVE  ClientInv'
<1>1. /\ streams' \in [Streams -> StreamRecords]
      /\ \A t \in Streams : t # s => streams'[t] = streams[t]
  BY DEF ClientInv, Types
<1>2. Types'
  BY <1>1, FaultType DEF ClientInv, Types
<1>3. StreamsKnow'
  <2> SUFFICES ASSUME NEW t \in Streams, t # s PROVE StreamKnows(t)'
    BY DEF StreamsKnow
  <2>1. StreamKnows(t) /\ streams'[t] = streams[t]
    BY <1>1 DEF ClientInv, StreamsKnow
  <2> QED
    BY <2>1 DEF StreamKnows, IsPaid
<1>4. CallsKnow' /\ TakenFromClient' /\ AttemptsKnow'
  BY DEF ClientInv, CallsKnow, CallKnows, Waits, TakenFromClient, AttemptsKnow, AttemptKnows
<1>5. RowsKnow' /\ RunKnows'
  BY RowsFrame, RunFrame
<1>6. AllStoredKnow' /\ StuckStageHasACause'
  BY DEF ClientInv, AllStoredKnow, StoredKnows, StuckStageHasACause, InFlight, Ended
<1> QED
  BY <1>2, <1>3, <1>4, <1>5, <1>6 DEF ClientInv

(* A stage is one of the names the page knows.  It reads paid only when no   *)
(* override hides the answer and the answer says final and settled.         *)
LEMMA StageOfAnswer ==
    ASSUME NEW override \in Overrides, NEW answer
    PROVE  /\ UiStage(override, answer) \in Stages
           /\ UiStage(override, answer) = "paid" => answer # NoAnswer /\ StageFromStatus(answer) = "paid"
<1>1. StageFromStatus(answer) \in Stages
  BY DEF StageFromStatus, Stages
<1>2. override # NoOverride => override \in Stages /\ override # "paid"
  BY DEF Overrides, Stages, NoOverride
<1> QED
  BY <1>1, <1>2 DEF UiStage, Stages

(* A row that reads paid has a transaction of a settle request below the     *)
(* settled tip.                                                             *)
LEMMA PaidRow ==
    ASSUME ClientInv, client = "demo", NEW p \in DOMAIN ledger,
           StageFromStatus(LedgerAnswer(p)) = "paid"
    PROVE  IsPaid(p)
<1> DEFINE row == ledger[p]
<1>1. row \in Row /\ RowKnows(p) /\ p \in Payments /\ view \in Views
  BY DEF ClientInv, Types, RowsKnow
<1>2. /\ LedgerAnswer(p).status = LedgerStatus(row, view)
      /\ LedgerAnswer(p).settled = ReadsSettled(row, view)
  BY DEF LedgerAnswer
<1>3. LedgerAnswer(p).settled
  BY DEF StageFromStatus
<1>4. ReadsSettled(row, view)
  BY <1>2, <1>3
<1>5. IsSuccess(row) /\ row.mined # NoHeight /\ row.mined <= view.settled
  BY <1>1, <1>4 DEF ReadsSettled, ReadsMined, IsSettledAt
<1>6. <<p, row.tx>> \in taken /\ <<p, row.tx>> \in irreversible
  BY <1>1, <1>5 DEF RowKnows
<1>7. row.tx \in Attempts
  BY <1>1, <1>6 DEF ClientInv, Types, TakenFromClient
<1> QED
  BY <1>6, <1>7 DEF IsPaid

(* A preparation never reads paid, nor does a status that was not fetched. *)
LEMMA PreparedIsNotPaid ==
    ASSUME NEW p
    PROVE  StageFromStatus(PreparedAnswer(p)) # "paid"
<1>1. PreparedAnswer(p).status \in {"never_issued", "expired", "awaiting"}
  BY DEF PreparedAnswer, NoAnswer
<1> QED
  BY <1>1 DEF StageFromStatus

(* An event goes out: the stage it shows is remembered as the last one. *)
LEMMA EmitKeeps ==
    ASSUME ClientInv, client = "demo", NEW s \in Streams, NEW answer, Emit(s, answer),
           streams[s].pc \in {"ledger", "prepared"},
           answer # NoAnswer /\ StageFromStatus(answer) = "paid" => IsPaid(streams[s].payment),
           UNCHANGED <<run, client, prepared, ledger, taken, irreversible, view, calls>>,
           UNCHANGED <<stored, attempts>>, UNCHANGED faults \/ Fault
    PROVE  ClientInv'
<1> DEFINE stage == UiStage(streams[s].override, answer)
           pc == IF stage \in TerminalStages THEN "closed" ELSE "tick"
           new == [streams[s] EXCEPT !.stage = stage, !.override = NoOverride, !.pc = pc]
<1>1. streams \in [Streams -> StreamRecords] /\ streams[s] \in StreamRecords /\ StreamKnows(s)
  BY DEF ClientInv, Types, StreamsKnow
<1>2. streams' = [streams EXCEPT ![s] = new]
  BY DEF Emit
<1>3. /\ stage \in Stages
      /\ stage = "paid" => answer # NoAnswer /\ StageFromStatus(answer) = "paid"
  BY <1>1, StageOfAnswer DEF StreamKnows
<1>4. pc \in {"tick", "closed"}
  OBVIOUS
<1> HIDE DEF stage, pc
<1>5. /\ new \in StreamRecords /\ new.stage = stage /\ new.override = NoOverride
      /\ new.pc = pc /\ new.payment = streams[s].payment
  BY <1>1, <1>3, <1>4 DEF StreamRecords
<1> HIDE DEF new
<1>6. streams'[s] = new
  BY <1>1, <1>2
<1>7. StreamKnows(s)'
  BY <1>1, <1>3, <1>5, <1>6 DEF StreamKnows, Overrides, IsPaid
<1> QED
  BY <1>2, <1>5, <1>7, StreamKeeps

LEMMA OpenKeeps ==
    ASSUME ClientInv, client = "demo", UNCHANGED <<run, client>>,
           NEW s \in Streams, NEW p \in Payments, OpenStream(s, p)
    PROVE  ClientInv'
<1> DEFINE new == [ClosedStream EXCEPT !.pc = "tick", !.payment = p]
<1>1. /\ p \in DOMAIN stored /\ streams' = [streams EXCEPT ![s] = new]
      /\ UNCHANGED <<prepared, ledger, taken, irreversible, view, calls, faults, stored, attempts>>
  BY DEF OpenStream, zpayVars
<1>2. /\ new \in StreamRecords /\ new.pc = "tick" /\ new.payment = p
      /\ new.override = NoOverride /\ new.stage = NoOverride
  BY DEF ClosedStream, StreamRecords
<1> HIDE DEF new
<1>3. streams'[s] = new
  BY <1>1 DEF ClientInv, Types
<1>4. StreamKnows(s)'
  BY <1>1, <1>2, <1>3 DEF StreamKnows, Overrides, NoOverride
<1> QED
  BY <1>1, <1>2, <1>4, StreamKeeps

LEMMA CloneKeeps ==
    ASSUME ClientInv, client = "demo", UNCHANGED <<run, client>>, NEW s \in Streams, CloneStored(s)
    PROVE  ClientInv'
<1> DEFINE override == stored[streams[s].payment].override
           new == [streams[s] EXCEPT !.pc = "ledger", !.override = override]
<1>1. /\ streams[s].pc = "tick" /\ streams' = [streams EXCEPT ![s] = new]
      /\ UNCHANGED <<prepared, ledger, taken, irreversible, view, calls, faults, stored, attempts>>
  BY DEF CloneStored, zpayVars
<1>2. /\ streams \in [Streams -> StreamRecords] /\ streams[s] \in StreamRecords
      /\ StreamKnows(s) /\ streams[s].payment \in DOMAIN stored
  BY <1>1 DEF ClientInv, Types, StreamsKnow, StreamKnows
<1>3. override \in Overrides /\ override \in Stages \cup {NoOverride}
  BY <1>2 DEF ClientInv, AllStoredKnow, StoredKnows, Overrides, Stages
<1> HIDE DEF override
<1>4. /\ new \in StreamRecords /\ new.pc = "ledger" /\ new.payment = streams[s].payment
      /\ new.override = override /\ new.stage = streams[s].stage
  BY <1>2, <1>3 DEF StreamRecords
<1> HIDE DEF new
<1>5. streams'[s] = new
  BY <1>1, <1>2
<1>6. StreamKnows(s)'
  BY <1>1, <1>2, <1>3, <1>4, <1>5 DEF StreamKnows, IsPaid
<1> QED
  BY <1>1, <1>4, <1>6, StreamKeeps

LEMMA FetchLedgerKeeps ==
    ASSUME ClientInv, client = "demo", UNCHANGED <<run, client>>, NEW s \in Streams,
           FetchFromLedger(s)
    PROVE  ClientInv'
<1> DEFINE p == streams[s].payment
<1>1. /\ streams[s].pc = "ledger"
      /\ UNCHANGED <<prepared, ledger, taken, irreversible, view, calls, faults, stored, attempts>>
  BY DEF FetchFromLedger, zpayVars
<1>2. CASE p \in DOMAIN ledger
  <2>1. Emit(s, LedgerAnswer(p))
    BY <1>2 DEF FetchFromLedger
  <2>2. StageFromStatus(LedgerAnswer(p)) = "paid" => IsPaid(p)
    BY <1>2, PaidRow
  <2> QED
    BY <1>1, <2>1, <2>2, EmitKeeps
<1>3. CASE p \notin DOMAIN ledger
  <2> DEFINE new == [streams[s] EXCEPT !.pc = "prepared"]
  <2>1. streams' = [streams EXCEPT ![s] = new]
    BY <1>3 DEF FetchFromLedger
  <2>2. streams \in [Streams -> StreamRecords] /\ streams[s] \in StreamRecords /\ StreamKnows(s)
    BY DEF ClientInv, Types, StreamsKnow
  <2>3. /\ new \in StreamRecords /\ new.pc = "prepared" /\ new.payment = streams[s].payment
        /\ new.override = streams[s].override /\ new.stage = streams[s].stage
    BY <2>2 DEF StreamRecords
  <2> HIDE DEF new
  <2>4. streams'[s] = new
    BY <2>1, <2>2
  <2>5. StreamKnows(s)'
    BY <1>1, <2>2, <2>3, <2>4 DEF StreamKnows, IsPaid
  <2> QED
    BY <1>1, <2>1, <2>3, <2>5, StreamKeeps
<1> QED
  BY <1>2, <1>3

LEMMA FetchPreparedKeeps ==
    ASSUME ClientInv, client = "demo", UNCHANGED <<run, client>>, NEW s \in Streams,
           FetchFromPrepared(s) \/ FetchFails(s)
    PROVE  ClientInv'
<1>1. CASE FetchFromPrepared(s)
  BY <1>1, PreparedIsNotPaid, EmitKeeps DEF FetchFromPrepared, zpayVars
<1>2. CASE FetchFails(s)
  BY <1>2, EmitKeeps DEF FetchFails, chainState
<1> QED
  BY <1>1, <1>2

(* The gateway comes back with nothing of its own: no stored payment, no      *)
(* request, no open stream.  A stream that had ended keeps what it showed.   *)
LEMMA RestartKeeps ==
    ASSUME ClientInv, client = "demo", UNCHANGED <<run, client>>, GatewayRestart
    PROVE  ClientInv'
<1>1. /\ Fault /\ stored' = NoRows /\ calls' = [a \in Txs |-> IdleCall]
      /\ UNCHANGED <<prepared, ledger, taken, irreversible, view>>
  BY DEF GatewayRestart, chainState
<1>2. attempts' = [a \in Attempts |-> IF attempts[a].pc \in Running
                                      THEN [attempts[a] EXCEPT !.pc = "failed"] ELSE attempts[a]]
  BY DEF GatewayRestart
<1>3. streams' = [s \in Streams |-> IF streams[s].pc = "closed" THEN streams[s] ELSE ClosedStream]
  BY DEF GatewayRestart
<1>4. DOMAIN stored' = {} /\ stored' \in [DOMAIN stored' -> StoredPayment]
  BY <1>1 DEF NoRows
<1>5. /\ IdleCall \in ClientCalls /\ IdleCall.pc = "idle"
      /\ ClosedStream \in StreamRecords /\ ClosedStream.pc = "none"
      /\ ClosedStream.override = NoOverride /\ ClosedStream.stage = NoOverride
  BY DEF IdleCall, ClientCalls, CallPcs, Kinds, SuccessKinds, FailureKinds, ClosedStream, StreamRecords
<1>6. calls' \in [Txs -> ClientCalls] /\ \A a \in Txs : calls'[a].pc = "idle"
  BY <1>1, <1>5
<1>7. ASSUME NEW a \in Attempts
      PROVE  attempts'[a] \in AttemptRecords /\ AttemptKnows(a)'
  <2> DEFINE new == [attempts[a] EXCEPT !.pc = "failed"]
  <2>1. attempts[a] \in AttemptRecords
    BY DEF ClientInv, Types
  <2>2. new \in AttemptRecords /\ new.pc = "failed"
    BY <2>1 DEF AttemptRecords
  <2>3. attempts'[a] = IF attempts[a].pc \in Running THEN new ELSE attempts[a]
    BY <1>2
  <2> HIDE DEF new
  <2> QED
    BY <2>1, <2>2, <2>3 DEF AttemptKnows, Running
<1>8. attempts' \in [Attempts -> AttemptRecords] /\ AttemptsKnow'
  BY <1>2, <1>7 DEF AttemptsKnow
<1>9. ASSUME NEW s \in Streams
      PROVE  streams'[s] \in StreamRecords /\ StreamKnows(s)'
  <2>1. streams[s] \in StreamRecords /\ StreamKnows(s)
    BY DEF ClientInv, Types, StreamsKnow
  <2>2. streams'[s] = IF streams[s].pc = "closed" THEN streams[s] ELSE ClosedStream
    BY <1>3
  <2>3. CASE streams[s].pc = "closed"
    BY <1>1, <2>1, <2>2, <2>3 DEF StreamKnows, IsPaid
  <2>4. CASE streams[s].pc # "closed"
    BY <1>5, <2>2, <2>4 DEF StreamKnows, Overrides, NoOverride
  <2> QED
    BY <2>3, <2>4
<1>10. streams' \in [Streams -> StreamRecords] /\ StreamsKnow'
  BY <1>3, <1>9 DEF StreamsKnow
<1>11. Types'
  BY <1>1, <1>4, <1>6, <1>8, <1>10, FaultType DEF ClientInv, Types
<1>12. CallsKnow' /\ AllStoredKnow' /\ StuckStageHasACause'
  BY <1>4, <1>6 DEF CallsKnow, CallKnows, AllStoredKnow, StuckStageHasACause
<1>13. TakenFromClient' /\ RowsKnow' /\ RunKnows'
  BY <1>1, RowsFrame, RunFrame DEF ClientInv, TakenFromClient
<1> QED
  BY <1>8, <1>10, <1>11, <1>12, <1>13 DEF ClientInv

LEMMA GatewayNextKeeps ==
    ASSUME ClientInv, client = "demo", UNCHANGED <<run, client>>, GatewayNext
    PROVE  ClientInv'
<1>1. ASSUME NEW s \in Streams, StreamStep(s) PROVE ClientInv'
  BY <1>1, CloneKeeps, FetchLedgerKeeps, FetchPreparedKeeps DEF StreamStep
<1> QED
  BY <1>1, CreateKeeps, AttemptStepKeeps, OpenKeeps, RestartKeeps DEF GatewayNext

-----------------------------------------------------------------------------
(* The invariant holds in every state *)

LEMMA InitHolds ==
    ASSUME Init
    PROVE  ClientInv
<1>1. /\ prepared = {} /\ ledger = NoRows /\ taken = {} /\ irreversible = {}
      /\ view = [known |-> TRUE, visible |-> 0, settled |-> 0]
      /\ calls = [a \in Txs |-> IdleCall] /\ faults = 0
      /\ stored = NoRows /\ attempts = [a \in Attempts |-> IdleAttempt]
      /\ streams = [s \in Streams |-> ClosedStream]
      /\ client \in {"demo", "harness"}
  BY DEF Init, FacilitatorInit, GatewayInit
<1>2. run \in RunRecords /\ run.pc = "prepare" /\ run.exit = "none"
  BY DEF Init, HarnessInit, RunRecords, RunSteps, Exits
<1>3. /\ DOMAIN ledger = {} /\ ledger \in [DOMAIN ledger -> Row]
      /\ DOMAIN stored = {} /\ stored \in [DOMAIN stored -> StoredPayment]
  BY <1>1 DEF NoRows
<1>4. /\ IdleCall \in ClientCalls /\ IdleCall.pc = "idle"
      /\ IdleAttempt \in AttemptRecords /\ IdleAttempt.pc = "idle"
      /\ ClosedStream \in StreamRecords /\ ClosedStream.pc = "none"
      /\ ClosedStream.override = NoOverride /\ ClosedStream.stage = NoOverride
  BY DEF IdleCall, ClientCalls, CallPcs, Kinds, SuccessKinds, FailureKinds, ClosedStream,
         StreamRecords, IdleAttempt, AttemptRecords
<1>5. view \in Views
  BY <1>1 DEF Views
<1>6. calls \in [Txs -> ClientCalls] /\ \A a \in Txs : calls[a].pc = "idle"
  BY <1>1, <1>4
<1>7. attempts \in [Attempts -> AttemptRecords] /\ \A a \in Attempts : attempts[a].pc = "idle"
  BY <1>1, <1>4
<1>8. streams \in [Streams -> StreamRecords] /\ \A s \in Streams : streams[s] = ClosedStream
  BY <1>1, <1>4
<1>9. faults \in 0 .. MaxFaults
  BY <1>1, FacilitatorAssumption
<1>10. Types
  BY <1>1, <1>2, <1>3, <1>5, <1>6, <1>7, <1>8, <1>9 DEF Types
<1>11. CallsKnow /\ TakenFromClient /\ RowsKnow
  BY <1>1, <1>3, <1>6 DEF CallsKnow, CallKnows, TakenFromClient, RowsKnow
<1>12. AttemptsKnow /\ AllStoredKnow /\ StuckStageHasACause
  BY <1>3, <1>7 DEF AttemptsKnow, AttemptKnows, AllStoredKnow, StuckStageHasACause, Running
<1>13. StreamsKnow
  BY <1>4, <1>8 DEF StreamsKnow, StreamKnows, Overrides, NoOverride
<1>14. RunKnows
  BY <1>1, <1>2 DEF RunKnows
<1> QED
  BY <1>10, <1>11, <1>12, <1>13, <1>14 DEF ClientInv

LEMMA StepKeeps ==
    ASSUME ClientInv, [Next]_vars
    PROVE  ClientInv'
<1>1. ASSUME UNCHANGED vars PROVE ClientInv'
  <2>1. /\ UNCHANGED <<prepared, ledger, taken, irreversible, view, calls, faults, run, client>>
        /\ UNCHANGED <<stored, attempts, streams>>
    BY <1>1 DEF vars, zpayVars, gatewayVars
  <2>2. UNCHANGED gatewayVars
    BY <2>1 DEF gatewayVars
  <2>3. AttemptsKnow' /\ AllStoredKnow' /\ StreamsKnow' /\ StuckStageHasACause'
    BY <2>1, <2>2, GatewayFrame
  <2>4. Types'
    BY <2>1 DEF ClientInv, Types
  <2>5. CallsKnow' /\ TakenFromClient'
    BY <2>1 DEF ClientInv, CallsKnow, CallKnows, Waits, TakenFromClient
  <2>6. RowsKnow'
    BY <2>1, RowsFrame
  <2>7. RunKnows'
    BY <2>1 DEF ClientInv, RunKnows, Unsent, MayReject, Refusable, Observed
  <2> QED
    BY <2>3, <2>4, <2>5, <2>6, <2>7 DEF ClientInv
<1>2. ASSUME Next PROVE ClientInv'
  <2>1. ASSUME Zpay, UNCHANGED client PROVE ClientInv'
    BY <2>1, CallStepKeeps, ChainStepKeeps DEF Zpay
  <2> QED
    BY <1>2, <2>1, GatewayNextKeeps, HarnessNextKeeps DEF Next
<1> QED
  BY <1>1, <1>2

(* The inductive invariant holds in every state of every behaviour, of the    *)
(* gateway and of the harness.                                               *)
THEOREM InvHolds == Spec => []ClientInv
<1>1. Init => ClientInv
  BY InitHolds
<1>2. ClientInv /\ [Next]_vars => ClientInv'
  BY StepKeeps
<1> QED
  BY <1>1, <1>2, PTL DEF Spec

-----------------------------------------------------------------------------
(* Theorems *)

(* The types of the facilitator, the gateway and the harness are preserved. *)
THEOREM TypeCorrect == Spec => []TypeOK
<1>1. ClientInv => TypeOK
  BY DEF ClientInv, Types, TypeOK, TypeOKGateway, ClientCalls, AttemptRecords, StreamRecords,
         RunRecords
<1> QED
  BY <1>1, InvHolds, PTL

(* However many settle requests race for one payment, and wherever they are   *)
(* cut off: a page that shows signing or settling shows a request under way  *)
(* or one that failed.  record_settlement clears what its own request wrote, *)
(* and a request that writes after it is itself still under way.             *)
THEOREM StageHasACause == Spec => []StuckStageHasACause
<1>1. ClientInv => StuckStageHasACause
  BY DEF ClientInv
<1> QED
  BY <1>1, InvHolds, PTL

(* The transaction id the gateway stores was taken by the network for that    *)
(* payment, and the disclosure verify_payment_route sends with it is of the  *)
(* same transaction, whichever of several settle requests wrote last.        *)
THEOREM DisclosureIsOfTheSettledTx == Spec => []DisclosureOfTheSettledTx
<1>1. ClientInv => DisclosureOfTheSettledTx
  <2> SUFFICES ASSUME ClientInv, NEW p \in DOMAIN stored
               PROVE  /\ stored[p].tx # NoTx => <<p, stored[p].tx>> \in taken
                      /\ \A body \in VerifyBodies(p) : body.disclosure = body.txid
    BY DEF DisclosureOfTheSettledTx
  <2>1. StoredKnows(p)
    BY DEF ClientInv, AllStoredKnow
  <2> QED
    BY <2>1 DEF StoredKnows, VerifyBodies
<1> QED
  BY <1>1, InvHolds, PTL

(* A stream that showed paid ended on a payment below the settled tip, across *)
(* every reorganisation, stale clone of the map and restart of the gateway.  *)
THEOREM PaidStaysPaid == Spec => []PaidIsIrreversible
<1>1. ClientInv => PaidIsIrreversible
  BY DEF ClientInv, StreamsKnow, StreamKnows, IsPaid, PaidIsIrreversible
<1> QED
  BY <1>1, InvHolds, PTL

(* A harness run that exits ok has paid, zpay's row names its transaction,    *)
(* and with the completion settled no reorganisation undoes it.              *)
THEOREM OkIsPaid == Spec => []OkMeansPaid
<1>1. ClientInv => OkMeansPaid
  <2> SUFFICES ASSUME ClientInv, run.exit = "ok"
               PROVE  /\ <<run.payment, Harness>> \in taken
                      /\ run.payment \in DOMAIN ledger /\ ledger[run.payment].tx = Harness
                      /\ run.completion = "settled" => <<run.payment, Harness>> \in irreversible
    BY DEF OkMeansPaid
  <2>1. client = "harness" /\ Observed
    BY DEF ClientInv, Types, RunKnows
  <2>2. run.payment \in Payments /\ <<run.payment, ledger[run.payment].tx>> \in taken
    BY <2>1 DEF ClientInv, Types, Observed, RowsKnow, RowKnows
  <2>3. ledger[run.payment].tx = Harness
    BY <2>1, <2>2 DEF ClientInv, Types, TakenFromClient
  <2> QED
    BY <2>1, <2>2, <2>3 DEF Observed
<1> QED
  BY <1>1, InvHolds, PTL

(* A run over the lifecycle route that is told its transaction was rejected  *)
(* has not paid: of all the answers zpay gives there, only those from before *)
(* or without a broadcast are read as a rejection.                           *)
THEOREM RejectedIsUnpaid == Spec => []RejectedMeansUnpaid
<1>1. ClientInv => RejectedMeansUnpaid
  <2> SUFFICES ASSUME ClientInv, run.exit = "rejected"
               PROVE  <<run.payment, Harness>> \notin taken
    BY DEF RejectedMeansUnpaid
  <2>1. client = "harness"
    BY DEF ClientInv, Types, RunKnows
  <2> QED
    BY <2>1 DEF ClientInv, RunKnows
<1> QED
  BY <1>1, InvHolds, PTL
=============================================================================
