----------------------------- MODULE DemoGateway -----------------------------
(***************************************************************************)
(* zpay-demo: the gateway between a browser and zpay.  It keeps a map of   *)
(* stored payments behind a lock.  A settle request writes a stage         *)
(* override into the map before each slow part of the work and clears it   *)
(* only when it has everything; an event stream clones the stored payment, *)
(* then asks zpay for the status, and shows the override when there is     *)
(* one.  Any error, or a browser that goes away, ends a settle where it    *)
(* stands and leaves the override behind.                                  *)
(***************************************************************************)
EXTENDS Facilitator

CONSTANTS
    Attempts,   \* settle requests the browser may send; they name transactions
    Streams     \* event streams it may open

ASSUME GatewayAssumption == Attempts \subseteq Txs

VARIABLES
    stored,     \* DemoState.payments
    attempts,   \* settle requests under way
    streams     \* payment_events_route streams

gatewayVars == <<stored, attempts, streams>>

Modes  == {"checkout", "autopay"}
Stages == {"needs_funds", "review", "signing", "settling", "confirming", "mined",
           "final", "paid", "failed", "expired"}
NoOverride == "none"

StoredPayment == [mode : Modes, override : Stages \cup {NoOverride},
                  tx : Attempts \cup {NoTx}, disclosure : Attempts \cup {NoTx}]

IdleAttempt == [pc |-> "idle", payment |-> NoTx]
Running == {"balance", "wallet", "sign", "verify", "settle", "disclose"}
ClosedStream == [pc |-> "none", payment |-> NoTx, override |-> NoOverride,
                 stage |-> NoOverride]

GatewayInit ==
    /\ stored = NoRows
    /\ attempts = [a \in Attempts |-> IdleAttempt]
    /\ streams = [s \in Streams |-> ClosedStream]

-----------------------------------------------------------------------------
(* DemoState methods *)

SetStageOverride(p, stage) ==
    stored' = IF p \in DOMAIN stored THEN [stored EXCEPT ![p].override = stage]
                                     ELSE stored

(* Mutant: the stage override outlives the settlement. *)
RecordSettlement_KeepsOverride(p, tx, disclosure) ==
    stored' = IF p \in DOMAIN stored
              THEN [stored EXCEPT ![p].tx = tx, ![p].disclosure = disclosure]
              ELSE stored

(* Mutant: an earlier disclosure is kept. *)
RecordSettlement_KeepsDisclosure(p, tx, disclosure) ==
    stored' = IF p \in DOMAIN stored
              THEN [stored EXCEPT ![p].tx = tx,
                                  ![p].disclosure = IF @ = NoTx THEN disclosure ELSE @,
                                  ![p].override = NoOverride]
              ELSE stored

RecordSettlement(p, tx, disclosure) ==
    stored' = IF p \in DOMAIN stored
              THEN [stored EXCEPT ![p].tx = tx, ![p].disclosure = disclosure,
                                  ![p].override = NoOverride]
              ELSE stored

-----------------------------------------------------------------------------
(* create_payment_route: a funded wallet, a fresh DPoP key, prepare, insert. *)
(* A refusal before prepare changes nothing; an answer that is lost leaves   *)
(* a preparation nobody at the gateway knows of.                            *)
CallPrepare(p) == IssuePreparation(p)

Unissued(p) == p \notin prepared /\ p \notin DOMAIN ledger /\ p \notin DOMAIN stored

CreatePayment(p, mode) ==
    /\ Unissued(p) /\ view.visible < Expiry
    /\ CallPrepare(p)
    /\ \/ /\ stored' = Put(stored, p, [mode |-> mode, override |-> "review",
                                       tx |-> NoTx, disclosure |-> NoTx])
          /\ UNCHANGED faults
       \/ Fault /\ UNCHANGED stored
    /\ UNCHANGED <<ledger, chainState, calls, attempts, streams>>

-----------------------------------------------------------------------------
(* settle_payment_route.  The route does not look at can_settle, so a second *)
(* request for the same payment runs beside the first.                      *)

AtStep(a, pc) == attempts[a].pc = pc
Move(a, pc) == attempts' = [attempts EXCEPT ![a].pc = pc]

SettleBegin(a, p) ==
    /\ AtStep(a, "idle")
    /\ p \in DOMAIN stored
    /\ attempts' = [attempts EXCEPT ![a] =
          [pc |-> IF stored[p].mode = "checkout" THEN "balance" ELSE "sign",
           payment |-> p]]
    /\ SetStageOverride(p, "signing")
    /\ UNCHANGED <<zpayVars, streams>>

(* settle_checkout: the balance check, then the wallet makes and signs the  *)
(* transaction itself.                                                      *)
CheckoutNeedsFunds(a) ==
    /\ AtStep(a, "balance")
    /\ SetStageOverride(attempts[a].payment, "needs_funds")
    /\ Move(a, "failed")
    /\ UNCHANGED <<zpayVars, streams>>

CheckoutFunded(a) ==
    /\ AtStep(a, "balance")
    /\ SetStageOverride(attempts[a].payment, "settling")
    /\ Move(a, "wallet")
    /\ UNCHANGED <<zpayVars, streams>>

CheckoutSigned(a) ==
    /\ AtStep(a, "wallet")
    /\ Move(a, "verify")
    /\ UNCHANGED <<zpayVars, stored, streams>>

(* settle_autopay: token, proof and the signature of zspend. *)
AutopaySigned(a) ==
    /\ AtStep(a, "sign")
    /\ SetStageOverride(attempts[a].payment, "settling")
    /\ Move(a, "verify")
    /\ UNCHANGED <<zpayVars, streams>>

(* settle_x402_pczt: verify says valid, then the settle call goes out. *)
VerifiedThenSettle(a) ==
    /\ AtStep(a, "verify")
    /\ Submit(a, attempts[a].payment, "x402")
    /\ Move(a, "settle")
    /\ UNCHANGED <<prepared, ledger, chainState, faults, stored, streams>>

(* The transaction zpay names is the one that was signed.  A checkout goes  *)
(* on to export its disclosure; an autopay is done.                         *)
SettleAnswered(a) ==
    LET p == attempts[a].payment
    IN  /\ AtStep(a, "settle")
        /\ RepliedSuccess(a)
        /\ HangUp(a)
        /\ IF stored[p].mode = "checkout"
           THEN Move(a, "disclose") /\ UNCHANGED stored
           ELSE Move(a, "done") /\ RecordSettlement(p, a, NoTx)
        /\ UNCHANGED <<prepared, ledger, chainState, faults, streams>>

CheckoutDisclosed(a) ==
    /\ AtStep(a, "disclose")
    /\ RecordSettlement(attempts[a].payment, a, a)
    /\ Move(a, "done")
    /\ UNCHANGED <<zpayVars, streams>>

(* An error of the wallet, of zspend or of zpay, or a refusal or failure in  *)
(* zpay's answer: the request ends, the override stays.                     *)
SettleRefused(a) ==
    /\ AtStep(a, "settle") /\ Replied(a) /\ ~RepliedSuccess(a)
    /\ HangUp(a)
    /\ Move(a, "failed")
    /\ UNCHANGED <<prepared, ledger, chainState, faults, stored, streams>>

AttemptError(a) ==
    /\ attempts[a].pc \in Running
    /\ Fault
    /\ HangUp(a)
    /\ Move(a, "failed")
    /\ UNCHANGED <<prepared, ledger, chainState, stored, streams>>

AttemptStep(a) ==
    \/ \E p \in Payments : SettleBegin(a, p)
    \/ CheckoutNeedsFunds(a) \/ CheckoutFunded(a) \/ CheckoutSigned(a)
    \/ AutopaySigned(a) \/ VerifiedThenSettle(a) \/ SettleAnswered(a)
    \/ CheckoutDisclosed(a) \/ SettleRefused(a) \/ AttemptError(a)

-----------------------------------------------------------------------------
(* payment_snapshot and payment_events_route *)

(* Mutant: a final payment is shown as paid before it is settled. *)
StageFromStatus_FinalIsPaid(answer) ==
    CASE answer.status = "awaiting" -> "review"
      [] answer.status = "mined" -> "mined"
      [] answer.status = "final" -> "paid"
      [] answer.status = "expired" -> "expired"
      [] answer.status \in {"failed", "never_issued"} -> "failed"
      [] OTHER -> "confirming"

StageFromStatus(answer) ==
    CASE answer.status = "awaiting" -> "review"
      [] answer.status = "mined" -> "mined"
      [] answer.status = "final" -> IF answer.settled THEN "paid" ELSE "final"
      [] answer.status = "expired" -> "expired"
      [] answer.status \in {"failed", "never_issued"} -> "failed"
      [] OTHER -> "confirming"

(* The override wins; a status that could not be fetched reads as review. *)
UiStage(override, answer) ==
    IF override # NoOverride THEN override
    ELSE IF answer = NoAnswer THEN "review" ELSE StageFromStatus(answer)

TerminalStages == {"paid", "failed", "expired"}

OpenStream(s, p) ==
    /\ streams[s].pc = "none"
    /\ p \in DOMAIN stored
    /\ streams' = [streams EXCEPT ![s] = [ClosedStream EXCEPT !.pc = "tick",
                                                              !.payment = p]]
    /\ UNCHANGED <<zpayVars, stored, attempts>>

(* stored_payment: the clone is taken before zpay is asked. *)
CloneStored(s) ==
    LET p == streams[s].payment
    IN  /\ streams[s].pc = "tick"
        /\ streams' = [streams EXCEPT ![s].pc = "ledger",
                                      ![s].override = stored[p].override]
        /\ UNCHANGED <<zpayVars, stored, attempts>>

Emit(s, answer) ==
    LET stage == UiStage(streams[s].override, answer)
    IN  streams' = [streams EXCEPT
            ![s].stage = stage,
            ![s].override = NoOverride,
            ![s].pc = IF stage \in TerminalStages THEN "closed" ELSE "tick"]

(* fetch_payment_status: zpay reads its ledger, then its prepared store. *)
FetchFromLedger(s) ==
    LET p == streams[s].payment
    IN  /\ streams[s].pc = "ledger"
        /\ IF p \in DOMAIN ledger THEN Emit(s, LedgerAnswer(p))
           ELSE streams' = [streams EXCEPT ![s].pc = "prepared"]
        /\ UNCHANGED <<zpayVars, stored, attempts>>

FetchFromPrepared(s) ==
    /\ streams[s].pc = "prepared"
    /\ Emit(s, PreparedAnswer(streams[s].payment))
    /\ UNCHANGED <<zpayVars, stored, attempts>>

FetchFails(s) ==
    /\ streams[s].pc = "ledger"
    /\ Fault
    /\ Emit(s, NoAnswer)
    /\ UNCHANGED <<prepared, ledger, chainState, calls, stored, attempts>>

StreamStep(s) ==
    \/ CloneStored(s) \/ FetchFromLedger(s) \/ FetchFromPrepared(s) \/ FetchFails(s)

(* verify_payment_route: what goes to zpay's verify, once both parts are stored. *)
VerifyBodies(p) ==
    IF NoTx \in {stored[p].tx, stored[p].disclosure} THEN {}
    ELSE {[txid |-> stored[p].tx, disclosure |-> stored[p].disclosure]}

(* The map, the requests and the streams live in memory. *)
GatewayRestart ==
    /\ stored # NoRows
    /\ Fault
    /\ stored' = NoRows
    /\ attempts' = [a \in Attempts |-> IF attempts[a].pc \in Running
                                       THEN [attempts[a] EXCEPT !.pc = "failed"]
                                       ELSE attempts[a]]
    /\ calls' = [a \in Txs |-> IdleCall]
    /\ streams' = [s \in Streams |-> IF streams[s].pc = "closed" THEN streams[s]
                                     ELSE ClosedStream]
    /\ UNCHANGED <<prepared, ledger, chainState>>

GatewayNext ==
    \/ \E p \in Payments, mode \in Modes : CreatePayment(p, mode)
    \/ \E a \in Attempts : AttemptStep(a)
    \/ \E s \in Streams, p \in Payments : OpenStream(s, p)
    \/ \E s \in Streams : StreamStep(s)
    \/ GatewayRestart

-----------------------------------------------------------------------------
(* Properties *)

TypeOKGateway ==
    /\ stored \in [DOMAIN stored -> StoredPayment] /\ DOMAIN stored \subseteq Payments
    /\ attempts \in [Attempts ->
          [pc : Running \cup {"idle", "failed", "done"}, payment : Payments \cup {NoTx}]]
    /\ streams \in [Streams ->
          [pc : {"none", "tick", "ledger", "prepared", "closed"},
           payment : Payments \cup {NoTx}, override : Stages \cup {NoOverride},
           stage : Stages \cup {NoOverride}]]

Ended(p, pc) == \E a \in Attempts : attempts[a].payment = p /\ attempts[a].pc = pc
InFlight(p) == \E a \in Attempts : attempts[a].payment = p /\ attempts[a].pc \in Running

(* A payment the page shows as signing or settling is being worked on, or a  *)
(* request for it has failed: no sequence of settle requests that all       *)
(* succeeded leaves the page stuck on a stage override.                     *)
StuckStageHasACause ==
    \A p \in DOMAIN stored :
        stored[p].override \in {"signing", "settling"} => InFlight(p) \/ Ended(p, "failed")

(* What the verify route sends is about one transaction, and the stored id   *)
(* is one the network has taken for this payment: with two settle requests  *)
(* racing, id and disclosure never come from different ones.                *)
DisclosureOfTheSettledTx ==
    \A p \in DOMAIN stored :
        /\ stored[p].tx # NoTx => <<p, stored[p].tx>> \in taken
        /\ \A body \in VerifyBodies(p) : body.disclosure = body.txid

(* A stream that ended with "paid" ended on a payment of which a transaction *)
(* is below the settled tip, so no reorganisation takes the report back.    *)
PaidIsIrreversible ==
    \A s \in Streams :
        streams[s].stage = "paid" =>
            \E tx \in Attempts : <<streams[s].payment, tx>> \in irreversible
=============================================================================
