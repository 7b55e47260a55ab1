---------------------------- MODULE AgentHarness ----------------------------
(***************************************************************************)
(* zpay-e2e: one run of the end-to-end harness, a straight line of calls.  *)
(* `run' pays from the harness's own wallet through ZpaySettleSubmitter    *)
(* and the lifecycle settle route; `run-agent-signed' has zspend sign and  *)
(* settles over x402.  The first error ends the run; the exit says what    *)
(* the operator is told.                                                   *)
(***************************************************************************)
EXTENDS Facilitator

CONSTANTS Harness   \* the run; it names the transaction it signs

ASSUME HarnessAssumption == Harness \in Txs

VARIABLE run   \* the harness process

Flows == {"run", "run_agent_signed"}
Completions == {"mined", "final", "settled"}
Exits == {"none", "ok", "error", "rejected", "unavailable", "unsupported",
          "unsuccessful", "lifecycle_status", "timed_out"}
RunSteps == {"prepare", "balance", "sign", "verify", "settle", "confirm", "wait",
             "zexplorer", "exit"}

HarnessInit ==
    run \in [pc : {"prepare"}, flow : Flows, completion : Completions,
             payment : {NoTx}, exit : {"none"}]

RunAt(pc) == run.pc = pc
RunTo(pc) == run' = [run EXCEPT !.pc = pc]
Exit(exit) == run' = [run EXCEPT !.pc = "exit", !.exit = exit]

(* call_prepare and prepared_payment_target. *)
HarnessPrepare(p) ==
    /\ RunAt("prepare")
    /\ IssuePreparation(p)
    /\ run' = [run EXCEPT !.payment = p,
                          !.pc = IF run.flow = "run" THEN "balance" ELSE "sign"]
    /\ UNCHANGED <<ledger, chainState, calls, faults>>

(* run_flow: the balance covers amount and fee, then wallet.send_payment    *)
(* hands the signed bytes to the submitter, which posts them to zpay.       *)
HarnessInsufficientFunds ==
    /\ RunAt("balance")
    /\ Exit("error")
    /\ UNCHANGED zpayVars

HarnessSend ==
    /\ RunAt("balance")
    /\ Submit(Harness, run.payment, "lifecycle")
    /\ RunTo("settle")
    /\ UNCHANGED <<prepared, ledger, chainState, faults>>

(* run_agent_signed_flow: zspend signs, x402 verify, x402 settle. *)
HarnessSigned ==
    /\ RunAt("sign")
    /\ RunTo("verify")
    /\ UNCHANGED zpayVars

HarnessVerified ==
    /\ RunAt("verify")
    /\ Submit(Harness, run.payment, "x402")
    /\ RunTo("settle")
    /\ UNCHANGED <<prepared, ledger, chainState, faults>>

(* Mutant: every answer that is not a success is told as a rejection. *)
SubmitVerdict_AllRejected ==
    IF RepliedSuccess(Harness) THEN {"ok"} ELSE {"rejected"}

(* ZpaySettleSubmitter::submit, on the lifecycle route: what it may tell the  *)
(* wallet.  A refusal is a client error that is not retryable; a retryable  *)
(* problem is Unavailable; an unknown outcome, and the invalid encoding     *)
(* that the rows count as rejected, is no answer the submitter understands. *)
SubmitVerdict ==
    CASE RepliedSuccess(Harness) -> {"ok"}
      [] calls[Harness].pc = "refused" -> {"rejected"}
      [] calls[Harness].pc = "unavailable" -> {"unavailable"}
      [] calls[Harness].pc = "answered" /\ calls[Harness].kind = "rejected" ->
            {"rejected", "unsupported"}
      [] OTHER -> {"unsupported"}

(* settle_x402_payment: every other answer is SettleUnsuccessful, whatever    *)
(* zpay's reason.  Then run_agent_signed_flow compares the transaction with *)
(* the one zspend signed.                                                   *)
X402SettleVerdict ==
    IF ~RepliedSuccess(Harness) THEN {"unsuccessful"}
    ELSE IF RepliedTransaction(Harness) # Harness THEN {"error"} ELSE {"ok"}

Verdicts == IF run.flow = "run" THEN SubmitVerdict ELSE X402SettleVerdict

HarnessSettled ==
    /\ RunAt("settle") /\ Replied(Harness)
    /\ HangUp(Harness)
    /\ \E verdict \in Verdicts :
          IF verdict # "ok" THEN Exit(verdict)
          ELSE RunTo(IF run.flow = "run" THEN "wait" ELSE "confirm")
    /\ UNCHANGED <<prepared, ledger, chainState, faults>>

(* One GET of the status.  Nothing writes the two tables for this payment    *)
(* any more, so the two reads of the lookup are one step.                   *)
PaymentStatus ==
    IF run.payment \in DOMAIN ledger THEN LedgerAnswer(run.payment)
                                     ELSE PreparedAnswer(run.payment)

(* confirm_x402_lifecycle_record *)
HarnessConfirm ==
    /\ RunAt("confirm")
    /\ IF PaymentStatus.tx = Harness THEN RunTo("wait") ELSE Exit("lifecycle_status")
    /\ UNCHANGED zpayVars

(* Mutant: settled is taken for observed as soon as the status is final. *)
IsObserved_FinalIsSettled(completion, answer) ==
    CASE completion = "mined" -> answer.count >= 1
      [] OTHER -> answer.status = "final"

(* SettlementCompletion::is_observed *)
IsObserved(completion, answer) ==
    CASE completion = "mined" -> answer.count >= 1
      [] completion = "final" -> answer.status = "final"
      [] completion = "settled" -> answer.settled

HarnessPoll ==
    /\ RunAt("wait")
    /\ IF IsObserved(run.completion, PaymentStatus)
       THEN IF run.flow = "run" THEN Exit("ok") ELSE RunTo("zexplorer")
       ELSE Exit("timed_out")
    /\ UNCHANGED zpayVars

HarnessExplorer ==
    /\ RunAt("zexplorer")
    /\ Exit("ok")
    /\ UNCHANGED zpayVars

(* Any HTTP, JSON, wallet, token or explorer error. *)
HarnessError ==
    /\ run.pc # "exit"
    /\ Fault
    /\ HangUp(Harness)
    /\ Exit("error")
    /\ UNCHANGED <<prepared, ledger, chainState>>

HarnessNext ==
    \/ \E p \in Payments : HarnessPrepare(p)
    \/ HarnessInsufficientFunds \/ HarnessSend \/ HarnessSigned \/ HarnessVerified
    \/ HarnessSettled \/ HarnessConfirm \/ HarnessPoll \/ HarnessExplorer
    \/ HarnessError

-----------------------------------------------------------------------------
(* Properties *)

(* A run that exits ok paid its payment with its own transaction and zpay    *)
(* knows it; when it was told to wait for settled, the transaction is below *)
(* the settled tip, so a later reorganisation cannot make the exit a lie.   *)
OkMeansPaid ==
    run.exit = "ok" =>
        /\ <<run.payment, Harness>> \in taken
        /\ run.payment \in DOMAIN ledger /\ ledger[run.payment].tx = Harness
        /\ run.completion = "settled" => <<run.payment, Harness>> \in irreversible

(* A `run' whose wallet is told its transaction was rejected did not pay:     *)
(* nothing zpay answers after the broadcast, a failed store statement or an *)
(* unknown outcome included, reaches the wallet as a rejection it may       *)
(* safely spend again after.  The x402 flow makes no such promise: its      *)
(* "unsuccessful" also stands for an outcome nobody knows.                  *)
RejectedMeansUnpaid ==
    run.flow = "run" /\ run.exit = "rejected" => <<run.payment, Harness>> \notin taken
=============================================================================
