----------------------------- MODULE Facilitator -----------------------------
(***************************************************************************)
(* zpay as its clients meet it over HTTP: prepare, the two settle routes   *)
(* and the status read, over the tables of LedgerRows, with the chain      *)
(* plane moving underneath.  PaymentLifecycle and Reconcile model the      *)
(* inside; here a settle is one call with the four awaits a client can be  *)
(* cut off at.  A call signs its own transaction, so its caller's name is  *)
(* the transaction id.                                                     *)
(***************************************************************************)
EXTENDS LedgerRows

CONSTANTS
    Payments,      \* payment ids
    Expiry,        \* the height every preparation expires at
    MaxFaults      \* bound on everything that goes wrong outside a client

ASSUME FacilitatorAssumption ==
    /\ Expiry \in Nat \ {0} /\ MaxFaults \in Nat

VARIABLES
    prepared,      \* payments with a live preparation
    ledger,        \* settlement rows
    taken,         \* <<payment, tx>> the network has taken
    irreversible,  \* the part of it below the settled tip
    view,          \* the chain view of zpay
    calls,         \* one settle call per client attempt
    faults

zpayVars == <<prepared, ledger, taken, irreversible, view, calls, faults>>
chainState == <<taken, irreversible, view>>

IdleCall == [pc |-> "idle", payment |-> NoTx, route |-> "x402", kind |-> "unknown"]
CallPcs == {"idle", "find", "broadcast", "record", "remove",
            "answered", "refused", "unavailable"}

FacilitatorInit ==
    /\ prepared = {} /\ ledger = NoRows
    /\ taken = {} /\ irreversible = {}
    /\ view = [known |-> TRUE, visible |-> 0, settled |-> 0]
    /\ calls = [a \in Txs |-> IdleCall]
    /\ faults = 0

Fault == faults < MaxFaults /\ faults' = faults + 1

-----------------------------------------------------------------------------
(* What a client calls *)

IssuePreparation(p) == prepared' = prepared \cup {p}

Submit(a, p, route) ==
    calls' = [calls EXCEPT ![a] = [IdleCall EXCEPT !.pc = "find", !.payment = p,
                                                   !.route = route]]

(* The client reads the answer, or its connection goes and the handler is   *)
(* dropped at the await it stands at.                                       *)
HangUp(a) == calls' = [calls EXCEPT ![a] = IdleCall]

Replied(a) == calls[a].pc \in {"answered", "refused", "unavailable"}

(* The x402 answer says success for a success kind, whatever became of the  *)
(* row; the lifecycle route reports a failed statement as an error.         *)
RepliedSuccess(a) == calls[a].pc = "answered" /\ calls[a].kind \in SuccessKinds

(* The transaction an answer names: the one extracted from the caller's PCZT. *)
RepliedTransaction(a) == a

-----------------------------------------------------------------------------
(* The settle call inside zpay *)

At(a, pc) == calls[a].pc = pc
Goto(a, pc) == calls' = [calls EXCEPT ![a].pc = pc]

FindPreparation(a) ==
    /\ At(a, "find")
    /\ Goto(a, IF calls[a].payment \in prepared THEN "broadcast" ELSE "refused")
    /\ UNCHANGED <<prepared, ledger, chainState, faults>>

Broadcast(a) ==
    LET pair == <<calls[a].payment, a>>
    IN  /\ At(a, "broadcast")
        /\ \/ /\ calls' = [calls EXCEPT ![a].pc = "record", ![a].kind = "accepted"]
              /\ taken' = taken \cup {pair}
              /\ UNCHANGED faults
           \/ /\ Fault
              /\ \E kind \in FailureKinds :
                    /\ calls' = [calls EXCEPT ![a].pc = "record", ![a].kind = kind]
                    /\ taken' \in IF kind = "unknown" THEN {taken, taken \cup {pair}}
                                                     ELSE {taken}
           \/ /\ Fault
              /\ Goto(a, "unavailable")
              /\ taken' \in {taken, taken \cup {pair}}
        /\ UNCHANGED <<prepared, ledger, irreversible, view>>

RecordOutcome(a) ==
    /\ At(a, "record")
    /\ ledger' = Record(ledger, calls[a].payment, FreshRow(calls[a].kind, a, Expiry))
    /\ Goto(a, IF calls[a].kind \in SuccessKinds THEN "remove" ELSE "answered")
    /\ UNCHANGED <<prepared, chainState, faults>>

RemovePreparation(a) ==
    /\ At(a, "remove")
    /\ prepared' = prepared \ {calls[a].payment}
    /\ Goto(a, "answered")
    /\ UNCHANGED <<ledger, chainState, faults>>

StoreError(a) ==
    /\ calls[a].pc \in {"record", "remove"}
    /\ Fault
    /\ Goto(a, IF calls[a].route = "x402" THEN "answered" ELSE "unavailable")
    /\ UNCHANGED <<prepared, ledger, chainState>>

CallStep(a) ==
    \/ FindPreparation(a) \/ Broadcast(a) \/ RecordOutcome(a)
    \/ RemovePreparation(a) \/ StoreError(a)

-----------------------------------------------------------------------------
(* The chain plane and the reconciliation, reduced to what a read shows. *)

Confirm(p) ==
    /\ p \in DOMAIN ledger /\ IsSuccess(ledger[p])
    /\ \/ /\ ledger[p].mined = NoHeight
          /\ ledger' = RecordConfirmation(ledger, p, 1, view.settled + 1)
       \/ /\ ReadsMined(ledger[p]) /\ ledger[p].count < FinalityDepth
          /\ ledger' = RecordConfirmation(ledger, p, ledger[p].count + 1, NoHeight)
    /\ UNCHANGED <<prepared, chainState, calls, faults>>

(* The settled tip moves where a recorded transaction is, so one step of it  *)
(* stands for all the blocks in between.                                    *)
AdvanceSettled ==
    LET height == view.settled + 1
        below  == {p \in DOMAIN ledger : ledger[p].mined = height}
    IN  /\ below # {}
        /\ view' = [view EXCEPT !.settled = height]
        /\ irreversible' = irreversible \cup {<<p, ledger[p].tx>> : p \in below}
        /\ UNCHANGED <<prepared, ledger, taken, calls, faults>>

Reorg(p) ==
    /\ p \in DOMAIN ledger /\ ledger[p].mined > view.settled
    /\ Fault
    /\ ledger' = DowngradeOnReorg(ledger, p)
    /\ UNCHANGED <<prepared, chainState, calls>>

(* The expiry height and the preparation's deadline pass; the sweeper runs. *)
Lapse ==
    /\ view.visible < Expiry /\ prepared # {}
    /\ Fault
    /\ view' = [view EXCEPT !.visible = Expiry]
    /\ UNCHANGED <<prepared, ledger, taken, irreversible, calls>>

SweepExpired ==
    /\ view.visible >= Expiry /\ prepared # {}
    /\ prepared' = {}
    /\ UNCHANGED <<ledger, chainState, calls, faults>>

ChainStep ==
    \/ \E p \in Payments : Confirm(p) \/ Reorg(p)
    \/ AdvanceSettled \/ Lapse \/ SweepExpired

-----------------------------------------------------------------------------
(* GET /zpay/v1/payments/{id}: the ledger, and the prepared store when the *)
(* ledger has nothing.                                                     *)
NoAnswer == [status |-> "none", settled |-> FALSE, tx |-> NoTx, count |-> NoCount]

LedgerAnswer(p) ==
    LET row == ledger[p]
    IN  [status |-> LedgerStatus(row, view), settled |-> ReadsSettled(row, view),
         tx |-> row.tx, count |-> row.count]

PreparedAnswer(p) ==
    [NoAnswer EXCEPT !.status = IF p \notin prepared THEN "never_issued"
                                ELSE IF view.visible >= Expiry THEN "expired"
                                ELSE "awaiting"]
=============================================================================
