------------------------------ MODULE LedgerRows ------------------------------
(***************************************************************************)
(* The settlement ledger of zpay as pure operators: the shape of one row,  *)
(* what each method of SettlementLedgerStore does to the table, and how a  *)
(* row is projected to the status a caller reads.  The table is a function *)
(* from payment ids to rows; its domain is the set of recorded payments.   *)
(*                                                                         *)
(* The in-memory and the libSQL store do the same thing to a row, so one   *)
(* definition stands for both.  Timestamps, the payee and the amount are   *)
(* carried by the code and never read back by it, so they are left out.    *)
(***************************************************************************)
EXTENDS Integers, FiniteSets

CONSTANTS
    \* Transaction ids.
    Txs,
    \* Confirmations at which a mined payment is reported final.
    FinalityDepth

ASSUME FinalityDepthAssumption == FinalityDepth \in Nat

-----------------------------------------------------------------------------
(* Option types.  Block heights start at 1, so 0 stands for "no height".   *)

NoHeight == 0
NoCount  == -1
NoTx     == "no transaction"

(* BroadcastOutcome.  "rejected" stands for Rejected and InvalidEncoding,    *)
(* which no handler of zpay tells apart: the network has no transaction.    *)
SuccessKinds == {"accepted", "duplicate"}
FailureKinds == {"rejected", "unknown"}
Kinds == SuccessKinds \cup FailureKinds

Row == [kind : Kinds, tx : Txs \cup {NoTx}, count : Int, mined : Nat,
        reorgs : Nat, expiry : Nat]

IsSuccess(row) == row.kind \in SuccessKinds

(* A table without rows, and one with a row more or a row replaced. *)
NoRows == [x \in {} |-> 0]
Put(f, k, v) == [x \in DOMAIN f \cup {k} |-> IF x = k THEN v ELSE f[x]]

-----------------------------------------------------------------------------
(* The row a settle attempt writes: nothing mined, no reorg seen yet.  Only *)
(* a success kind names the transaction.                                    *)
FreshRow(kind, tx, expiry) ==
    [kind |-> kind, tx |-> IF kind \in SuccessKinds THEN tx ELSE NoTx,
     count |-> NoCount, mined |-> NoHeight, reorgs |-> 0, expiry |-> expiry]

(* SettlementLedgerStore::record overwrites whatever was there. *)
Record(ledger, p, row) == Put(ledger, p, row)

(* record_confirmation: the count always, the height only when it is known. *)
RecordConfirmation(ledger, p, count, height) ==
    IF p \in DOMAIN ledger
    THEN Put(ledger, p, [ledger[p] EXCEPT !.count = count,
                           !.mined = IF height # NoHeight THEN height ELSE @])
    ELSE ledger

Downgraded(row) ==
    [row EXCEPT !.mined = NoHeight, !.count = 0, !.reorgs = @ + 1]

(* downgrade_on_reorg: only a row that is still mined. *)
DowngradeOnReorg(ledger, p) ==
    IF p \in DOMAIN ledger /\ ledger[p].mined # NoHeight
    THEN Put(ledger, p, Downgraded(ledger[p]))
    ELSE ledger

(* downgrade_reorged_range: every row mined in the inclusive range. *)
InRange(row, first, last) ==
    row.mined # NoHeight /\ row.mined >= first /\ row.mined <= last

DowngradeReorgedRange(ledger, first, last) ==
    [p \in DOMAIN ledger |->
        IF InRange(ledger[p], first, last) THEN Downgraded(ledger[p])
                                           ELSE ledger[p]]

(* success_kind_transactions: what a reconciliation sweep iterates. *)
SuccessKindRow(ledger, p) ==
    [payment |-> p, tx |-> ledger[p].tx, mined |-> ledger[p].mined]

SuccessKindTransactions(ledger) ==
    {SuccessKindRow(ledger, p) : p \in {q \in DOMAIN ledger : IsSuccess(ledger[q])}}

-----------------------------------------------------------------------------
(* ChainStatusView: the visible and the settled tip, or nothing known yet. *)
UnknownView == [known |-> FALSE, visible |-> 0, settled |-> 0]

IsSettledAt(view, height) == view.known /\ height <= view.settled
IsLapsedAt(view, expiry)  == view.known /\ view.visible >= expiry

(* classify_success_row and lookup_payment_status on a ledger row. *)
ReadsMined(row) == row.mined # NoHeight /\ row.count >= 1

ClassifySuccessRow(row, view) ==
    IF ReadsMined(row)
    THEN IF row.count >= FinalityDepth THEN "final" ELSE "mined"
    ELSE IF IsLapsedAt(view, row.expiry) THEN "expired" ELSE "broadcast"

LedgerStatus(row, view) ==
    IF IsSuccess(row) THEN ClassifySuccessRow(row, view) ELSE "failed"

ReadsSettled(row, view) ==
    IsSuccess(row) /\ ReadsMined(row) /\ IsSettledAt(view, row.mined)
=============================================================================
