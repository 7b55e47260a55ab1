------------------------------ MODULE Reconcile ------------------------------
(***************************************************************************)
(* How the facilitator keeps the settlement ledger in step with the chain: *)
(* the confirmation poll and the chain-event subscription, which both run  *)
(* the same reconciliation sweep and both write the ledger and the cached  *)
(* chain view.  What they publish on the way is modelled by StatusStream.  *)
(*                                                                         *)
(* Every action ends at an await: what a sweep has read from the chain     *)
(* plane or from the ledger is old by the time it is written.              *)
(*                                                                         *)
(* The chain plane (zinder) is outside the repository.  It is modelled by  *)
(* what the code reads from it: two tips, where a transaction is mined,    *)
(* and a feed of chain events with a resume cursor.  A payment is settled  *)
(* by one transaction here, so payments stand for transactions.            *)
(***************************************************************************)
EXTENDS LedgerRows, Sequences

CONSTANTS
    Payments,
    Expiry,         \* expiry height of every payment's transaction
    ReorgWindow,    \* blocks the settled tip trails the visible tip by
    MaxTip,         \* bound on the chain
    MaxReorgs,
    MaxFaults,      \* bound on failed calls, lost streams and crashes
    Paced           \* TRUE: the settled tip waits for a clean sweep

ASSUME ReconcileAssumption ==
    /\ Payments = Txs
    /\ Expiry \in Nat \ {0} /\ ReorgWindow \in Nat \ {0} /\ MaxTip \in Nat \ {0}
    /\ MaxReorgs \in Nat /\ MaxFaults \in Nat
    /\ Paced \in BOOLEAN

VARIABLES
    tip, settledTip, minedAt,   \* the chain plane
    feed,        \* envelopes the subscription has not been handed yet
    ledger,      \* table settlement_ledger
    cache,       \* ChainStatusCache
    sweep,       \* the sweep of each worker
    sub,         \* the chain-event task
    clean,       \* the last sweep to end saw the chain as it is now
    budget       \* reorgs and faults so far

vars == <<tip, settledTip, minedAt, feed, ledger, cache, sweep, sub, clean, budget>>

chain == <<tip, settledTip, minedAt>>

Workers == {"poll", "events"}

-----------------------------------------------------------------------------
(* States *)

ChainView == [known |-> TRUE, visible |-> tip, settled |-> settledTip]
Views == [known : BOOLEAN, visible : Nat, settled : Nat]

NoAnswer == [kind |-> "none", height |-> NoHeight, count |-> 0]
AnswerKinds == {"none", "mined", "mempool", "not_found"}

IdleSweep == [pc |-> "idle", view |-> UnknownView, todo |-> {}, row |-> {},
              answer |-> NoAnswer, valid |-> TRUE]

(* The event task starts with a sweep and then subscribes at the live tail. *)
Starting == [pc |-> "sweep", after |-> FALSE, first |-> 0, last |-> 0]

Init ==
    /\ tip = 1 /\ settledTip = 0 /\ minedAt = [p \in Payments |-> NoHeight]
    /\ feed = <<>>
    /\ ledger = NoRows
    /\ cache = UnknownView
    /\ sweep = [w \in Workers |-> IdleSweep]
    /\ sub = Starting
    /\ clean = FALSE
    /\ budget = [reorgs |-> 0, faults |-> 0]

Spend(what, bound) ==
    /\ budget[what] < bound
    /\ budget' = [budget EXCEPT ![what] = @ + 1]

-----------------------------------------------------------------------------
(* The chain plane.  It keeps events for a subscriber that is connected or *)
(* that holds a cursor.                                                     *)

Listening == sub.pc \in {"open", "reorg"} \/ sub.after

Emit(envelope) == feed' = IF Listening THEN Append(feed, envelope) ELSE feed

SettledAfter(newTip) ==
    IF newTip - ReorgWindow > settledTip THEN newTip - ReorgWindow ELSE settledTip

(* What a sweep has read is out of date once a transaction moves. *)
Marked(w, valid) ==
    IF sweep[w].pc = "idle" THEN IdleSweep ELSE [sweep[w] EXCEPT !.valid = @ /\ valid]

Outdated == [w \in Workers |-> Marked(w, FALSE)]

(* The pace of the chain against the pace of the sweeps: a block leaves the *)
(* reorg window (a hundred blocks) only after a sweep (one a minute) that   *)
(* began after the last change has ended without an error, no older one     *)
(* overlapped it, and none is still writing.                                *)
CaughtUp == clean /\ \A w \in Workers : sweep[w].pc = "idle" \/ sweep[w].valid

MineBlock(txs) ==
    /\ tip < MaxTip
    /\ \A p \in txs : minedAt[p] = NoHeight /\ tip + 1 <= Expiry
    /\ Paced /\ SettledAfter(tip + 1) > settledTip => CaughtUp
    /\ tip' = tip + 1
    /\ settledTip' = SettledAfter(tip + 1)
    /\ minedAt' = [p \in Payments |-> IF p \in txs THEN tip + 1 ELSE minedAt[p]]
    /\ Emit([visible |-> tip + 1, settled |-> SettledAfter(tip + 1),
             first |-> 0, last |-> 0])
    /\ IF txs = {} THEN UNCHANGED <<sweep, clean>>
                   ELSE sweep' = Outdated /\ clean' = FALSE
    /\ UNCHANGED <<ledger, cache, sub, budget>>

(* A branch of the same height replaces the blocks from first on; the       *)
(* transactions in `again' are mined again in its last block.               *)
Reorg(first, again) ==
    /\ first > settledTip /\ first <= tip
    /\ \A p \in again : minedAt[p] >= first
    /\ Spend("reorgs", MaxReorgs)
    /\ minedAt' = [p \in Payments |->
                     IF p \in again THEN tip
                     ELSE IF minedAt[p] >= first THEN NoHeight ELSE minedAt[p]]
    /\ Emit([visible |-> tip, settled |-> settledTip, first |-> first, last |-> tip])
    /\ sweep' = Outdated /\ clean' = FALSE
    /\ UNCHANGED <<tip, settledTip, ledger, cache, sub>>

(* The record step of a settle; the transaction is already on its way.      *)
Settle(p) ==
    /\ p \notin DOMAIN ledger
    /\ ledger' = Record(ledger, p, FreshRow("accepted", p, Expiry))
    /\ UNCHANGED <<chain, feed, cache, sweep, sub, clean, budget>>

(* ChainStatusCache::store *)
StoreView(view) == cache' = [known |-> TRUE, visible |-> view.visible,
                             settled |-> view.settled]

-----------------------------------------------------------------------------
(* poll_oracle_once *)

Goto(w, pc) == [sweep EXCEPT ![w].pc = pc]
Spoilt(w, pc) == [sweep EXCEPT ![w].pc = pc, ![w].valid = FALSE]

(* The poll loop ticks, or the event task reconciles: chain_status(). *)
SweepAsk(w) ==
    /\ sweep[w].pc = "idle"
    /\ w = "events" => sub.pc = "sweep"
    /\ sweep' = [sweep EXCEPT ![w] = [IdleSweep EXCEPT !.pc = "store",
                                                       !.view = ChainView]]
    /\ UNCHANGED <<chain, feed, ledger, cache, sub, clean, budget>>

SweepStore(w) ==
    /\ sweep[w].pc = "store"
    /\ StoreView(sweep[w].view)
    /\ sweep' = Goto(w, "rows")
    /\ UNCHANGED <<chain, feed, ledger, sub, clean, budget>>

(* chain_status() fails: the cached view is used instead. *)
SweepAskFails(w) ==
    /\ sweep[w].pc = "store"
    /\ Spend("faults", MaxFaults)
    /\ sweep' = [sweep EXCEPT ![w].pc = "rows", ![w].view = cache, ![w].valid = FALSE]
    /\ UNCHANGED <<chain, feed, ledger, cache, sub, clean>>

SweepRows(w) ==
    /\ sweep[w].pc = "rows"
    /\ sweep' = [sweep EXCEPT ![w].pc = "next",
                              ![w].todo = SuccessKindTransactions(ledger)]
    /\ UNCHANGED <<chain, feed, ledger, cache, sub, clean, budget>>

(* The ledger cannot be read: the sweep ends without a row. *)
SweepRowsFails(w) ==
    /\ sweep[w].pc = "rows"
    /\ Spend("faults", MaxFaults)
    /\ sweep' = Spoilt(w, "next")
    /\ UNCHANGED <<chain, feed, ledger, cache, sub, clean>>

(* Mutant: every row at or below the visible tip is skipped. *)
IsSkipped_Visible(w, row) ==
    row.mined # NoHeight /\ sweep[w].view.known /\ row.mined <= sweep[w].view.visible

(* A row at or below the settled tip of the sweep's view is not fetched. *)
IsSkipped(w, row) == row.mined # NoHeight /\ IsSettledAt(sweep[w].view, row.mined)

SkipRow(w, row) ==
    /\ sweep[w].pc = "next" /\ row \in sweep[w].todo
    /\ IsSkipped(w, row)
    /\ sweep' = [sweep EXCEPT ![w].todo = @ \ {row}]
    /\ UNCHANGED <<chain, feed, ledger, cache, sub, clean, budget>>

(* fetch_confirmations.  ConflictingChain is handled like NotFound. *)
OracleAnswers(p) ==
    IF minedAt[p] # NoHeight
    THEN {[kind |-> "mined", height |-> minedAt[p], count |-> tip - minedAt[p] + 1]}
    ELSE {[NoAnswer EXCEPT !.kind = k] : k \in {"mempool", "not_found"}}

FetchRow(w, row, answer) ==
    /\ sweep[w].pc = "next" /\ row \in sweep[w].todo
    /\ ~IsSkipped(w, row)
    /\ answer \in OracleAnswers(row.payment)
    /\ sweep' = [sweep EXCEPT ![w].pc = "apply", ![w].row = {row}, ![w].answer = answer]
    /\ UNCHANGED <<chain, feed, ledger, cache, sub, clean, budget>>

(* Mutant: only a transaction back in the mempool is a reorg. *)
Reconciled_IgnoresMissing(row, answer) ==
    CASE answer.kind = "mined" ->
            RecordConfirmation(ledger, row.payment, answer.count, answer.height)
      [] answer.kind = "mempool" /\ row.mined # NoHeight ->
            DowngradeOnReorg(ledger, row.payment)
      [] answer.kind = "mempool" /\ row.mined = NoHeight ->
            RecordConfirmation(ledger, row.payment, 0, NoHeight)
      [] OTHER -> ledger

(* Mutant: back in the mempool zeroes the count beside the stale height. *)
Reconciled_KeepsHeight(row, answer) ==
    CASE answer.kind = "mined" ->
            RecordConfirmation(ledger, row.payment, answer.count, answer.height)
      [] answer.kind = "mempool" ->
            RecordConfirmation(ledger, row.payment, 0, NoHeight)
      [] answer.kind = "not_found" /\ row.mined # NoHeight ->
            DowngradeOnReorg(ledger, row.payment)
      [] OTHER -> ledger

(* reconcile_unsettled_row: the answer meets the row as it was read. *)
Reconciled(row, answer) ==
    CASE answer.kind = "mined" ->
            RecordConfirmation(ledger, row.payment, answer.count, answer.height)
      [] answer.kind # "mined" /\ row.mined # NoHeight ->
            DowngradeOnReorg(ledger, row.payment)
      [] answer.kind = "mempool" /\ row.mined = NoHeight ->
            RecordConfirmation(ledger, row.payment, 0, NoHeight)
      [] OTHER -> ledger

RowDone(w, row, valid) ==
    sweep' = [sweep EXCEPT ![w].pc = "next", ![w].row = {}, ![w].answer = NoAnswer,
                           ![w].todo = @ \ {row}, ![w].valid = @ /\ valid]

ApplyRow(w) ==
    /\ sweep[w].pc = "apply"
    /\ \E row \in sweep[w].row :
          /\ ledger' = Reconciled(row, sweep[w].answer)
          /\ RowDone(w, row, TRUE)
    /\ UNCHANGED <<chain, feed, cache, sub, clean, budget>>

(* The oracle or the ledger errs on this row: the sweep goes on. *)
RowFails(w) ==
    /\ sweep[w].pc = "apply"
    /\ Spend("faults", MaxFaults)
    /\ \E row \in sweep[w].row : RowDone(w, row, FALSE)
    /\ UNCHANGED <<chain, feed, ledger, cache, sub, clean>>

(* After its sweep the event task subscribes anew at the live tail.  A sweep *)
(* that worked on old answers spoils the one it overlaps with.              *)
SweepEnds(w) ==
    /\ sweep[w].pc = "next" /\ sweep[w].todo = {}
    /\ clean' = sweep[w].valid
    /\ sweep' = [v \in Workers |->
                    IF v = w THEN IdleSweep ELSE Marked(v, sweep[w].valid)]
    /\ sub' = IF w = "events" THEN [Starting EXCEPT !.pc = "closed"] ELSE sub
    /\ UNCHANGED <<chain, feed, ledger, cache, budget>>

-----------------------------------------------------------------------------
(* run_loop, drain and handle_reorg *)

Subscribe ==
    /\ sub.pc = "closed"
    /\ sub' = [sub EXCEPT !.pc = "open"]
    /\ UNCHANGED <<chain, feed, ledger, cache, sweep, clean, budget>>

(* subscribe or the open stream says the cursor is gone: sweep again. *)
CursorExpired ==
    /\ sub.pc \in {"closed", "open"} /\ sub.after
    /\ Spend("faults", MaxFaults)
    /\ sub' = [sub EXCEPT !.pc = "sweep", !.after = FALSE]
    /\ feed' = <<>>
    /\ UNCHANGED <<chain, ledger, cache, sweep, clean>>

(* Error or end of the stream.  Without a cursor the events are gone. *)
Disconnect ==
    /\ sub.pc = "open"
    /\ Spend("faults", MaxFaults)
    /\ sub' = [sub EXCEPT !.pc = "closed"]
    /\ feed' = IF sub.after THEN feed ELSE <<>>
    /\ UNCHANGED <<chain, ledger, cache, sweep, clean>>

(* A delivery: the view is stored and the cursor moves before the reorg is *)
(* handled.                                                                *)
Deliver ==
    /\ sub.pc = "open" /\ feed # <<>>
    /\ StoreView(Head(feed))
    /\ sub' = [sub EXCEPT !.pc = IF Head(feed).first > 0 THEN "reorg" ELSE "open",
                          !.after = TRUE, !.first = Head(feed).first,
                          !.last = Head(feed).last]
    /\ feed' = Tail(feed)
    /\ UNCHANGED <<chain, ledger, sweep, clean, budget>>

HandleReorg ==
    /\ sub.pc = "reorg"
    /\ ledger' = DowngradeReorgedRange(ledger, sub.first, sub.last)
    /\ sub' = [sub EXCEPT !.pc = "open", !.first = 0, !.last = 0]
    /\ UNCHANGED <<chain, feed, cache, sweep, clean, budget>>

(* downgrade_reorged_range errs: the range is dropped. *)
HandleReorgFails ==
    /\ sub.pc = "reorg"
    /\ Spend("faults", MaxFaults)
    /\ sub' = [sub EXCEPT !.pc = "open", !.first = 0, !.last = 0]
    /\ UNCHANGED <<chain, feed, ledger, cache, sweep, clean>>

(* The ledger survives; the cache, the cursor and both tasks do not. *)
Crash ==
    /\ Spend("faults", MaxFaults)
    /\ cache' = UnknownView
    /\ sweep' = [w \in Workers |-> IdleSweep]
    /\ sub' = Starting
    /\ feed' = <<>>
    /\ clean' = FALSE
    /\ UNCHANGED <<chain, ledger>>

-----------------------------------------------------------------------------
SweepStep(w) ==
    \/ SweepAsk(w) \/ SweepStore(w) \/ SweepAskFails(w)
    \/ SweepRows(w) \/ SweepRowsFails(w)
    \/ \E row \in sweep[w].todo :
          SkipRow(w, row) \/ \E answer \in OracleAnswers(row.payment) : FetchRow(w, row, answer)
    \/ ApplyRow(w) \/ RowFails(w) \/ SweepEnds(w)

EventStep ==
    \/ Subscribe \/ CursorExpired \/ Disconnect \/ Deliver
    \/ HandleReorg \/ HandleReorgFails

ChainStep ==
    \/ \E txs \in SUBSET Payments : MineBlock(txs)
    \/ \E first \in 1..MaxTip, again \in SUBSET Payments : Reorg(first, again)

Next ==
    \/ ChainStep
    \/ \E p \in Payments : Settle(p)
    \/ \E w \in Workers : SweepStep(w)
    \/ EventStep
    \/ Crash

(* The poll loop is a task of its own on a timer and its calls return. *)
Spec == Init /\ [][Next]_vars /\ WF_vars(SweepStep("poll"))

-----------------------------------------------------------------------------
(* Properties *)

(* Type correctness; neither height of the cached view is ahead of the      *)
(* chain.                                                                   *)
TypeOK ==
    /\ tip \in 1..MaxTip /\ settledTip \in 0..tip
    /\ minedAt \in [Payments -> 0..tip]
    /\ ledger \in [DOMAIN ledger -> Row] /\ DOMAIN ledger \subseteq Payments
    /\ cache \in Views
    /\ cache.visible <= tip /\ cache.settled <= settledTip
    /\ \A w \in Workers : sweep[w].view \in Views /\ sweep[w].answer.kind \in AnswerKinds

(* A payment that a lookup reports settled is mined on the chain at the     *)
(* height its row says, and no reorg can reach it.                          *)
SettledTruth ==
    \A p \in DOMAIN ledger :
        ReadsSettled(ledger[p], cache) =>
            minedAt[p] = ledger[p].mined /\ minedAt[p] <= settledTip

(* When a sweep that began after the last change of the chain has ended,    *)
(* without an error and not overlapped by an older one, no row claims a     *)
(* block that was reorged out, however the reorg was missed before.         *)
SweepCatchesReorgs ==
    CaughtUp => \A p \in DOMAIN ledger :
                    ledger[p].mined \in {NoHeight, minedAt[p]}

(* Once the chain is quiet every row comes to agree with it and stays so,   *)
(* whichever events were missed and whichever answers came late.            *)
Agrees(p) ==
    p \in DOMAIN ledger =>
        /\ ledger[p].mined = minedAt[p]
        /\ minedAt[p] # NoHeight => ledger[p].count >= 1
EventuallyAgrees == <>[](\A p \in Payments : Agrees(p))
=============================================================================
