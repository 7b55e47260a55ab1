--------------------------- MODULE Reconcile_proofs ---------------------------
(***************************************************************************)
(* Proofs about Reconcile, for any number of payments, blocks, reorgs and  *)
(* faults: what a lookup reports settled is true, and a sweep that has     *)
(* ended in order has found every reorg.                                   *)
(*                                                                         *)
(* Both need the chain to keep the pace of the sweeps (Paced): a row whose *)
(* block has left the reorg window is not fetched again, so a row that is  *)
(* wrong at that moment stays wrong.                                       *)
(***************************************************************************)
EXTENDS Reconcile, SequenceTheorems, TLAPS

-----------------------------------------------------------------------------
(* The inductive invariant *)

SweepRow == [payment : Payments, tx : Txs \cup {NoTx}, mined : Nat]
Answer == [kind : AnswerKinds, height : Nat, count : Int]
SweepState == [pc : {"idle", "store", "rows", "next", "apply"}, view : Views,
               todo : SUBSET SweepRow, row : SUBSET SweepRow, answer : Answer,
               valid : BOOLEAN]
SubState == [pc : {"sweep", "closed", "open", "reorg"}, after : BOOLEAN,
             first : Nat, last : Nat]
Envelope == [visible : Nat, settled : Nat, first : Nat, last : Nat]

Types ==
    /\ tip \in Nat /\ settledTip \in Nat
    /\ minedAt \in [Payments -> Nat]
    /\ feed \in Seq(Envelope)
    /\ ledger \in [DOMAIN ledger -> Row] /\ DOMAIN ledger \subseteq Payments
    /\ cache \in Views
    /\ sweep \in [Workers -> SweepState]
    /\ sub \in SubState
    /\ clean \in BOOLEAN

(* No height anybody holds is ahead of the chain. *)
Trails(view) == view.visible <= tip /\ view.settled <= settledTip

HeightsTrail ==
    /\ tip \in 1..MaxTip /\ settledTip <= tip
    /\ \A p \in Payments : minedAt[p] <= tip
    /\ Trails(cache)
    /\ \A w \in Workers : Trails(sweep[w].view)
    /\ \A i \in 1..Len(feed) : Trails(feed[i])

(* A block that left the reorg window is known for good. *)
IsTrue(p, height) == height # NoHeight /\ height <= settledTip => minedAt[p] = height

SettledRows == \A p \in DOMAIN ledger : IsSuccess(ledger[p]) /\ IsTrue(p, ledger[p].mined)

(* What a sweep holds: rows of the ledger, once it has read them, ...       *)
RowsAreKnown(w) ==
    /\ \A row \in sweep[w].todo \cup sweep[w].row : row.payment \in DOMAIN ledger
    /\ sweep[w].pc \in {"idle", "store", "rows"} => sweep[w].todo = {}

(* ... an answer that is true, however old it is, of a block that left the  *)
(* reorg window meanwhile, ...                                              *)
AnswerIsTrue(w) ==
    \A row \in sweep[w].row :
        sweep[w].pc = "apply" /\ sweep[w].answer.kind = "mined" =>
            /\ sweep[w].answer.height # NoHeight
            /\ IsTrue(row.payment, sweep[w].answer.height)

(* ... the chain's answer still, if nothing has spoilt the sweep, ...       *)
AnswerIsCurrent(w) ==
    \A row \in sweep[w].row :
        sweep[w].pc = "apply" /\ sweep[w].valid =>
            minedAt[row.payment] = IF sweep[w].answer.kind = "mined"
                                   THEN sweep[w].answer.height ELSE NoHeight

(* ... and rows that are right wherever it will not ask.                    *)
SkipsAreTrue(w) ==
    \A row \in sweep[w].todo :
        row.mined # NoHeight /\ row.mined <= sweep[w].view.settled =>
            minedAt[row.payment] = row.mined

SweepIsSound(w) ==
    RowsAreKnown(w) /\ AnswerIsTrue(w) /\ AnswerIsCurrent(w) /\ SkipsAreTrue(w)

AllValid == \A w \in Workers : sweep[w].pc = "idle" \/ sweep[w].valid

RowAgrees(p) == ledger[p].mined \in {NoHeight, minedAt[p]}

(* A row that disagrees with the chain is still ahead of the sweep, as it   *)
(* was read.                                                                *)
IsAhead(w, p) ==
    \E row \in sweep[w].todo : row.payment = p /\ row.mined = ledger[p].mined

Swept(w) ==
    sweep[w].pc \in {"next", "apply"} =>
        \A p \in DOMAIN ledger : RowAgrees(p) \/ IsAhead(w, p)

NothingMissed == AllValid => \A w \in Workers : Swept(w)

Truths ==
    /\ SettledRows
    /\ \A w \in Workers : SweepIsSound(w)
    /\ NothingMissed /\ SweepCatchesReorgs

ReconcileInv == Types /\ HeightsTrail /\ Truths

-----------------------------------------------------------------------------
(* What the ledger's writers do to a row *)

LEMMA DowngradedRow ==
    ASSUME NEW row \in Row
    PROVE  /\ Downgraded(row) \in Row /\ Downgraded(row).kind = row.kind
           /\ Downgraded(row).mined = NoHeight
<1> DEFINE r1 == [row EXCEPT !.mined = NoHeight]
           r2 == [r1 EXCEPT !.count = 0]
<1>1. r1 \in Row /\ r1.kind = row.kind /\ r1.mined = NoHeight
  BY DEF Row, NoHeight
<1> HIDE DEF r1
<1>2. r2 \in Row /\ r2.kind = row.kind /\ r2.mined = NoHeight
  BY <1>1 DEF Row
<1>3. Downgraded(row) = [r2 EXCEPT !.reorgs = @ + 1]
  BY DEF Downgraded, r1
<1> HIDE DEF r2
<1> QED
  BY <1>2, <1>3 DEF Row

(* reconcile_unsettled_row changes one row, and what it leaves in its       *)
(* height is the answer's, none, or what was there.                         *)
LEMMA ReconciledTable ==
    ASSUME Types, NEW row, row.payment \in DOMAIN ledger, NEW answer \in Answer,
           NEW table, table = Reconciled(row, answer)
    PROVE  /\ table \in [DOMAIN ledger -> Row]
           /\ \A p \in DOMAIN ledger :
                 /\ table[p].kind = ledger[p].kind
                 /\ p # row.payment => table[p] = ledger[p]
           /\ CASE answer.kind = "mined" /\ answer.height # NoHeight ->
                     table[row.payment].mined = answer.height
                [] answer.kind # "mined" /\ row.mined # NoHeight ->
                     table[row.payment].mined = NoHeight
                [] OTHER -> table[row.payment].mined = ledger[row.payment].mined
<1> DEFINE p == row.payment
<1>1. ledger \in [DOMAIN ledger -> Row] /\ ledger[p] \in Row /\ NoHeight \in Nat
  BY DEF Types, NoHeight
<1>2. answer.height \in Nat /\ answer.count \in Int /\ 0 \in Int
  BY DEF Answer
<1>3. ASSUME NEW count \in Int, NEW height \in Nat, table = RecordConfirmation(ledger, p, count, height)
      PROVE  /\ table \in [DOMAIN ledger -> Row]
             /\ \A q \in DOMAIN ledger :
                   /\ table[q].kind = ledger[q].kind
                   /\ q # p => table[q] = ledger[q]
             /\ table[p].mined = IF height # NoHeight THEN height ELSE ledger[p].mined
  <2> DEFINE new == [ledger[p] EXCEPT !.count = count,
                        !.mined = IF height # NoHeight THEN height ELSE @]
  <2>1. /\ new \in Row /\ new.kind = ledger[p].kind
        /\ new.mined = IF height # NoHeight THEN height ELSE ledger[p].mined
    BY <1>1, <1>3 DEF Row
  <2>2. table = Put(ledger, p, new)
    BY <1>3 DEF RecordConfirmation
  <2> HIDE DEF new
  <2>3. /\ table \in [DOMAIN ledger \cup {p} -> Row] /\ table[p] = new
        /\ \A q \in DOMAIN ledger \ {p} : table[q] = ledger[q]
    BY <1>1, <2>1, <2>2 DEF Put
  <2> QED
    BY <2>1, <2>3
<1>4. ASSUME table = DowngradeOnReorg(ledger, p)
      PROVE  /\ table \in [DOMAIN ledger -> Row]
             /\ \A q \in DOMAIN ledger :
                   /\ table[q].kind = ledger[q].kind
                   /\ q # p => table[q] = ledger[q]
             /\ table[p].mined = NoHeight
  <2>1. CASE ledger[p].mined # NoHeight
    <3> DEFINE new == Downgraded(ledger[p])
    <3>1. new \in Row /\ new.kind = ledger[p].kind /\ new.mined = NoHeight
      BY <1>1, DowngradedRow
    <3>2. table = Put(ledger, p, new)
      BY <1>4, <2>1 DEF DowngradeOnReorg
    <3> HIDE DEF new
    <3>3. /\ table \in [DOMAIN ledger \cup {p} -> Row] /\ table[p] = new
          /\ \A q \in DOMAIN ledger \ {p} : table[q] = ledger[q]
      BY <1>1, <3>1, <3>2 DEF Put
    <3> QED
      BY <3>1, <3>3
  <2>2. CASE ledger[p].mined = NoHeight
    BY <1>1, <1>4, <2>2 DEF DowngradeOnReorg
  <2> QED
    BY <2>1, <2>2
<1>5. CASE answer.kind = "mined"
  BY <1>2, <1>3, <1>5 DEF Reconciled
<1>6. CASE answer.kind # "mined" /\ row.mined # NoHeight
  BY <1>4, <1>6 DEF Reconciled
<1>7. CASE answer.kind = "mempool" /\ row.mined = NoHeight
  BY <1>1, <1>2, <1>3, <1>7 DEF Reconciled
<1>8. CASE answer.kind \notin {"mined", "mempool"} /\ row.mined = NoHeight
  BY <1>1, <1>8 DEF Reconciled
<1> QED
  BY <1>5, <1>6, <1>7, <1>8

(* downgrade_reorged_range leaves a height as it was or takes it away. *)
LEMMA DowngradedTable ==
    ASSUME Types, NEW first, NEW last, NEW table, table = DowngradeReorgedRange(ledger, first, last)
    PROVE  /\ table \in [DOMAIN ledger -> Row]
           /\ \A p \in DOMAIN ledger :
                 /\ table[p].kind = ledger[p].kind
                 /\ table[p].mined \in {NoHeight, ledger[p].mined}
<1>1. \A p \in DOMAIN ledger : ledger[p] \in Row
  BY DEF Types
<1> QED
  BY <1>1, DowngradedRow DEF DowngradeReorgedRange

-----------------------------------------------------------------------------
(* Type correctness *)

LEMMA SettledAfterTrails ==
    ASSUME tip \in Nat, settledTip \in Nat, settledTip <= tip
    PROVE  /\ SettledAfter(tip + 1) \in Nat /\ SettledAfter(tip + 1) <= tip
           /\ SettledAfter(tip + 1) >= settledTip
  BY ReconcileAssumption DEF SettledAfter

LEMMA ConstantTypes ==
    /\ NoHeight \in Nat /\ NoAnswer \in Answer /\ UnknownView \in Views
    /\ IdleSweep \in SweepState /\ Starting \in SubState
<1>1. NoHeight \in Nat /\ NoAnswer \in Answer /\ UnknownView \in Views
  BY DEF NoHeight, NoAnswer, Answer, AnswerKinds, UnknownView, Views
<1>2. IdleSweep \in SweepState
  BY <1>1 DEF IdleSweep, SweepState
<1> QED
  BY <1>1, <1>2 DEF Starting, SubState

LEMMA MarkedSweep ==
    ASSUME Types, NEW w \in Workers, NEW valid \in BOOLEAN
    PROVE  /\ Marked(w, valid) \in SweepState
           /\ sweep[w].pc = "idle" =>
                /\ Marked(w, valid) = IdleSweep /\ Marked(w, valid).pc = "idle"
                /\ Marked(w, valid).todo = {} /\ Marked(w, valid).row = {}
           /\ sweep[w].pc # "idle" =>
                /\ Marked(w, valid).pc = sweep[w].pc /\ Marked(w, valid).view = sweep[w].view
                /\ Marked(w, valid).todo = sweep[w].todo /\ Marked(w, valid).row = sweep[w].row
                /\ Marked(w, valid).answer = sweep[w].answer
                /\ Marked(w, valid).valid => sweep[w].valid /\ valid
<1>1. sweep[w] \in SweepState
  BY DEF Types
<1>2. CASE sweep[w].pc = "idle"
  BY <1>2, ConstantTypes DEF Marked, IdleSweep
<1>3. CASE sweep[w].pc # "idle"
  BY <1>1, <1>3 DEF Marked, SweepState
<1> QED
  BY <1>2, <1>3

(* The sweep of w becomes s, the other worker's stays. *)
Moves(w, s) == s \in SweepState /\ sweep' = [sweep EXCEPT ![w] = s]

LEMMA AskMoves ==
    ASSUME Types, NEW w \in Workers, SweepAsk(w)
    PROVE  \E s : /\ Moves(w, s) /\ s.pc = "store" /\ s.view = ChainView /\ s.todo = {}
                  /\ s.row = {} /\ s.answer = NoAnswer /\ s.valid
<1> DEFINE s == [IdleSweep EXCEPT !.pc = "store", !.view = ChainView]
<1>1. ChainView \in Views
  BY DEF Types, ChainView, Views
<1>2. /\ s \in SweepState /\ s.pc = "store" /\ s.view = ChainView /\ s.todo = {}
      /\ s.row = {} /\ s.answer = NoAnswer /\ s.valid
  BY <1>1, ConstantTypes DEF IdleSweep, SweepState
<1> QED
  BY <1>2 DEF SweepAsk, Moves

LEMMA StoreMoves ==
    ASSUME Types, NEW w \in Workers, SweepStore(w)
    PROVE  \E s : /\ Moves(w, s) /\ s.pc = "rows" /\ s.view = sweep[w].view
                  /\ s.todo = sweep[w].todo /\ s.row = sweep[w].row
                  /\ s.answer = sweep[w].answer /\ s.valid = sweep[w].valid
<1> DEFINE s == [sweep[w] EXCEPT !.pc = "rows"]
<1>1. sweep \in [Workers -> SweepState]
  BY DEF Types
<1>2. /\ s \in SweepState /\ s.pc = "rows" /\ s.view = sweep[w].view
      /\ s.todo = sweep[w].todo /\ s.row = sweep[w].row
      /\ s.answer = sweep[w].answer /\ s.valid = sweep[w].valid
  BY <1>1 DEF SweepState
<1>3. sweep' = [sweep EXCEPT ![w] = s]
  BY <1>1 DEF SweepStore, Goto
<1> QED
  BY <1>2, <1>3 DEF Moves

LEMMA AskFailsMoves ==
    ASSUME Types, NEW w \in Workers, SweepAskFails(w)
    PROVE  \E s : /\ Moves(w, s) /\ s.pc = "rows" /\ s.view = cache
                  /\ s.todo = sweep[w].todo /\ s.row = sweep[w].row
                  /\ s.answer = sweep[w].answer /\ ~s.valid
<1> DEFINE s == [sweep[w] EXCEPT !.pc = "rows", !.view = cache, !.valid = FALSE]
<1>1. sweep \in [Workers -> SweepState]
  BY DEF Types
<1>2. /\ s \in SweepState /\ s.pc = "rows" /\ s.view = cache
      /\ s.todo = sweep[w].todo /\ s.row = sweep[w].row
      /\ s.answer = sweep[w].answer /\ ~s.valid
  BY <1>1 DEF SweepState, Types
<1>3. sweep' = [sweep EXCEPT ![w] = s]
  BY <1>1 DEF SweepAskFails, SweepState
<1> QED
  BY <1>2, <1>3 DEF Moves

LEMMA RowsMoves ==
    ASSUME Types, NEW w \in Workers, SweepRows(w)
    PROVE  \E s : /\ Moves(w, s) /\ s.pc = "next" /\ s.view = sweep[w].view
                  /\ s.todo = SuccessKindTransactions(ledger)
                  /\ s.row = sweep[w].row /\ s.answer = sweep[w].answer
                  /\ s.valid = sweep[w].valid
<1> DEFINE s == [sweep[w] EXCEPT !.pc = "next", !.todo = SuccessKindTransactions(ledger)]
<1>1. sweep \in [Workers -> SweepState]
  BY DEF Types
<1>2. SuccessKindTransactions(ledger) \in SUBSET SweepRow
  BY <1>1 DEF Types, SuccessKindTransactions, SuccessKindRow, SweepRow, Row
<1>3. /\ s \in SweepState /\ s.pc = "next" /\ s.view = sweep[w].view
      /\ s.todo = SuccessKindTransactions(ledger)
      /\ s.row = sweep[w].row /\ s.answer = sweep[w].answer
      /\ s.valid = sweep[w].valid
  BY <1>1, <1>2 DEF SweepState
<1>4. sweep' = [sweep EXCEPT ![w] = s]
  BY <1>1 DEF SweepRows, SweepState
<1> QED
  BY <1>3, <1>4 DEF Moves

LEMMA RowsFailsMoves ==
    ASSUME Types, NEW w \in Workers, SweepRowsFails(w)
    PROVE  \E s : /\ Moves(w, s) /\ s.pc = "next" /\ s.view = sweep[w].view
                  /\ s.todo = sweep[w].todo /\ s.row = sweep[w].row
                  /\ s.answer = sweep[w].answer /\ ~s.valid
<1> DEFINE s == [sweep[w] EXCEPT !.pc = "next", !.valid = FALSE]
<1>1. sweep \in [Workers -> SweepState]
  BY DEF Types
<1>2. /\ s \in SweepState /\ s.pc = "next" /\ s.view = sweep[w].view
      /\ s.todo = sweep[w].todo /\ s.row = sweep[w].row
      /\ s.answer = sweep[w].answer /\ ~s.valid
  BY <1>1 DEF SweepState
<1>3. sweep' = [sweep EXCEPT ![w] = s]
  BY <1>1 DEF SweepRowsFails, Spoilt, SweepState
<1> QED
  BY <1>2, <1>3 DEF Moves

LEMMA SkipMoves ==
    ASSUME Types, NEW w \in Workers, NEW row, SkipRow(w, row)
    PROVE  \E s : /\ Moves(w, s) /\ s.pc = sweep[w].pc /\ s.view = sweep[w].view
                  /\ s.todo = sweep[w].todo \ {row} /\ s.row = sweep[w].row
                  /\ s.answer = sweep[w].answer /\ s.valid = sweep[w].valid
<1> DEFINE s == [sweep[w] EXCEPT !.todo = @ \ {row}]
<1>1. sweep \in [Workers -> SweepState]
  BY DEF Types
<1>2. /\ s \in SweepState /\ s.pc = sweep[w].pc /\ s.view = sweep[w].view
      /\ s.todo = sweep[w].todo \ {row} /\ s.row = sweep[w].row
      /\ s.answer = sweep[w].answer /\ s.valid = sweep[w].valid
  BY <1>1 DEF SweepState
<1>3. sweep' = [sweep EXCEPT ![w] = s]
  BY <1>1 DEF SkipRow, SweepState
<1> QED
  BY <1>2, <1>3 DEF Moves

LEMMA FetchMoves ==
    ASSUME Types, NEW w \in Workers, NEW row, NEW answer,
           FetchRow(w, row, answer)
    PROVE  \E s : /\ Moves(w, s) /\ s.pc = "apply" /\ s.view = sweep[w].view
                  /\ s.todo = sweep[w].todo /\ s.row = {row}
                  /\ s.answer = answer /\ s.valid = sweep[w].valid
<1> DEFINE s == [sweep[w] EXCEPT !.pc = "apply", !.row = {row}, !.answer = answer]
<1>1. sweep \in [Workers -> SweepState]
  BY DEF Types
<1>2. answer \in Answer /\ row \in SweepRow
  BY <1>1 DEF Types, FetchRow, OracleAnswers, SweepState, SweepRow, Answer, AnswerKinds, NoAnswer, NoHeight
<1>3. /\ s \in SweepState /\ s.pc = "apply" /\ s.view = sweep[w].view
      /\ s.todo = sweep[w].todo /\ s.row = {row}
      /\ s.answer = answer /\ s.valid = sweep[w].valid
  BY <1>1, <1>2 DEF SweepState
<1>4. sweep' = [sweep EXCEPT ![w] = s]
  BY <1>1 DEF FetchRow, SweepState
<1> QED
  BY <1>3, <1>4 DEF Moves

LEMMA RowDoneMoves ==
    ASSUME Types, NEW w \in Workers, NEW row, NEW valid \in BOOLEAN, RowDone(w, row, valid)
    PROVE  \E s : /\ Moves(w, s) /\ s.pc = "next" /\ s.view = sweep[w].view
                  /\ s.todo = sweep[w].todo \ {row} /\ s.row = {}
                  /\ s.answer = NoAnswer /\ s.valid = (sweep[w].valid /\ valid)
<1> DEFINE s == [sweep[w] EXCEPT !.pc = "next", !.row = {}, !.answer = NoAnswer, !.todo = @ \ {row}, !.valid = @ /\ valid]
<1>1. sweep \in [Workers -> SweepState]
  BY DEF Types
<1>2. NoAnswer \in Answer
  BY <1>1 DEF NoAnswer, Answer, AnswerKinds, NoHeight
<1>3. /\ s \in SweepState /\ s.pc = "next" /\ s.view = sweep[w].view
      /\ s.todo = sweep[w].todo \ {row} /\ s.row = {}
      /\ s.answer = NoAnswer /\ s.valid = (sweep[w].valid /\ valid)
  BY <1>1, <1>2 DEF SweepState
<1>4. sweep' = [sweep EXCEPT ![w] = s]
  BY <1>1 DEF RowDone, SweepState
<1> QED
  BY <1>3, <1>4 DEF Moves

LEMMA EmitTypes ==
    ASSUME Types, NEW envelope \in Envelope, Emit(envelope)
    PROVE  feed' \in Seq(Envelope)
<1>1. feed \in Seq(Envelope)
  BY DEF Types
<1> QED
  BY <1>1 DEF Emit

LEMMA SweepTypes ==
    ASSUME Types, NEW w \in Workers, SweepStep(w), ~SweepEnds(w)
    PROVE  sweep' \in [Workers -> SweepState]
<1>1. \E s : Moves(w, s)
  BY AskMoves, StoreMoves, AskFailsMoves, RowsMoves, RowsFailsMoves, SkipMoves, FetchMoves, RowDoneMoves
  DEF SweepStep, ApplyRow, RowFails
<1> QED
  BY <1>1 DEF Moves, Types

LEMMA TypesStep == Types /\ HeightsTrail /\ [Next]_vars => Types'
<1> SUFFICES ASSUME Types, HeightsTrail, [Next]_vars PROVE Types'
  OBVIOUS
<1> USE DEF chain
<1>1. Types /\ settledTip <= tip
  BY DEF HeightsTrail
<1>2. Outdated \in [Workers -> SweepState]
  BY <1>1, MarkedSweep DEF Outdated
<1>3. ASSUME NEW txs \in SUBSET Payments, MineBlock(txs) PROVE Types'
  <2>1. tip' \in Nat /\ settledTip' \in Nat
    BY <1>1, <1>3, SettledAfterTrails DEF MineBlock, Types
  <2>2. minedAt' \in [Payments -> Nat]
    BY <1>1, <1>3 DEF MineBlock, Types
  <2>3. [visible |-> tip + 1, settled |-> SettledAfter(tip + 1), first |-> 0, last |-> 0]
            \in Envelope
    BY <1>1, SettledAfterTrails DEF Types, Envelope
  <2>4. feed' \in Seq(Envelope)
    BY <1>1, <1>3, <2>3, EmitTypes DEF MineBlock
  <2>5. sweep' \in [Workers -> SweepState] /\ clean' \in BOOLEAN
    BY <1>1, <1>2, <1>3 DEF MineBlock, Types
  <2> QED
    BY <1>1, <1>3, <2>1, <2>2, <2>4, <2>5 DEF MineBlock, Types
<1>4. ASSUME NEW first \in 1..MaxTip, NEW again \in SUBSET Payments, Reorg(first, again)
      PROVE  Types'
  <2>1. minedAt' \in [Payments -> Nat]
    BY <1>1, <1>4 DEF Reorg, Types, NoHeight
  <2>2. [visible |-> tip, settled |-> settledTip, first |-> first, last |-> tip] \in Envelope
    BY <1>1, ReconcileAssumption DEF Types, Envelope
  <2>3. feed' \in Seq(Envelope)
    BY <1>1, <1>4, <2>2, EmitTypes DEF Reorg
  <2> QED
    BY <1>1, <1>2, <1>4, <2>1, <2>3 DEF Reorg, Types
<1>5. ASSUME NEW p \in Payments, Settle(p) PROVE Types'
  <2>1. FreshRow("accepted", p, Expiry) \in Row
    BY ReconcileAssumption DEF FreshRow, Row, Kinds, SuccessKinds, NoHeight, NoCount
  <2>2. ledger' \in [DOMAIN ledger \cup {p} -> Row]
    BY <1>1, <1>5, <2>1 DEF Settle, Record, Put, Types
  <2> QED
    BY <1>1, <1>5, <2>2 DEF Settle, Types
<1>6. ASSUME NEW w \in Workers, SweepStep(w) PROVE Types'
  <2>1. CASE SweepStore(w)
    BY <1>1, <1>6, <2>1, SweepTypes DEF SweepStore, SweepEnds, StoreView, Types, SweepState, Views
  <2>2. CASE ApplyRow(w)
    <3>1. PICK row \in sweep[w].row : ledger' = Reconciled(row, sweep[w].answer)
      BY <2>2 DEF ApplyRow
    <3>2. sweep[w].answer \in Answer
      BY <1>1 DEF Types, SweepState
    <3>3. ledger' \in [DOMAIN ledger -> Row]
      <4>1. CASE row.payment \in DOMAIN ledger
        BY <1>1, <3>1, <3>2, <4>1, ReconciledTable
      <4>2. CASE row.payment \notin DOMAIN ledger
        BY <1>1, <3>1, <4>2 DEF Reconciled, RecordConfirmation, DowngradeOnReorg, Types
      <4> QED
        BY <4>1, <4>2
    <3>4. sweep' \in [Workers -> SweepState]
      BY <1>1, <1>6, <2>2, SweepTypes DEF ApplyRow, SweepEnds
    <3> QED
      BY <1>1, <2>2, <3>3, <3>4 DEF ApplyRow, Types
  <2>3. CASE SweepEnds(w)
    <3>1. sweep[w].valid \in BOOLEAN
      BY <1>1 DEF Types, SweepState
    <3>2. sweep' \in [Workers -> SweepState]
      BY <1>1, <2>3, <3>1, MarkedSweep, ConstantTypes DEF SweepEnds
    <3>3. sub' \in SubState
      BY <1>1, <2>3, ConstantTypes DEF SweepEnds, Types, SubState
    <3> QED
      BY <1>1, <2>3, <3>1, <3>2, <3>3 DEF SweepEnds, Types
  <2>4. CASE ~(SweepStore(w) \/ ApplyRow(w) \/ SweepEnds(w))
    <3>1. sweep' \in [Workers -> SweepState]
      BY <1>1, <1>6, <2>4, SweepTypes
    <3>2. UNCHANGED <<tip, settledTip, minedAt, feed, ledger, cache, sub, clean>>
      BY <1>6, <2>4 DEF SweepStep, SweepAsk, SweepAskFails, SweepRows, SweepRowsFails, SkipRow,
        FetchRow, RowFails
    <3> QED
      BY <1>1, <3>1, <3>2 DEF Types
  <2> QED
    BY <2>1, <2>2, <2>3, <2>4
<1>7. CASE EventStep
  <2>1. CASE Subscribe
    BY <1>1, <2>1 DEF Subscribe, Types, SubState
  <2>2. CASE CursorExpired
    <3>1. sub' \in SubState
      BY <1>1, <2>2 DEF CursorExpired, Types, SubState
    <3>2. feed' \in Seq(Envelope)
      BY <2>2 DEF CursorExpired
    <3> QED
      BY <1>1, <2>2, <3>1, <3>2 DEF CursorExpired, Types
  <2>3. CASE Disconnect
    <3>1. sub' \in SubState /\ feed' \in Seq(Envelope)
      BY <1>1, <2>3 DEF Disconnect, Types, SubState
    <3> QED
      BY <1>1, <2>3, <3>1 DEF Disconnect, Types
  <2>4. CASE Deliver
    <3>1. Head(feed) \in Envelope /\ Tail(feed) \in Seq(Envelope)
      BY <1>1, <2>4 DEF Deliver, Types
    <3>2. cache' \in Views /\ sub' \in SubState
      BY <1>1, <2>4, <3>1 DEF Deliver, StoreView, Types, SubState, Envelope, Views
    <3> QED
      BY <1>1, <2>4, <3>1, <3>2 DEF Deliver, Types
  <2>5. CASE HandleReorg
    <3>1. ledger' \in [DOMAIN ledger -> Row]
      BY <1>1, <2>5, DowngradedTable DEF HandleReorg
    <3>2. sub' \in SubState
      BY <1>1, <2>5 DEF HandleReorg, Types, SubState
    <3> QED
      BY <1>1, <2>5, <3>1, <3>2 DEF HandleReorg, Types
  <2>6. CASE HandleReorgFails
    <3>1. sub' \in SubState
      BY <1>1, <2>6 DEF HandleReorgFails, Types, SubState
    <3> QED
      BY <1>1, <2>6, <3>1 DEF HandleReorgFails, Types
  <2> QED
    BY <1>7, <2>1, <2>2, <2>3, <2>4, <2>5, <2>6 DEF EventStep
<1>8. CASE Crash
  <2>1. sweep' \in [Workers -> SweepState] /\ feed' \in Seq(Envelope)
    BY <1>8, ConstantTypes DEF Crash
  <2> QED
    BY <1>1, <1>8, <2>1, ConstantTypes DEF Crash, Types
<1>9. CASE UNCHANGED vars
  BY <1>1, <1>9 DEF vars, Types
<1> QED
  BY <1>3, <1>4, <1>5, <1>6, <1>7, <1>8, <1>9 DEF Next, ChainStep

-----------------------------------------------------------------------------
(* No height runs ahead of the chain *)

(* The tips only grow, so an event that trailed them still does. *)
LEMMA FeedTrails ==
    ASSUME Types, HeightsTrail, NEW envelope \in Envelope, Emit(envelope),
           tip' \in Nat, settledTip' \in Nat, tip <= tip', settledTip <= settledTip',
           envelope.visible <= tip', envelope.settled <= settledTip'
    PROVE  \A i \in 1..Len(feed') : feed'[i].visible <= tip' /\ feed'[i].settled <= settledTip'
<1>1. feed \in Seq(Envelope) /\ tip \in Nat /\ settledTip \in Nat
  BY DEF Types
<1>2. \A i \in 1..Len(feed) : feed[i].visible <= tip' /\ feed[i].settled <= settledTip'
  <2> TAKE i \in 1..Len(feed)
  <2>1. feed[i].visible \in Nat /\ feed[i].settled \in Nat /\ Trails(feed[i])
    <3>1. feed[i] \in Envelope
      BY <1>1
    <3> QED
      BY <3>1 DEF HeightsTrail, Envelope
  <2> QED
    BY <1>1, <2>1 DEF Trails
<1>3. CASE feed' = feed
  BY <1>2, <1>3
<1>4. CASE feed' = Append(feed, envelope)
  BY <1>1, <1>2, <1>4
<1> QED
  BY <1>3, <1>4 DEF Emit

LEMMA HeightsStep == Types /\ HeightsTrail /\ Types' /\ [Next]_vars => HeightsTrail'
<1> SUFFICES ASSUME Types, HeightsTrail, Types', [Next]_vars PROVE HeightsTrail'
  OBVIOUS
<1> USE DEF chain
<1>1. Types /\ HeightsTrail
  OBVIOUS
<1>2. \A w \in Workers : Trails(Marked(w, FALSE).view) /\ Trails(Marked(w, TRUE).view)
  <2> TAKE w \in Workers
  <2>1. Trails(sweep[w].view) /\ Trails(IdleSweep.view)
    BY <1>1 DEF HeightsTrail, Trails, IdleSweep, UnknownView, Types
  <2> QED
    BY <1>1, <2>1, MarkedSweep
<1>3. ASSUME NEW txs \in SUBSET Payments, MineBlock(txs) PROVE HeightsTrail'
  <2>1. /\ tip' = tip + 1 /\ settledTip' = SettledAfter(tip + 1) /\ tip < MaxTip
        /\ \A p \in Payments : minedAt'[p] \in {tip + 1, minedAt[p]}
        /\ cache' = cache
    BY <1>3 DEF MineBlock
  <2>2. /\ tip' \in 1..MaxTip /\ settledTip' <= tip' /\ settledTip <= settledTip' /\ tip <= tip'
        /\ tip \in Nat /\ tip' \in Nat /\ settledTip \in Nat /\ settledTip' \in Nat
    BY <1>1, <2>1, SettledAfterTrails, ReconcileAssumption DEF HeightsTrail, Types
  <2>3. \A p \in Payments : minedAt'[p] <= tip'
    BY <1>1, <2>1, <2>2 DEF HeightsTrail, Types
  <2>4. Trails(cache)'
    BY <1>1, <2>1, <2>2 DEF HeightsTrail, Types, Views, Trails
  <2>5. \A w \in Workers : sweep'[w].view \in Views /\ Trails(sweep'[w].view)
    BY <1>1, <1>2, <1>3 DEF MineBlock, Outdated, HeightsTrail, Types, SweepState
  <2>6. \A w \in Workers : Trails(sweep[w].view)'
    BY <2>2, <2>5 DEF Views, Trails
  <2>7. \A i \in 1..Len(feed') : Trails(feed[i])'
    <3> DEFINE e == [visible |-> tip + 1, settled |-> SettledAfter(tip + 1),
                     first |-> 0, last |-> 0]
    <3>1. e \in Envelope /\ e.visible <= tip' /\ e.settled <= settledTip'
      BY <2>1, <2>2 DEF Envelope
    <3>2. Emit(e)
      BY <1>3 DEF MineBlock
    <3> HIDE DEF e
    <3>3. \A i \in 1..Len(feed') : feed'[i].visible <= tip' /\ feed'[i].settled <= settledTip'
      BY <1>1, <2>2, <3>1, <3>2, FeedTrails
    <3> QED
      BY <3>3 DEF Trails
  <2> QED
    BY <2>2, <2>3, <2>4, <2>6, <2>7 DEF HeightsTrail
<1>4. ASSUME NEW first \in 1..MaxTip, NEW again \in SUBSET Payments, Reorg(first, again)
      PROVE  HeightsTrail'
  <2>1. /\ \A p \in Payments : minedAt'[p] \in {tip, NoHeight, minedAt[p]}
        /\ UNCHANGED <<tip, settledTip, cache>>
    BY <1>4 DEF Reorg
  <2>2. \A p \in Payments : minedAt'[p] <= tip'
    <3>1. tip \in Nat /\ \A p \in Payments : minedAt[p] <= tip
      BY <1>1 DEF HeightsTrail, Types
    <3> QED
      BY <2>1, <3>1 DEF NoHeight
  <2>3. \A w \in Workers : Trails(sweep[w].view)'
    BY <1>2, <1>4, <2>1 DEF Reorg, Outdated, Trails
  <2>4. \A i \in 1..Len(feed') : Trails(feed[i])'
    <3> DEFINE e == [visible |-> tip, settled |-> settledTip, first |-> first, last |-> tip]
    <3>1. e \in Envelope /\ e.visible <= tip' /\ e.settled <= settledTip'
      BY <1>1, <2>1, ReconcileAssumption DEF Envelope, Types
    <3>2. Emit(e)
      BY <1>4 DEF Reorg
    <3> HIDE DEF e
    <3>3. \A i \in 1..Len(feed') : feed'[i].visible <= tip' /\ feed'[i].settled <= settledTip'
      <4>1. tip' \in Nat /\ settledTip' \in Nat /\ tip <= tip' /\ settledTip <= settledTip'
        BY <1>1, <2>1 DEF Types
      <4> QED
        BY <1>1, <3>1, <3>2, <4>1, FeedTrails
    <3> QED
      BY <3>3 DEF Trails
  <2> QED
    BY <1>1, <2>1, <2>2, <2>3, <2>4 DEF HeightsTrail, Trails
<1>5. ASSUME UNCHANGED chain, Trails(cache'), \A w \in Workers : Trails(sweep'[w].view),
             \A i \in 1..Len(feed') : Trails(feed'[i])
      PROVE  HeightsTrail'
  BY <1>1, <1>5 DEF HeightsTrail, Trails
<1>6. ASSUME NEW w \in Workers, SweepStep(w) PROVE HeightsTrail'
  <2>1. UNCHANGED chain /\ UNCHANGED feed
    BY <1>6 DEF SweepStep, SweepAsk, SweepStore, SweepAskFails, SweepRows, SweepRowsFails,
      SkipRow, FetchRow, ApplyRow, RowFails, SweepEnds
  <2>2. Trails(cache')
    <3>1. CASE SweepStore(w)
      BY <1>1, <3>1 DEF SweepStore, StoreView, HeightsTrail, Trails
    <3>2. CASE ~SweepStore(w)
      <4>1. cache' = cache
        BY <1>6, <3>2 DEF SweepStep, SweepAsk, SweepAskFails, SweepRows, SweepRowsFails,
          SkipRow, FetchRow, ApplyRow, RowFails, SweepEnds
      <4> QED
        BY <1>1, <4>1 DEF HeightsTrail
    <3> QED
      BY <3>1, <3>2
  <2>3. Trails(ChainView) /\ Trails(IdleSweep.view)
    BY <1>1 DEF ChainView, Trails, IdleSweep, UnknownView, Types
  <2>4. CASE SweepEnds(w)
    <3>1. sweep[w].valid \in BOOLEAN
      BY <1>1 DEF Types, SweepState
    <3>2. \A v \in Workers : Trails(sweep'[v].view)
      BY <1>2, <2>3, <2>4, <3>1 DEF SweepEnds
    <3> QED
      BY <1>1, <1>5, <2>1, <2>2, <3>2 DEF HeightsTrail
  <2>5. CASE ~SweepEnds(w)
    <3>1. \E s : Moves(w, s) /\ s.view \in {ChainView, sweep[w].view, cache}
      <4>1. CASE SweepAsk(w) \/ SweepStore(w) \/ SweepAskFails(w)
        BY <1>1, <4>1, AskMoves, StoreMoves, AskFailsMoves
      <4>2. CASE SweepRows(w) \/ SweepRowsFails(w)
        BY <1>1, <4>2, RowsMoves, RowsFailsMoves
      <4>3. CASE \E row : SkipRow(w, row) \/ \E answer : FetchRow(w, row, answer)
        BY <1>1, <4>3, SkipMoves, FetchMoves
      <4>4. CASE ApplyRow(w) \/ RowFails(w)
        BY <1>1, <4>4, RowDoneMoves DEF ApplyRow, RowFails
      <4> QED
        BY <1>6, <2>5, <4>1, <4>2, <4>3, <4>4 DEF SweepStep
    <3>2. \A v \in Workers : Trails(sweep'[v].view)
      BY <1>1, <2>3, <3>1 DEF Moves, HeightsTrail, Types
    <3> QED
      BY <1>1, <1>5, <2>1, <2>2, <3>2 DEF HeightsTrail
  <2> QED
    BY <2>4, <2>5
<1>7. CASE EventStep
  <2>1. UNCHANGED <<chain, sweep>>
    BY <1>7 DEF EventStep, Subscribe, CursorExpired, Disconnect, Deliver, HandleReorg, HandleReorgFails
  <2>2. CASE Deliver
    <3>1. feed \in Seq(Envelope) /\ feed # <<>> /\ feed' = Tail(feed)
      BY <1>1, <2>2 DEF Types, Deliver
    <3>2. Trails(Head(feed)) /\ \A i \in 1..Len(feed') : Trails(feed'[i])
      BY <1>1, <3>1 DEF HeightsTrail
    <3>3. Trails(cache')
      BY <2>2, <3>2 DEF Deliver, StoreView, Trails
    <3> QED
      BY <1>1, <1>5, <2>1, <3>2, <3>3 DEF HeightsTrail
  <2>3. CASE ~Deliver
    <3>1. cache' = cache /\ feed' \in {feed, <<>>}
      BY <1>7, <2>3 DEF EventStep, Subscribe, CursorExpired, Disconnect, HandleReorg, HandleReorgFails
    <3> QED
      BY <1>1, <1>5, <2>1, <3>1 DEF HeightsTrail
  <2> QED
    BY <2>2, <2>3
<1>8. CASE Crash
  BY <1>1, <1>5, <1>8 DEF Crash, Trails, IdleSweep, UnknownView, Types
<1>9. CASE (\E p \in Payments : Settle(p)) \/ UNCHANGED vars
  BY <1>1, <1>5, <1>9 DEF Settle, vars, HeightsTrail
<1> QED
  BY <1>3, <1>4, <1>6, <1>7, <1>8, <1>9 DEF Next, ChainStep

-----------------------------------------------------------------------------
(* Steps that leave the chain and the ledger alone *)

LEMMA QuietStep ==
    ASSUME ReconcileInv, UNCHANGED <<settledTip, minedAt, ledger, sweep, clean>>
    PROVE  Truths'
<1> USE DEF ReconcileInv, Truths
<1>1. SettledRows' /\ \A w \in Workers : SweepIsSound(w)'
  BY DEF SettledRows, IsTrue, SweepIsSound, RowsAreKnown, AnswerIsTrue, AnswerIsCurrent, SkipsAreTrue
<1>2. NothingMissed'
  BY DEF NothingMissed, AllValid, Swept, RowAgrees, IsAhead
<1>3. SweepCatchesReorgs'
  BY DEF SweepCatchesReorgs, CaughtUp
<1> QED
  BY <1>1, <1>2, <1>3

(* One sweep goes on and stays sound; it does not become valid again. *)
LEMMA SweepGoesOn ==
    ASSUME ReconcileInv, NEW w \in Workers, NEW s, Moves(w, s), s.pc # "idle",
           UNCHANGED <<settledTip, minedAt, ledger, clean>>,
           \A row \in s.todo \cup s.row : row.payment \in DOMAIN ledger,
           s.pc \in {"idle", "store", "rows"} => s.todo = {},
           s.pc = "apply" => \A row \in s.row :
              /\ s.answer.kind = "mined" =>
                    s.answer.height # NoHeight /\ IsTrue(row.payment, s.answer.height)
              /\ s.valid =>
                    minedAt[row.payment] = IF s.answer.kind = "mined"
                                           THEN s.answer.height ELSE NoHeight,
           \A row \in s.todo :
              row.mined # NoHeight /\ row.mined <= s.view.settled =>
                 minedAt[row.payment] = row.mined,
           s.valid => sweep[w].pc = "idle" \/ sweep[w].valid,
           AllValid /\ s.valid /\ s.pc \in {"next", "apply"} =>
              \A p \in DOMAIN ledger :
                 \/ RowAgrees(p)
                 \/ \E row \in s.todo : row.payment = p /\ row.mined = ledger[p].mined
    PROVE  Truths'
<1>1. Types /\ SettledRows /\ NothingMissed /\ SweepCatchesReorgs /\ \A v \in Workers : SweepIsSound(v)
  BY DEF ReconcileInv, Truths
<1>2. /\ sweep'[w] = s
      /\ \A v \in Workers \ {w} : sweep'[v] = sweep[v]
  BY <1>1 DEF Moves, Types
<1>3. SettledRows'
  BY <1>1 DEF SettledRows, IsTrue
<1>4. ASSUME NEW v \in Workers PROVE SweepIsSound(v)'
  <2>1. CASE v = w
    BY <1>2, <2>1 DEF SweepIsSound, RowsAreKnown, AnswerIsTrue, AnswerIsCurrent, SkipsAreTrue, IsTrue
  <2>2. CASE v # w
    BY <1>1, <1>2, <2>2
    DEF SweepIsSound, RowsAreKnown, AnswerIsTrue, AnswerIsCurrent, SkipsAreTrue, IsTrue
  <2> QED
    BY <2>1, <2>2
<1>5. AllValid' => AllValid /\ s.valid
  BY <1>2 DEF AllValid
<1>6. NothingMissed'
  <2> SUFFICES ASSUME AllValid', NEW v \in Workers PROVE Swept(v)'
    BY DEF NothingMissed
  <2>1. CASE v = w
    BY <1>2, <1>5, <2>1 DEF Swept, RowAgrees, IsAhead
  <2>2. CASE v # w
    BY <1>1, <1>2, <1>5, <2>2 DEF NothingMissed, Swept, RowAgrees, IsAhead
  <2> QED
    BY <2>1, <2>2
<1>7. SweepCatchesReorgs'
  BY <1>1, <1>5 DEF SweepCatchesReorgs, CaughtUp, AllValid
<1> QED
  BY <1>3, <1>4, <1>6, <1>7 DEF Truths

LEMMA ReadingIsQuiet ==
    ASSUME ReconcileInv, NEW w \in Workers,
           SweepAsk(w) \/ SweepStore(w) \/ SweepAskFails(w)
    PROVE  Truths'
<1>1. Types /\ RowsAreKnown(w)
  BY DEF ReconcileInv, Truths, SweepIsSound
<1>2. UNCHANGED <<settledTip, minedAt, ledger, clean>>
  BY DEF SweepAsk, SweepStore, SweepAskFails, chain
<1>3. PICK s : /\ Moves(w, s) /\ s.pc \in {"store", "rows"} /\ s.todo = {}
               /\ s.row \subseteq sweep[w].row
               /\ s.valid => sweep[w].pc = "idle" \/ sweep[w].valid
  <2>1. CASE SweepAsk(w)
    BY <1>1, <2>1, AskMoves DEF SweepAsk
  <2>2. CASE SweepStore(w)
    BY <1>1, <2>2, StoreMoves DEF SweepStore, RowsAreKnown
  <2>3. CASE SweepAskFails(w)
    BY <1>1, <2>3, AskFailsMoves DEF SweepAskFails, RowsAreKnown
  <2> QED
    BY <2>1, <2>2, <2>3
<1>4. /\ \A row \in s.todo \cup s.row : row.payment \in DOMAIN ledger
      /\ s.pc \notin {"idle", "next", "apply"}
  BY <1>1, <1>3 DEF RowsAreKnown
<1> QED
  BY <1>2, <1>3, <1>4, SweepGoesOn

(* The rows are read as they are, so each one that disagrees is ahead. *)
LEMMA RowsAreRead ==
    ASSUME ReconcileInv, NEW w \in Workers, SweepRows(w)
    PROVE  Truths'
<1>1. Types /\ HeightsTrail /\ SettledRows /\ RowsAreKnown(w)
  BY DEF ReconcileInv, Truths, SweepIsSound
<1>2. UNCHANGED <<settledTip, minedAt, ledger, clean>>
  BY DEF SweepRows, chain
<1>3. PICK s : /\ Moves(w, s) /\ s.pc = "next" /\ s.view = sweep[w].view
               /\ s.todo = SuccessKindTransactions(ledger)
               /\ s.row = sweep[w].row /\ s.valid = sweep[w].valid
  BY <1>1, RowsMoves
<1>4. \A p \in DOMAIN ledger :
         \E row \in s.todo : row.payment = p /\ row.mined = ledger[p].mined
  <2> TAKE p \in DOMAIN ledger
  <2>1. SuccessKindRow(ledger, p) \in s.todo
    BY <1>1, <1>3 DEF SuccessKindTransactions, SettledRows
  <2> QED
    BY <2>1 DEF SuccessKindRow
<1>5. \A row \in s.todo : row.payment \in DOMAIN ledger /\ row.mined = ledger[row.payment].mined
  BY <1>3 DEF SuccessKindTransactions, SuccessKindRow
<1>6. \A row \in s.todo :
         row.mined # NoHeight /\ row.mined <= s.view.settled => minedAt[row.payment] = row.mined
  <2> TAKE row \in s.todo
  <2>1. /\ row.payment \in DOMAIN ledger /\ row.mined = ledger[row.payment].mined
        /\ row.mined \in Nat
    BY <1>1, <1>5 DEF Types, Row
  <2>2. s.view.settled \in Nat /\ settledTip \in Nat /\ s.view.settled <= settledTip
    BY <1>1, <1>3 DEF Types, SweepState, Views, HeightsTrail, Trails
  <2> QED
    BY <1>1, <2>1, <2>2 DEF SettledRows, IsTrue
<1>7. /\ \A row \in s.todo \cup s.row : row.payment \in DOMAIN ledger
      /\ s.pc \notin {"idle", "store", "rows", "apply"}
  BY <1>1, <1>3, <1>5 DEF RowsAreKnown
<1> QED
  BY <1>2, <1>3, <1>4, <1>6, <1>7, SweepGoesOn

(* A step that spoils the sweep makes no claim about the ledger any more. *)
LEMMA FailuresAreQuiet ==
    ASSUME ReconcileInv, NEW w \in Workers, SweepRowsFails(w) \/ RowFails(w)
    PROVE  Truths'
<1>1. Types /\ RowsAreKnown(w) /\ SkipsAreTrue(w)
  BY DEF ReconcileInv, Truths, SweepIsSound
<1>2. UNCHANGED <<settledTip, minedAt, ledger, clean>>
  BY DEF SweepRowsFails, RowFails, chain
<1>3. PICK s : /\ Moves(w, s) /\ s.pc = "next" /\ s.view = sweep[w].view /\ ~s.valid
               /\ s.todo \subseteq sweep[w].todo /\ s.row \subseteq sweep[w].row
  <2>1. CASE SweepRowsFails(w)
    BY <1>1, <2>1, RowsFailsMoves
  <2>2. CASE RowFails(w)
    BY <1>1, <2>2, RowDoneMoves DEF RowFails
  <2> QED
    BY <2>1, <2>2
<1>4. /\ \A row \in s.todo \cup s.row : row.payment \in DOMAIN ledger
      /\ \A row \in s.todo :
            row.mined # NoHeight /\ row.mined <= s.view.settled =>
               minedAt[row.payment] = row.mined
      /\ s.pc \notin {"idle", "store", "rows", "apply"}
  BY <1>1, <1>3 DEF RowsAreKnown, SkipsAreTrue
<1> QED
  BY <1>2, <1>3, <1>4, SweepGoesOn

(* A row may be skipped because its block left the reorg window: the row    *)
(* as it was read is right, so one that disagrees is another one.           *)
LEMMA SkipsAreQuiet ==
    ASSUME ReconcileInv, NEW w \in Workers, NEW row \in sweep[w].todo, SkipRow(w, row)
    PROVE  Truths'
<1>1. Types /\ NothingMissed /\ RowsAreKnown(w) /\ SkipsAreTrue(w)
  BY DEF ReconcileInv, Truths, SweepIsSound
<1>2. /\ UNCHANGED <<settledTip, minedAt, ledger, clean>> /\ sweep[w].pc = "next"
      /\ row.mined # NoHeight /\ row.mined <= sweep[w].view.settled
  BY DEF SkipRow, IsSkipped, IsSettledAt, chain
<1>3. PICK s : /\ Moves(w, s) /\ s.pc = sweep[w].pc /\ s.view = sweep[w].view
               /\ s.todo = sweep[w].todo \ {row} /\ s.row = sweep[w].row
               /\ s.answer = sweep[w].answer /\ s.valid = sweep[w].valid
  BY <1>1, SkipMoves
<1>4. minedAt[row.payment] = row.mined
  BY <1>1, <1>2 DEF SkipsAreTrue
<1>5. AllValid => \A p \in DOMAIN ledger :
         \/ RowAgrees(p)
         \/ \E r \in s.todo : r.payment = p /\ r.mined = ledger[p].mined
  BY <1>1, <1>2, <1>3, <1>4 DEF NothingMissed, Swept, IsAhead, RowAgrees
<1>6. /\ \A r \in s.todo \cup s.row : r.payment \in DOMAIN ledger
      /\ \A r \in s.todo :
            r.mined # NoHeight /\ r.mined <= s.view.settled => minedAt[r.payment] = r.mined
      /\ s.pc \notin {"idle", "store", "rows", "apply"}
  BY <1>1, <1>2, <1>3 DEF RowsAreKnown, SkipsAreTrue
<1> QED
  BY <1>2, <1>3, <1>5, <1>6, SweepGoesOn

(* The oracle's answer is what the chain says now. *)
LEMMA AnswersAreFresh ==
    ASSUME Types, NEW p \in Payments, NEW answer \in OracleAnswers(p)
    PROVE  /\ answer.kind = "mined" => answer.height # NoHeight /\ minedAt[p] = answer.height
           /\ answer.kind # "mined" => minedAt[p] = NoHeight
<1>1. CASE minedAt[p] # NoHeight
  BY <1>1 DEF OracleAnswers
<1>2. CASE minedAt[p] = NoHeight
  <2>1. answer.kind \in {"mempool", "not_found"}
    BY <1>2 DEF OracleAnswers, NoAnswer
  <2> QED
    BY <1>2, <2>1
<1> QED
  BY <1>1, <1>2

LEMMA FetchesAreQuiet ==
    ASSUME ReconcileInv, NEW w \in Workers, NEW row \in sweep[w].todo,
           NEW answer \in OracleAnswers(row.payment), FetchRow(w, row, answer)
    PROVE  Truths'
<1>1. Types /\ NothingMissed /\ RowsAreKnown(w) /\ SkipsAreTrue(w)
  BY DEF ReconcileInv, Truths, SweepIsSound
<1>2. UNCHANGED <<settledTip, minedAt, ledger, clean>> /\ sweep[w].pc = "next"
  BY DEF FetchRow, chain
<1>3. PICK s : /\ Moves(w, s) /\ s.pc = "apply" /\ s.view = sweep[w].view
               /\ s.todo = sweep[w].todo /\ s.row = {row}
               /\ s.answer = answer /\ s.valid = sweep[w].valid
  BY <1>1, FetchMoves
<1>4. row.payment \in DOMAIN ledger /\ row.payment \in Payments
  BY <1>1 DEF RowsAreKnown, Types
<1>5. \A r \in s.row :
         /\ s.answer.kind = "mined" =>
               s.answer.height # NoHeight /\ IsTrue(r.payment, s.answer.height)
         /\ minedAt[r.payment] = IF s.answer.kind = "mined" THEN s.answer.height ELSE NoHeight
  BY <1>1, <1>3, <1>4, AnswersAreFresh DEF IsTrue
<1>6. AllValid => \A p \in DOMAIN ledger :
         \/ RowAgrees(p)
         \/ \E r \in s.todo : r.payment = p /\ r.mined = ledger[p].mined
  BY <1>1, <1>2, <1>3 DEF NothingMissed, Swept, IsAhead
<1>7. /\ \A r \in s.todo \cup s.row : r.payment \in DOMAIN ledger
      /\ \A r \in s.todo :
            r.mined # NoHeight /\ r.mined <= s.view.settled => minedAt[r.payment] = r.mined
      /\ s.pc \notin {"idle", "store", "rows"}
  BY <1>1, <1>3, <1>4 DEF RowsAreKnown, SkipsAreTrue
<1> QED
  BY <1>2, <1>3, <1>5, <1>6, <1>7, SweepGoesOn

-----------------------------------------------------------------------------
(* Steps that write the ledger *)

(* reconcile_unsettled_row.  The answer may be old: it is still true of a   *)
(* block that left the reorg window, and of any block if no sweep is        *)
(* spoilt.                                                                  *)
LEMMA ApplyIsSound ==
    ASSUME ReconcileInv, NEW w \in Workers, ApplyRow(w)
    PROVE  Truths'
<1>1. /\ Types /\ SettledRows /\ NothingMissed /\ SweepCatchesReorgs
      /\ \A v \in Workers : SweepIsSound(v)
  BY DEF ReconcileInv, Truths
<1>2. PICK row \in sweep[w].row : ledger' = Reconciled(row, sweep[w].answer) /\ RowDone(w, row, TRUE)
  BY DEF ApplyRow
<1>3. PICK p : p = row.payment
  OBVIOUS
<1>4. PICK answer \in Answer : answer = sweep[w].answer
  BY <1>1 DEF Types, SweepState
<1>5. /\ sweep[w].pc = "apply" /\ p \in DOMAIN ledger
      /\ UNCHANGED <<settledTip, minedAt, clean>>
      /\ answer.kind = "mined" => answer.height # NoHeight /\ IsTrue(p, answer.height)
      /\ sweep[w].valid => minedAt[p] = IF answer.kind = "mined" THEN answer.height ELSE NoHeight
  BY <1>1, <1>3, <1>4 DEF ApplyRow, chain, SweepIsSound, RowsAreKnown, AnswerIsTrue, AnswerIsCurrent
<1>6. /\ ledger' \in [DOMAIN ledger -> Row]
      /\ \A q \in DOMAIN ledger :
            /\ ledger'[q].kind = ledger[q].kind
            /\ q # p => ledger'[q] = ledger[q]
      /\ \/ answer.kind = "mined" /\ ledger'[p].mined = answer.height
         \/ answer.kind # "mined" /\ row.mined # NoHeight /\ ledger'[p].mined = NoHeight
         \/ answer.kind # "mined" /\ row.mined = NoHeight /\ ledger'[p].mined = ledger[p].mined
  BY <1>1, <1>2, <1>3, <1>4, <1>5, ReconciledTable
<1>7. PICK s : /\ Moves(w, s) /\ s.pc = "next" /\ s.view = sweep[w].view
               /\ s.todo = sweep[w].todo \ {row} /\ s.row = {}
               /\ s.valid => sweep[w].valid
  BY <1>1, <1>2, RowDoneMoves
<1>8. /\ sweep'[w] = s
      /\ \A v \in Workers \ {w} : sweep'[v] = sweep[v]
  BY <1>1, <1>7 DEF Moves, Types
<1>9. SettledRows'
  BY <1>1, <1>5, <1>6 DEF SettledRows, IsTrue, IsSuccess
<1>10. ASSUME NEW v \in Workers PROVE SweepIsSound(v)'
  <2>1. CASE v = w
    BY <1>1, <1>5, <1>6, <1>7, <1>8, <2>1
    DEF SweepIsSound, RowsAreKnown, AnswerIsTrue, AnswerIsCurrent, SkipsAreTrue
  <2>2. CASE v # w
    BY <1>1, <1>5, <1>6, <1>8, <2>2
    DEF SweepIsSound, RowsAreKnown, AnswerIsTrue, AnswerIsCurrent, SkipsAreTrue, IsTrue
  <2> QED
    BY <2>1, <2>2
<1>11. AllValid' => AllValid /\ sweep[w].valid
  BY <1>7, <1>8 DEF AllValid
<1>12. AllValid' => ledger'[p].mined \in {NoHeight, ledger[p].mined, minedAt'[p]}
  BY <1>5, <1>6, <1>11
<1>13. ASSUME AllValid', NEW q \in DOMAIN ledger', RowAgrees(q) PROVE RowAgrees(q)'
  BY <1>5, <1>6, <1>12, <1>13 DEF RowAgrees
<1>14. NothingMissed'
  <2> SUFFICES ASSUME AllValid', NEW v \in Workers, (sweep[v].pc \in {"next", "apply"})',
                      NEW q \in DOMAIN ledger', ~RowAgrees(q)'
               PROVE  IsAhead(v, q)'
    BY DEF NothingMissed, Swept
  <2>1. q \in DOMAIN ledger /\ ~RowAgrees(q) /\ ledger'[q].mined = ledger[q].mined
    BY <1>5, <1>6, <1>12, <1>13 DEF RowAgrees
  <2>2. sweep[v].pc \in {"next", "apply"}
    BY <1>5, <1>8
  <2>3. PICK r \in sweep[v].todo : r.payment = q /\ r.mined = ledger[q].mined
    BY <1>1, <1>11, <2>1, <2>2 DEF NothingMissed, Swept, IsAhead
  <2>4. CASE v # w
    BY <1>8, <2>1, <2>3, <2>4 DEF IsAhead
  <2>5. CASE v = w
    <3>1. r # row
      BY <1>3, <1>5, <1>6, <1>11, <2>1, <2>3 DEF RowAgrees
    <3> QED
      BY <1>7, <1>8, <2>1, <2>3, <2>5, <3>1 DEF IsAhead
  <2> QED
    BY <2>4, <2>5
<1>15. SweepCatchesReorgs'
  <2> SUFFICES ASSUME CaughtUp', NEW q \in DOMAIN ledger' PROVE RowAgrees(q)'
    BY DEF SweepCatchesReorgs, RowAgrees
  <2>1. AllValid' /\ CaughtUp /\ q \in DOMAIN ledger
    BY <1>5, <1>6, <1>11 DEF CaughtUp, AllValid
  <2> QED
    BY <1>1, <1>13, <2>1 DEF SweepCatchesReorgs, RowAgrees
<1> QED
  BY <1>9, <1>10, <1>14, <1>15 DEF Truths

(* Rows whose height is kept or taken away, and rows that are new. *)
LEMMA UnminingIsSound ==
    ASSUME ReconcileInv, UNCHANGED <<settledTip, minedAt, sweep, clean>>,
           DOMAIN ledger \subseteq DOMAIN ledger',
           \A p \in DOMAIN ledger' :
              /\ IsSuccess(ledger'[p])
              /\ \/ ledger'[p].mined = NoHeight
                 \/ p \in DOMAIN ledger /\ ledger'[p].mined = ledger[p].mined
    PROVE  Truths'
<1>1. /\ Types /\ SettledRows /\ NothingMissed /\ SweepCatchesReorgs
      /\ \A w \in Workers : SweepIsSound(w)
  BY DEF ReconcileInv, Truths
<1>2. SettledRows'
  BY <1>1 DEF SettledRows, IsTrue, IsSuccess
<1>3. \A w \in Workers : SweepIsSound(w)'
  BY <1>1 DEF SweepIsSound, RowsAreKnown, AnswerIsTrue, AnswerIsCurrent, SkipsAreTrue, IsTrue
<1>4. ASSUME NEW p \in DOMAIN ledger', ~RowAgrees(p)'
      PROVE  p \in DOMAIN ledger /\ ~RowAgrees(p) /\ ledger'[p].mined = ledger[p].mined
  BY <1>4 DEF RowAgrees
<1>5. NothingMissed'
  <2> SUFFICES ASSUME AllValid', NEW w \in Workers, (sweep[w].pc \in {"next", "apply"})',
                      NEW p \in DOMAIN ledger', ~RowAgrees(p)'
               PROVE  IsAhead(w, p)'
    BY DEF NothingMissed, Swept
  <2>1. AllValid /\ sweep[w].pc \in {"next", "apply"}
    BY DEF AllValid
  <2>2. IsAhead(w, p)
    BY <1>1, <1>4, <2>1 DEF NothingMissed, Swept
  <2> QED
    BY <1>4, <2>2 DEF IsAhead
<1>6. SweepCatchesReorgs'
  BY <1>1 DEF SweepCatchesReorgs, CaughtUp
<1> QED
  BY <1>2, <1>3, <1>5, <1>6 DEF Truths

LEMMA SettleIsSound ==
    ASSUME ReconcileInv, NEW p \in Payments, Settle(p)
    PROVE  Truths'
<1>1. Types /\ SettledRows
  BY DEF ReconcileInv, Truths
<1>2. ledger' = Put(ledger, p, FreshRow("accepted", p, Expiry))
      /\ UNCHANGED <<settledTip, minedAt, sweep, clean>>
  BY DEF Settle, Record, chain
<1>3. \A q \in DOMAIN ledger' :
         /\ IsSuccess(ledger'[q])
         /\ \/ ledger'[q].mined = NoHeight
            \/ q \in DOMAIN ledger /\ ledger'[q].mined = ledger[q].mined
  BY <1>1, <1>2 DEF Put, FreshRow, SettledRows, IsSuccess, SuccessKinds
<1>4. DOMAIN ledger \subseteq DOMAIN ledger'
  BY <1>2 DEF Put
<1> QED
  BY <1>2, <1>3, <1>4, UnminingIsSound

LEMMA HandleReorgIsSound ==
    ASSUME ReconcileInv, HandleReorg
    PROVE  Truths'
<1>1. Types /\ SettledRows
  BY DEF ReconcileInv, Truths
<1>2. ledger' = DowngradeReorgedRange(ledger, sub.first, sub.last)
      /\ UNCHANGED <<settledTip, minedAt, sweep, clean>>
  BY DEF HandleReorg, chain
<1>3. /\ DOMAIN ledger' = DOMAIN ledger
      /\ \A p \in DOMAIN ledger :
            /\ ledger'[p].kind = ledger[p].kind
            /\ ledger'[p].mined \in {NoHeight, ledger[p].mined}
  BY <1>1, <1>2, DowngradedTable
<1>4. \A p \in DOMAIN ledger' :
         /\ IsSuccess(ledger'[p])
         /\ ledger'[p].mined = NoHeight \/ (p \in DOMAIN ledger /\ ledger'[p].mined = ledger[p].mined)
  BY <1>1, <1>3 DEF SettledRows, IsSuccess
<1> QED
  BY <1>2, <1>3, <1>4, UnminingIsSound

-----------------------------------------------------------------------------
(* Steps of the chain, the end of a sweep and the crash *)

(* When blocks leave the reorg window the sweeps have caught up (Paced), so *)
(* every row and every answer on its way agrees with the chain; whatever    *)
(* was settled before does not move any more.                               *)
LEMMA ChainMoves ==
    ASSUME ReconcileInv, Types', settledTip <= settledTip', ledger' = ledger,
           \A p \in Payments :
              minedAt[p] # NoHeight /\ minedAt[p] <= settledTip => minedAt'[p] = minedAt[p],
           settledTip' # settledTip =>
              /\ CaughtUp
              /\ \A p \in Payments : minedAt[p] # NoHeight => minedAt'[p] = minedAt[p],
           \/ sweep' = Outdated /\ clean' = FALSE
           \/ UNCHANGED <<minedAt, sweep, clean>>
    PROVE  Truths'
<1>1. /\ Types /\ HeightsTrail /\ SettledRows /\ NothingMissed /\ SweepCatchesReorgs
      /\ \A w \in Workers : SweepIsSound(w)
  BY DEF ReconcileInv, Truths
<1>2. /\ settledTip \in Nat /\ settledTip' \in Nat
      /\ \A p \in DOMAIN ledger : p \in Payments /\ ledger[p].mined \in Nat
  BY <1>1 DEF Types, Row
<1>3. SettledRows'
  <2> SUFFICES ASSUME NEW p \in DOMAIN ledger, ledger[p].mined # NoHeight,
                      ledger[p].mined <= settledTip'
               PROVE  minedAt'[p] = ledger[p].mined
    BY <1>1 DEF SettledRows, IsTrue, IsSuccess
  <2>1. CASE settledTip' = settledTip
    BY <1>1, <1>2, <2>1 DEF SettledRows, IsTrue
  <2>2. CASE settledTip' # settledTip
    BY <1>1, <1>2, <2>2 DEF SweepCatchesReorgs
  <2> QED
    BY <2>1, <2>2
<1>4. ASSUME NEW w \in Workers
      PROVE  \/ sweep'[w].pc = "idle" /\ sweep'[w].todo = {} /\ sweep'[w].row = {}
             \/ /\ sweep'[w].pc = sweep[w].pc /\ sweep'[w].view = sweep[w].view
                /\ sweep'[w].todo = sweep[w].todo /\ sweep'[w].row = sweep[w].row
                /\ sweep'[w].answer = sweep[w].answer
                /\ sweep'[w].valid => sweep[w].valid /\ minedAt' = minedAt
  <2>1. CASE sweep' = Outdated
    BY <1>1, <2>1, MarkedSweep DEF Outdated
  <2>2. CASE UNCHANGED <<minedAt, sweep, clean>>
    BY <2>2
  <2> QED
    BY <2>1, <2>2
<1>5. ASSUME NEW w \in Workers PROVE SweepIsSound(w)'
  <2>1. CASE sweep'[w].pc = "idle" /\ sweep'[w].todo = {} /\ sweep'[w].row = {}
    BY <2>1 DEF SweepIsSound, RowsAreKnown, AnswerIsTrue, AnswerIsCurrent, SkipsAreTrue
  <2>2. CASE ~(sweep'[w].pc = "idle" /\ sweep'[w].todo = {} /\ sweep'[w].row = {})
    <3>1. /\ sweep'[w].pc = sweep[w].pc /\ sweep'[w].view = sweep[w].view
          /\ sweep'[w].todo = sweep[w].todo /\ sweep'[w].row = sweep[w].row
          /\ sweep'[w].answer = sweep[w].answer
          /\ sweep'[w].valid => sweep[w].valid /\ minedAt' = minedAt
      BY <1>4, <2>2
    <3>2. SweepIsSound(w)
      BY <1>1
    <3>3. /\ sweep[w].view.settled \in Nat /\ sweep[w].answer.height \in Nat
          /\ sweep[w].view.settled <= settledTip
          /\ \A row \in sweep[w].todo \cup sweep[w].row : row.mined \in Nat /\ row.payment \in Payments
      <4>1. sweep[w] \in SweepState /\ Trails(sweep[w].view)
        BY <1>1 DEF Types, HeightsTrail
      <4>2. \A row \in sweep[w].todo \cup sweep[w].row : row \in SweepRow
        BY <4>1 DEF SweepState
      <4>3. sweep[w].view \in Views /\ sweep[w].answer \in Answer
        BY <4>1 DEF SweepState
      <4> QED
        BY <4>1, <4>2, <4>3 DEF Views, Answer, SweepRow, Trails
    <3>4. RowsAreKnown(w)'
      BY <3>1, <3>2 DEF SweepIsSound, RowsAreKnown
    <3>5. AnswerIsTrue(w)'
      <4> SUFFICES ASSUME NEW row \in sweep[w].row, sweep[w].pc = "apply",
                          sweep[w].answer.kind = "mined"
                   PROVE  /\ sweep[w].answer.height # NoHeight
                          /\ sweep[w].answer.height <= settledTip' =>
                                minedAt'[row.payment] = sweep[w].answer.height
        BY <3>1 DEF AnswerIsTrue, IsTrue
      <4>1. /\ sweep[w].answer.height # NoHeight /\ IsTrue(row.payment, sweep[w].answer.height)
            /\ sweep[w].valid => minedAt[row.payment] = sweep[w].answer.height
        BY <3>2 DEF SweepIsSound, AnswerIsTrue, AnswerIsCurrent
      <4>2. CASE settledTip' = settledTip
        BY <3>3, <4>1, <4>2 DEF IsTrue
      <4>3. CASE settledTip' # settledTip
        <5>1. sweep[w].valid
          BY <4>3 DEF CaughtUp
        <5> QED
          BY <3>3, <4>1, <4>3, <5>1
      <4> QED
        BY <4>1, <4>2, <4>3
    <3>6. AnswerIsCurrent(w)'
      BY <3>1, <3>2 DEF SweepIsSound, AnswerIsCurrent
    <3>7. SkipsAreTrue(w)'
      <4> SUFFICES ASSUME NEW row \in sweep[w].todo, row.mined # NoHeight,
                          row.mined <= sweep[w].view.settled
                   PROVE  minedAt'[row.payment] = row.mined
        BY <3>1 DEF SkipsAreTrue
      <4>1. minedAt[row.payment] = row.mined
        BY <3>2 DEF SweepIsSound, SkipsAreTrue
      <4>2. row.payment \in Payments /\ row.mined <= settledTip
        BY <1>2, <3>3
      <4> QED
        BY <4>1, <4>2
    <3> QED
      BY <3>4, <3>5, <3>6, <3>7 DEF SweepIsSound
  <2> QED
    BY <2>1, <2>2
<1>6. NothingMissed' /\ SweepCatchesReorgs'
  <2>1. CASE sweep' = Outdated /\ clean' = FALSE
    <3>1. \A w \in Workers : sweep'[w].pc = "idle" \/ ~sweep'[w].valid
      BY <1>1, <2>1, MarkedSweep DEF Outdated
    <3>2. AllValid' => \A w \in Workers : sweep'[w].pc = "idle"
      BY <3>1 DEF AllValid
    <3>3. NothingMissed'
      BY <3>2 DEF NothingMissed, Swept
    <3> QED
      BY <2>1, <3>3 DEF SweepCatchesReorgs, CaughtUp
  <2>2. CASE UNCHANGED <<minedAt, sweep, clean>>
    BY <1>1, <2>2 DEF NothingMissed, AllValid, Swept, RowAgrees, IsAhead, SweepCatchesReorgs, CaughtUp
  <2> QED
    BY <2>1, <2>2
<1> QED
  BY <1>3, <1>5, <1>6 DEF Truths

LEMMA MineBlockIsSound ==
    ASSUME ReconcileInv, Types', Paced, NEW txs \in SUBSET Payments, MineBlock(txs)
    PROVE  Truths'
<1>1. Types /\ settledTip <= tip
  BY DEF ReconcileInv, HeightsTrail
<1>2. settledTip <= settledTip' /\ ledger' = ledger
  BY <1>1, SettledAfterTrails DEF MineBlock, Types
<1>3. \A p \in Payments : minedAt[p] # NoHeight => minedAt'[p] = minedAt[p]
  BY DEF MineBlock
<1>4. settledTip' # settledTip => CaughtUp
  BY <1>1, SettledAfterTrails DEF MineBlock, Types
<1>5. \/ sweep' = Outdated /\ clean' = FALSE
      \/ UNCHANGED <<minedAt, sweep, clean>>
  BY <1>1 DEF MineBlock, Types
<1> QED
  BY <1>2, <1>3, <1>4, <1>5, ChainMoves

LEMMA ReorgIsSound ==
    ASSUME ReconcileInv, Types', NEW first \in 1..MaxTip, NEW again \in SUBSET Payments,
           Reorg(first, again)
    PROVE  Truths'
<1>1. Types
  BY DEF ReconcileInv
<1>2. /\ ledger' = ledger /\ settledTip' = settledTip /\ settledTip <= settledTip'
      /\ sweep' = Outdated /\ clean' = FALSE
  BY <1>1 DEF Reorg, Types
<1>3. \A p \in Payments : minedAt[p] # NoHeight /\ minedAt[p] <= settledTip => minedAt'[p] = minedAt[p]
  BY <1>1, ReconcileAssumption DEF Reorg, Types
<1> QED
  BY <1>2, <1>3, ChainMoves

(* A sweep that ends in order has left every row in agreement; one that was *)
(* spoilt vouches for nothing and spoils the one it overlaps with.          *)
LEMMA SweepEndIsSound ==
    ASSUME ReconcileInv, NEW w \in Workers, SweepEnds(w)
    PROVE  Truths'
<1>1. /\ Types /\ SettledRows /\ NothingMissed
      /\ \A v \in Workers : SweepIsSound(v)
  BY DEF ReconcileInv, Truths
<1>2. /\ UNCHANGED <<settledTip, minedAt, ledger>> /\ sweep[w].pc = "next"
      /\ sweep[w].todo = {} /\ clean' = sweep[w].valid /\ sweep[w].valid \in BOOLEAN
  BY <1>1 DEF SweepEnds, chain, Types, SweepState
<1>3. sweep'[w] = IdleSweep
  BY DEF SweepEnds
<1>4. ASSUME NEW v \in Workers
      PROVE  \/ sweep'[v].pc = "idle" /\ sweep'[v].todo = {} /\ sweep'[v].row = {}
             \/ /\ v # w /\ sweep'[v].pc = sweep[v].pc /\ sweep'[v].view = sweep[v].view
                /\ sweep'[v].todo = sweep[v].todo /\ sweep'[v].row = sweep[v].row
                /\ sweep'[v].answer = sweep[v].answer
                /\ sweep'[v].valid => sweep[v].valid /\ sweep[w].valid
  <2>1. CASE v = w
    BY <1>3, <2>1 DEF IdleSweep
  <2>2. CASE v # w
    <3>1. sweep'[v] = Marked(v, sweep[w].valid)
      BY <2>2 DEF SweepEnds
    <3> QED
      BY <1>1, <1>2, <2>2, <3>1, MarkedSweep
  <2> QED
    BY <2>1, <2>2
<1>5. SettledRows'
  BY <1>1, <1>2 DEF SettledRows, IsTrue
<1>6. ASSUME NEW v \in Workers PROVE SweepIsSound(v)'
  BY <1>1, <1>2, <1>4 DEF SweepIsSound, RowsAreKnown, AnswerIsTrue, AnswerIsCurrent, SkipsAreTrue, IsTrue
<1>7. ASSUME AllValid', NEW v \in Workers, sweep'[v].pc # "idle"
      PROVE  AllValid /\ Swept(v)'
  <2>1. AllValid
    BY <1>2, <1>4, <1>7, MarkedSweep, <1>1 DEF AllValid, SweepEnds, IdleSweep
  <2> QED
    BY <1>1, <1>2, <1>4, <1>7, <2>1 DEF NothingMissed, Swept, RowAgrees, IsAhead
<1>8. NothingMissed'
  BY <1>7 DEF NothingMissed, Swept
<1>9. SweepCatchesReorgs'
  <2> SUFFICES ASSUME CaughtUp', NEW p \in DOMAIN ledger PROVE RowAgrees(p)
    BY <1>2 DEF SweepCatchesReorgs, RowAgrees
  <2>1. sweep[w].valid
    BY <1>2 DEF CaughtUp
  <2>2. AllValid
    BY <1>1, <1>2, <2>1, MarkedSweep DEF CaughtUp, AllValid, SweepEnds
  <2> QED
    BY <1>1, <1>2, <2>2 DEF NothingMissed, Swept, IsAhead
<1> QED
  BY <1>5, <1>6, <1>8, <1>9 DEF Truths

LEMMA CrashIsSound ==
    ASSUME ReconcileInv, Crash
    PROVE  Truths'
<1>1. SettledRows
  BY DEF ReconcileInv, Truths
<1>2. /\ UNCHANGED <<settledTip, minedAt, ledger>> /\ clean' = FALSE
      /\ \A w \in Workers : sweep'[w] = IdleSweep
  BY DEF Crash, chain
<1>3. SettledRows'
  BY <1>1, <1>2 DEF SettledRows, IsTrue
<1>4. \A w \in Workers : SweepIsSound(w)'
  BY <1>2 DEF SweepIsSound, RowsAreKnown, AnswerIsTrue, AnswerIsCurrent, SkipsAreTrue, IdleSweep
<1>5. NothingMissed' /\ SweepCatchesReorgs'
  BY <1>2 DEF NothingMissed, Swept, IdleSweep, SweepCatchesReorgs, CaughtUp
<1> QED
  BY <1>3, <1>4, <1>5 DEF Truths

-----------------------------------------------------------------------------
(* The theorems *)

LEMMA InitialTypes == Init => Types /\ HeightsTrail
<1> SUFFICES ASSUME Init PROVE Types /\ HeightsTrail
  OBVIOUS
<1>1. feed \in Seq(Envelope) /\ Len(feed) = 0
  BY DEF Init
<1>2. sweep \in [Workers -> SweepState] /\ minedAt \in [Payments -> Nat]
  BY ConstantTypes DEF Init
<1>3. ledger \in [DOMAIN ledger -> Row] /\ DOMAIN ledger = {}
  BY DEF Init, NoRows
<1>4. Types
  BY <1>1, <1>2, <1>3, ConstantTypes DEF Init, Types
<1>5. \A w \in Workers : Trails(sweep[w].view)
  BY DEF Init, IdleSweep, UnknownView, Trails
<1>6. HeightsTrail
  BY <1>1, <1>5, ReconcileAssumption DEF Init, HeightsTrail, Trails, UnknownView, NoHeight
<1> QED
  BY <1>4, <1>6

(* The tables and the views are of their types, and the cached view is      *)
(* never ahead of the chain, at whatever pace the chain moves and whichever *)
(* of the two writers of the cache came last.                               *)
THEOREM ReconcileTypes == Spec => []TypeOK
<1>1. Types /\ HeightsTrail /\ [Next]_vars => Types' /\ HeightsTrail'
  BY TypesStep, HeightsStep
<1>2. Types /\ HeightsTrail => TypeOK
  <2> SUFFICES ASSUME Types, HeightsTrail PROVE TypeOK
    OBVIOUS
  <2>1. tip \in 1..MaxTip /\ settledTip \in 0..tip
    BY DEF Types, HeightsTrail
  <2>2. minedAt \in [Payments -> 0..tip]
    BY DEF Types, HeightsTrail
  <2>3. \A w \in Workers : sweep[w].view \in Views /\ sweep[w].answer.kind \in AnswerKinds
    BY DEF Types, SweepState, Answer
  <2> QED
    BY <2>1, <2>2, <2>3 DEF Types, HeightsTrail, Trails, TypeOK
<1> QED
  BY <1>1, <1>2, InitialTypes, PTL DEF Spec

LEMMA InitialTruths == Init => Truths
  BY DEF Init, NoRows, Truths, SettledRows, SweepIsSound, RowsAreKnown, AnswerIsTrue, AnswerIsCurrent,
    SkipsAreTrue, IdleSweep, NothingMissed, Swept, SweepCatchesReorgs, CaughtUp

LEMMA ReconcileStep == ReconcileInv /\ Paced /\ [Next]_vars => ReconcileInv'
<1> SUFFICES ASSUME ReconcileInv, Paced, [Next]_vars PROVE ReconcileInv'
  OBVIOUS
<1>1. Types' /\ HeightsTrail'
  BY TypesStep, HeightsStep DEF ReconcileInv
<1>2. ASSUME ChainStep PROVE Truths'
  BY <1>1, <1>2, MineBlockIsSound, ReorgIsSound DEF ChainStep
<1>3. ASSUME NEW p \in Payments, Settle(p) PROVE Truths'
  BY <1>3, SettleIsSound
<1>4. ASSUME NEW w \in Workers, SweepStep(w) PROVE Truths'
  <2>1. CASE SweepAsk(w) \/ SweepStore(w) \/ SweepAskFails(w)
    BY <2>1, ReadingIsQuiet
  <2>2. CASE SweepRows(w)
    BY <2>2, RowsAreRead
  <2>3. CASE SweepRowsFails(w) \/ RowFails(w)
    BY <2>3, FailuresAreQuiet
  <2>4. CASE \E row \in sweep[w].todo : SkipRow(w, row)
    BY <2>4, SkipsAreQuiet
  <2>5. CASE \E row \in sweep[w].todo : \E answer \in OracleAnswers(row.payment) :
                FetchRow(w, row, answer)
    BY <2>5, FetchesAreQuiet
  <2>6. CASE ApplyRow(w)
    BY <2>6, ApplyIsSound
  <2>7. CASE SweepEnds(w)
    BY <2>7, SweepEndIsSound
  <2> QED
    BY <1>4, <2>1, <2>2, <2>3, <2>4, <2>5, <2>6, <2>7 DEF SweepStep
<1>5. ASSUME EventStep PROVE Truths'
  <2>1. CASE HandleReorg
    BY <2>1, HandleReorgIsSound
  <2>2. CASE ~HandleReorg
    <3>1. UNCHANGED <<settledTip, minedAt, ledger, sweep, clean>>
      BY <1>5, <2>2 DEF EventStep, Subscribe, CursorExpired, Disconnect, Deliver, HandleReorgFails, chain
    <3> QED
      BY <3>1, QuietStep
  <2> QED
    BY <2>1, <2>2
<1>6. ASSUME Crash PROVE Truths'
  BY <1>6, CrashIsSound
<1>7. ASSUME UNCHANGED vars PROVE Truths'
  BY <1>7, QuietStep DEF vars
<1> QED
  BY <1>1, <1>2, <1>3, <1>4, <1>5, <1>6, <1>7 DEF Next, ReconcileInv

LEMMA ReconcileHolds == ASSUME Paced PROVE Spec => []ReconcileInv
<1>1. Init => ReconcileInv
  BY InitialTypes, InitialTruths DEF ReconcileInv
<1>2. ReconcileInv /\ [Next]_vars => ReconcileInv'
  BY ReconcileStep
<1> QED
  BY <1>1, <1>2, PTL DEF Spec

(* What a lookup reports settled is mined at the height its row says and    *)
(* below every reorg, although rows are written from answers that may be    *)
(* stale and the cached view by two tasks: for any number of payments,      *)
(* reorgs, faults and crashes, at the pace of the sweeps.                   *)
THEOREM SettledIsTrue == ASSUME Paced PROVE Spec => []SettledTruth
<1>1. ReconcileInv => SettledTruth
  <2> SUFFICES ASSUME ReconcileInv, NEW p \in DOMAIN ledger, ReadsSettled(ledger[p], cache)
               PROVE  minedAt[p] = ledger[p].mined /\ minedAt[p] <= settledTip
    BY DEF SettledTruth
  <2>1. ledger[p].mined # NoHeight /\ ledger[p].mined <= cache.settled
    BY DEF ReadsSettled, ReadsMined, IsSettledAt
  <2>2. /\ ledger[p].mined \in Nat /\ cache.settled \in Nat /\ settledTip \in Nat
        /\ cache.settled <= settledTip
    BY DEF ReconcileInv, Types, Row, Views, HeightsTrail, Trails
  <2>3. ledger[p].mined <= settledTip
    BY <2>1, <2>2
  <2> QED
    BY <2>1, <2>3 DEF ReconcileInv, Truths, SettledRows, IsTrue
<1> QED
  BY <1>1, ReconcileHolds, PTL

(* A sweep that began after the last change of the chain and ended in order *)
(* leaves no row that claims a block which was reorged out, whatever the    *)
(* other sweep and the event task wrote meanwhile.                          *)
THEOREM SweepsCatchReorgs == ASSUME Paced PROVE Spec => []SweepCatchesReorgs
<1>1. ReconcileInv => SweepCatchesReorgs
  BY DEF ReconcileInv, Truths
<1> QED
  BY <1>1, ReconcileHolds, PTL
=============================================================================
