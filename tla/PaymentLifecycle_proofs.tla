------------------------ MODULE PaymentLifecycle_proofs ------------------------
(***************************************************************************)
(* Theorems about PaymentLifecycle for every set of payments, agents,      *)
(* requests and transactions and every bound.                              *)
(***************************************************************************)
EXTENDS PaymentLifecycle, TLAPS

-----------------------------------------------------------------------------
(* The row a settle writes is a ledger row. *)
LEMMA FreshRowType ==
    ASSUME NEW kind \in Kinds, NEW tx \in Txs \cup {NoTx}, NEW expiry \in Nat
    PROVE  FreshRow(kind, tx, expiry) \in Row
  BY DEF FreshRow, Row, NoCount, NoHeight

-----------------------------------------------------------------------------
(* The inductive invariant *)

(* What is in the prepared store is what the payment was issued with. *)
PreparedAsIssued == \A p \in DOMAIN prepared : prepared[p] = issued[p]

(* What a settle under way knows.  It works on an issued payment and holds  *)
(* the expiry it was issued with; once it knows of a success the network    *)
(* has the transaction; when it is about to remove the preparation the row  *)
(* is there.                                                                *)
SettlerKnows ==
    \A s \in Settlers : settlers[s].pc # "idle" =>
        /\ settlers[s].payment \in DOMAIN issued
        /\ settlers[s].expiry = issued[settlers[s].payment].expiry
        /\ settlers[s].tx \in Txs
        /\ settlers[s].pc = "record" /\ settlers[s].kind \in SuccessKinds
              => <<settlers[s].payment, settlers[s].tx>> \in taken
        /\ settlers[s].pc = "remove" => settlers[s].payment \in DOMAIN ledger

(* A prepare at its insert knows its agent. *)
PreparerKnows ==
    \A a \in Preparers : preparers[a].pc = "insert" => preparers[a].jkt \in Jkts

(* A lookup at its second read asks about a payment id. *)
ReaderKnows ==
    \A r \in Readers : readers[r].pc = "prepared" => readers[r].payment \in Payments

TypeInv == TypeOK /\ PreparedAsIssued /\ SettlerKnows /\ PreparerKnows /\ ReaderKnows

LEMMA TypeInit == Init => TypeInv
  BY LifecycleAssumption
  DEF Init, TypeInv, TypeOK, PreparedAsIssued, SettlerKnows, PreparerKnows, ReaderKnows,
      NoRows, IdlePreparer, IdleSettler, PreparerState, SettlerState, ReaderState, NothingSeen,
      PaymentStatusSnapshot, Statuses, Kinds, FailureKinds

(* Answering a lookup leaves the reader a reader. *)
LEMMA AnsweredType ==
    ASSUME TypeOK, NEW r \in Readers, NEW p \in Payments,
           NEW snapshot \in PaymentStatusSnapshot
    PROVE  Answered(r, p, snapshot) \in [Readers -> ReaderState]
<1> DEFINE u == [readers[r] EXCEPT !.pc = "idle", !.payment = NoKey, !.seen[p] = snapshot]
<1>1. readers[r] \in ReaderState /\ readers \in [Readers -> ReaderState]
  BY DEF TypeOK
<1>2. u \in ReaderState
  BY <1>1 DEF ReaderState
<1> QED
  BY <1>1, <1>2 DEF Answered

(* A settle that moves on stays a settle of the same payment. *)
LEMMA MovedSettler ==
    ASSUME NEW t \in SettlerState, NEW pc \in {"record", "remove"}, NEW kind \in Kinds
    PROVE  LET u == [t EXCEPT !.pc = pc, !.kind = kind]
           IN  /\ u \in SettlerState /\ u.pc = pc /\ u.kind = kind
               /\ u.payment = t.payment /\ u.tx = t.tx /\ u.expiry = t.expiry
  BY DEF SettlerState

(* Each action keeps the types and what the tasks know. *)
LEMMA TypeStep == TypeInv /\ [Next]_vars => TypeInv'
<1> SUFFICES ASSUME TypeInv, [Next]_vars PROVE TypeInv'
  OBVIOUS
<1> USE LifecycleAssumption
<1> USE DEF TypeInv, TypeOK, PreparedAsIssued, SettlerKnows, PreparerKnows, ReaderKnows,
            stores, chain, tasks, bounds
<1>1. ASSUME NEW a \in Preparers, NEW jkt \in Jkts, NEW key \in Keys \cup {NoKey},
             PrepareReplay(a, jkt, key)
      PROVE  TypeInv'
  BY <1>1 DEF PrepareReplay, Holders
<1>2. ASSUME NEW a \in Preparers, NEW jkt \in Jkts, NEW key \in Keys \cup {NoKey},
             PrepareMiss(a, jkt, key)
      PROVE  TypeInv'
  BY <1>2 DEF PrepareMiss, PreparerState
<1>3. ASSUME NEW a \in Preparers, NEW p \in Payments, NEW expiry \in Expiries,
             PrepareInsert(a, p, expiry)
      PROVE  TypeInv'
  <2> DEFINE row == [jkt |-> preparers[a].jkt, key |-> preparers[a].key,
                     expiry |-> expiry, deadline |-> now + Validity]
  <2>1. row \in Preparation
    BY <1>3 DEF PrepareInsert, Preparation, PreparerState
  <2>2. /\ p \notin DOMAIN issued
        /\ issued' = Put(issued, p, row) /\ prepared' = Put(prepared, p, row)
        /\ answers' = answers \cup
              {[jkt |-> preparers[a].jkt, key |-> preparers[a].key, payment |-> p]}
        /\ preparers' = [preparers EXCEPT ![a] = IdlePreparer]
        /\ UNCHANGED <<ledger, taken, won, settlers, readers, now, interruptions>>
    BY <1>3 DEF PrepareInsert
  <2> HIDE DEF row
  <2>3. /\ issued' \in [DOMAIN issued' -> Preparation]
        /\ DOMAIN issued' = DOMAIN issued \cup {p}
        /\ issued'[p] = row /\ \A x \in DOMAIN issued : issued'[x] = issued[x]
    BY <2>1, <2>2 DEF Put
  <2>4. /\ prepared' \in [DOMAIN prepared' -> Preparation]
        /\ DOMAIN prepared' = DOMAIN prepared \cup {p}
        /\ prepared'[p] = row /\ \A x \in DOMAIN prepared : prepared'[x] = prepared[x]
    BY <2>1, <2>2 DEF Put
  <2>5. answers' \subseteq [jkt : Jkts, key : Keys \cup {NoKey}, payment : Payments]
    BY <1>3, <2>2 DEF PrepareInsert, PreparerState
  <2>6. preparers' \in [Preparers -> PreparerState] /\ PreparerKnows'
    BY <2>2 DEF PreparerState, IdlePreparer
  <2>7. TypeOK'
    BY <2>2, <2>3, <2>4, <2>5, <2>6
  <2>8. SettlerKnows'
    BY <2>2, <2>3
  <2> QED
    BY <2>2, <2>3, <2>4, <2>6, <2>7, <2>8
<1>4. ASSUME NEW a \in Preparers, PrepareError(a) PROVE TypeInv'
  BY <1>4 DEF PrepareError, PreparerState, IdlePreparer
<1>5. ASSUME NEW s \in Settlers, NEW p \in Payments, NEW route, NEW jkt \in Jkts,
             NEW tx \in Txs, NEW signedExpiry \in Expiries,
             SettleFind(s, p, route, jkt, tx, signedExpiry)
      PROVE  TypeInv'
  <2>1. p \in DOMAIN prepared /\ prepared[p].expiry \in Nat
    BY <1>5 DEF SettleFind, Accepts, Preparation
  <2> QED
    BY <1>5, <2>1 DEF SettleFind, SettlerState, Kinds, FailureKinds
<1>6. ASSUME NEW s \in Settlers, NEW kind \in Kinds, SettleSubmit(s, kind)
      PROVE  TypeInv'
  <2> DEFINE t == [settlers[s] EXCEPT !.pc = "record", !.kind = kind]
  <2>1. /\ t \in SettlerState /\ t.pc = "record" /\ t.kind = kind
        /\ t.payment = settlers[s].payment /\ t.tx = settlers[s].tx
        /\ t.expiry = settlers[s].expiry
    <3>1. settlers[s] \in SettlerState
      OBVIOUS
    <3> QED
      BY ONLY <3>1, MovedSettler
  <2>2. /\ settlers[s].pc = "submit"
        /\ settlers' = [settlers EXCEPT ![s] = t]
        /\ UNCHANGED <<issued, answers, prepared, ledger, preparers, readers, now,
                       interruptions>>
    BY <1>6 DEF SettleSubmit
  <2>3. /\ taken \subseteq taken' /\ taken' \subseteq Payments \X Txs
        /\ won' \subseteq taken'
        /\ kind \in SuccessKinds => <<settlers[s].payment, settlers[s].tx>> \in taken'
    BY <1>6 DEF SettleSubmit, SubmitEffect, Kinds, SuccessKinds, FailureKinds
  <2> HIDE DEF t
  <2> QED
    BY <2>1, <2>2, <2>3
<1>7. ASSUME NEW s \in Settlers, SettleUnavailable(s) PROVE TypeInv'
  BY <1>7 DEF SettleUnavailable, SubmitEffect, SettlerState, Done, IdleSettler,
              Kinds, SuccessKinds, FailureKinds
<1>8. ASSUME NEW s \in Settlers, SettleRecord(s) PROVE TypeInv'
  <2> DEFINE t == settlers[s]
             row == FreshRow(t.kind, t.tx, t.expiry)
  <2>1. row \in Row
    BY FreshRowType DEF SettlerState
  <2>2. /\ ledger' = Put(ledger, t.payment, row)
        /\ UNCHANGED <<issued, prepared, taken, won, answers, preparers, readers,
                       now, interruptions>>
        /\ t.payment \in DOMAIN issued
    BY <1>8 DEF SettleRecord, Record
  <2>3. /\ settlers' \in [Settlers -> SettlerState]
        /\ \A z \in Settlers \ {s} : settlers'[z] = settlers[z]
        /\ settlers'[s].pc # "idle" =>
              /\ settlers'[s].pc = "remove" /\ settlers'[s].tx = t.tx
              /\ settlers'[s].payment = t.payment /\ settlers'[s].expiry = t.expiry
    <3> DEFINE u == [settlers[s] EXCEPT !.pc = "remove"]
    <3>1. /\ u \in SettlerState /\ u.pc = "remove" /\ u.tx = t.tx
          /\ u.payment = t.payment /\ u.expiry = t.expiry
      BY DEF SettlerState
    <3>2. IdleSettler \in SettlerState /\ IdleSettler.pc = "idle"
      BY DEF SettlerState, IdleSettler, Kinds, FailureKinds
    <3>3. \/ settlers' = [settlers EXCEPT ![s] = u]
          \/ settlers' = [settlers EXCEPT ![s] = IdleSettler]
      BY <1>8 DEF SettleRecord, Done
    <3> HIDE DEF u
    <3> QED
      BY <3>1, <3>2, <3>3
  <2> HIDE DEF row
  <2>4. /\ ledger' \in [DOMAIN ledger' -> Row]
        /\ DOMAIN ledger' = DOMAIN ledger \cup {t.payment}
    BY <2>1, <2>2 DEF Put
  <2>5. SettlerKnows'
    BY <1>8, <2>2, <2>3, <2>4 DEF SettleRecord, SettlerState
  <2> QED
    BY <2>2, <2>3, <2>4, <2>5
<1>9. ASSUME NEW s \in Settlers, SettleRemove(s) PROVE TypeInv'
  <2>1. /\ prepared' \in [DOMAIN prepared' -> Preparation]
        /\ DOMAIN prepared' = DOMAIN prepared \ {settlers[s].payment}
        /\ \A x \in DOMAIN prepared' : prepared'[x] = prepared[x]
    BY <1>9 DEF SettleRemove, Forget, Restrict
  <2> QED
    BY <1>9, <2>1 DEF SettleRemove, SettlerState, Done, IdleSettler, Kinds, FailureKinds
<1>10. ASSUME NEW s \in Settlers, SettleStoreError(s) PROVE TypeInv'
  BY <1>10 DEF SettleStoreError, SettlerState, Done, IdleSettler, Kinds, FailureKinds
<1>11. ASSUME NEW r \in Readers, NEW p \in Payments, NEW view \in ChainViews,
              LookupLedger(r, p, view)
       PROVE  TypeInv'
  <2>1. ASSUME p \in DOMAIN ledger
        PROVE  LedgerSnapshot(ledger[p], view) \in PaymentStatusSnapshot
    <3>1. ledger[p] \in Row
      BY <2>1
    <3>2. LedgerStatus(ledger[p], view) \in Statuses
      BY DEF LedgerStatus, ClassifySuccessRow, Statuses
    <3> QED
      BY ONLY <3>1, <3>2 DEF LedgerSnapshot, PaymentStatusSnapshot, Row
  <2>2. ASSUME p \in DOMAIN ledger
        PROVE  Answered(r, p, LedgerSnapshot(ledger[p], view)) \in [Readers -> ReaderState]
    BY <2>1, <2>2, AnsweredType
  <2>3. [readers EXCEPT ![r].pc = "prepared", ![r].payment = p]
            \in [Readers -> ReaderState]
    <3> DEFINE u == [readers[r] EXCEPT !.pc = "prepared", !.payment = p]
    <3>1. u \in ReaderState
      <4>1. readers[r] \in ReaderState
        OBVIOUS
      <4> QED
        BY ONLY <4>1, p \in Payments DEF ReaderState
    <3>2. [readers EXCEPT ![r] = u] \in [Readers -> ReaderState]
      BY <3>1
    <3> QED
      BY <3>2
  <2>4. readers' \in [Readers -> ReaderState]
    BY <1>11, <2>2, <2>3 DEF LookupLedger
  <2>5. ReaderKnows'
    BY <1>11, <2>4 DEF LookupLedger, Answered, ReaderState
  <2> QED
    BY <1>11, <2>4, <2>5 DEF LookupLedger
<1>12. ASSUME NEW r \in Readers, LookupPrepared(r) PROVE TypeInv'
  <2> DEFINE p == readers[r].payment
  <2>1. p \in Payments /\ PreparedSnapshot(p) \in PaymentStatusSnapshot
    BY <1>12 DEF LookupPrepared, PreparedSnapshot, PreparedStatus, PaymentStatusSnapshot,
                 Statuses
  <2>2. readers' \in [Readers -> ReaderState]
    BY <1>12, <2>1, AnsweredType DEF LookupPrepared
  <2>3. ReaderKnows'
    BY <1>12, <2>2 DEF LookupPrepared, Answered, ReaderState
  <2> QED
    BY <1>12, <2>2, <2>3 DEF LookupPrepared
<1>13. CASE Sweep
  <2> DEFINE live == {p \in DOMAIN prepared : prepared[p].deadline > now}
  <2>1. /\ prepared' \in [DOMAIN prepared' -> Preparation]
        /\ DOMAIN prepared' = live
        /\ \A x \in DOMAIN prepared' : prepared'[x] = prepared[x]
    BY <1>13 DEF Sweep, Restrict
  <2> QED
    BY <1>13, <2>1 DEF Sweep
<1>14. CASE Tick
  BY <1>14 DEF Tick
<1>15. CASE Crash
  <2>1. /\ preparers' \in [Preparers -> PreparerState] /\ PreparerKnows'
        /\ settlers' \in [Settlers -> SettlerState] /\ SettlerKnows'
    BY <1>15 DEF Crash, PreparerState, SettlerState, IdlePreparer, IdleSettler,
                 Kinds, FailureKinds
  <2>2. readers' \in [Readers -> ReaderState] /\ ReaderKnows'
    <3> DEFINE u(r) == [readers[r] EXCEPT !.pc = "idle", !.payment = NoKey]
    <3>1. \A r \in Readers : u(r) \in ReaderState /\ u(r).pc = "idle"
      BY DEF ReaderState
    <3>2. readers' = [r \in Readers |-> u(r)]
      BY <1>15 DEF Crash
    <3> HIDE DEF u
    <3> QED
      BY <3>1, <3>2
  <2>3. interruptions' \in Nat
    <3>1. interruptions' = interruptions + 1
      BY <1>15, Zenon DEF Crash
    <3> QED
      BY <3>1
  <2>4. UNCHANGED <<issued, taken, won, answers, prepared, ledger, now>>
    BY <1>15 DEF Crash
  <2> QED
    BY <2>1, <2>2, <2>3, <2>4
<1>16. CASE UNCHANGED vars
  BY <1>16 DEF vars
<1> QED
  BY <1>1, <1>2, <1>3, <1>4, <1>5, <1>6, <1>7, <1>8, <1>9, <1>10, <1>11, <1>12,
     <1>13, <1>14, <1>15, <1>16
  DEF Next, PrepareStep, SettleStep, LookupStep

(* The tables, the tasks and the clock always have their types, whatever   *)
(* interleaves and wherever the process dies.                              *)
THEOREM TypeCorrect == Spec => []TypeOK
<1>1. Spec => []TypeInv
  BY TypeInit, TypeStep, PTL DEF Spec
<1>2. TypeInv => TypeOK
  BY DEF TypeInv
<1> QED
  BY <1>1, <1>2, PTL

-----------------------------------------------------------------------------
(* How one step may change the tables.  Nothing but a deadline or a row in *)
(* the ledger takes a preparation away, and nothing but a settle at its    *)
(* record step writes a row.                                               *)

IssuedStays ==
    /\ \A p \in DOMAIN issued : p \in DOMAIN issued' /\ issued'[p] = issued[p]
    /\ \A p \in DOMAIN issued' \ DOMAIN issued : p \in DOMAIN prepared'

PreparedLeaves ==
    \A p \in DOMAIN prepared \ DOMAIN prepared' :
        p \in DOMAIN ledger \/ ~(issued[p].deadline > now)

RowWritten(s, p) ==
    /\ settlers[s].pc = "record" /\ settlers[s].payment = p
    /\ ledger'[p] = FreshRow(settlers[s].kind, settlers[s].tx, settlers[s].expiry)

LedgerGrows ==
    /\ DOMAIN ledger \subseteq DOMAIN ledger'
    /\ \A p \in DOMAIN ledger' :
          \/ p \in DOMAIN ledger /\ ledger'[p] = ledger[p]
          \/ \E s \in Settlers : RowWritten(s, p)

TableStep ==
    /\ now' \in Nat /\ now' >= now /\ taken \subseteq taken'
    /\ IssuedStays /\ PreparedLeaves /\ LedgerGrows

LEMMA EveryStepIsATableStep == TypeInv /\ [Next]_vars => TableStep
<1> SUFFICES ASSUME TypeInv, [Next]_vars PROVE TableStep
  OBVIOUS
<1>a. /\ TypeOK /\ PreparedAsIssued /\ SettlerKnows
      /\ now \in Nat /\ now >= now
  BY DEF TypeInv, TypeOK
<1> USE DEF TableStep, IssuedStays, PreparedLeaves, LedgerGrows, stores, chain, tasks, bounds
<1>b. ASSUME UNCHANGED <<issued, prepared, ledger, now>>, taken \subseteq taken'
      PROVE  TableStep
  BY <1>a, <1>b
<1>1. ASSUME NEW a \in Preparers, PrepareStep(a) PROVE TableStep
  <2>1. ASSUME NEW p \in Payments, NEW expiry \in Expiries, PrepareInsert(a, p, expiry)
        PROVE  TableStep
    BY <1>a, <2>1 DEF PrepareInsert, Put
  <2> QED
    BY <1>1, <1>b, <2>1 DEF PrepareStep, PrepareReplay, PrepareMiss, PrepareError
<1>2. ASSUME NEW s \in Settlers, SettleStep(s) PROVE TableStep
  <2>1. CASE SettleRecord(s)
    <3> DEFINE t == settlers[s]
    <3>1. /\ t.pc = "record"
          /\ ledger' = Put(ledger, t.payment, FreshRow(t.kind, t.tx, t.expiry))
          /\ UNCHANGED <<issued, prepared, taken, now>>
      BY <2>1 DEF SettleRecord, Record
    <3>2. LedgerGrows
      BY <3>1 DEF Put, RowWritten
    <3> QED
      BY <1>a, <3>1, <3>2
  <2>2. CASE SettleRemove(s)
    <3>1. /\ DOMAIN prepared' = DOMAIN prepared \ {settlers[s].payment}
          /\ UNCHANGED <<issued, ledger, taken, now>>
          /\ settlers[s].payment \in DOMAIN ledger
      BY <1>a, <2>2 DEF SettleRemove, Forget, Restrict, SettlerKnows
    <3> QED
      BY <1>a, <3>1
  <2>3. CASE \E kind \in Kinds : SettleSubmit(s, kind)
    <3>1. PICK kind \in Kinds : SettleSubmit(s, kind)
      BY <2>3
    <3>2. taken \subseteq taken'
      BY <3>1 DEF SettleSubmit, SubmitEffect
    <3>3. UNCHANGED <<issued, prepared, ledger, now>>
      BY <3>1 DEF SettleSubmit
    <3> QED
      BY <1>b, <3>2, <3>3
  <2>4. CASE SettleUnavailable(s)
    BY <1>b, <2>4 DEF SettleUnavailable, SubmitEffect
  <2>5. CASE SettleStoreError(s)
    BY <1>b, <2>5 DEF SettleStoreError
  <2>6. CASE \E p \in Payments, route \in {"lifecycle", "x402"}, jkt \in Jkts,
                signedExpiry \in Expiries, tx \in Txs :
                SettleFind(s, p, route, jkt, tx, signedExpiry)
    BY <1>b, <2>6 DEF SettleFind
  <2> QED
    BY <1>2, <2>1, <2>2, <2>3, <2>4, <2>5, <2>6 DEF SettleStep
<1>3. ASSUME NEW r \in Readers, LookupStep(r) PROVE TableStep
  BY <1>3, <1>b DEF LookupStep, LookupLedger, LookupPrepared
<1>4. CASE Sweep
  <2> DEFINE live == {p \in DOMAIN prepared : prepared[p].deadline > now}
  <2>1. DOMAIN prepared' = live /\ UNCHANGED <<issued, ledger, taken, now>>
    BY <1>4 DEF Sweep, Restrict
  <2>2. PreparedLeaves
    BY <1>a, <2>1 DEF PreparedAsIssued
  <2> QED
    BY <1>a, <2>1, <2>2
<1>5. CASE Tick
  BY <1>a, <1>5 DEF Tick
<1>6. CASE Crash
  BY <1>b, <1>6, Zenon DEF Crash
<1>7. CASE UNCHANGED vars
  BY <1>b, <1>7 DEF vars
<1> QED
  BY <1>1, <1>2, <1>3, <1>4, <1>5, <1>6, <1>7 DEF Next

-----------------------------------------------------------------------------
(* Safety *)

SafetyInv == TypeInv /\ NothingLost /\ SuccessIsBroadcast

LEMMA SafetyStep == SafetyInv /\ [Next]_vars => SafetyInv'
<1> SUFFICES ASSUME SafetyInv, [Next]_vars PROVE SafetyInv'
  OBVIOUS
<1>1. TypeInv /\ TypeInv' /\ TableStep
  BY TypeStep, EveryStepIsATableStep DEF SafetyInv
<1>2. NothingLost'
  <2> SUFFICES ASSUME NEW p \in DOMAIN issued', issued'[p].deadline > now'
               PROVE  p \in DOMAIN prepared' \cup DOMAIN ledger'
    BY DEF NothingLost
  <2>1. CASE p \notin DOMAIN issued
    BY <1>1, <2>1 DEF TableStep, IssuedStays
  <2>2. CASE p \in DOMAIN issued
    <3>1. issued[p].deadline > now
      <4>1. issued[p].deadline \in Nat /\ now \in Nat
        BY <1>1, <2>2 DEF TypeInv, TypeOK, Preparation
      <4> QED
        BY <1>1, <2>2, <4>1 DEF TableStep, IssuedStays
    <3>2. p \in DOMAIN prepared \cup DOMAIN ledger
      BY <2>2, <3>1 DEF SafetyInv, NothingLost
    <3> QED
      BY <1>1, <3>1, <3>2 DEF TableStep, PreparedLeaves, LedgerGrows
  <2> QED
    BY <2>1, <2>2
<1>3. SuccessIsBroadcast'
  <2> SUFFICES ASSUME NEW p \in DOMAIN ledger', IsSuccess(ledger'[p])
               PROVE  /\ <<p, ledger'[p].tx>> \in taken'
                      /\ ledger'[p].expiry = issued'[p].expiry
    BY DEF SuccessIsBroadcast, IsSuccess
  <2>1. CASE p \in DOMAIN ledger /\ ledger'[p] = ledger[p]
    BY <1>1, <2>1 DEF SafetyInv, SuccessIsBroadcast, TableStep, IssuedStays, TypeInv, TypeOK
  <2>2. ASSUME NEW s \in Settlers, RowWritten(s, p)
        PROVE  /\ <<p, ledger'[p].tx>> \in taken'
               /\ ledger'[p].expiry = issued'[p].expiry
    <3> DEFINE t == settlers[s]
    <3>1. /\ t.pc = "record" /\ t.payment = p /\ p \in DOMAIN issued
          /\ t.expiry = issued[p].expiry
          /\ t.kind \in SuccessKinds => <<p, t.tx>> \in taken
      BY <1>1, <2>2 DEF TypeInv, SettlerKnows, RowWritten
    <3>2. /\ ledger'[p].kind = t.kind /\ ledger'[p].expiry = t.expiry
          /\ t.kind \in SuccessKinds => ledger'[p].tx = t.tx
      BY <2>2 DEF RowWritten, FreshRow
    <3>3. t.kind \in SuccessKinds
      BY <3>2 DEF IsSuccess
    <3> QED
      BY <1>1, <3>1, <3>2, <3>3 DEF TableStep, IssuedStays
  <2> QED
    BY <1>1, <2>1, <2>2 DEF TableStep, LedgerGrows
<1> QED
  BY <1>1, <1>2, <1>3 DEF SafetyInv

LEMMA SafetyHolds == Spec => []SafetyInv
<1>1. Init => SafetyInv
  BY TypeInit DEF Init, SafetyInv, NothingLost, SuccessIsBroadcast, NoRows
<1> QED
  BY <1>1, SafetyStep, PTL DEF Spec

(* A payment that was issued and has not reached its deadline is in the    *)
(* prepared store or in the ledger at every moment, although settle writes *)
(* the two stores one after the other and may be cut short in between.     *)
THEOREM NothingIsLost == Spec => []NothingLost
<1>1. SafetyInv => NothingLost
  BY DEF SafetyInv
<1> QED
  BY <1>1, SafetyHolds, PTL

(* A success row always names a transaction that the network has taken for *)
(* the payment, and the payment's own expiry, whatever races or crashes.   *)
THEOREM SuccessRowsAreBroadcast == Spec => []SuccessIsBroadcast
<1>1. SafetyInv => SuccessIsBroadcast
  BY DEF SafetyInv
<1> QED
  BY <1>1, SafetyHolds, PTL

-----------------------------------------------------------------------------
(* Idempotency keys *)

(* Every answer of prepare names the key its payment was issued under, and *)
(* the unique index holds.                                                 *)
AnswersAreIssued ==
    \A x \in answers : /\ x.payment \in DOMAIN issued
                       /\ issued[x.payment].jkt = x.jkt /\ issued[x.payment].key = x.key

UniqueKeys ==
    \A p, q \in DOMAIN prepared :
        /\ prepared[p].key # NoKey
        /\ prepared[p].jkt = prepared[q].jkt /\ prepared[p].key = prepared[q].key
        => p = q

KeyInv == TypeInv /\ AnswersAreIssued /\ UniqueKeys

LEMMA KeyStep == KeyInv /\ [Next]_vars => KeyInv'
<1> SUFFICES ASSUME KeyInv, [Next]_vars PROVE KeyInv'
  OBVIOUS
<1>1. TypeInv /\ TypeInv' /\ IssuedStays
  BY TypeStep, EveryStepIsATableStep DEF KeyInv, TableStep
<1> DEFINE AnswersKept ==
               \A x \in answers' : x \in answers \/ /\ x.payment \in DOMAIN prepared
                                                    /\ prepared[x.payment].jkt = x.jkt
                                                    /\ prepared[x.payment].key = x.key
           PreparedKept ==
               /\ DOMAIN prepared' \subseteq DOMAIN prepared
               /\ \A p \in DOMAIN prepared' : prepared'[p] = prepared[p]
<1>2. ASSUME AnswersKept, PreparedKept PROVE KeyInv'
  <2>1. AnswersAreIssued'
    BY <1>1, <1>2 DEF KeyInv, AnswersAreIssued, IssuedStays, TypeInv, TypeOK, PreparedAsIssued
  <2>2. UniqueKeys'
    BY <1>2 DEF KeyInv, UniqueKeys
  <2> QED
    BY <1>1, <2>1, <2>2 DEF KeyInv
<1> USE DEF stores, chain, tasks, bounds
<1>3. ASSUME UNCHANGED <<answers, prepared>> PROVE KeyInv'
  <2>1. AnswersKept /\ PreparedKept
    BY <1>3
  <2> QED
    BY <1>2, <2>1
<1>4. ASSUME NEW a \in Preparers, PrepareStep(a) PROVE KeyInv'
  <2>1. ASSUME NEW p \in Payments, NEW expiry \in Expiries, PrepareInsert(a, p, expiry)
        PROVE  KeyInv'
    <3> DEFINE row == [jkt |-> preparers[a].jkt, key |-> preparers[a].key,
                       expiry |-> expiry, deadline |-> now + Validity]
               x == [jkt |-> preparers[a].jkt, key |-> preparers[a].key, payment |-> p]
    <3>1. /\ issued' = Put(issued, p, row) /\ prepared' = Put(prepared, p, row)
          /\ answers' = answers \cup {x}
          /\ \A q \in DOMAIN prepared :
                ~(row.key # NoKey /\ prepared[q].jkt = row.jkt /\ prepared[q].key = row.key)
      BY <2>1 DEF PrepareInsert, KeyIsFree, Holders
    <3>2. /\ p \in DOMAIN issued' /\ issued'[p] = row
          /\ DOMAIN prepared' = DOMAIN prepared \cup {p} /\ prepared'[p] = row
          /\ \A q \in DOMAIN prepared \ {p} : prepared'[q] = prepared[q]
      BY <3>1 DEF Put
    <3>3. x.payment = p /\ x.jkt = row.jkt /\ x.key = row.key
      OBVIOUS
    <3> HIDE DEF row, x
    <3>4. AnswersAreIssued'
      BY <1>1, <3>1, <3>2, <3>3 DEF KeyInv, AnswersAreIssued, IssuedStays
    <3>5. UniqueKeys'
      BY <3>1, <3>2 DEF KeyInv, UniqueKeys
    <3> QED
      BY <1>1, <3>4, <3>5 DEF KeyInv
  <2>2. ASSUME NEW jkt \in Jkts, NEW key \in Keys \cup {NoKey}, PrepareReplay(a, jkt, key)
        PROVE  KeyInv'
    <3>1. PICK p \in Holders(jkt, key) :
             answers' = answers \cup {[jkt |-> jkt, key |-> key, payment |-> p]}
      BY <2>2 DEF PrepareReplay
    <3>2. p \in DOMAIN prepared /\ prepared[p].jkt = jkt /\ prepared[p].key = key
      BY <3>1 DEF Holders
    <3>3. UNCHANGED prepared
      BY <2>2 DEF PrepareReplay
    <3>4. AnswersKept /\ PreparedKept
      BY <3>1, <3>2, <3>3
    <3> QED
      BY <1>2, <3>4
  <2> QED
    BY <1>3, <1>4, <2>1, <2>2 DEF PrepareStep, PrepareMiss, PrepareError
<1>5. ASSUME NEW s \in Settlers, SettleStep(s) PROVE KeyInv'
  <2>1. CASE SettleRemove(s)
    <3>1. AnswersKept /\ PreparedKept
      BY <2>1 DEF SettleRemove, Forget, Restrict
    <3> QED
      BY <1>2, <3>1
  <2>2. CASE ~SettleRemove(s)
    BY <1>3, <1>5, <2>2 DEF SettleStep, SettleFind, SettleSubmit, SettleUnavailable,
                             SettleRecord, SettleStoreError
  <2> QED
    BY <2>1, <2>2
<1>6. ASSUME NEW r \in Readers, LookupStep(r) PROVE KeyInv'
  BY <1>3, <1>6 DEF LookupStep, LookupLedger, LookupPrepared
<1>7. CASE Sweep
  <2>1. AnswersKept /\ PreparedKept
    BY <1>7 DEF Sweep, Restrict
  <2> QED
    BY <1>2, <2>1
<1>8. CASE Tick
  BY <1>3, <1>8 DEF Tick
<1>9. CASE Crash
  BY <1>3, <1>9, Zenon DEF Crash
<1>10. CASE UNCHANGED vars
  BY <1>3, <1>10 DEF vars
<1> QED
  BY <1>4, <1>5, <1>6, <1>7, <1>8, <1>9, <1>10 DEF Next

(* Two prepares of one agent under one key never leave two live payments,  *)
(* for any number of racing requests: the unique index of prepared_tx      *)
(* decides the race the replay lookup leaves open.                         *)
THEOREM OneLivePayment == Spec => []OneLivePaymentPerKey
<1>1. Init => KeyInv
  BY TypeInit DEF Init, KeyInv, AnswersAreIssued, UniqueKeys, NoRows
<1>2. KeyInv => OneLivePaymentPerKey
  BY DEF KeyInv, TypeInv, PreparedAsIssued, AnswersAreIssued, UniqueKeys,
         OneLivePaymentPerKey
<1> QED
  BY <1>1, <1>2, KeyStep, PTL DEF Spec

-----------------------------------------------------------------------------
(* Status reads *)

(* Who has seen a recorded answer has seen a row that is still there, and a *)
(* lookup at its second read has not seen one for the payment it asks for.  *)
SeenIsRecorded ==
    \A r \in Readers, p \in Payments :
        Recorded(readers[r].seen[p]) => p \in DOMAIN ledger

MissedIsUnseen ==
    \A r \in Readers : readers[r].pc = "prepared"
        => ~Recorded(readers[r].seen[readers[r].payment])

ReadInv == TypeInv /\ SeenIsRecorded /\ MissedIsUnseen

(* What a step may do to a reader: nothing, be answered from the ledger, go *)
(* on to the prepared store, be answered from it, or die.                   *)
ReaderStep(r) ==
    \/ readers'[r] = readers[r]
    \/ /\ readers'[r].pc = "idle"
       /\ readers'[r].seen = readers[r].seen
    \/ \E p \in DOMAIN ledger \cap Payments, view \in ChainViews :
          /\ readers'[r].pc = "idle"
          /\ readers'[r].seen =
                [readers[r].seen EXCEPT ![p] = LedgerSnapshot(ledger[p], view)]
    \/ \E p \in Payments \ DOMAIN ledger :
          /\ readers'[r].pc = "prepared" /\ readers'[r].payment = p
          /\ readers'[r].seen = readers[r].seen
    \/ /\ readers[r].pc = "prepared" /\ readers'[r].pc = "idle"
       /\ readers'[r].seen =
             [readers[r].seen EXCEPT ![readers[r].payment] =
                                        PreparedSnapshot(readers[r].payment)]

LEMMA EveryStepIsAReaderStep ==
    ASSUME TypeInv, [Next]_vars, NEW r \in Readers
    PROVE  ReaderStep(r)
<1>1. TypeOK
  BY DEF TypeInv
<1> USE DEF stores, chain, tasks, bounds
<1>2. ASSUME UNCHANGED readers PROVE ReaderStep(r)
  BY <1>2 DEF ReaderStep
<1>3. readers \in [Readers -> ReaderState] /\ readers[r] \in ReaderState
  BY <1>1 DEF TypeOK
<1>4. ASSUME NEW z \in Readers, LookupStep(z) PROVE ReaderStep(r)
  <2>1. ASSUME NEW p \in Payments, NEW view \in ChainViews, LookupLedger(z, p, view)
        PROVE  ReaderStep(r)
    <3>1. CASE z # r
      BY <1>3, <2>1, <3>1 DEF LookupLedger, Answered, ReaderStep
    <3>2. CASE z = r /\ p \in DOMAIN ledger
      BY <1>3, <2>1, <3>2 DEF LookupLedger, Answered, ReaderStep, ReaderState
    <3>3. CASE z = r /\ p \notin DOMAIN ledger
      BY <1>3, <2>1, <3>3 DEF LookupLedger, ReaderStep, ReaderState
    <3> QED
      BY <3>1, <3>2, <3>3
  <2>2. ASSUME LookupPrepared(z) PROVE ReaderStep(r)
    BY <1>3, <2>2 DEF LookupPrepared, Answered, ReaderStep, ReaderState
  <2> QED
    BY <1>4, <2>1, <2>2 DEF LookupStep
<1>5. CASE Crash
  <2>1. readers'[r] = [readers[r] EXCEPT !.pc = "idle", !.payment = NoKey]
    BY <1>5, Zenon DEF Crash
  <2> QED
    BY <1>3, <2>1 DEF ReaderStep, ReaderState
<1>6. ASSUME NEW a \in Preparers, PrepareStep(a) PROVE ReaderStep(r)
  BY <1>2, <1>6 DEF PrepareStep, PrepareReplay, PrepareMiss, PrepareInsert, PrepareError
<1>7. ASSUME NEW s \in Settlers, SettleStep(s) PROVE ReaderStep(r)
  BY <1>2, <1>7 DEF SettleStep, SettleFind, SettleSubmit, SettleUnavailable,
                    SettleRecord, SettleRemove, SettleStoreError
<1>8. CASE Sweep \/ Tick \/ UNCHANGED vars
  BY <1>2, <1>8 DEF Sweep, Tick, vars
<1> QED
  BY <1>4, <1>5, <1>6, <1>7, <1>8 DEF Next

LEMMA ReadStep ==
    ReadInv /\ [Next]_vars =>
        /\ ReadInv'
        /\ \A r \in Readers, p \in Payments :
              Recorded(readers[r].seen[p])
                  => Recorded(readers'[r].seen[p])
<1> SUFFICES ASSUME ReadInv, [Next]_vars
             PROVE  /\ ReadInv'
                    /\ \A r \in Readers, p \in Payments :
                          Recorded(readers[r].seen[p])
                              => Recorded(readers'[r].seen[p])
  OBVIOUS
<1>1. TypeInv /\ TypeInv' /\ LedgerGrows
  BY TypeStep, EveryStepIsATableStep DEF ReadInv, TableStep
<1>3. \A p \in DOMAIN ledger, view \in ChainViews : Recorded(LedgerSnapshot(ledger[p], view))
  BY <1>1 DEF TypeInv, TypeOK, Row, Kinds, SuccessKinds, FailureKinds, LedgerSnapshot,
              Recorded, NoOutcome
<1>4. \A p : ~Recorded(PreparedSnapshot(p))
  BY DEF PreparedSnapshot, Recorded
<1>5. ASSUME NEW r \in Readers
      PROVE  /\ \A p \in Payments : Recorded(readers[r].seen[p])
                                        => Recorded(readers'[r].seen[p])
             /\ \A p \in Payments : Recorded(readers'[r].seen[p])
                                        => p \in DOMAIN ledger'
             /\ readers'[r].pc = "prepared" =>
                    ~Recorded(readers'[r].seen[readers'[r].payment])
  <2>1. /\ ReaderStep(r) /\ readers[r].seen \in [Payments -> PaymentStatusSnapshot]
        /\ readers[r].pc = "prepared" => readers[r].payment \in Payments
    BY <1>1, EveryStepIsAReaderStep DEF TypeInv, TypeOK, ReaderState, ReaderKnows
  <2>2. /\ \A p \in Payments : Recorded(readers[r].seen[p]) => p \in DOMAIN ledger
        /\ readers[r].pc = "prepared" =>
              ~Recorded(readers[r].seen[readers[r].payment])
        /\ DOMAIN ledger \subseteq DOMAIN ledger'
    BY <1>1 DEF ReadInv, SeenIsRecorded, MissedIsUnseen, LedgerGrows
  <2>3. CASE readers'[r].seen = readers[r].seen /\ readers'[r] = readers[r]
    BY <2>2, <2>3
  <2>4. CASE readers'[r].seen = readers[r].seen /\ readers'[r].pc = "idle"
    BY <2>2, <2>4
  <2>5. ASSUME NEW p \in DOMAIN ledger \cap Payments, NEW view \in ChainViews,
               readers'[r].pc = "idle",
               readers'[r].seen =
                  [readers[r].seen EXCEPT ![p] = LedgerSnapshot(ledger[p], view)]
        PROVE  \A q \in Payments :
                  /\ Recorded(readers[r].seen[q])
                        => Recorded(readers'[r].seen[q])
                  /\ Recorded(readers'[r].seen[q]) => q \in DOMAIN ledger'
    BY <1>3, <2>1, <2>2, <2>5
  <2>6. ASSUME NEW p \in Payments \ DOMAIN ledger, readers'[r].pc = "prepared",
               readers'[r].payment = p, readers'[r].seen = readers[r].seen
        PROVE  ~Recorded(readers'[r].seen[p])
    BY <2>2, <2>6
  <2>7. ASSUME readers[r].pc = "prepared", readers'[r].pc = "idle",
               readers'[r].seen =
                  [readers[r].seen EXCEPT ![readers[r].payment] =
                                             PreparedSnapshot(readers[r].payment)]
        PROVE  \A q \in Payments :
                  /\ Recorded(readers[r].seen[q])
                        => Recorded(readers'[r].seen[q])
                  /\ Recorded(readers'[r].seen[q]) => q \in DOMAIN ledger'
    BY <1>4, <2>1, <2>2, <2>7
  <2> QED
    BY <2>1, <2>2, <2>3, <2>4, <2>5, <2>6, <2>7 DEF ReaderStep
<1>6. SeenIsRecorded' /\ MissedIsUnseen'
  BY <1>5 DEF SeenIsRecorded, MissedIsUnseen
<1> QED
  BY <1>1, <1>5, <1>6 DEF ReadInv

(* A caller that has once been told a payment's broadcast outcome is told  *)
(* one by every later read, whatever chain view that read is given: the    *)
(* ledger is read first and its rows are never deleted, so a payment that  *)
(* was submitted never reads as awaiting or never issued again.            *)
THEOREM ReadsAreMonotone == Spec => ReadsNeverGoBack
<1>1. Init => ReadInv
  BY TypeInit DEF Init, ReadInv, SeenIsRecorded, MissedIsUnseen, NothingSeen,
                  Recorded
<1>2. ReadInv /\ [Next]_vars =>
        [\A r \in Readers, p \in Payments :
            Recorded(readers[r].seen[p])
                => Recorded(readers'[r].seen[p])]_vars
  BY ReadStep
<1>3. ReadInv /\ [Next]_vars => ReadInv'
  BY ReadStep
<1> QED
  BY <1>1, <1>2, <1>3, PTL DEF Spec, ReadsNeverGoBack

-----------------------------------------------------------------------------
(* Settles that follow one another.  The handler takes no lock, so what     *)
(* follows is for payments whose settles do not overlap; crashes and failed *)
(* statements may still cut any of them short.                              *)

SerialSettles ==
    \A s, z \in Settlers :
        /\ settlers[s].pc # "idle" /\ settlers[z].pc # "idle"
        /\ settlers[s].payment = settlers[z].payment
        => s = z

AtWork(s) == settlers[s].pc \in {"submit", "record"}

(* A settle that has not recorded its outcome leaves the preparation there. *)
WorkIsRetryable ==
    \A s \in Settlers :
        AtWork(s) /\ issued[settlers[s].payment].deadline > now
            => settlers[s].payment \in DOMAIN prepared

(* Only a recorded success goes on to remove the preparation. *)
RemoveAfterSuccess ==
    \A s \in Settlers : settlers[s].pc = "remove" =>
        settlers[s].kind \in SuccessKinds /\ IsSuccess(ledger[settlers[s].payment])

(* A payment that was won is on its way out of the prepared store, or out   *)
(* of it for good and out of everybody's hands.                             *)
WinnersAreOver ==
    \A x \in won :
        \/ \E s \in Settlers : /\ settlers[s].pc \in {"record", "remove"}
                               /\ settlers[s].kind \in SuccessKinds
                               /\ settlers[s].payment = x[1]
        \/ /\ x[1] \in DOMAIN issued \ DOMAIN prepared
           /\ \A s \in Settlers : settlers[s].pc # "idle" => settlers[s].payment # x[1]

PaidLeaves ==
    \A p \in DOMAIN ledger \cap DOMAIN prepared : IsSuccess(ledger[p]) =>
        \E s \in Settlers : settlers[s].pc = "remove" /\ settlers[s].payment = p

WorkIsUnpaid ==
    \A s \in Settlers : AtWork(s) =>
        settlers[s].payment \notin DOMAIN ledger \/ ~IsSuccess(ledger[settlers[s].payment])

UninterruptedInv == FireOnce /\ WinnersAreOver /\ PaidLeaves /\ WorkIsUnpaid

SerialInv ==
    /\ TypeInv
    /\ FailedIsRetryable /\ WorkIsRetryable /\ RemoveAfterSuccess
    /\ ~Interrupted => UninterruptedInv

(* A step that settles nothing: a preparation only goes at its deadline and *)
(* only a payment that was never issued before gets a new one.              *)
QuietStep ==
    /\ UNCHANGED <<settlers, ledger, won, interruptions>>
    /\ \A p \in DOMAIN prepared \ DOMAIN prepared' : ~(issued[p].deadline > now)
    /\ \A p \in DOMAIN prepared' \ DOMAIN prepared : p \notin DOMAIN issued

LEMMA QuietStepIsSafe ==
    ASSUME SerialInv, TypeInv', TableStep, QuietStep
    PROVE  SerialInv'
<1>1. /\ \A p \in DOMAIN issued : /\ p \in DOMAIN issued' /\ issued'[p] = issued[p]
                                  /\ issued[p].deadline \in Nat
      /\ now \in Nat /\ now' \in Nat /\ now' >= now
      /\ DOMAIN ledger \subseteq DOMAIN issued
  BY DEF SerialInv, TypeInv, TypeOK, Preparation, TableStep, IssuedStays
<1>2. \A p \in DOMAIN issued : issued'[p].deadline > now' => issued[p].deadline > now
  BY <1>1
<1>3. \A s \in Settlers : settlers[s].pc # "idle" => settlers[s].payment \in DOMAIN issued
  BY DEF SerialInv, TypeInv, SettlerKnows
<1>4. FailedIsRetryable'
  BY <1>1, <1>2 DEF SerialInv, FailedIsRetryable, QuietStep, IsSuccess
<1>5. WorkIsRetryable' /\ RemoveAfterSuccess'
  BY <1>1, <1>2, <1>3
  DEF SerialInv, WorkIsRetryable, RemoveAfterSuccess, AtWork, QuietStep, IsSuccess
<1>6. ~Interrupted' => UninterruptedInv'
  <2> SUFFICES ASSUME ~Interrupted' PROVE UninterruptedInv'
    OBVIOUS
  <2>1. UninterruptedInv
    BY DEF SerialInv, Interrupted, QuietStep
  <2>2. FireOnce'
    BY <2>1 DEF UninterruptedInv, FireOnce, QuietStep
  <2>3. WinnersAreOver'
    BY <2>1, <1>1 DEF UninterruptedInv, WinnersAreOver, QuietStep
  <2>4. PaidLeaves' /\ WorkIsUnpaid'
    BY <2>1, <1>1 DEF UninterruptedInv, PaidLeaves, WorkIsUnpaid, AtWork, QuietStep, IsSuccess
  <2> QED
    BY <2>2, <2>3, <2>4 DEF UninterruptedInv
<1> QED
  BY <1>4, <1>5, <1>6 DEF SerialInv

(* What one step of a settle does to the settles. *)
Advances(s, pc) ==
    /\ \A z \in Settlers \ {s} : settlers'[z] = settlers[z]
    /\ settlers[s].pc # "idle"
    /\ settlers'[s].pc = pc
    /\ pc # "idle" => settlers'[s].payment = settlers[s].payment
    /\ UNCHANGED <<issued, now>>

LEMMA SettleAdvances ==
    ASSUME TypeInv, NEW s \in Settlers
    PROVE  /\ \A kind \in Kinds : SettleSubmit(s, kind) =>
                 Advances(s, "record") /\ settlers'[s].kind = kind
           /\ SettleUnavailable(s) \/ SettleRemove(s) \/ SettleStoreError(s) => Advances(s, "idle")
           /\ SettleRecord(s) =>
                 IF settlers[s].kind \in SuccessKinds
                 THEN Advances(s, "remove") /\ settlers'[s].kind = settlers[s].kind
                 ELSE Advances(s, "idle")
<1>1. settlers \in [Settlers -> SettlerState]
  BY DEF TypeInv, TypeOK
<1>2. IdleSettler.pc = "idle"
  BY DEF IdleSettler
<1>3. ASSUME NEW kind \in Kinds, SettleSubmit(s, kind)
      PROVE  Advances(s, "record") /\ settlers'[s].kind = kind
  BY <1>1, <1>3 DEF SettleSubmit, Advances, SettlerState, bounds
<1>4. ASSUME SettleUnavailable(s) \/ SettleRemove(s) \/ SettleStoreError(s)
      PROVE  Advances(s, "idle")
  BY <1>1, <1>2, <1>4
  DEF SettleUnavailable, SettleRemove, SettleStoreError, Done, Advances, bounds
<1>5. ASSUME SettleRecord(s)
      PROVE  IF settlers[s].kind \in SuccessKinds
             THEN Advances(s, "remove") /\ settlers'[s].kind = settlers[s].kind
             ELSE Advances(s, "idle")
  BY <1>1, <1>2, <1>5 DEF SettleRecord, Done, Advances, SettlerState, bounds
<1> QED
  BY <1>3, <1>4, <1>5

LEMMA FindIsSafe ==
    ASSUME SerialInv, TypeInv', SerialSettles', NEW s \in Settlers, NEW p \in Payments,
           NEW route, NEW jkt, NEW tx, NEW signedExpiry,
           SettleFind(s, p, route, jkt, tx, signedExpiry)
    PROVE  SerialInv'
<1>1. /\ settlers[s].pc = "idle" /\ p \in DOMAIN prepared
      /\ settlers'[s].pc = "submit" /\ settlers'[s].payment = p
      /\ \A z \in Settlers \ {s} : settlers'[z] = settlers[z]
      /\ UNCHANGED <<issued, prepared, ledger, won, now, interruptions>>
  BY DEF SerialInv, TypeInv, TypeOK, SettleFind, Accepts, chain, stores, bounds
<1>2. FailedIsRetryable' /\ WorkIsRetryable' /\ RemoveAfterSuccess'
  BY <1>1 DEF SerialInv, FailedIsRetryable, WorkIsRetryable, RemoveAfterSuccess, AtWork, IsSuccess
<1>3. ASSUME ~Interrupted' PROVE UninterruptedInv'
  <2>1. UninterruptedInv
    BY <1>1, <1>3 DEF SerialInv, Interrupted
  <2>2. FireOnce' /\ WinnersAreOver' /\ PaidLeaves'
    BY <1>1, <2>1 DEF UninterruptedInv, FireOnce, WinnersAreOver, PaidLeaves, IsSuccess
  <2>3. ASSUME p \in DOMAIN ledger, IsSuccess(ledger[p]) PROVE FALSE
    <3>1. PICK z \in Settlers : settlers[z].pc = "remove" /\ settlers[z].payment = p
      BY <1>1, <2>1, <2>3 DEF UninterruptedInv, PaidLeaves
    <3>2. settlers'[z].pc = "remove" /\ settlers'[z].payment = p /\ z # s
      BY <1>1, <3>1
    <3> QED
      BY <1>1, <3>2 DEF SerialSettles
  <2>4. WorkIsUnpaid'
    BY <1>1, <2>1, <2>3 DEF UninterruptedInv, WorkIsUnpaid, AtWork, IsSuccess
  <2> QED
    BY <2>2, <2>4 DEF UninterruptedInv
<1> QED
  BY <1>2, <1>3 DEF SerialInv

(* While a settle of a payment is at work nobody has won it. *)
LEMMA WorkIsUnwon ==
    ASSUME SerialInv, SerialSettles, ~Interrupted, NEW s \in Settlers,
           settlers[s].pc = "submit"
    PROVE  \A x \in won : x[1] # settlers[s].payment
<1> SUFFICES ASSUME NEW x \in won, x[1] = settlers[s].payment PROVE FALSE
  OBVIOUS
<1>1. WinnersAreOver
  BY DEF SerialInv, UninterruptedInv
<1>2. PICK z \in Settlers : /\ settlers[z].pc \in {"record", "remove"}
                            /\ settlers[z].payment = x[1]
  BY <1>1 DEF WinnersAreOver
<1>3. z = s
  BY <1>2 DEF SerialSettles
<1> QED
  BY <1>2, <1>3

LEMMA SubmitIsSafe ==
    ASSUME SerialInv, SerialSettles, TypeInv', NEW s \in Settlers, NEW kind \in Kinds,
           SettleSubmit(s, kind)
    PROVE  SerialInv'
<1> DEFINE t == settlers[s]
           pair == <<t.payment, t.tx>>
<1>1. /\ Advances(s, "record") /\ settlers'[s].kind = kind /\ t.pc = "submit"
      /\ UNCHANGED <<prepared, ledger, interruptions>>
  BY SettleAdvances DEF SerialInv, SettleSubmit, stores, bounds
<1>2. \/ kind \in SuccessKinds /\ won' = won \cup {pair}
      \/ won' = won
  BY DEF SettleSubmit, SubmitEffect, chain, SuccessKinds
<1>3. FailedIsRetryable' /\ RemoveAfterSuccess'
  BY <1>1 DEF SerialInv, FailedIsRetryable, RemoveAfterSuccess, Advances, IsSuccess
<1>4. WorkIsRetryable'
  BY <1>1 DEF SerialInv, WorkIsRetryable, AtWork, Advances
<1>5. ASSUME ~Interrupted' PROVE UninterruptedInv'
  <2>1. UninterruptedInv /\ ~Interrupted
    BY <1>1, <1>5 DEF SerialInv, Interrupted
  <2>2. \A x \in won : x[1] # t.payment
    BY <1>1, <2>1, WorkIsUnwon
  <2>3. pair[1] = t.payment /\ pair[2] = t.tx
    OBVIOUS
  <2> HIDE DEF pair
  <2>4. FireOnce'
    BY <1>2, <2>1, <2>2, <2>3 DEF UninterruptedInv, FireOnce
  <2>5. WinnersAreOver'
    <3> SUFFICES ASSUME NEW x \in won'
                 PROVE  \/ \E z \in Settlers : /\ settlers'[z].pc \in {"record", "remove"}
                                               /\ settlers'[z].kind \in SuccessKinds
                                               /\ settlers'[z].payment = x[1]
                        \/ /\ x[1] \in DOMAIN issued' \ DOMAIN prepared'
                           /\ \A z \in Settlers : settlers'[z].pc # "idle"
                                                     => settlers'[z].payment # x[1]
      BY DEF WinnersAreOver
    <3>1. CASE x = pair /\ kind \in SuccessKinds
      BY <1>1, <2>3, <3>1 DEF Advances
    <3>2. CASE x \in won
      BY <1>1, <2>1, <2>2, <3>2 DEF UninterruptedInv, WinnersAreOver, Advances
    <3> QED
      BY <1>2, <3>1, <3>2
  <2>6. PaidLeaves' /\ WorkIsUnpaid'
    BY <1>1, <2>1 DEF UninterruptedInv, PaidLeaves, WorkIsUnpaid, AtWork, Advances, IsSuccess
  <2> QED
    BY <2>4, <2>5, <2>6 DEF UninterruptedInv
<1> QED
  BY <1>3, <1>4, <1>5 DEF SerialInv

(* The submitter errs: the settle ends with nothing won. *)
LEMMA UnavailableIsSafe ==
    ASSUME SerialInv, SerialSettles, TypeInv', NEW s \in Settlers, SettleUnavailable(s)
    PROVE  SerialInv'
<1>1. /\ Advances(s, "idle") /\ settlers[s].pc = "submit"
      /\ UNCHANGED <<prepared, ledger, won, interruptions>>
  BY SettleAdvances DEF SerialInv, SettleUnavailable, SubmitEffect, SuccessKinds, chain,
                        stores, bounds
<1>2. FailedIsRetryable' /\ RemoveAfterSuccess' /\ WorkIsRetryable'
  BY <1>1 DEF SerialInv, FailedIsRetryable, RemoveAfterSuccess, WorkIsRetryable, AtWork,
              Advances, IsSuccess
<1>3. ASSUME ~Interrupted' PROVE UninterruptedInv'
  <2>1. UninterruptedInv /\ ~Interrupted
    BY <1>1, <1>3 DEF SerialInv, Interrupted
  <2>2. \A x \in won : x[1] # settlers[s].payment
    BY <1>1, <2>1, WorkIsUnwon
  <2>3. FireOnce' /\ WinnersAreOver'
    BY <1>1, <2>1, <2>2 DEF UninterruptedInv, FireOnce, WinnersAreOver, Advances
  <2>4. PaidLeaves' /\ WorkIsUnpaid'
    BY <1>1, <2>1 DEF UninterruptedInv, PaidLeaves, WorkIsUnpaid, AtWork, Advances, IsSuccess
  <2> QED
    BY <2>3, <2>4 DEF UninterruptedInv
<1> QED
  BY <1>2, <1>3 DEF SerialInv

LEMMA RecordIsSafe ==
    ASSUME SerialInv, SerialSettles, TypeInv', NEW s \in Settlers, SettleRecord(s)
    PROVE  SerialInv'
<1> DEFINE t == settlers[s]
           p == t.payment
<1>1. /\ t.pc = "record" /\ ledger' = Put(ledger, p, FreshRow(t.kind, t.tx, t.expiry))
      /\ UNCHANGED <<issued, prepared, won, now, interruptions>>
  BY DEF SettleRecord, Record, chain, bounds
<1>2. /\ DOMAIN ledger' = DOMAIN ledger \cup {p} /\ ledger'[p].kind = t.kind
      /\ \A q \in DOMAIN ledger \ {p} : ledger'[q] = ledger[q]
  BY <1>1 DEF Put, FreshRow
<1>3. \/ t.kind \in SuccessKinds /\ Advances(s, "remove") /\ settlers'[s].kind = t.kind
      \/ t.kind \notin SuccessKinds /\ Advances(s, "idle")
  BY SettleAdvances DEF SerialInv
<1>4. \A z \in Settlers \ {s} : settlers[z].pc # "idle" => settlers[z].payment # p
  BY <1>1 DEF SerialSettles
<1>5. \A z \in Settlers : settlers[z].pc = "remove" => settlers[z].payment \in DOMAIN ledger
  BY DEF SerialInv, TypeInv, SettlerKnows
<1> HIDE DEF t, p
<1>6. FailedIsRetryable'
  <2>1. issued[p].deadline > now => p \in DOMAIN prepared
    BY <1>1 DEF SerialInv, WorkIsRetryable, AtWork, t, p
  <2> QED
    BY <1>1, <1>2, <1>3, <2>1 DEF SerialInv, FailedIsRetryable, IsSuccess
<1>7. WorkIsRetryable'
  BY <1>1, <1>3 DEF SerialInv, WorkIsRetryable, AtWork, Advances
<1>8. RemoveAfterSuccess'
  <2> SUFFICES ASSUME NEW z \in Settlers, settlers'[z].pc = "remove"
               PROVE  /\ settlers'[z].kind \in SuccessKinds
                      /\ IsSuccess(ledger'[settlers'[z].payment])
    BY DEF RemoveAfterSuccess, IsSuccess
  <2>1. CASE z = s
    BY <1>2, <1>3, <2>1 DEF Advances, IsSuccess, t, p
  <2>2. CASE z # s
    BY <1>2, <1>3, <1>4, <1>5, <2>2 DEF SerialInv, RemoveAfterSuccess, Advances, IsSuccess
  <2> QED
    BY <2>1, <2>2
<1>9. ASSUME ~Interrupted' PROVE UninterruptedInv'
  <2>1. UninterruptedInv
    BY <1>1, <1>9 DEF SerialInv, Interrupted
  <2>2. FireOnce' /\ WinnersAreOver'
    BY <1>1, <1>3, <2>1 DEF UninterruptedInv, FireOnce, WinnersAreOver, Advances, t, p
  <2>3. PaidLeaves'
    BY <1>1, <1>2, <1>3, <2>1 DEF UninterruptedInv, PaidLeaves, Advances, IsSuccess, t, p
  <2>4. WorkIsUnpaid'
    BY <1>1, <1>2, <1>3, <1>4, <2>1
    DEF UninterruptedInv, WorkIsUnpaid, AtWork, Advances, IsSuccess
  <2> QED
    BY <2>2, <2>3, <2>4 DEF UninterruptedInv
<1> QED
  BY <1>6, <1>7, <1>8, <1>9 DEF SerialInv

LEMMA RemoveIsSafe ==
    ASSUME SerialInv, SerialSettles, TypeInv', NEW s \in Settlers, SettleRemove(s)
    PROVE  SerialInv'
<1> DEFINE p == settlers[s].payment
<1>1. /\ Advances(s, "idle") /\ settlers[s].pc = "remove"
      /\ UNCHANGED <<ledger, won, interruptions>>
  BY SettleAdvances DEF SerialInv, SettleRemove, chain, bounds
<1>2. DOMAIN prepared' = DOMAIN prepared \ {p}
  BY DEF SettleRemove, Forget, Restrict
<1>3. /\ p \in DOMAIN issued /\ IsSuccess(ledger[p])
      /\ \A z \in Settlers \ {s} : settlers[z].pc # "idle" => settlers[z].payment # p
  BY <1>1 DEF SerialInv, TypeInv, SettlerKnows, RemoveAfterSuccess, SerialSettles
<1> HIDE DEF p
<1>4. FailedIsRetryable' /\ RemoveAfterSuccess'
  BY <1>1, <1>2, <1>3
  DEF SerialInv, FailedIsRetryable, RemoveAfterSuccess, Advances, IsSuccess
<1>5. WorkIsRetryable'
  BY <1>1, <1>2, <1>3 DEF SerialInv, WorkIsRetryable, AtWork, Advances
<1>6. ASSUME ~Interrupted' PROVE UninterruptedInv'
  <2>1. UninterruptedInv
    BY <1>1, <1>6 DEF SerialInv, Interrupted
  <2>2. FireOnce' /\ WinnersAreOver'
    BY <1>1, <1>2, <1>3, <2>1 DEF UninterruptedInv, FireOnce, WinnersAreOver, Advances, p
  <2>3. PaidLeaves' /\ WorkIsUnpaid'
    BY <1>1, <1>2, <1>3, <2>1
    DEF UninterruptedInv, PaidLeaves, WorkIsUnpaid, AtWork, Advances, IsSuccess, p
  <2> QED
    BY <2>2, <2>3 DEF UninterruptedInv
<1> QED
  BY <1>4, <1>5, <1>6 DEF SerialInv

(* An interruption only takes settles away. *)
LEMMA InterruptionIsSafe ==
    ASSUME SerialInv, TypeInv', interruptions' = interruptions + 1,
           UNCHANGED <<issued, prepared, ledger, now>>,
           \A s \in Settlers : settlers'[s] = settlers[s] \/ settlers'[s].pc = "idle"
    PROVE  SerialInv' /\ Interrupted'
<1>1. interruptions \in Nat
  BY DEF SerialInv, TypeInv, TypeOK
<1>2. Interrupted'
  BY <1>1 DEF Interrupted
<1>3. FailedIsRetryable' /\ RemoveAfterSuccess' /\ WorkIsRetryable'
  BY DEF SerialInv, FailedIsRetryable, RemoveAfterSuccess, WorkIsRetryable, AtWork, IsSuccess
<1> QED
  BY <1>2, <1>3 DEF SerialInv

(* Every step that is not a settle's is quiet or a crash. *)
LEMMA OtherStepsAreQuiet ==
    ASSUME TypeInv,
           \/ \E a \in Preparers : PrepareStep(a)
           \/ \E r \in Readers : LookupStep(r)
           \/ Sweep \/ Tick \/ UNCHANGED vars
    PROVE  QuietStep
<1> USE DEF stores, chain, tasks, bounds
<1>1. ASSUME UNCHANGED <<settlers, ledger, won, interruptions, prepared>> PROVE QuietStep
  BY <1>1 DEF QuietStep
<1>2. ASSUME NEW a \in Preparers, PrepareStep(a) PROVE QuietStep
  <2>1. ASSUME NEW p \in Payments, NEW expiry \in Expiries, PrepareInsert(a, p, expiry)
        PROVE  QuietStep
    BY <2>1 DEF PrepareInsert, Put, QuietStep
  <2> QED
    BY <1>1, <1>2, <2>1 DEF PrepareStep, PrepareReplay, PrepareMiss, PrepareError
<1>3. ASSUME NEW r \in Readers, LookupStep(r) PROVE QuietStep
  BY <1>1, <1>3 DEF LookupStep, LookupLedger, LookupPrepared
<1>4. CASE Sweep
  <2>1. DOMAIN prepared' = {p \in DOMAIN prepared : prepared[p].deadline > now}
    BY <1>4 DEF Sweep, Restrict
  <2> QED
    BY <1>4, <2>1 DEF Sweep, QuietStep, TypeInv, PreparedAsIssued
<1>5. CASE Tick \/ UNCHANGED vars
  BY <1>1, <1>5 DEF Tick, vars
<1> QED
  BY <1>2, <1>3, <1>4, <1>5

LEMMA CrashInterrupts ==
    ASSUME Crash
    PROVE  /\ interruptions' = interruptions + 1
           /\ UNCHANGED <<issued, prepared, ledger, now>>
           /\ \A s \in Settlers : settlers'[s].pc = "idle"
<1>1. interruptions' = interruptions + 1 /\ settlers' = [s \in Settlers |-> IdleSettler]
  BY Zenon DEF Crash
<1>2. UNCHANGED <<issued, prepared, ledger, now>>
  BY DEF Crash, stores
<1> QED
  BY <1>1, <1>2 DEF IdleSettler

LEMMA SerialStep ==
    SerialInv /\ SerialSettles /\ SerialSettles' /\ [Next]_vars => SerialInv'
<1> SUFFICES ASSUME SerialInv, SerialSettles, SerialSettles', [Next]_vars
             PROVE  SerialInv'
  OBVIOUS
<1>1. TypeInv /\ TypeInv' /\ TableStep
  BY TypeStep, EveryStepIsATableStep DEF SerialInv
<1>2. ASSUME NEW s \in Settlers, SettleStep(s) PROVE SerialInv'
  <2>1. CASE SettleStoreError(s)
    <3>1. Advances(s, "idle")
      BY <1>1, <2>1, SettleAdvances
    <3>2. /\ interruptions' = interruptions + 1
          /\ UNCHANGED <<issued, prepared, ledger, now>>
      BY <2>1 DEF SettleStoreError, stores
    <3> QED
      BY <1>1, <3>1, <3>2, InterruptionIsSafe DEF Advances
  <2> QED
    BY <1>1, <1>2, <2>1, FindIsSafe, SubmitIsSafe, UnavailableIsSafe, RecordIsSafe,
       RemoveIsSafe
    DEF SettleStep
<1>3. CASE Crash
  BY <1>1, <1>3, CrashInterrupts, InterruptionIsSafe
<1> QED
  BY <1>1, <1>2, <1>3, OtherStepsAreQuiet, QuietStepIsSafe DEF Next

LEMMA SerialHolds == Spec /\ []SerialSettles => []SerialInv
<1>1. Init => SerialInv
  <2> SUFFICES ASSUME Init PROVE SerialInv
    OBVIOUS
  <2>1. TypeInv
    BY TypeInit
  <2>2. /\ DOMAIN ledger = {} /\ DOMAIN prepared = {} /\ won = {}
        /\ \A s \in Settlers : settlers[s].pc = "idle"
    BY DEF Init, NoRows, IdleSettler
  <2>3. FailedIsRetryable /\ WorkIsRetryable /\ RemoveAfterSuccess
    BY <2>2 DEF FailedIsRetryable, WorkIsRetryable, RemoveAfterSuccess, AtWork
  <2>4. UninterruptedInv
    BY <2>2 DEF UninterruptedInv, FireOnce, WinnersAreOver, PaidLeaves, WorkIsUnpaid, AtWork
  <2> QED
    BY <2>1, <2>3, <2>4 DEF SerialInv
<1> QED
  BY <1>1, SerialStep, PTL DEF Spec

(* When the settles of a payment follow one another, a payment whose last   *)
(* recorded outcome is a failure keeps its preparation until the deadline,  *)
(* whatever crashes and whichever statement fails: submit_settlement        *)
(* removes a preparation only after it has recorded a success.              *)
THEOREM FailuresStayRetryable == Spec /\ []SerialSettles => []FailedIsRetryable
<1>1. SerialInv => FailedIsRetryable
  BY DEF SerialInv
<1> QED
  BY <1>1, SerialHolds, PTL

(* When they follow one another and none is cut short, no two different     *)
(* transactions are broadcast with success for one payment.  The run        *)
(* settle_crash_refire shows what an interruption does instead.             *)
THEOREM SerialSettlesFireOnce == Spec /\ []SerialSettles => []FireOnceUninterrupted
<1>1. SerialInv => FireOnceUninterrupted
  BY DEF SerialInv, UninterruptedInv, FireOnceUninterrupted
<1> QED
  BY <1>1, SerialHolds, PTL

-----------------------------------------------------------------------------
(* The refinement of PaymentContract *)

PhaseMap == [p \in Payments |-> Phase(p)]
PaidByMap == [p \in Payments |-> IF p \in DOMAIN ledger THEN ledger[p].tx ELSE NoTx]

(* A step of the contract, over the mapped state. *)
ContractStep == Contract!Next \/ UNCHANGED <<PhaseMap, PaidByMap, Interrupted>>

(* The phase of a payment depends on its rows alone. *)
LEMMA SameRowsSamePhase ==
    ASSUME NEW p, p \in DOMAIN ledger <=> p \in DOMAIN ledger',
           p \in DOMAIN ledger => ledger'[p] = ledger[p],
           p \in DOMAIN prepared <=> p \in DOMAIN prepared',
           p \in DOMAIN issued <=> p \in DOMAIN issued'
    PROVE  Phase(p)' = Phase(p)
  BY DEF Phase, IsSuccess

LEMMA SameTablesStutter ==
    ASSUME UNCHANGED <<issued, prepared, ledger, interruptions>>
    PROVE  ContractStep
  BY DEF ContractStep, PhaseMap, PaidByMap, Phase, Interrupted, IsSuccess

LEMMA InsertIssues ==
    ASSUME TypeInv, NEW a \in Preparers, NEW p \in Payments, NEW expiry \in Expiries,
           PrepareInsert(a, p, expiry)
    PROVE  ContractStep
<1>1. /\ p \notin DOMAIN issued /\ p \notin DOMAIN prepared /\ p \notin DOMAIN ledger
      /\ DOMAIN issued' = DOMAIN issued \cup {p}
      /\ DOMAIN prepared' = DOMAIN prepared \cup {p}
      /\ UNCHANGED <<ledger, interruptions>>
  BY DEF TypeInv, TypeOK, PrepareInsert, Put, bounds
<1>2. Phase(p) = "unissued" /\ Phase(p)' = "open"
  BY <1>1 DEF Phase
<1>3. \A q \in Payments \ {p} : Phase(q)' = Phase(q)
  BY <1>1, SameRowsSamePhase
<1>4. PhaseMap' = [PhaseMap EXCEPT ![p] = "open"]
  BY <1>2, <1>3 DEF PhaseMap
<1>5. UNCHANGED <<PaidByMap, Interrupted>>
  BY <1>1 DEF PaidByMap, Interrupted
<1>6. Contract!Issue(p)
  BY <1>2, <1>4, <1>5 DEF Contract!Issue, PhaseMap, PaidByMap
<1> QED
  BY <1>6 DEF ContractStep, Contract!Next

(* A settle under way may settle: the payment is issued, and paid before    *)
(* only if something was interrupted.                                       *)
LEMMA RecordPaysOrFails ==
    ASSUME SerialInv, TypeInv', NEW s \in Settlers, SettleRecord(s)
    PROVE  ContractStep
<1>1. /\ settlers[s].pc = "record" /\ settlers[s].payment \in Payments
      /\ settlers[s].payment \in DOMAIN issued /\ settlers[s].tx \in Txs
  BY DEF SettleRecord, SerialInv, TypeInv, TypeOK, SettlerKnows
<1>2. PICK p \in Payments : p = settlers[s].payment
  BY <1>1
<1>3. PICK tx \in Txs : tx = settlers[s].tx
  BY <1>1
<1>4. PICK kind : kind = settlers[s].kind
  OBVIOUS
<1>5. PICK row : row = FreshRow(settlers[s].kind, settlers[s].tx, settlers[s].expiry)
  OBVIOUS
<1>6. /\ row.kind = kind
      /\ row.tx = IF kind \in SuccessKinds THEN tx ELSE NoTx
  BY <1>3, <1>4, <1>5 DEF FreshRow
<1>7. ledger' = Put(ledger, p, row) /\ UNCHANGED <<issued, prepared, interruptions>>
  BY <1>2, <1>5 DEF SettleRecord, Record, bounds
<1>8. /\ DOMAIN ledger' = DOMAIN ledger \cup {p} /\ ledger'[p] = row
      /\ \A q \in DOMAIN ledger \ {p} : ledger'[q] = ledger[q]
  BY <1>7 DEF Put
<1>9. Phase(p) \in {"open", "lapsed", "failed"} \/ (Phase(p) = "paid" /\ Interrupted)
  BY <1>1, <1>2 DEF SerialInv, UninterruptedInv, WorkIsUnpaid, AtWork, Phase
<1>10. Phase(p)' = IF kind \in SuccessKinds THEN "paid" ELSE "failed"
  BY <1>6, <1>8 DEF Phase, IsSuccess
<1>11. \A q \in Payments \ {p} : Phase(q)' = Phase(q)
  BY <1>7, <1>8, SameRowsSamePhase
<1>12. PhaseMap' = [PhaseMap EXCEPT ![p] = IF kind \in SuccessKinds THEN "paid" ELSE "failed"]
  BY <1>10, <1>11 DEF PhaseMap
<1>13. PaidByMap' = [PaidByMap EXCEPT ![p] = IF kind \in SuccessKinds THEN tx ELSE NoTx]
  BY <1>6, <1>8 DEF PaidByMap
<1>14. UNCHANGED Interrupted
  BY <1>7 DEF Interrupted
<1>15. CASE kind \in SuccessKinds
  <2>1. Contract!Pay(p, tx)
    BY <1>9, <1>12, <1>13, <1>14, <1>15
    DEF Contract!Pay, Contract!MaySettle, PhaseMap, PaidByMap
  <2> QED
    BY <2>1 DEF ContractStep, Contract!Next
<1>16. CASE kind \notin SuccessKinds
  <2>1. Contract!Fail(p)
    BY <1>9, <1>12, <1>13, <1>14, <1>16
    DEF Contract!Fail, Contract!MaySettle, PhaseMap, PaidByMap
  <2> QED
    BY <2>1 DEF ContractStep, Contract!Next
<1> QED
  BY <1>15, <1>16

(* The removed preparation has a row already. *)
LEMMA RemoveStutters ==
    ASSUME TypeInv, NEW s \in Settlers, SettleRemove(s)
    PROVE  ContractStep
<1>0. PICK p : p = settlers[s].payment
  OBVIOUS
<1>1. /\ DOMAIN prepared' = DOMAIN prepared \ {p} /\ p \in DOMAIN ledger
      /\ UNCHANGED <<issued, ledger, interruptions>>
  BY <1>0 DEF TypeInv, SettlerKnows, SettleRemove, Forget, Restrict, bounds
<1>2. \A q \in Payments : Phase(q)' = Phase(q)
  BY <1>1 DEF Phase, IsSuccess
<1> QED
  BY <1>1, <1>2 DEF ContractStep, PhaseMap, PaidByMap, Interrupted

LEMMA SweepLapses ==
    ASSUME TypeInv, Sweep
    PROVE  ContractStep
<1>0. PICK ps : ps = (DOMAIN prepared \ DOMAIN prepared') \ DOMAIN ledger
  OBVIOUS
<1>1. /\ DOMAIN prepared' \subseteq DOMAIN prepared
      /\ DOMAIN prepared \subseteq DOMAIN issued /\ DOMAIN issued \subseteq Payments
      /\ UNCHANGED <<issued, ledger, interruptions>>
  BY DEF TypeInv, TypeOK, Sweep, Restrict, bounds
<1>2. ps \in SUBSET Payments
  BY <1>0, <1>1
<1>3. \A p \in ps : Phase(p) = "open" /\ Phase(p)' = "lapsed"
  BY <1>0, <1>1 DEF Phase
<1>4. \A p \in Payments \ ps : Phase(p)' = Phase(p)
  BY <1>0, <1>1 DEF Phase, IsSuccess
<1>5. PhaseMap' = [p \in Payments |-> IF p \in ps THEN "lapsed" ELSE PhaseMap[p]]
  BY <1>3, <1>4 DEF PhaseMap
<1>6. UNCHANGED <<PaidByMap, Interrupted>>
  BY <1>1 DEF PaidByMap, Interrupted
<1>7. Contract!Lapse(ps)
  BY <1>2, <1>3, <1>5, <1>6 DEF Contract!Lapse, PhaseMap, PaidByMap
<1> QED
  BY <1>2, <1>7 DEF ContractStep, Contract!Next

LEMMA InterruptionInterrupts ==
    ASSUME TypeInv, interruptions' = interruptions + 1, UNCHANGED <<issued, prepared, ledger>>
    PROVE  ContractStep
<1>1. interruptions \in Nat
  BY DEF TypeInv, TypeOK
<1>2. Interrupted' = TRUE
  BY <1>1 DEF Interrupted
<1>3. UNCHANGED <<PhaseMap, PaidByMap>>
  BY DEF PhaseMap, PaidByMap, Phase, IsSuccess
<1>4. Contract!Interrupt
  BY <1>2, <1>3 DEF Contract!Interrupt, PhaseMap, PaidByMap
<1> QED
  BY <1>4 DEF ContractStep, Contract!Next

LEMMA EveryStepIsAContractStep ==
    SerialInv /\ SerialInv' /\ [Next]_vars => ContractStep
<1> SUFFICES ASSUME SerialInv, SerialInv', [Next]_vars PROVE ContractStep
  OBVIOUS
<1>1. TypeInv /\ TypeInv'
  BY DEF SerialInv
<1> USE DEF stores, chain, tasks, bounds
<1>2. ASSUME NEW a \in Preparers, PrepareStep(a) PROVE ContractStep
  <2>1. CASE \E p \in Payments, expiry \in Expiries : PrepareInsert(a, p, expiry)
    BY <1>1, <2>1, InsertIssues
  <2>2. CASE ~\E p \in Payments, expiry \in Expiries : PrepareInsert(a, p, expiry)
    BY <1>2, <2>2, SameTablesStutter DEF PrepareStep, PrepareReplay, PrepareMiss, PrepareError
  <2> QED
    BY <2>1, <2>2
<1>3. ASSUME NEW s \in Settlers, SettleStep(s) PROVE ContractStep
  <2>1. CASE SettleRecord(s) \/ SettleRemove(s)
    BY <1>1, <2>1, RecordPaysOrFails, RemoveStutters
  <2>2. CASE SettleStoreError(s)
    BY <1>1, <2>2, InterruptionInterrupts DEF SettleStoreError
  <2>3. CASE ~(SettleRecord(s) \/ SettleRemove(s) \/ SettleStoreError(s))
    BY <1>3, <2>3, SameTablesStutter DEF SettleStep, SettleFind, SettleSubmit, SettleUnavailable
  <2> QED
    BY <2>1, <2>2, <2>3
<1>4. ASSUME NEW r \in Readers, LookupStep(r) PROVE ContractStep
  BY <1>4, SameTablesStutter DEF LookupStep, LookupLedger, LookupPrepared
<1>5. CASE Sweep
  BY <1>1, <1>5, SweepLapses
<1>6. CASE Crash
  BY <1>1, <1>6, CrashInterrupts, InterruptionInterrupts
<1>7. CASE Tick \/ UNCHANGED vars
  BY <1>7, SameTablesStutter DEF Tick, vars
<1> QED
  BY <1>2, <1>3, <1>4, <1>5, <1>6, <1>7 DEF Next

(* The facilitator's write path implements PaymentContract for settles that *)
(* follow one another: every handler step, sweep, crash and failed          *)
(* statement is a step of the contract or none, so a payment that is paid   *)
(* stays paid by one transaction unless something was interrupted.          *)
THEOREM LifecycleImplementsContract == Spec /\ []SerialSettles => ImplementsContract
<1>1. Init => Contract!Init
  <2> SUFFICES ASSUME Init PROVE Contract!Init
    OBVIOUS
  <2>1. DOMAIN ledger = {} /\ DOMAIN prepared = {} /\ DOMAIN issued = {} /\ interruptions = 0
    BY DEF Init, NoRows
  <2> QED
    BY <2>1 DEF Contract!Init, Phase, Interrupted
<1>2. SerialInv /\ SerialInv' /\ [Next]_vars => [Contract!Next]_(Contract!vars)
  BY EveryStepIsAContractStep DEF ContractStep, Contract!vars, PhaseMap, PaidByMap
<1> QED
  BY <1>1, <1>2, SerialHolds, PTL DEF Spec, ImplementsContract, Contract!Spec
=============================================================================
