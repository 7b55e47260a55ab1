--------------------------- MODULE PaymentLifecycle ---------------------------
(***************************************************************************)
(* The facilitator's write path and the status read beside it: POST        *)
(* /prepare, POST /settle (the lifecycle route and the x402 route that     *)
(* names a zpay payment), the sweeper of expired preparations, and GET     *)
(* /payments/{id}.                                                         *)
(*                                                                         *)
(* Handlers are tokio tasks.  Each one runs from one await to the next     *)
(* without seeing the others, so every action below ends at an await on a  *)
(* store or on the chain plane, and nothing is locked in between.  Both    *)
(* stores are libSQL tables: they survive a crash, the tasks do not.       *)
(***************************************************************************)
EXTENDS LedgerRows, Functions

CONSTANTS
    Payments,          \* payment ids the ULID generator may hand out
    Jkts,              \* thumbprints of the agents' DPoP keys
    Keys,              \* idempotency keys
    NoKey,             \* a prepare request without one
    Expiries,          \* expiry heights the chain tip and the delta can give
    Tips,              \* visible tips a status read may be given
    Validity,          \* seconds a preparation stays valid
    Preparers, Settlers, Readers,      \* concurrent requests of each kind
    MaxTime,           \* bound on the clock
    MaxInterruptions   \* bound on process restarts and failed store statements

ASSUME LifecycleAssumption ==
    /\ NoKey \notin Keys
    /\ Expiries \subseteq Nat \ {0} /\ Tips \subseteq Nat
    /\ Validity \in Nat \ {0}
    /\ MaxTime \in Nat /\ MaxInterruptions \in Nat

VARIABLES
    now,         \* unix seconds
    issued,      \* the preparation each payment id was handed out with
    prepared,    \* table prepared_tx
    ledger,      \* table settlement_ledger
    taken,       \* <<payment, tx>> the network has taken for a payment
    won,         \* the part of it that was answered with a success kind
    answers,     \* what prepare answered: a key of an agent, a payment id
    preparers, settlers, readers,     \* the tasks
    interruptions

vars == <<now, issued, prepared, ledger, taken, won, answers, preparers, settlers,
          readers, interruptions>>

stores == <<prepared, ledger>>
chain  == <<taken, won>>
tasks  == <<preparers, settlers, readers>>
bounds == <<now, interruptions>>

-----------------------------------------------------------------------------
(* Task states *)

Preparation == [jkt : Jkts, key : Keys \cup {NoKey}, expiry : Expiries,
                deadline : Nat]

Statuses == {"none", "awaiting", "broadcast", "mined", "final", "failed",
             "never_issued", "expired"}

(* PaymentStatusSnapshot: the status, and the broadcast outcome when the    *)
(* answer comes from a ledger row.                                          *)
NoOutcome == "no outcome"
PaymentStatusSnapshot == [status : Statuses, outcome : Kinds \cup {NoOutcome}]
NothingSeen == [status |-> "none", outcome |-> NoOutcome]

IdlePreparer == [pc |-> "idle", jkt |-> NoKey, key |-> NoKey]
IdleSettler ==
    [pc |-> "idle", payment |-> NoKey, tx |-> NoTx, expiry |-> 0, kind |-> "unknown"]

PreparerState == [pc : {"idle", "insert"}, jkt : Jkts \cup {NoKey},
                  key : Keys \cup {NoKey}]
SettlerState == [pc : {"idle", "submit", "record", "remove"},
                 payment : Payments \cup {NoKey}, tx : Txs \cup {NoTx},
                 expiry : Nat, kind : Kinds]
ReaderState == [pc : {"idle", "prepared"}, payment : Payments \cup {NoKey},
                seen : [Payments -> PaymentStatusSnapshot]]

Init ==
    /\ now = 0
    /\ issued = NoRows /\ prepared = NoRows /\ ledger = NoRows
    /\ taken = {} /\ won = {} /\ answers = {}
    /\ preparers = [a \in Preparers |-> IdlePreparer]
    /\ settlers = [s \in Settlers |-> IdleSettler]
    /\ readers = [r \in Readers |-> [pc |-> "idle", payment |-> NoKey,
                                     seen |-> [p \in Payments |-> NothingSeen]]]
    /\ interruptions = 0

-----------------------------------------------------------------------------
(* propose: replay lookup, then registry and tip oracle, then the insert.  *)

Holders(jkt, key) ==
    {p \in DOMAIN prepared :
        key # NoKey /\ prepared[p].jkt = jkt /\ prepared[p].key = key}

(* find_by_idempotency hits: the prior preparation is returned verbatim. *)
PrepareReplay(a, jkt, key) ==
    /\ preparers[a].pc = "idle"
    /\ \E p \in Holders(jkt, key) :
          answers' = answers \cup {[jkt |-> jkt, key |-> key, payment |-> p]}
    /\ UNCHANGED <<issued, chain, stores, tasks, bounds>>

(* It misses, or there is no key: on to the registry and the tip oracle. *)
PrepareMiss(a, jkt, key) ==
    /\ preparers[a].pc = "idle"
    /\ Holders(jkt, key) = {}
    /\ preparers' = [preparers EXCEPT
                        ![a] = [pc |-> "insert", jkt |-> jkt, key |-> key]]
    /\ UNCHANGED <<issued, chain, answers, stores, settlers, readers, bounds>>

(* Mutant: the unique index is missing. *)
KeyIsFree_NoIndex(jkt, key) == TRUE

(* The unique index on (agent_dpop_jkt, idempotency_key). *)
KeyIsFree(jkt, key) == Holders(jkt, key) = {}

(* Mutant: the validity is subtracted from the clock. *)
PrepareInsert_PastDeadline(a, p, expiry) ==
    LET row == [jkt |-> preparers[a].jkt, key |-> preparers[a].key,
                expiry |-> expiry, deadline |-> now - Validity]
    IN  /\ preparers[a].pc = "insert"
        /\ p \notin DOMAIN issued
        /\ KeyIsFree(row.jkt, row.key)
        /\ issued' = Put(issued, p, row)
        /\ prepared' = Put(prepared, p, row)
        /\ answers' = answers \cup {[jkt |-> row.jkt, key |-> row.key, payment |-> p]}
        /\ preparers' = [preparers EXCEPT ![a] = IdlePreparer]
        /\ UNCHANGED <<ledger, chain, settlers, readers, bounds>>

PrepareInsert(a, p, expiry) ==
    LET jkt == preparers[a].jkt
        key == preparers[a].key
        row == [jkt |-> jkt, key |-> key, expiry |-> expiry,
                deadline |-> now + Validity]
    IN  /\ preparers[a].pc = "insert"
        /\ p \notin DOMAIN issued
        /\ KeyIsFree(jkt, key)
        /\ issued' = Put(issued, p, row)
        /\ prepared' = Put(prepared, p, row)
        /\ answers' = answers \cup {[jkt |-> jkt, key |-> key, payment |-> p]}
        /\ preparers' = [preparers EXCEPT ![a] = IdlePreparer]
        /\ UNCHANGED <<ledger, chain, settlers, readers, bounds>>

(* Unknown payee, tip oracle down, zero expiry, or a store error (the      *)
(* unique index included): an error answer, nothing written.               *)
PrepareError(a) ==
    /\ preparers[a].pc = "insert"
    /\ preparers' = [preparers EXCEPT ![a] = IdlePreparer]
    /\ UNCHANGED <<issued, chain, answers, stores, settlers, readers, bounds>>

-----------------------------------------------------------------------------
(* submit_settlement and x402_settle_handler: find, submit, record, remove. *)
(* What is answered to the caller is not kept: an answer ends the request.  *)

Done(s) == [settlers EXCEPT ![s] = IdleSettler]

(* The checks between the find and the submit.  The x402 route has no DPoP  *)
(* key to compare; it compares the payment's terms, which the request here  *)
(* always carries right.  A refused request (PreparationNotFound,           *)
(* DpopMismatch, ExpiryHeightMismatch) changes nothing: it is no step.      *)
Accepts(p, route, jkt, signedExpiry) ==
    /\ p \in DOMAIN prepared
    /\ route = "lifecycle" => prepared[p].jkt = jkt
    /\ prepared[p].expiry = signedExpiry

SettleFind(s, p, route, jkt, tx, signedExpiry) ==
    /\ settlers[s].pc = "idle"
    /\ Accepts(p, route, jkt, signedExpiry)
    /\ settlers' = [settlers EXCEPT
          ![s] = [pc |-> "submit", payment |-> p, tx |-> tx,
                  expiry |-> prepared[p].expiry, kind |-> "unknown"]]
    /\ UNCHANGED <<issued, chain, answers, stores, preparers, readers, bounds>>

(* The network knows a transaction once it has taken it for any payment. *)
OnNetwork(tx) == \E p \in Payments : <<p, tx>> \in taken

(* The chain plane's answer.  Only a success kind promises that the network *)
(* has the transaction; "unknown" and an error leave it open.               *)
SubmitEffect(s, kind) ==
    LET pair == <<settlers[s].payment, settlers[s].tx>>
    IN  \/ /\ kind = IF OnNetwork(settlers[s].tx) THEN "duplicate" ELSE "accepted"
           /\ taken' = taken \cup {pair} /\ won' = won \cup {pair}
        \/ /\ kind = "unknown"
           /\ taken' = taken \cup {pair} /\ UNCHANGED won
        \/ /\ kind \in FailureKinds
           /\ UNCHANGED chain

Forget(p) == Restrict(prepared, DOMAIN prepared \ {p})

(* Mutant: a success removes the preparation before the row is recorded. *)
SettleSubmit_RemovesFirst(s, kind) ==
    /\ settlers[s].pc = "submit"
    /\ SubmitEffect(s, kind)
    /\ settlers' = [settlers EXCEPT ![s].pc = "record", ![s].kind = kind]
    /\ prepared' = IF kind \in SuccessKinds THEN Forget(settlers[s].payment) ELSE prepared
    /\ UNCHANGED <<issued, ledger, answers, preparers, readers, bounds>>

SettleSubmit(s, kind) ==
    /\ settlers[s].pc = "submit"
    /\ SubmitEffect(s, kind)
    /\ settlers' = [settlers EXCEPT ![s].pc = "record", ![s].kind = kind]
    /\ UNCHANGED <<issued, answers, stores, preparers, readers, bounds>>

(* Mutant: an error of the submitter is taken for an accepted broadcast. *)
SettleUnavailable_AsAccepted(s) ==
    /\ settlers[s].pc = "submit"
    /\ SubmitEffect(s, "unknown")
    /\ settlers' = [settlers EXCEPT ![s].pc = "record", ![s].kind = "accepted"]
    /\ UNCHANGED <<issued, answers, stores, preparers, readers, bounds>>

(* Submitter::submit itself errs: ChainUnavailable, nothing recorded. *)
SettleUnavailable(s) ==
    /\ settlers[s].pc = "submit"
    /\ SubmitEffect(s, "unknown")
    /\ settlers' = Done(s)
    /\ UNCHANGED <<issued, answers, stores, preparers, readers, bounds>>

(* Mutant: the preparation goes whatever the outcome. *)
SettleRecord_AlwaysRemoves(s) ==
    LET t == settlers[s]
    IN  /\ t.pc = "record"
        /\ ledger' = Record(ledger, t.payment, FreshRow(t.kind, t.tx, t.expiry))
        /\ settlers' = [settlers EXCEPT ![s].pc = "remove"]
        /\ UNCHANGED <<issued, prepared, chain, answers, preparers, readers, bounds>>

(* Mutant: the preparation stays whatever the outcome. *)
SettleRecord_NeverRemoves(s) ==
    LET t == settlers[s]
    IN  /\ t.pc = "record"
        /\ ledger' = Record(ledger, t.payment, FreshRow(t.kind, t.tx, t.expiry))
        /\ settlers' = Done(s)
        /\ UNCHANGED <<issued, prepared, chain, answers, preparers, readers, bounds>>

SettleRecord(s) ==
    LET t == settlers[s]
    IN  /\ t.pc = "record"
        /\ ledger' = Record(ledger, t.payment, FreshRow(t.kind, t.tx, t.expiry))
        /\ settlers' = IF t.kind \in SuccessKinds
                       THEN [settlers EXCEPT ![s].pc = "remove"]
                       ELSE Done(s)
        /\ UNCHANGED <<issued, prepared, chain, answers, preparers, readers, bounds>>

SettleRemove(s) ==
    /\ settlers[s].pc = "remove"
    /\ prepared' = Forget(settlers[s].payment)
    /\ settlers' = Done(s)
    /\ UNCHANGED <<issued, ledger, chain, answers, preparers, readers, bounds>>

(* record or remove fails: the error is returned and nothing is undone. *)
SettleStoreError(s) ==
    /\ settlers[s].pc \in {"record", "remove"}
    /\ interruptions < MaxInterruptions
    /\ interruptions' = interruptions + 1
    /\ settlers' = Done(s)
    /\ UNCHANGED <<issued, chain, answers, stores, preparers, readers, now>>

-----------------------------------------------------------------------------
(* lookup_payment_status: the ledger first, then the prepared store.  The  *)
(* caller hands in the chain view it has just read: unknown, or some       *)
(* visible tip, higher or lower than the one before.  No row is mined      *)
(* here, so the settled tip does not matter.                               *)

ChainViews == {UnknownView}
    \cup {[known |-> TRUE, visible |-> tip, settled |-> 0] : tip \in Tips}

Answered(r, p, snapshot) ==
    [readers EXCEPT ![r].pc = "idle", ![r].payment = NoKey,
                    ![r].seen[p] = snapshot]

LedgerSnapshot(row, view) ==
    [status |-> LedgerStatus(row, view), outcome |-> row.kind]

LookupLedger(r, p, view) ==
    /\ readers[r].pc = "idle"
    /\ readers' = IF p \in DOMAIN ledger
                  THEN Answered(r, p, LedgerSnapshot(ledger[p], view))
                  ELSE [readers EXCEPT ![r].pc = "prepared", ![r].payment = p]
    /\ UNCHANGED <<issued, chain, answers, stores, preparers, settlers, bounds>>

PreparedStatus(p) ==
    IF p \notin DOMAIN prepared THEN "never_issued"
    ELSE IF prepared[p].deadline > now THEN "awaiting" ELSE "expired"

PreparedSnapshot(p) == [status |-> PreparedStatus(p), outcome |-> NoOutcome]

LookupPrepared(r) ==
    /\ readers[r].pc = "prepared"
    /\ readers' = Answered(r, readers[r].payment, PreparedSnapshot(readers[r].payment))
    /\ UNCHANGED <<issued, chain, answers, stores, preparers, settlers, bounds>>

-----------------------------------------------------------------------------
(* Sweeper, clock, crash *)

(* Mutant: the sweeper purges the settlement row as well. *)
Sweep_LedgerToo ==
    LET live == {p \in DOMAIN prepared : prepared[p].deadline > now}
    IN  /\ live # DOMAIN prepared
        /\ prepared' = Restrict(prepared, live)
        /\ ledger' = Restrict(ledger, DOMAIN ledger \ (DOMAIN prepared \ live))
        /\ UNCHANGED <<issued, chain, answers, tasks, bounds>>

(* sweep_expired drops a preparation at its deadline; the ledger is left. *)
Sweep ==
    LET live == {p \in DOMAIN prepared : prepared[p].deadline > now}
    IN  /\ live # DOMAIN prepared
        /\ prepared' = Restrict(prepared, live)
        /\ UNCHANGED <<issued, ledger, chain, answers, tasks, bounds>>

Tick ==
    /\ now < MaxTime
    /\ now' = now + 1
    /\ UNCHANGED <<issued, chain, answers, stores, tasks, interruptions>>

(* Every task dies where it stands; the observers outside keep what they   *)
(* have seen.                                                              *)
Crash ==
    /\ interruptions < MaxInterruptions
    /\ interruptions' = interruptions + 1
    /\ preparers' = [a \in Preparers |-> IdlePreparer]
    /\ settlers' = [s \in Settlers |-> IdleSettler]
    /\ readers' = [r \in Readers |-> [readers[r] EXCEPT !.pc = "idle",
                                                        !.payment = NoKey]]
    /\ UNCHANGED <<issued, chain, answers, stores, now>>

-----------------------------------------------------------------------------
PrepareStep(a) ==
    \/ \E jkt \in Jkts, key \in Keys \cup {NoKey} :
          PrepareReplay(a, jkt, key) \/ PrepareMiss(a, jkt, key)
    \/ \E p \in Payments, expiry \in Expiries : PrepareInsert(a, p, expiry)
    \/ PrepareError(a)

SettleStep(s) ==
    \/ \E p \in Payments, route \in {"lifecycle", "x402"}, jkt \in Jkts,
          signedExpiry \in Expiries, tx \in Txs :
          SettleFind(s, p, route, jkt, tx, signedExpiry)
    \/ \E kind \in Kinds : SettleSubmit(s, kind)
    \/ SettleUnavailable(s)
    \/ SettleRecord(s)
    \/ SettleRemove(s)
    \/ SettleStoreError(s)

LookupStep(r) ==
    \/ \E p \in Payments, view \in ChainViews : LookupLedger(r, p, view)
    \/ LookupPrepared(r)

Next ==
    \/ \E a \in Preparers : PrepareStep(a)
    \/ \E s \in Settlers : SettleStep(s)
    \/ \E r \in Readers : LookupStep(r)
    \/ Sweep
    \/ Tick
    \/ Crash

Spec == Init /\ [][Next]_vars

-----------------------------------------------------------------------------
(* Properties *)

(* Type correctness of the tables, the tasks and the clock. *)
TypeOK ==
    /\ now \in Nat /\ interruptions \in Nat
    /\ issued \in [DOMAIN issued -> Preparation] /\ DOMAIN issued \subseteq Payments
    /\ prepared \in [DOMAIN prepared -> Preparation]
    /\ DOMAIN prepared \subseteq DOMAIN issued
    /\ ledger \in [DOMAIN ledger -> Row] /\ DOMAIN ledger \subseteq DOMAIN issued
    /\ taken \subseteq Payments \X Txs /\ won \subseteq taken
    /\ answers \subseteq [jkt : Jkts, key : Keys \cup {NoKey}, payment : Payments]
    /\ preparers \in [Preparers -> PreparerState]
    /\ settlers \in [Settlers -> SettlerState]
    /\ readers \in [Readers -> ReaderState]

(* An issued payment that has not reached its deadline is in one of the two *)
(* stores at every moment, whatever interleaves and wherever the process    *)
(* dies: settle writes the ledger before it removes the preparation.        *)
NothingLost ==
    \A p \in DOMAIN issued :
        issued[p].deadline > now => p \in DOMAIN prepared \cup DOMAIN ledger

(* A success row names a transaction the network has really taken for this  *)
(* payment and carries the expiry the payment was prepared with: no crash   *)
(* or race leaves a success row for a broadcast that never happened.        *)
SuccessIsBroadcast ==
    \A p \in DOMAIN ledger :
        IsSuccess(ledger[p]) =>
            <<p, ledger[p].tx>> \in taken /\ ledger[p].expiry = issued[p].expiry

(* Two prepares of one agent under one idempotency key never leave two live *)
(* preparations behind, even when both missed the replay lookup: the unique *)
(* index turns the second insert into an error.                             *)
OneLivePaymentPerKey ==
    \A x, y \in answers :
        /\ x.jkt = y.jkt /\ x.key = y.key /\ x.key # NoKey
        /\ x.payment \in DOMAIN prepared /\ y.payment \in DOMAIN prepared
        => x.payment = y.payment

(* A caller that has once been told a broadcast outcome for a payment is    *)
(* told one by every later read: it is never again told that the payment is *)
(* awaiting, never issued, or an expired preparation, which all say that    *)
(* nothing was ever submitted.  A broadcast row may come to read expired    *)
(* and broadcast again as the visible tip moves, with its outcome beside.   *)
Recorded(snapshot) == snapshot.outcome # NoOutcome
ReadsNeverGoBack ==
    [][\A r \in Readers, p \in Payments :
          Recorded(readers[r].seen[p]) => Recorded(readers'[r].seen[p])]_vars

(* A payment whose last recorded outcome is a failure can still be retried  *)
(* until its deadline: its preparation is there.  Holds when settles of one *)
(* payment do not overlap, crashes and failed statements included.          *)
FailedIsRetryable ==
    \A p \in DOMAIN ledger :
        ~IsSuccess(ledger[p]) /\ issued[p].deadline > now => p \in DOMAIN prepared

(* Fire-once: no two different transactions are ever broadcast with success *)
(* for one payment, whatever happens to the process.                        *)
FireOnce == \A x, y \in won : x[1] = y[1] => x[2] = y[2]

(* The same as long as no settle was cut short between submit and remove.   *)
Interrupted == interruptions > 0
FireOnceUninterrupted == ~Interrupted => FireOnce

(* The lifecycle implements PaymentContract when settles of one payment do  *)
(* not overlap: what a payment's two tables say is a phase of the contract. *)
Phase(p) ==
    IF p \in DOMAIN ledger
    THEN IF IsSuccess(ledger[p]) THEN "paid" ELSE "failed"
    ELSE IF p \in DOMAIN prepared THEN "open"
    ELSE IF p \in DOMAIN issued THEN "lapsed" ELSE "unissued"

Contract == INSTANCE PaymentContract WITH
    phase <- [p \in Payments |-> Phase(p)],
    paidBy <- [p \in Payments |-> IF p \in DOMAIN ledger THEN ledger[p].tx ELSE NoTx],
    interrupted <- Interrupted

ImplementsContract == Contract!Spec
=============================================================================
