------------------------------ MODULE SingleUse ------------------------------
(***************************************************************************)
(* The wallet's single-use ledger of access-token ids and the part of      *)
(* POST /v1/payments/sign that runs under it: reserve the jti, build and   *)
(* sign the transaction, commit the signed payload or release the jti.     *)
(*                                                                         *)
(* The ledger is one libSQL table, perhaps shared by several replicas; its *)
(* statements are atomic and nothing else is held while the wallet works.  *)
(* Signing (propose, prove, sign, extract) is one span of time that ends   *)
(* in a payload or in an error.  A payload is numbered by how many the     *)
(* wallet has made for its jti, so that two signatures differ.             *)
(***************************************************************************)
EXTENDS Integers, FiniteSets, Functions

CONSTANTS
    Jtis, Intents,     \* access-token ids; hashes of what is to be paid
    NoIntent,
    Tasks,             \* concurrent requests, over all replicas
    TTL,               \* PENDING_RESERVATION_TTL
    MaxTime,           \* bound on the clock
    MaxSigns,          \* bound on the payloads made for one jti
    Punctual           \* TRUE: no request outlives its reservation

ASSUME SingleUseAssumption ==
    /\ NoIntent \notin Intents
    /\ TTL \in Nat \ {0}
    /\ MaxTime \in Nat /\ MaxSigns \in Nat
    /\ Punctual \in BOOLEAN

VARIABLES
    now,         \* milliseconds, in coarse units
    entries,     \* table usage_ledger
    tasks,       \* the requests
    made,        \* payloads the wallet has made for a jti
    delivered,   \* payloads answered to a caller, by jti
    unrecorded   \* the jtis of which a signed payload could not be committed

singleUseVars == <<now, entries, tasks, made, delivered, unrecorded>>

Put(f, k, v) == [x \in DOMAIN f \cup {k} |-> IF x = k THEN v ELSE f[x]]

Entry == [intent : Intents, completed : BOOLEAN, at : Nat, payload : Nat]
Idle == [pc |-> "idle", jti |-> NoIntent, intent |-> NoIntent, stamp |-> 0, payload |-> 0]
TaskState == [pc : {"idle", "reserve", "sign", "commit", "release"},
              jti : Jtis \cup {NoIntent}, intent : Intents \cup {NoIntent},
              stamp : Nat, payload : Nat]

SingleUseInit ==
    /\ now = 0
    /\ entries = [j \in {} |-> 0]
    /\ tasks = [t \in Tasks |-> Idle]
    /\ made = [j \in Jtis |-> 0]
    /\ delivered = [j \in Jtis |-> {}]
    /\ unrecorded = {}

Done(t) == [tasks EXCEPT ![t] = Idle]
TaskGoto(t, pc) == [tasks EXCEPT ![t] = [@ EXCEPT !.pc = pc]]

-----------------------------------------------------------------------------
(* reserve takes the time before it waits for the lock. *)
Arrive(t, jti, intent) ==
    /\ tasks[t].pc = "idle"
    /\ tasks' = [tasks EXCEPT ![t] = [pc |-> "reserve", jti |-> jti, intent |-> intent,
                                      stamp |-> now, payload |-> 0]]
    /\ UNCHANGED <<now, entries, made, delivered, unrecorded>>

(* Mutant: the reservation is stored as the instant it began to be stale. *)
ReserveUnseen_Backdated(t) ==
    LET r == tasks[t]
    IN  /\ r.pc = "reserve" /\ r.jti \notin DOMAIN entries
        /\ entries' = Put(entries, r.jti, [intent |-> r.intent, completed |-> FALSE,
                                       at |-> r.stamp - TTL, payload |-> 0])
        /\ tasks' = TaskGoto(t, "sign")
        /\ UNCHANGED <<now, made, delivered, unrecorded>>

(* INSERT ... ON CONFLICT (jti) DO NOTHING takes the row. *)
ReserveUnseen(t) ==
    LET r == tasks[t]
    IN  /\ r.pc = "reserve" /\ r.jti \notin DOMAIN entries
        /\ entries' = Put(entries, r.jti, [intent |-> r.intent, completed |-> FALSE,
                                       at |-> r.stamp, payload |-> 0])
        /\ tasks' = TaskGoto(t, "sign")
        /\ UNCHANGED <<now, made, delivered, unrecorded>>

(* Mutant: the window closes one unit early. *)
IsAbandoned_Early(entry, intent, stamp) ==
    /\ ~entry.completed /\ entry.intent = intent
    /\ stamp - entry.at >= TTL - 1

(* Mutant: a completed row is reclaimed like a pending one. *)
IsAbandoned_AnyState(entry, intent, stamp) ==
    /\ entry.intent = intent
    /\ stamp - entry.at >= TTL

(* classify_existing *)
IsAbandoned(entry, intent, stamp) ==
    /\ ~entry.completed /\ entry.intent = intent
    /\ stamp - entry.at >= TTL

ReserveReclaim(t) ==
    LET r == tasks[t]
    IN  /\ r.pc = "reserve" /\ r.jti \in DOMAIN entries
        /\ IsAbandoned(entries[r.jti], r.intent, r.stamp)
        /\ entries' = [entries EXCEPT ![r.jti].at = r.stamp]
        /\ tasks' = TaskGoto(t, "sign")
        /\ UNCHANGED <<now, made, delivered, unrecorded>>

(* Completed: the stored payload is returned. *)
ReserveReplay(t) ==
    LET r == tasks[t]
    IN  /\ r.pc = "reserve" /\ r.jti \in DOMAIN entries
        /\ entries[r.jti].completed /\ entries[r.jti].intent = r.intent
        /\ delivered' = [delivered EXCEPT ![r.jti] = @ \cup {entries[r.jti].payload}]
        /\ tasks' = Done(t)
        /\ UNCHANGED <<now, entries, made, unrecorded>>

(* IntentConflict and Pending: an error is answered. *)
ReserveRefuse(t) ==
    LET r == tasks[t]
    IN  /\ r.pc = "reserve" /\ r.jti \in DOMAIN entries
        /\ \/ entries[r.jti].intent # r.intent
           \/ ~entries[r.jti].completed /\ ~IsAbandoned(entries[r.jti], r.intent, r.stamp)
        /\ tasks' = Done(t)
        /\ UNCHANGED <<now, entries, made, delivered, unrecorded>>

-----------------------------------------------------------------------------
Sign(t) ==
    /\ tasks[t].pc = "sign"
    /\ made[tasks[t].jti] < MaxSigns
    /\ made' = [made EXCEPT ![tasks[t].jti] = @ + 1]
    /\ tasks' = [tasks EXCEPT ![t] = [@ EXCEPT !.pc = "commit",
                                               !.payload = made[tasks[t].jti] + 1]]
    /\ UNCHANGED <<now, entries, delivered, unrecorded>>

SignFails(t) ==
    /\ tasks[t].pc = "sign"
    /\ tasks' = TaskGoto(t, "release")
    /\ UNCHANGED <<now, entries, made, delivered, unrecorded>>

(* commit upserts whatever row is there; the payload is then answered. *)
CommitEntry(t) ==
    LET r == tasks[t]
        at == IF r.jti \in DOMAIN entries THEN entries[r.jti].at ELSE now
    IN  /\ r.pc = "commit"
        /\ entries' = Put(entries, r.jti, [intent |-> r.intent, completed |-> TRUE,
                                       at |-> at, payload |-> r.payload])
        /\ delivered' = [delivered EXCEPT ![r.jti] = @ \cup {r.payload}]
        /\ tasks' = Done(t)
        /\ UNCHANGED <<now, made, unrecorded>>

(* A failed commit is logged and the payload answered all the same. *)
CommitFails(t) ==
    LET r == tasks[t]
    IN  /\ r.pc = "commit"
        /\ unrecorded' = unrecorded \cup {r.jti}
        /\ delivered' = [delivered EXCEPT ![r.jti] = @ \cup {r.payload}]
        /\ tasks' = Done(t)
        /\ UNCHANGED <<now, entries, made>>

(* release deletes the row of the jti if it is pending, whoever holds it.  *)
Release(t) ==
    LET jti == tasks[t].jti
        pending == {j \in DOMAIN entries : j = jti /\ ~entries[j].completed}
    IN  /\ tasks[t].pc = "release"
        /\ entries' = Restrict(entries, DOMAIN entries \ pending)
        /\ tasks' = Done(t)
        /\ UNCHANGED <<now, made, delivered, unrecorded>>

(* The process dies, the caller hangs up, or a statement before the commit  *)
(* fails: the request ends where it stands and the row stays.               *)
Abandon(t) ==
    /\ tasks[t].pc # "idle"
    /\ tasks' = Done(t)
    /\ UNCHANGED <<now, entries, made, delivered, unrecorded>>

(* What the TTL is sized for: a request ends before TTL has passed since it *)
(* took the time, the wait for the lock included.                           *)
Tick ==
    /\ now < MaxTime
    /\ Punctual => \A t \in Tasks : tasks[t].pc # "idle"
                                        => (now + 1) - tasks[t].stamp < TTL
    /\ now' = now + 1
    /\ UNCHANGED <<entries, tasks, made, delivered, unrecorded>>

SingleUseNext ==
    \/ \E t \in Tasks :
          \/ \E jti \in Jtis, intent \in Intents : Arrive(t, jti, intent)
          \/ ReserveUnseen(t) \/ ReserveReclaim(t) \/ ReserveReplay(t) \/ ReserveRefuse(t)
          \/ Sign(t) \/ SignFails(t) \/ CommitEntry(t) \/ CommitFails(t)
          \/ Release(t) \/ Abandon(t)
    \/ Tick

SingleUseSpec == SingleUseInit /\ [][SingleUseNext]_singleUseVars

-----------------------------------------------------------------------------
(* Properties *)

(* Type correctness of the table, the requests and the clock. *)
TypeOKSingleUse ==
    /\ now \in Nat /\ unrecorded \subseteq Jtis
    /\ entries \in [DOMAIN entries -> Entry] /\ DOMAIN entries \subseteq Jtis
    /\ tasks \in [Tasks -> TaskState]
    /\ made \in [Jtis -> Nat]
    /\ delivered \in [Jtis -> SUBSET Nat]

(* No two requests have the wallet sign for one jti at the same time. *)
Holding(t) == tasks[t].pc \in {"sign", "commit", "release"}
OneSigner ==
    \A t, u \in Tasks : Holding(t) /\ Holding(u) /\ tasks[t].jti = tasks[u].jti => t = u

(* No caller is ever handed a second signed payload for one jti, through    *)
(* retries, races, crashes and failed signs.  The exception is the one the  *)
(* handler accepts: a commit that failed after the wallet signed.           *)
SignedOnce == \A j \in Jtis \ unrecorded : \A x, y \in delivered[j] : x = y
=============================================================================
