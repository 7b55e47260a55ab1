------------------------------ MODULE DpopReplay ------------------------------
(***************************************************************************)
(* The two anti-replay stores of DPoP proofs, each in the memory of its    *)
(* process: the facilitator's (zpay), which burns the proof's id before it *)
(* judges the proof, and the wallet's (zspend), which judges first.        *)
(*                                                                         *)
(* A key is what the store files a proof under: (jkt, jti) in zpay, jti in *)
(* zspend.  A proof also carries iat; `sound' stands for the checks of     *)
(* method, url, binding and signature.  The wall clock of the iat check    *)
(* and the monotonic clock of the store advance together.                  *)
(***************************************************************************)
EXTENDS Integers, Functions

CONSTANTS
    Services,    \* subset of {"zpay", "zspend"}
    Keys, NoKey,
    Iats,        \* times of issue
    Tasks,       \* concurrent requests, over both services
    Skew,        \* CLOCK_SKEW_SECONDS, DPOP_CLOCK_SKEW_SECONDS
    Window,      \* REPLAY_WINDOW_SECONDS, DPOP_REPLAY_WINDOW_SECONDS
    Stall,       \* longest a verification takes from its first clock read
    MaxTime

ASSUME ReplayAssumption ==
    /\ Services \subseteq {"zpay", "zspend"}
    /\ NoKey \notin Keys
    /\ Iats \subseteq Nat
    /\ Skew \in Nat /\ Window \in Nat /\ Stall \in Nat /\ MaxTime \in Nat

(* The window outlasts the span in which one proof can pass the iat check.  *)
(* The code has 300 against twice 60.                                       *)
ASSUME WindowAssumption == 2 * (Skew + Stall) < Window

VARIABLES
    now,
    seen,       \* InMemoryReplayStore, dpop_proof_jti_seen: key to instant
    tasks,
    accepted,   \* proofs accepted since the service started
    burned,     \* zpay: keys of proofs judged bad, with the instant stored
    replayed    \* proofs accepted a second time

vars == <<now, seen, tasks, accepted, burned, replayed>>

Put(f, k, v) == [x \in DOMAIN f \cup {k} |-> IF x = k THEN v ELSE f[x]]
Nothing == [k \in {} |-> 0]

Idle == [pc |-> "idle", svc |-> "zpay", key |-> NoKey, iat |-> 0, sound |-> FALSE, stamp |-> 0]
TaskState == [pc : {"idle", "observe", "judge"}, svc : {"zpay", "zspend"},
              key : Keys \cup {NoKey}, iat : Nat, sound : BOOLEAN, stamp : Nat]
Acceptance == [svc : {"zpay", "zspend"}, key : Keys, iat : Nat, at : Nat]

Init ==
    /\ now = 0
    /\ seen = [svc \in Services |-> Nothing]
    /\ tasks = [t \in Tasks |-> Idle]
    /\ accepted = {} /\ burned = {} /\ replayed = {}

Done(t) == [tasks EXCEPT ![t] = Idle]

(* abs_drift_seconds against the tolerance *)
WithinSkew(iat) == iat <= now + Skew /\ now <= iat + Skew

-----------------------------------------------------------------------------
(* zpay: a well-formed proof goes to the store with the time read first. *)
PresentZpay(t, key, iat, sound) ==
    /\ tasks[t].pc = "idle"
    /\ tasks' = [tasks EXCEPT ![t] = [pc |-> "observe", svc |-> "zpay", key |-> key,
                                      iat |-> iat, sound |-> sound, stamp |-> now]]
    /\ UNCHANGED <<now, seen, accepted, burned, replayed>>

(* zspend: verify_dpop_proof comes first and refuses here. *)
PresentZspend(t, key, iat) ==
    /\ tasks[t].pc = "idle"
    /\ WithinSkew(iat)
    /\ tasks' = [tasks EXCEPT ![t] = [pc |-> "observe", svc |-> "zspend", key |-> key,
                                      iat |-> iat, sound |-> TRUE, stamp |-> now]]
    /\ UNCHANGED <<now, seen, accepted, burned, replayed>>

(* Mutant: the store keeps an id only as long as the tolerance. *)
Retained_SkewOnly(svc, stamp) ==
    Restrict(seen[svc], {k \in DOMAIN seen[svc] : seen[svc][k] + Skew > stamp})

(* Both stores drop what is a window old before they look. *)
Retained(svc, stamp) ==
    Restrict(seen[svc], {k \in DOMAIN seen[svc] : seen[svc][k] + Window > stamp})

ObserveAlready(t) ==
    LET r == tasks[t]
    IN  /\ r.pc = "observe"
        /\ r.key \in DOMAIN Retained(r.svc, r.stamp)
        /\ seen' = [seen EXCEPT ![r.svc] = Retained(r.svc, r.stamp)]
        /\ tasks' = Done(t)
        /\ UNCHANGED <<now, accepted, burned, replayed>>

(* The end of both verifications, and its bookkeeping. *)
Accept(svc, key, iat) ==
    /\ accepted' = accepted \cup {[svc |-> svc, key |-> key, iat |-> iat, at |-> now]}
    /\ replayed' = replayed \cup
          {[svc |-> a.svc, key |-> a.key, iat |-> a.iat] :
              a \in {b \in accepted : b.svc = svc /\ b.key = key /\ b.iat = iat}}

(* Mutant: the instant at which the id may be dropped is stored. *)
ObserveZpay_Deadline(t) ==
    LET r == tasks[t]
    IN  /\ r.pc = "observe" /\ r.svc = "zpay"
        /\ r.key \notin DOMAIN Retained(r.svc, r.stamp)
        /\ seen' = [seen EXCEPT ![r.svc] =
                       Put(Retained(r.svc, r.stamp), r.key, r.stamp + Window)]
        /\ tasks' = [tasks EXCEPT ![t] = [r EXCEPT !.pc = "judge"]]
        /\ UNCHANGED <<now, accepted, burned, replayed>>

(* zpay goes on to judge the proof. *)
ObserveZpay(t) ==
    LET r == tasks[t]
    IN  /\ r.pc = "observe" /\ r.svc = "zpay"
        /\ r.key \notin DOMAIN Retained(r.svc, r.stamp)
        /\ seen' = [seen EXCEPT ![r.svc] = Put(Retained(r.svc, r.stamp), r.key, r.stamp)]
        /\ tasks' = [tasks EXCEPT ![t] = [r EXCEPT !.pc = "judge"]]
        /\ UNCHANGED <<now, accepted, burned, replayed>>

(* zspend has already judged it. *)
ObserveZspend(t) ==
    LET r == tasks[t]
    IN  /\ r.pc = "observe" /\ r.svc = "zspend"
        /\ r.key \notin DOMAIN Retained(r.svc, r.stamp)
        /\ seen' = [seen EXCEPT ![r.svc] = Put(Retained(r.svc, r.stamp), r.key, r.stamp)]
        /\ Accept(r.svc, r.key, r.iat)
        /\ tasks' = Done(t)
        /\ UNCHANGED <<now, burned>>

JudgeGood(t) ==
    LET r == tasks[t]
    IN  /\ r.pc = "judge"
        /\ r.sound /\ WithinSkew(r.iat)
        /\ Accept(r.svc, r.key, r.iat)
        /\ tasks' = Done(t)
        /\ UNCHANGED <<now, seen, burned>>

(* Mutant: a proof judged bad gives its id back. *)
JudgeBad_Unburns(t) ==
    LET r == tasks[t]
    IN  /\ r.pc = "judge"
        /\ ~r.sound \/ ~WithinSkew(r.iat)
        /\ burned' = burned \cup {[key |-> r.key, stamp |-> r.stamp]}
        /\ seen' = [seen EXCEPT ![r.svc] = Restrict(@, DOMAIN @ \ {r.key})]
        /\ tasks' = Done(t)
        /\ UNCHANGED <<now, accepted, replayed>>

(* htm, htu, iat or signature is wrong: refused, and the id stays burned. *)
JudgeBad(t) ==
    LET r == tasks[t]
    IN  /\ r.pc = "judge"
        /\ ~r.sound \/ ~WithinSkew(r.iat)
        /\ burned' = burned \cup {[key |-> r.key, stamp |-> r.stamp]}
        /\ tasks' = Done(t)
        /\ UNCHANGED <<now, seen, accepted, replayed>>

-----------------------------------------------------------------------------
Tick ==
    /\ now < MaxTime
    /\ \A t \in Tasks : tasks[t].pc # "idle" => now < tasks[t].stamp + Stall
    /\ now' = now + 1
    /\ UNCHANGED <<seen, tasks, accepted, burned, replayed>>

(* A restart empties the store: the guarantee starts over. *)
Restart(svc) ==
    /\ seen' = [seen EXCEPT ![svc] = Nothing]
    /\ tasks' = [t \in Tasks |-> IF tasks[t].svc = svc THEN Idle ELSE tasks[t]]
    /\ accepted' = {a \in accepted : a.svc # svc}
    /\ burned' = IF svc = "zpay" THEN {} ELSE burned
    /\ UNCHANGED <<now, replayed>>

Next ==
    \/ \E t \in Tasks :
          \/ \E key \in Keys, iat \in Iats, sound \in BOOLEAN :
                "zpay" \in Services /\ PresentZpay(t, key, iat, sound)
          \/ \E key \in Keys, iat \in Iats :
                "zspend" \in Services /\ PresentZspend(t, key, iat)
          \/ ObserveAlready(t) \/ ObserveZpay(t) \/ ObserveZspend(t)
          \/ JudgeGood(t) \/ JudgeBad(t)
    \/ Tick
    \/ \E svc \in Services : Restart(svc)

Spec == Init /\ [][Next]_vars

-----------------------------------------------------------------------------
(* Properties *)

(* Type correctness; no instant in a store lies in the future. *)
TypeOK ==
    /\ now \in Nat
    /\ \A svc \in Services : seen[svc] \in [DOMAIN seen[svc] -> 0..now]
                             /\ DOMAIN seen[svc] \subseteq Keys
    /\ DOMAIN seen = Services
    /\ tasks \in [Tasks -> TaskState]
    /\ accepted \subseteq Acceptance
    /\ burned \subseteq [key : Keys, stamp : Nat]

(* No process accepts one proof twice: by the time its id has left the      *)
(* store, its iat is out of tolerance, however requests overlap or stall.   *)
NoReplay == replayed = {}

(* The facilitator burns the id of a proof it refuses: until a window has   *)
(* passed no proof of any content is accepted under that id.                *)
BurnedStaysBurned ==
    \A b \in burned, a \in accepted :
        a.svc = "zpay" /\ a.key = b.key /\ a.at >= b.stamp => a.at >= b.stamp + Window
=============================================================================
