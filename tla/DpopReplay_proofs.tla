-------------------------- MODULE DpopReplay_proofs --------------------------
(***************************************************************************)
(* Theorems about DpopReplay for every set of ids, times of issue and       *)
(* requests, and every tolerance, window and stall that WindowAssumption    *)
(* allows.                                                                  *)
(***************************************************************************)
EXTENDS DpopReplay, TLAPS

-----------------------------------------------------------------------------
(* The store keeps an instant of at least v under the key, or a window has  *)
(* passed since v.                                                          *)
Remembered(svc, key, v) ==
    \/ key \in DOMAIN seen[svc] /\ seen[svc][key] >= v
    \/ now >= v + Window

StoreOK(svc) == /\ seen[svc] \in [DOMAIN seen[svc] -> 0..now]
                /\ DOMAIN seen[svc] \subseteq Keys

(* What the store has dropped by the time `stamp' is a window old. *)
LEMMA Forgotten ==
    ASSUME NEW svc, StoreOK(svc), NEW key, NEW v \in Int, NEW stamp \in Nat, now \in Nat,
           stamp <= now, Remembered(svc, key, v), key \notin DOMAIN Retained(svc, stamp)
    PROVE  now >= v + Window
  BY ReplayAssumption DEF Remembered, StoreOK, Retained, Restrict

(* Dropping old entries forgets nothing younger than a window. *)
LEMMA RetainedRemembers ==
    ASSUME NEW svc, StoreOK(svc), NEW key, NEW v \in Int, NEW stamp \in Nat, now \in Nat,
           stamp <= now, now' = now, Remembered(svc, key, v),
           seen'[svc] = Retained(svc, stamp)
    PROVE  Remembered(svc, key, v)'
  BY ReplayAssumption DEF Remembered, StoreOK, Retained, Restrict

(* Nor does filing a key that is not there. *)
LEMMA PutRemembers ==
    ASSUME NEW svc, StoreOK(svc), NEW key, NEW v \in Int, NEW stamp \in Nat, now \in Nat,
           stamp <= now, now' = now, Remembered(svc, key, v),
           NEW k, k \notin DOMAIN Retained(svc, stamp),
           seen'[svc] = Put(Retained(svc, stamp), k, stamp)
    PROVE  Remembered(svc, key, v)'
<1>1. CASE key = k
  BY <1>1, Forgotten DEF Remembered
<1>2. CASE key # k
  BY <1>2, ReplayAssumption DEF Remembered, StoreOK, Retained, Restrict, Put
<1> QED
  BY <1>1, <1>2

LEMMA RetainedOK ==
    ASSUME NEW svc, StoreOK(svc), NEW stamp \in Nat, now' = now,
           seen'[svc] = Retained(svc, stamp)
    PROVE  StoreOK(svc)'
  BY DEF StoreOK, Retained, Restrict

LEMMA PutOK ==
    ASSUME NEW svc, StoreOK(svc), NEW stamp \in Nat, now' = now, now \in Nat, stamp <= now,
           NEW k \in Keys,
           seen'[svc] = Put(Retained(svc, stamp), k, stamp)
    PROVE  StoreOK(svc)'
  BY DEF StoreOK, Retained, Restrict, Put

-----------------------------------------------------------------------------
(* The inductive invariant *)

(* A request under way read the clock at most Stall ago. *)
TaskKnows ==
    \A t \in Tasks : tasks[t].pc # "idle" =>
        /\ tasks[t].svc \in Services /\ tasks[t].key \in Keys
        /\ tasks[t].stamp <= now /\ now <= tasks[t].stamp + Stall

(* A proof about to be filed by the wallet has passed its iat check. *)
ObserverVerified ==
    \A t \in Tasks : tasks[t].pc = "observe" /\ tasks[t].svc = "zspend" =>
        tasks[t].stamp <= tasks[t].iat + Skew /\ tasks[t].iat <= tasks[t].stamp + Skew

(* A request that judges filed its key itself, and is alone in this. *)
Filed(r) == r.key \in DOMAIN seen["zpay"] /\ seen["zpay"][r.key] = r.stamp
JudgeOwns ==
    \A t \in Tasks : tasks[t].pc = "judge" => tasks[t].svc = "zpay" /\ Filed(tasks[t])
OneJudge ==
    \A t, u \in Tasks :
        tasks[t].pc = "judge" /\ tasks[u].pc = "judge" /\ tasks[t].key = tasks[u].key => t = u

(* Accepted proofs and burned ids are remembered long enough. *)
AcceptedKnown ==
    \A a \in accepted :
        /\ a.svc \in Services /\ a.at <= now
        /\ Remembered(a.svc, a.key, a.iat - (Skew + Stall))
        /\ Remembered(a.svc, a.key, a.at - Stall)
BurnedKnown ==
    \A b \in burned :
        "zpay" \in Services /\ b.stamp <= now /\ Remembered("zpay", b.key, b.stamp)

(* A request that judges comes too late for what was accepted or burned     *)
(* under its key before.                                                    *)
LateFor(r, a) == a.at < r.stamp /\ (a.iat = r.iat => now > r.iat + Skew)
JudgeIsLate ==
    \A t \in Tasks : tasks[t].pc = "judge" =>
        /\ \A a \in accepted : a.svc = "zpay" /\ a.key = tasks[t].key => LateFor(tasks[t], a)
        /\ \A b \in burned : b.key = tasks[t].key => now >= b.stamp + Window

Inv == /\ TypeOK /\ TaskKnows /\ ObserverVerified /\ JudgeOwns /\ OneJudge
       /\ AcceptedKnown /\ BurnedKnown /\ JudgeIsLate
       /\ NoReplay /\ BurnedStaysBurned

LEMMA InitInv == Init => Inv
<1> SUFFICES ASSUME Init PROVE Inv
  OBVIOUS
<1>1. Idle \in TaskState /\ Idle.pc = "idle"
  BY DEF Idle, TaskState
<1>2. TypeOK
  BY <1>1, ReplayAssumption DEF Init, TypeOK, Nothing
<1>3. \A t \in Tasks : tasks[t].pc = "idle"
  BY <1>1 DEF Init
<1> QED
  BY <1>2, <1>3 DEF Init, Inv, TaskKnows, ObserverVerified, JudgeOwns, OneJudge,
                    AcceptedKnown, BurnedKnown, JudgeIsLate, NoReplay, BurnedStaysBurned

(* Ending a request. *)
LEMMA DoneType ==
    ASSUME TypeOK, NEW t \in Tasks
    PROVE  /\ Done(t) \in [Tasks -> TaskState]
           /\ Done(t)[t].pc = "idle"
           /\ \A u \in Tasks : u # t => Done(t)[u] = tasks[u]
<1>1. Idle \in TaskState /\ Idle.pc = "idle"
  BY DEF Idle, TaskState
<1> QED
  BY <1>1 DEF Done, TypeOK

(* What a request that observes does to the stores. *)
Observes(t) ==
    LET r == tasks[t]
        kept == Retained(r.svc, r.stamp)
    IN  /\ r.pc = "observe"
        /\ \/ seen' = [seen EXCEPT ![r.svc] = kept]
           \/ r.key \notin DOMAIN kept
              /\ seen' = [seen EXCEPT ![r.svc] = Put(kept, r.key, r.stamp)]

LEMMA ObserveKeeps ==
    ASSUME Inv, NEW t \in Tasks, Observes(t), now' = now
    PROVE  /\ DOMAIN seen' = Services /\ \A svc \in Services : StoreOK(svc)'
           /\ \A svc \in Services, key \in Keys, v \in Int :
                 Remembered(svc, key, v) => Remembered(svc, key, v)'
           /\ \A u \in Tasks : tasks[u].pc = "judge" =>
                 /\ tasks[u].key \in DOMAIN seen'["zpay"]
                 /\ seen'["zpay"][tasks[u].key] = tasks[u].stamp
<1> DEFINE r == tasks[t]
           kept == Retained(r.svc, r.stamp)
<1>1. /\ r.svc \in Services /\ r.key \in Keys /\ r.stamp \in Nat /\ now \in Nat /\ r.stamp <= now
      /\ DOMAIN seen = Services /\ \A svc \in Services : StoreOK(svc)
  BY DEF Inv, TypeOK, TaskKnows, Observes, StoreOK, TaskState
<1>2. \/ seen' = [seen EXCEPT ![r.svc] = kept]
      \/ r.key \notin DOMAIN kept /\ seen' = [seen EXCEPT ![r.svc] = Put(kept, r.key, r.stamp)]
  BY DEF Observes
<1>3. DOMAIN seen' = Services /\ \A svc \in Services : svc # r.svc => seen'[svc] = seen[svc]
  BY <1>1, <1>2
<1>4. \/ seen'[r.svc] = kept
      \/ r.key \notin DOMAIN kept /\ seen'[r.svc] = Put(kept, r.key, r.stamp)
  BY <1>1, <1>2
<1>5. ASSUME NEW svc \in Services PROVE StoreOK(svc)'
  <2>1. CASE svc = r.svc
    BY <1>1, <1>4, <2>1, RetainedOK, PutOK
  <2>2. CASE svc # r.svc
    BY <1>1, <1>3, <2>2 DEF StoreOK
  <2> QED
    BY <2>1, <2>2
<1>6. ASSUME NEW svc \in Services, NEW key \in Keys, NEW v \in Int, Remembered(svc, key, v)
      PROVE  Remembered(svc, key, v)'
  <2>1. CASE svc = r.svc
    BY <1>1, <1>4, <1>6, <2>1, RetainedRemembers, PutRemembers
  <2>2. CASE svc # r.svc
    BY <1>3, <1>6, <2>2 DEF Remembered
  <2> QED
    BY <2>1, <2>2
<1>7. ASSUME NEW u \in Tasks, tasks[u].pc = "judge"
      PROVE  /\ tasks[u].key \in DOMAIN seen'["zpay"]
             /\ seen'["zpay"][tasks[u].key] = tasks[u].stamp
  <2> DEFINE k == tasks[u].key
             st == tasks[u].stamp
  <2>1. k \in DOMAIN seen["zpay"] /\ seen["zpay"][k] = st /\ tasks[u].svc = "zpay"
        /\ "zpay" \in Services /\ st \in Nat /\ now <= st + Stall
    BY <1>7 DEF Inv, TypeOK, JudgeOwns, Filed, TaskKnows, TaskState
  <2> HIDE DEF k, st
  <2>2. CASE r.svc = "zpay"
    <3>1. st + Window > r.stamp
      BY <1>1, <2>1, WindowAssumption, ReplayAssumption
    <3>2. k \in DOMAIN kept /\ kept[k] = st
      BY <2>1, <2>2, <3>1 DEF Retained, Restrict
    <3> QED
      BY <1>4, <2>2, <3>2 DEF Put, k, st
  <2>3. CASE r.svc # "zpay"
    BY <1>3, <2>1, <2>3 DEF k, st
  <2> QED
    BY <2>2, <2>3
<1> QED
  BY <1>3, <1>5, <1>6, <1>7

(* What an observation does to the facts about earlier proofs. *)
LEMMA ObserveKeepsFacts ==
    ASSUME Inv, NEW t \in Tasks, Observes(t), now' = now
    PROVE  /\ \A a \in accepted :
                 /\ a.svc \in Services /\ a.at <= now'
                 /\ Remembered(a.svc, a.key, a.iat - (Skew + Stall))'
                 /\ Remembered(a.svc, a.key, a.at - Stall)'
           /\ \A b \in burned :
                 "zpay" \in Services /\ b.stamp <= now' /\ Remembered("zpay", b.key, b.stamp)'
<1>1. ASSUME NEW a \in accepted
      PROVE  /\ a.svc \in Services /\ a.at <= now'
             /\ Remembered(a.svc, a.key, a.iat - (Skew + Stall))'
             /\ Remembered(a.svc, a.key, a.at - Stall)'
  <2>1. a.key \in Keys /\ a.iat - (Skew + Stall) \in Int /\ a.at - Stall \in Int
    BY ReplayAssumption DEF Inv, TypeOK, Acceptance
  <2>2. a.svc \in Services /\ a.at <= now /\ Remembered(a.svc, a.key, a.iat - (Skew + Stall))
        /\ Remembered(a.svc, a.key, a.at - Stall)
    BY DEF Inv, AcceptedKnown
  <2> QED
    BY <2>1, <2>2, ObserveKeeps
<1>2. ASSUME NEW b \in burned
      PROVE  "zpay" \in Services /\ b.stamp <= now' /\ Remembered("zpay", b.key, b.stamp)'
  <2>1. b.key \in Keys /\ b.stamp \in Int
    BY DEF Inv, TypeOK
  <2>2. "zpay" \in Services /\ b.stamp <= now /\ Remembered("zpay", b.key, b.stamp)
    BY DEF Inv, BurnedKnown
  <2> QED
    BY <2>1, <2>2, ObserveKeeps
<1> QED
  BY <1>1, <1>2

(* A step that starts or ends request t and changes nothing else. *)
LEMMA QuietStep ==
    ASSUME Inv, NEW t \in Tasks, tasks' \in [Tasks -> TaskState],
           \A u \in Tasks : u # t => tasks'[u] = tasks[u],
           tasks'[t].pc # "judge",
           tasks'[t].pc # "idle" =>
              /\ tasks'[t].svc \in Services /\ tasks'[t].key \in Keys /\ tasks'[t].stamp = now
              /\ tasks'[t].svc = "zspend" =>
                    tasks'[t].stamp <= tasks'[t].iat + Skew
                    /\ tasks'[t].iat <= tasks'[t].stamp + Skew,
           UNCHANGED <<now, seen, accepted, burned, replayed>>
    PROVE  Inv'
<1>1. TypeOK'
  BY DEF Inv, TypeOK
<1>2. TaskKnows'
  BY ReplayAssumption DEF Inv, TypeOK, TaskKnows
<1>3. ObserverVerified'
  BY DEF Inv, ObserverVerified
<1>4. \A u \in Tasks : tasks'[u].pc = "judge" => u # t /\ tasks'[u] = tasks[u]
  OBVIOUS
<1>5. JudgeOwns' /\ OneJudge'
  BY <1>4 DEF Inv, JudgeOwns, OneJudge, Filed
<1>6. AcceptedKnown' /\ BurnedKnown'
  BY DEF Inv, AcceptedKnown, BurnedKnown, Remembered
<1>7. JudgeIsLate'
  BY <1>4 DEF Inv, JudgeIsLate, LateFor
<1> QED
  BY <1>1, <1>2, <1>3, <1>5, <1>6, <1>7 DEF Inv, NoReplay, BurnedStaysBurned

LEMMA StepInv == Inv /\ [Next]_vars => Inv'
<1> SUFFICES ASSUME Inv, [Next]_vars PROVE Inv'
  OBVIOUS
<1> USE ReplayAssumption
<1>0. /\ TypeOK /\ now \in Nat /\ tasks \in [Tasks -> TaskState]
      /\ accepted \subseteq Acceptance /\ burned \subseteq [key : Keys, stamp : Nat]
      /\ DOMAIN seen = Services /\ \A svc \in Services : StoreOK(svc)
  BY DEF Inv, TypeOK, StoreOK
<1>1. ASSUME NEW t \in Tasks, NEW key \in Keys, NEW iat \in Iats, NEW sound \in BOOLEAN,
             "zpay" \in Services, PresentZpay(t, key, iat, sound)
      PROVE  Inv'
  <2> DEFINE n == [pc |-> "observe", svc |-> "zpay", key |-> key, iat |-> iat,
                   sound |-> sound, stamp |-> now]
  <2>1. n \in TaskState /\ n.pc = "observe" /\ n.svc = "zpay" /\ n.key = key /\ n.stamp = now
    BY <1>0 DEF TaskState
  <2>2. tasks' = [tasks EXCEPT ![t] = n] /\ UNCHANGED <<now, seen, accepted, burned, replayed>>
    BY <1>1 DEF PresentZpay
  <2> HIDE DEF n
  <2>3. tasks' \in [Tasks -> TaskState] /\ tasks'[t] = n
        /\ \A u \in Tasks : u # t => tasks'[u] = tasks[u]
    BY <1>0, <2>1, <2>2
  <2> QED
    BY <1>1, <2>1, <2>2, <2>3, QuietStep
<1>2. ASSUME NEW t \in Tasks, NEW key \in Keys, NEW iat \in Iats,
             "zspend" \in Services, PresentZspend(t, key, iat)
      PROVE  Inv'
  <2> DEFINE n == [pc |-> "observe", svc |-> "zspend", key |-> key, iat |-> iat,
                   sound |-> TRUE, stamp |-> now]
  <2>1. n \in TaskState /\ n.pc = "observe" /\ n.svc = "zspend" /\ n.key = key /\ n.stamp = now
        /\ n.iat = iat
    BY <1>0 DEF TaskState
  <2>2. tasks' = [tasks EXCEPT ![t] = n] /\ UNCHANGED <<now, seen, accepted, burned, replayed>>
        /\ iat <= now + Skew /\ now <= iat + Skew
    BY <1>2 DEF PresentZspend, WithinSkew
  <2> HIDE DEF n
  <2>3. tasks' \in [Tasks -> TaskState] /\ tasks'[t] = n
        /\ \A u \in Tasks : u # t => tasks'[u] = tasks[u]
    BY <1>0, <2>1, <2>2
  <2> QED
    BY <1>2, <2>1, <2>2, <2>3, QuietStep
<1>3. ASSUME NEW t \in Tasks, ObserveAlready(t) PROVE Inv'
  <2>1. Observes(t) /\ tasks' = Done(t) /\ UNCHANGED <<now, accepted, burned, replayed>>
    BY <1>3 DEF ObserveAlready, Observes
  <2>2. tasks' \in [Tasks -> TaskState] /\ tasks'[t].pc = "idle"
        /\ \A u \in Tasks : u # t => tasks'[u] = tasks[u]
    BY <1>0, <2>1, DoneType
  <2>3. \A u \in Tasks : tasks'[u].pc # "idle" => tasks'[u] = tasks[u] /\ u # t
    BY <2>2
  <2>4. TypeOK'
    BY <1>0, <2>1, <2>2, ObserveKeeps DEF TypeOK, StoreOK
  <2>5. TaskKnows' /\ ObserverVerified' /\ OneJudge'
    BY <2>1, <2>3 DEF Inv, TaskKnows, ObserverVerified, OneJudge
  <2>6. JudgeOwns'
    BY <2>1, <2>3, ObserveKeeps DEF Inv, JudgeOwns, Filed
  <2>7. AcceptedKnown' /\ BurnedKnown'
    BY <2>1, ObserveKeepsFacts DEF AcceptedKnown, BurnedKnown
  <2>8. JudgeIsLate'
    BY <2>1, <2>3 DEF Inv, JudgeIsLate, LateFor
  <2>9. NoReplay' /\ BurnedStaysBurned'
    BY <2>1 DEF Inv, NoReplay, BurnedStaysBurned
  <2> QED
    BY <2>4, <2>5, <2>6, <2>7, <2>8, <2>9 DEF Inv
<1>a. ASSUME NEW t \in Tasks, tasks[t].pc = "observe",
             tasks[t].key \notin DOMAIN Retained(tasks[t].svc, tasks[t].stamp)
      PROVE  /\ \A a \in accepted : a.svc = tasks[t].svc /\ a.key = tasks[t].key =>
                    /\ now >= (a.iat - (Skew + Stall)) + Window
                    /\ now >= (a.at - Stall) + Window
             /\ tasks[t].svc = "zpay" =>
                  \A b \in burned : b.key = tasks[t].key => now >= b.stamp + Window
  <2> DEFINE r == tasks[t]
  <2>1. r.svc \in Services /\ StoreOK(r.svc) /\ r.stamp \in Nat /\ r.stamp <= now
    BY <1>0, <1>a DEF Inv, TaskKnows, TaskState
  <2>2. ASSUME NEW a \in accepted, a.svc = r.svc, a.key = r.key
        PROVE  now >= (a.iat - (Skew + Stall)) + Window /\ now >= (a.at - Stall) + Window
    <3>1. a.iat - (Skew + Stall) \in Int /\ a.at - Stall \in Int
      BY <1>0 DEF Acceptance
    <3>2. Remembered(r.svc, r.key, a.iat - (Skew + Stall))
          /\ Remembered(r.svc, r.key, a.at - Stall)
      BY <2>2 DEF Inv, AcceptedKnown
    <3> QED
      BY <1>0, <1>a, <2>1, <3>1, <3>2, Forgotten
  <2>3. ASSUME NEW b \in burned, b.key = r.key, r.svc = "zpay" PROVE now >= b.stamp + Window
    <3>1. b.stamp \in Int
      BY <1>0
    <3>2. Remembered(r.svc, r.key, b.stamp)
      BY <2>3 DEF Inv, BurnedKnown
    <3> QED
      BY <1>0, <1>a, <2>1, <3>1, <3>2, Forgotten
  <2> QED
    BY <2>2, <2>3
<1>4. ASSUME NEW t \in Tasks, ObserveZpay(t) PROVE Inv'
  <2> DEFINE r == tasks[t]
             n == [r EXCEPT !.pc = "judge"]
  <2>1. r.pc = "observe" /\ r.svc = "zpay" /\ r.key \notin DOMAIN Retained(r.svc, r.stamp)
        /\ seen' = [seen EXCEPT ![r.svc] = Put(Retained(r.svc, r.stamp), r.key, r.stamp)]
        /\ tasks' = [tasks EXCEPT ![t] = n] /\ UNCHANGED <<now, accepted, burned, replayed>>
    BY <1>4 DEF ObserveZpay
  <2>2. r \in TaskState /\ r.svc \in Services /\ r.key \in Keys /\ r.stamp \in Nat
        /\ r.iat \in Nat /\ r.stamp <= now /\ now <= r.stamp + Stall
    BY <1>0, <2>1 DEF Inv, TaskKnows, TaskState
  <2>3. n \in TaskState /\ n.pc = "judge" /\ n.svc = "zpay" /\ n.key = r.key /\ n.iat = r.iat
        /\ n.stamp = r.stamp
    BY <2>1, <2>2 DEF TaskState
  <2> HIDE DEF n
  <2>4. tasks' \in [Tasks -> TaskState] /\ tasks'[t] = n
        /\ \A u \in Tasks : u # t => tasks'[u] = tasks[u]
    BY <1>0, <2>1, <2>3
  <2>5. Observes(t)
    BY <2>1 DEF Observes
  <2>6. TypeOK'
    BY <1>0, <2>1, <2>4, <2>5, ObserveKeeps DEF TypeOK, StoreOK
  <2>7. TaskKnows' /\ ObserverVerified'
    BY <2>1, <2>2, <2>3, <2>4 DEF Inv, TaskKnows, ObserverVerified
  <2>8. r.key \in DOMAIN seen'["zpay"] /\ seen'["zpay"][r.key] = r.stamp
    BY <1>0, <2>1, <2>2 DEF Put
  <2>9. JudgeOwns'
    BY <2>1, <2>3, <2>4, <2>5, <2>8, ObserveKeeps DEF Inv, JudgeOwns, Filed
  <2>10. ASSUME NEW u \in Tasks, u # t, tasks[u].pc = "judge", tasks[u].key = r.key PROVE FALSE
    <3>1. r.key \in DOMAIN seen["zpay"] /\ seen["zpay"][r.key] = tasks[u].stamp
          /\ now <= tasks[u].stamp + Stall /\ tasks[u].stamp \in Nat
      BY <1>0, <2>10 DEF Inv, JudgeOwns, Filed, TaskKnows, TaskState
    <3>2. tasks[u].stamp + Window > r.stamp
      BY <1>0, <2>2, <3>1, WindowAssumption
    <3> QED
      BY <2>1, <3>1, <3>2 DEF Retained, Restrict
  <2>11. OneJudge'
    BY <2>3, <2>4, <2>10 DEF Inv, OneJudge
  <2>12. AcceptedKnown' /\ BurnedKnown'
    BY <2>1, <2>5, ObserveKeepsFacts DEF AcceptedKnown, BurnedKnown
  <2>13. ASSUME NEW a \in accepted, a.svc = "zpay", a.key = r.key
         PROVE  a.at < r.stamp /\ now > a.iat + Skew
    <3>1. now >= (a.iat - (Skew + Stall)) + Window /\ now >= (a.at - Stall) + Window
      BY <1>a, <2>1, <2>13
    <3>2. a.iat \in Nat /\ a.at \in Nat
      BY <1>0 DEF Acceptance
    <3> QED
      BY <1>0, <2>2, <3>1, <3>2, WindowAssumption
  <2>14. JudgeIsLate'
    BY <1>a, <2>1, <2>3, <2>4, <2>13 DEF Inv, JudgeIsLate, LateFor
  <2>15. NoReplay' /\ BurnedStaysBurned'
    BY <2>1 DEF Inv, NoReplay, BurnedStaysBurned
  <2> QED
    BY <2>6, <2>7, <2>9, <2>11, <2>12, <2>14, <2>15 DEF Inv
<1>b. ASSUME NEW svc \in {"zpay", "zspend"}, NEW key \in Keys, NEW iat \in Nat,
             Accept(svc, key, iat),
             \A a \in accepted : ~(a.svc = svc /\ a.key = key /\ a.iat = iat)
      PROVE  LET new == [svc |-> svc, key |-> key, iat |-> iat, at |-> now]
             IN  /\ accepted' = accepted \cup {new} /\ replayed' = replayed
                 /\ accepted' \subseteq Acceptance
                 /\ new.svc = svc /\ new.key = key /\ new.iat = iat /\ new.at = now
  <2> DEFINE new == [svc |-> svc, key |-> key, iat |-> iat, at |-> now]
  <2>1. new \in Acceptance
    BY <1>0 DEF Acceptance
  <2>2. accepted' = accepted \cup {new}
    BY <1>b DEF Accept
  <2>3. replayed' = replayed
    BY <1>b DEF Accept
  <2>4. new.svc = svc /\ new.key = key /\ new.iat = iat /\ new.at = now
    OBVIOUS
  <2> QED
    BY <1>0, <2>1, <2>2, <2>3, <2>4
<1>5. ASSUME NEW t \in Tasks, ObserveZspend(t) PROVE Inv'
  <2> DEFINE r == tasks[t]
             new == [svc |-> r.svc, key |-> r.key, iat |-> r.iat, at |-> now]
  <2>1. r.pc = "observe" /\ r.svc = "zspend" /\ r.key \notin DOMAIN Retained(r.svc, r.stamp)
        /\ seen' = [seen EXCEPT ![r.svc] = Put(Retained(r.svc, r.stamp), r.key, r.stamp)]
        /\ Accept(r.svc, r.key, r.iat) /\ tasks' = Done(t) /\ UNCHANGED <<now, burned>>
    BY <1>5 DEF ObserveZspend
  <2>2. r \in TaskState /\ r.svc \in Services /\ r.key \in Keys /\ r.stamp \in Nat
        /\ r.iat \in Nat /\ r.stamp <= now /\ now <= r.stamp + Stall
        /\ r.stamp <= r.iat + Skew /\ r.iat <= r.stamp + Skew
    BY <1>0, <2>1 DEF Inv, TaskKnows, ObserverVerified, TaskState
  <2>3. tasks' \in [Tasks -> TaskState] /\ tasks'[t].pc = "idle"
        /\ \A u \in Tasks : u # t => tasks'[u] = tasks[u]
    BY <1>0, <2>1, DoneType
  <2>4. ASSUME NEW a \in accepted, a.svc = r.svc, a.key = r.key, a.iat = r.iat PROVE FALSE
    <3>1. now >= (a.iat - (Skew + Stall)) + Window
      BY <1>a, <2>1, <2>4
    <3> QED
      BY <1>0, <2>2, <2>4, <3>1, WindowAssumption
  <2>5. /\ accepted' = accepted \cup {new} /\ replayed' = replayed
        /\ accepted' \subseteq Acceptance
        /\ new.svc = "zspend" /\ new.key = r.key /\ new.iat = r.iat /\ new.at = now
    BY <1>b, <2>1, <2>2, <2>4
  <2> HIDE DEF new
  <2>6. Observes(t)
    BY <2>1 DEF Observes
  <2>7. TypeOK'
    BY <1>0, <2>1, <2>3, <2>5, <2>6, ObserveKeeps DEF TypeOK, StoreOK
  <2>8. \A u \in Tasks : tasks'[u].pc # "idle" => tasks'[u] = tasks[u] /\ u # t
    BY <2>3
  <2>9. TaskKnows' /\ ObserverVerified' /\ OneJudge'
    BY <2>1, <2>8 DEF Inv, TaskKnows, ObserverVerified, OneJudge
  <2>10. JudgeOwns'
    BY <2>1, <2>6, <2>8, ObserveKeeps DEF Inv, JudgeOwns, Filed
  <2>11. r.key \in DOMAIN seen'[r.svc] /\ seen'[r.svc][r.key] = r.stamp
    BY <1>0, <2>1, <2>2 DEF Put
  <2>12. ASSUME NEW a \in accepted'
         PROVE  /\ a.svc \in Services /\ a.at <= now'
                /\ Remembered(a.svc, a.key, a.iat - (Skew + Stall))'
                /\ Remembered(a.svc, a.key, a.at - Stall)'
    <3>1. CASE a \in accepted
      BY <2>1, <2>6, <3>1, ObserveKeepsFacts
    <3>2. CASE a = new
      <4>1. a.svc = r.svc /\ a.key = r.key /\ a.iat = r.iat /\ a.at = now
        BY <2>1, <2>5, <3>2
      <4>2. a.key \in DOMAIN seen'[a.svc] /\ seen'[a.svc][a.key] = r.stamp
        BY <2>11, <4>1
      <4>3. r.stamp >= a.iat - (Skew + Stall) /\ r.stamp >= a.at - Stall
        BY <1>0, <2>2, <4>1
      <4> QED
        BY <1>0, <2>1, <2>2, <4>1, <4>2, <4>3 DEF Remembered
    <3> QED
      BY <2>5, <3>1, <3>2
  <2>13. AcceptedKnown' /\ BurnedKnown'
    BY <2>1, <2>6, <2>12, ObserveKeepsFacts DEF AcceptedKnown, BurnedKnown
  <2>14. \A a \in accepted' : a.svc = "zpay" => a \in accepted
    BY <2>5
  <2>15. JudgeIsLate'
    BY <2>1, <2>8, <2>14 DEF Inv, JudgeIsLate, LateFor
  <2>16. NoReplay' /\ BurnedStaysBurned'
    BY <2>1, <2>5, <2>14 DEF Inv, NoReplay, BurnedStaysBurned
  <2> QED
    BY <2>7, <2>9, <2>10, <2>13, <2>15, <2>16 DEF Inv
<1>6. ASSUME NEW t \in Tasks, JudgeGood(t) PROVE Inv'
  <2> DEFINE r == tasks[t]
             new == [svc |-> r.svc, key |-> r.key, iat |-> r.iat, at |-> now]
  <2>1. r.pc = "judge" /\ r.iat <= now + Skew /\ now <= r.iat + Skew
        /\ Accept(r.svc, r.key, r.iat) /\ tasks' = Done(t) /\ UNCHANGED <<now, seen, burned>>
    BY <1>6 DEF JudgeGood, WithinSkew
  <2>2. r \in TaskState /\ r.svc \in Services /\ r.svc = "zpay" /\ r.key \in Keys
        /\ r.stamp \in Nat /\ r.iat \in Nat /\ r.stamp <= now /\ now <= r.stamp + Stall
        /\ r.key \in DOMAIN seen["zpay"] /\ seen["zpay"][r.key] = r.stamp
    BY <1>0, <2>1 DEF Inv, TaskKnows, JudgeOwns, Filed, TaskState
  <2>3. tasks' \in [Tasks -> TaskState] /\ tasks'[t].pc = "idle"
        /\ \A u \in Tasks : u # t => tasks'[u] = tasks[u]
    BY <1>0, <2>1, DoneType
  <2>4. ASSUME NEW a \in accepted, a.svc = r.svc, a.key = r.key, a.iat = r.iat PROVE FALSE
    <3>1. now > r.iat + Skew
      BY <2>1, <2>2, <2>4 DEF Inv, JudgeIsLate, LateFor
    <3> QED
      BY <1>0, <2>1, <2>2, <3>1
  <2>5. /\ accepted' = accepted \cup {new} /\ replayed' = replayed
        /\ accepted' \subseteq Acceptance
        /\ new.svc = r.svc /\ new.key = r.key /\ new.iat = r.iat /\ new.at = now
    BY <1>b, <2>1, <2>2, <2>4
  <2> HIDE DEF new
  <2>6. TypeOK'
    BY <1>0, <2>1, <2>3, <2>5 DEF TypeOK
  <2>7. \A u \in Tasks : tasks'[u].pc # "idle" => tasks'[u] = tasks[u] /\ u # t
    BY <2>3
  <2>8. TaskKnows' /\ ObserverVerified' /\ OneJudge' /\ JudgeOwns'
    BY <2>1, <2>7 DEF Inv, TaskKnows, ObserverVerified, OneJudge, JudgeOwns, Filed
  <2>9. ASSUME NEW a \in accepted'
        PROVE  /\ a.svc \in Services /\ a.at <= now'
               /\ Remembered(a.svc, a.key, a.iat - (Skew + Stall))'
               /\ Remembered(a.svc, a.key, a.at - Stall)'
    <3>1. CASE a \in accepted
      BY <2>1, <3>1 DEF Inv, AcceptedKnown, Remembered
    <3>2. CASE a = new
      <4>1. a.svc = "zpay" /\ a.key = r.key /\ a.iat = r.iat /\ a.at = now
        BY <2>2, <2>5, <3>2
      <4>2. a.key \in DOMAIN seen'[a.svc] /\ seen'[a.svc][a.key] = r.stamp
        BY <2>1, <2>2, <4>1
      <4>3. r.stamp >= a.iat - (Skew + Stall) /\ r.stamp >= a.at - Stall
        BY <1>0, <2>1, <2>2, <4>1
      <4> QED
        BY <1>0, <2>1, <2>2, <4>1, <4>2, <4>3 DEF Remembered
    <3> QED
      BY <2>5, <3>1, <3>2
  <2>10. AcceptedKnown' /\ BurnedKnown'
    BY <2>1, <2>9 DEF Inv, AcceptedKnown, BurnedKnown, Remembered
  <2>11. ASSUME NEW u \in Tasks, tasks'[u].pc = "judge"
         PROVE  /\ tasks'[u] = tasks[u] /\ tasks[u].pc = "judge" /\ tasks[u].key # r.key
    BY <2>1, <2>7, <2>11 DEF Inv, OneJudge
  <2>12. JudgeIsLate'
    BY <2>1, <2>5, <2>11 DEF Inv, JudgeIsLate, LateFor
  <2>13. ASSUME NEW b \in burned, NEW a \in accepted', a.svc = "zpay", a.key = b.key,
                a.at >= b.stamp
         PROVE  a.at >= b.stamp + Window
    <3>1. CASE a \in accepted
      BY <2>13, <3>1 DEF Inv, BurnedStaysBurned
    <3>2. CASE a = new
      BY <2>1, <2>5, <2>13, <3>2 DEF Inv, JudgeIsLate
    <3> QED
      BY <2>5, <3>1, <3>2
  <2>14. NoReplay' /\ BurnedStaysBurned'
    BY <2>1, <2>5, <2>13 DEF Inv, NoReplay, BurnedStaysBurned
  <2> QED
    BY <2>6, <2>8, <2>10, <2>12, <2>14 DEF Inv
<1>7. ASSUME NEW t \in Tasks, JudgeBad(t) PROVE Inv'
  <2> DEFINE r == tasks[t]
             new == [key |-> r.key, stamp |-> r.stamp]
  <2>1. r.pc = "judge" /\ burned' = burned \cup {new} /\ tasks' = Done(t)
        /\ UNCHANGED <<now, seen, accepted, replayed>>
    BY <1>7 DEF JudgeBad
  <2>2. r.svc = "zpay" /\ r.svc \in Services /\ r.key \in Keys /\ r.stamp \in Nat
        /\ r.stamp <= now /\ r.key \in DOMAIN seen["zpay"] /\ seen["zpay"][r.key] = r.stamp
    BY <1>0, <2>1 DEF Inv, TaskKnows, JudgeOwns, Filed, TaskState
  <2>3. new.key = r.key /\ new.stamp = r.stamp /\ new \in [key : Keys, stamp : Nat]
    BY <2>2
  <2> HIDE DEF new
  <2>4. tasks' \in [Tasks -> TaskState] /\ tasks'[t].pc = "idle"
        /\ \A u \in Tasks : u # t => tasks'[u] = tasks[u]
    BY <1>0, <2>1, DoneType
  <2>5. TypeOK'
    BY <1>0, <2>1, <2>3, <2>4 DEF TypeOK
  <2>6. \A u \in Tasks : tasks'[u].pc # "idle" => tasks'[u] = tasks[u] /\ u # t
    BY <2>4
  <2>7. TaskKnows' /\ ObserverVerified' /\ OneJudge' /\ JudgeOwns'
    BY <2>1, <2>6 DEF Inv, TaskKnows, ObserverVerified, OneJudge, JudgeOwns, Filed
  <2>8. AcceptedKnown'
    BY <2>1 DEF Inv, AcceptedKnown, Remembered
  <2>9. ASSUME NEW b \in burned'
        PROVE  "zpay" \in Services /\ b.stamp <= now' /\ Remembered("zpay", b.key, b.stamp)'
    <3>1. CASE b \in burned
      BY <2>1, <3>1 DEF Inv, BurnedKnown, Remembered
    <3>2. CASE b = new
      BY <2>1, <2>2, <2>3, <3>2 DEF Remembered
    <3> QED
      BY <2>1, <3>1, <3>2
  <2>10. BurnedKnown'
    BY <2>9 DEF BurnedKnown
  <2>11. ASSUME NEW u \in Tasks, tasks'[u].pc = "judge"
         PROVE  /\ tasks'[u] = tasks[u] /\ tasks[u].pc = "judge" /\ tasks[u].key # r.key
    BY <2>1, <2>6, <2>11 DEF Inv, OneJudge
  <2>12. JudgeIsLate'
    BY <2>1, <2>3, <2>11 DEF Inv, JudgeIsLate, LateFor
  <2>13. ASSUME NEW b \in burned', NEW a \in accepted, a.svc = "zpay", a.key = b.key,
                a.at >= b.stamp
         PROVE  a.at >= b.stamp + Window
    <3>1. CASE b \in burned
      BY <2>13, <3>1 DEF Inv, BurnedStaysBurned
    <3>2. CASE b = new
      <4>1. a.at < r.stamp /\ a.at \in Nat
        BY <1>0, <2>1, <2>3, <2>13, <3>2 DEF Inv, JudgeIsLate, LateFor, Acceptance
      <4> QED
        BY <2>2, <2>3, <2>13, <3>2, <4>1
    <3> QED
      BY <2>1, <3>1, <3>2
  <2>14. NoReplay' /\ BurnedStaysBurned'
    BY <2>1, <2>13 DEF Inv, NoReplay, BurnedStaysBurned
  <2> QED
    BY <2>5, <2>7, <2>8, <2>10, <2>12, <2>14 DEF Inv
<1>8. CASE Tick
  <2>1. /\ now' = now + 1 /\ UNCHANGED <<seen, tasks, accepted, burned, replayed>>
        /\ \A t \in Tasks : tasks[t].pc # "idle" => now < tasks[t].stamp + Stall
    BY <1>8 DEF Tick
  <2>2. \A t \in Tasks : tasks[t].stamp \in Nat /\ tasks[t].iat \in Nat
    BY <1>0 DEF TaskState
  <2>3. TypeOK'
    <3>1. now' \in Nat /\ 0..now \subseteq 0..now'
      BY <1>0, <2>1
    <3>2. ASSUME NEW s \in Services
          PROVE  seen[s] \in [DOMAIN seen[s] -> 0..now'] /\ DOMAIN seen[s] \subseteq Keys
      <4>1. seen[s] \in [DOMAIN seen[s] -> 0..now] /\ DOMAIN seen[s] \subseteq Keys
        BY <1>0 DEF StoreOK
      <4> QED
        BY <3>1, <4>1
    <3> QED
      BY <1>0, <2>1, <3>1, <3>2 DEF TypeOK
  <2>4. TaskKnows' /\ ObserverVerified' /\ OneJudge' /\ JudgeOwns'
    BY <1>0, <2>1, <2>2 DEF Inv, TaskKnows, ObserverVerified, OneJudge, JudgeOwns, Filed
  <2>5. ASSUME NEW svc, NEW key, NEW v \in Int, Remembered(svc, key, v)
        PROVE  Remembered(svc, key, v)'
    BY <1>0, <2>1, <2>5 DEF Remembered
  <2>6. ASSUME NEW a \in accepted
        PROVE  /\ a.svc \in Services /\ a.at <= now'
               /\ Remembered(a.svc, a.key, a.iat - (Skew + Stall))'
               /\ Remembered(a.svc, a.key, a.at - Stall)'
    <3>1. a.at \in Nat /\ a.iat - (Skew + Stall) \in Int /\ a.at - Stall \in Int
      BY <1>0 DEF Acceptance
    <3>2. a.svc \in Services /\ a.at <= now /\ Remembered(a.svc, a.key, a.iat - (Skew + Stall))
          /\ Remembered(a.svc, a.key, a.at - Stall)
      BY DEF Inv, AcceptedKnown
    <3> QED
      BY <1>0, <2>1, <2>5, <3>1, <3>2
  <2>7. ASSUME NEW b \in burned
        PROVE  "zpay" \in Services /\ b.stamp <= now' /\ Remembered("zpay", b.key, b.stamp)'
    <3>1. b.stamp \in Nat
      BY <1>0
    <3>2. "zpay" \in Services /\ b.stamp <= now /\ Remembered("zpay", b.key, b.stamp)
      BY DEF Inv, BurnedKnown
    <3> QED
      BY <1>0, <2>1, <2>5, <3>1, <3>2
  <2>8. AcceptedKnown' /\ BurnedKnown'
    BY <2>1, <2>6, <2>7 DEF AcceptedKnown, BurnedKnown
  <2>9. \A b \in burned : b.stamp \in Nat
    BY <1>0
  <2>10. JudgeIsLate'
    BY <1>0, <2>1, <2>2, <2>9 DEF Inv, JudgeIsLate, LateFor
  <2> QED
    BY <2>1, <2>3, <2>4, <2>8, <2>10 DEF Inv, NoReplay, BurnedStaysBurned
<1>9. ASSUME NEW svc \in Services, Restart(svc) PROVE Inv'
  <2>1. Idle \in TaskState /\ Idle.pc = "idle"
    BY DEF Idle, TaskState
  <2>2. /\ seen' = [seen EXCEPT ![svc] = Nothing] /\ UNCHANGED <<now, replayed>>
        /\ tasks' = [t \in Tasks |-> IF tasks[t].svc = svc THEN Idle ELSE tasks[t]]
        /\ accepted' = {a \in accepted : a.svc # svc}
        /\ burned' = IF svc = "zpay" THEN {} ELSE burned
    BY <1>9 DEF Restart
  <2>3. \A u \in Tasks : tasks'[u].pc # "idle" => tasks'[u] = tasks[u] /\ tasks[u].svc # svc
    BY <2>1, <2>2
  <2>4. \A s \in Services : s # svc => seen'[s] = seen[s]
    BY <1>0, <2>2
  <2>5. TypeOK'
    <3>1. tasks' \in [Tasks -> TaskState]
      BY <1>0, <2>1, <2>2
    <3>2. seen'[svc] = Nothing /\ DOMAIN seen' = Services
      BY <1>0, <2>2
    <3>3. \A s \in Services : seen'[s] \in [DOMAIN seen'[s] -> 0..now']
                              /\ DOMAIN seen'[s] \subseteq Keys
      BY <1>0, <2>2, <2>4, <3>2 DEF StoreOK, Nothing
    <3> QED
      BY <1>0, <2>2, <3>1, <3>2, <3>3 DEF TypeOK
  <2>6. TaskKnows' /\ ObserverVerified' /\ OneJudge'
    BY <2>2, <2>3 DEF Inv, TaskKnows, ObserverVerified, OneJudge
  <2>7. JudgeOwns'
    BY <2>3, <2>4 DEF Inv, JudgeOwns, Filed, TaskKnows
  <2>8. AcceptedKnown' /\ BurnedKnown'
    BY <2>2, <2>4 DEF Inv, AcceptedKnown, BurnedKnown, Remembered
  <2>9. JudgeIsLate'
    BY <2>2, <2>3 DEF Inv, JudgeIsLate, LateFor
  <2>10. NoReplay' /\ BurnedStaysBurned'
    BY <2>2 DEF Inv, NoReplay, BurnedStaysBurned
  <2> QED
    BY <2>5, <2>6, <2>7, <2>8, <2>9, <2>10 DEF Inv
<1>10. CASE UNCHANGED vars
  <2>1. TypeOK' /\ TaskKnows' /\ ObserverVerified' /\ JudgeOwns' /\ OneJudge'
    BY <1>10 DEF vars, Inv, TypeOK, TaskKnows, ObserverVerified, JudgeOwns, OneJudge, Filed
  <2>2. AcceptedKnown' /\ BurnedKnown' /\ JudgeIsLate'
    BY <1>10 DEF vars, Inv, AcceptedKnown, BurnedKnown, JudgeIsLate, LateFor, Remembered
  <2> QED
    BY <1>10, <2>1, <2>2 DEF vars, Inv, NoReplay, BurnedStaysBurned
<1> QED
  BY <1>1, <1>2, <1>3, <1>4, <1>5, <1>6, <1>7, <1>8, <1>9, <1>10 DEF Next

LEMMA InvHolds == Spec => []Inv
  BY InitInv, StepInv, PTL DEF Spec

(* The stores, the requests and the bookkeeping keep their types. *)
THEOREM TypeCorrect == Spec => []TypeOK
<1>1. Inv => TypeOK
  BY DEF Inv
<1> QED
  BY InvHolds, <1>1, PTL

(* While a process runs it accepts no proof twice, as long as the replay    *)
(* window outlasts twice the clock tolerance and the stall of a request.    *)
THEOREM ProofsAreSingleUse == Spec => []NoReplay
<1>1. Inv => NoReplay
  BY DEF Inv
<1> QED
  BY InvHolds, <1>1, PTL

(* An id under which the facilitator refused a proof admits no other proof  *)
(* for a whole window.                                                      *)
THEOREM RefusalBurnsTheId == Spec => []BurnedStaysBurned
<1>1. Inv => BurnedStaysBurned
  BY DEF Inv
<1> QED
  BY InvHolds, <1>1, PTL
=============================================================================
