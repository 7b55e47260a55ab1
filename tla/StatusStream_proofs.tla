------------------------ MODULE StatusStream_proofs ------------------------
(***************************************************************************)
(* No published change is lost and the registry is bounded by what was     *)
(* issued, for every set of payments and connections, every capacity of    *)
(* the channels and every number of changes and faults.                    *)
(*                                                                         *)
(* NothingPublishedIsLost speaks of streams that have drained; what is     *)
(* inductive speaks of every open stream: the newest published version was *)
(* told, or is still ahead in the head or the tail, or the stream is going *)
(* to look the payment up again.                                           *)
(***************************************************************************)
EXTENDS StatusStream, TLAPS

Snaps == [situation : Situations \cup {"none"}, version : Int]
StreamRecords ==
    [pc : {"gone", "probe", "subscribe", "reread", "open", "closed"}, head : Snaps,
     tail : Seq(Snaps), lagged : BOOLEAN, resync : BOOLEAN, best : Int]

Types ==
    /\ now \in [Payments -> [situation : Situations, version : Nat]]
    /\ issued \subseteq Payments /\ hub \subseteq Payments
    /\ publishers \in [Publishers -> [pc : {"idle", "gate", "read", "send"},
                                      payment : Payments \cup {"none"}, snap : Snaps]]
    /\ streams \in [Streams -> StreamRecords]
    /\ published \in [Payments -> Int]

(* What was read is never newer than what is there. *)
VersionsInv ==
    /\ \A p \in Payments : published[p] <= now[p].version
    /\ \A x \in Publishers :
          /\ publishers[x].pc # "idle" => publishers[x].payment \in Payments
          /\ publishers[x].pc = "send" =>
                publishers[x].snap.version <= now[publishers[x].payment].version

IssuedInv ==
    /\ hub \subseteq issued
    /\ \A p \in Payments : now[p].situation # "never_issued" => p \in issued

(* Version v was told to the client of the stream, or will be. *)
Covered(stream, v) ==
    \/ stream.lagged \/ stream.resync
    \/ stream.best >= v \/ stream.head.version >= v
    \/ \E i \in 1 .. Len(stream.tail) : stream.tail[i].version >= v

(* A stream for payment p beside a registry, what was issued and version v. *)
StreamFits(stream, p, registry, known, v) ==
    /\ stream.best >= -1
    /\ stream.pc = "subscribe" => p \in known
    /\ stream.pc \in {"reread", "open"} => p \in registry
    /\ stream.pc = "open" => Covered(stream, v)

StreamsInv ==
    \A s \in Streams : StreamFits(streams[s], Target[s], hub, issued, published[Target[s]])

IInv == Types /\ VersionsInv /\ IssuedInv /\ StreamsInv

-----------------------------------------------------------------------------
LEMMA NothingYet == NoSnap \in Snaps /\ <<>> \in Seq(Snaps)
BY DEF NoSnap, Snaps, Snap

(* A connection that is not there fits everywhere. *)
LEMMA GoneFits ==
    ASSUME NEW p, NEW registry, NEW known, NEW v
    PROVE  Gone \in StreamRecords /\ StreamFits(Gone, p, registry, known, v)
BY DEF Gone, StreamRecords, StreamFits, Snaps, NoSnap, Snap

(* Telling a snapshot keeps a stream well typed; it covers what the stream   *)
(* covered and the version told.                                            *)
LEMMA ToldFits ==
    ASSUME NEW stream \in StreamRecords, NEW snap \in Snaps, stream.best >= -1
    PROVE  /\ Told(stream, snap) \in StreamRecords
           /\ Told(stream, snap).best >= -1
           /\ Told(stream, snap).pc \in {stream.pc, "closed"}
           /\ Told(stream, snap).pc # "closed" =>
                 /\ Told(stream, snap).best >= stream.best
                 /\ Told(stream, snap).best >= snap.version
                 /\ Told(stream, snap).tail = stream.tail
                 /\ Told(stream, snap).head = stream.head
                 /\ Told(stream, snap).lagged = stream.lagged
                 /\ Told(stream, snap).resync = stream.resync
<1> DEFINE best == IF snap.version > stream.best THEN snap.version ELSE stream.best
<1>1. best \in Int /\ best >= -1 /\ best >= stream.best /\ best >= snap.version
  BY DEF StreamRecords, Snaps
<1>2. CASE StreamClosed(snap)
  <2>1. Told(stream, snap) = [Gone EXCEPT !.pc = "closed", !.best = best]
    BY <1>2 DEF Told
  <2> HIDE DEF best
  <2>2. [Gone EXCEPT !.pc = "closed", !.best = best] \in StreamRecords
    BY <1>1, NothingYet DEF Gone, StreamRecords
  <2>3. /\ Told(stream, snap).pc = "closed"
        /\ Told(stream, snap).best = best
    BY <2>1 DEF Gone
  <2> QED BY <2>1, <2>2, <2>3, <1>1
<1>3. CASE ~StreamClosed(snap)
  <2>1. Told(stream, snap) = [stream EXCEPT !.best = best]
    BY <1>3 DEF Told
  <2> QED BY <2>1, <1>1 DEF StreamRecords
<1> QED BY <1>2, <1>3

(* A receiver that takes in a snapshot covers what it covered - if it drops  *)
(* an older one it knows it lags - and the snapshot.                        *)
LEMMA EnqueueFits ==
    ASSUME NEW stream \in StreamRecords, NEW snap \in Snaps, NEW v \in Int
    PROVE  /\ Enqueue(stream, snap) \in StreamRecords
           /\ Enqueue(stream, snap).best = stream.best
           /\ Enqueue(stream, snap).pc = stream.pc
           /\ Covered(Enqueue(stream, snap), snap.version)
           /\ Covered(stream, v) => Covered(Enqueue(stream, snap), v)
<1>0. stream.tail \in Seq(Snaps) /\ Len(stream.tail) \in Nat /\ Capacity \in Nat \ {0}
  BY StatusStreamAssumption DEF StreamRecords
<1>1. CASE Len(stream.tail) < Capacity
  <2> DEFINE new == [stream EXCEPT !.tail = Append(@, snap)]
  <2>1. Enqueue(stream, snap) = new
    BY <1>1 DEF Enqueue
  <2>2. /\ new \in StreamRecords /\ new.tail = Append(stream.tail, snap)
        /\ new.best = stream.best /\ new.pc = stream.pc /\ new.head = stream.head
        /\ new.lagged = stream.lagged /\ new.resync = stream.resync
    BY <1>0 DEF StreamRecords
  <2>3. /\ Len(new.tail) = Len(stream.tail) + 1
        /\ new.tail[Len(stream.tail) + 1] = snap
        /\ \A i \in 1 .. Len(stream.tail) : new.tail[i] = stream.tail[i]
    BY <2>2, <1>0
  <2>4. Covered(new, snap.version)
    <3>1. Len(stream.tail) + 1 \in 1 .. Len(new.tail)
      BY <2>3, <1>0
    <3>2. new.tail[Len(stream.tail) + 1].version >= snap.version
      BY <2>3 DEF Snaps
    <3> HIDE DEF new
    <3> QED BY <3>1, <3>2 DEF Covered
  <2>5. Covered(stream, v) => Covered(new, v)
    <3> HIDE DEF new
    <3> QED BY <2>2, <2>3, <1>0 DEF Covered
  <2> QED BY <2>1, <2>2, <2>4, <2>5
<1>2. CASE ~(Len(stream.tail) < Capacity)
  <2> DEFINE new == [stream EXCEPT !.tail = Append(Tail(@), snap), !.lagged = TRUE]
  <2>1. Enqueue(stream, snap) = new
    BY <1>2 DEF Enqueue
  <2>2. Append(Tail(stream.tail), snap) \in Seq(Snaps)
    BY <1>0, <1>2
  <2>3. new \in StreamRecords /\ new.best = stream.best /\ new.pc = stream.pc /\ new.lagged
    BY <2>2 DEF StreamRecords
  <2> QED BY <2>1, <2>3 DEF Covered
<1> QED BY <1>1, <1>2

-----------------------------------------------------------------------------
(* A step that only replaces one stream, and perhaps registers its payment. *)
LEMMA OneStream ==
    ASSUME IInv, NEW s \in Streams, NEW stream \in StreamRecords,
           Set(s, stream), UNCHANGED Others,
           hub' = hub \/ (hub' = hub \cup {Target[s]} /\ Target[s] \in issued),
           StreamFits(stream, Target[s], hub', issued, published[Target[s]])
    PROVE  IInv'
<1> USE StatusStreamAssumption
<1>1. Types'
  BY DEF IInv, Types, Set, Others
<1>2. VersionsInv'
  BY DEF IInv, VersionsInv, Others
<1>3. IssuedInv'
  BY DEF IInv, IssuedInv, Others
<1>4. StreamsInv'
  <2> SUFFICES ASSUME NEW t \in Streams
               PROVE  StreamFits(streams'[t], Target[t], hub', issued, published[Target[t]])
    BY DEF StreamsInv, Others
  <2>1. CASE t = s
    BY <2>1 DEF Set, IInv, Types
  <2>2. CASE t # s
    BY <2>2 DEF Set, IInv, Types, StreamsInv, StreamFits
  <2> QED BY <2>1, <2>2
<1> QED BY <1>1, <1>2, <1>3, <1>4 DEF IInv

(* A step that only replaces one publisher. *)
LEMMA OnePublisher ==
    ASSUME IInv, NEW x \in Publishers,
           NEW publisher \in [pc : {"idle", "gate", "read", "send"},
                              payment : Payments \cup {"none"}, snap : Snaps],
           publishers' = [publishers EXCEPT ![x] = publisher],
           UNCHANGED <<now, issued, hub, streams, published>>,
           publisher.pc # "idle" => publisher.payment \in Payments,
           publisher.pc = "send" => publisher.snap.version <= now[publisher.payment].version
    PROVE  IInv'
<1>1. Types'
  BY DEF IInv, Types
<1>2. VersionsInv'
  BY DEF IInv, Types, VersionsInv
<1>3. IssuedInv' /\ StreamsInv'
  BY DEF IInv, IssuedInv, StreamsInv
<1> QED BY <1>1, <1>2, <1>3 DEF IInv

(* A payment only changes to a newer version, and is issued if it has left   *)
(* never_issued.                                                            *)
LEMMA OneMove ==
    ASSUME IInv, NEW p \in Payments, NEW from, NEW to,
           to \subseteq Situations, Move(p, from, to),
           issued' \in SUBSET Payments, issued \subseteq issued',
           p \in issued' \/ "never_issued" \notin from,
           UNCHANGED <<hub, streams, published>>
    PROVE  /\ now' \in [Payments -> [situation : Situations, version : Nat]]
           /\ \A q \in Payments : now[q].version <= now'[q].version
           /\ IssuedInv' /\ StreamsInv'
<1>1. PICK situation \in to : now' = [now EXCEPT ![p] = Snap(situation, @.version + 1)]
  BY DEF Move
<1>2. now' \in [Payments -> [situation : Situations, version : Nat]]
  BY <1>1 DEF IInv, Types, Snap
<1>3. \A q \in Payments : now[q].version <= now'[q].version
  BY <1>1 DEF IInv, Types, Snap
<1>4. p \in issued'
  BY DEF Move, IInv, IssuedInv
<1>5. IssuedInv'
  BY <1>1, <1>4 DEF IInv, Types, IssuedInv
<1>6. StreamsInv'
  BY DEF IInv, StreamsInv, StreamFits
<1> QED BY <1>2, <1>3, <1>5, <1>6

(* The publisher that starts on a payment has read nothing yet. *)
LEMMA StartFits ==
    ASSUME IInv, NEW x \in Publishers, NEW p \in Payments, NEW pc \in {"gate", "read"},
           Start(x, p, pc),
           now' \in [Payments -> [situation : Situations, version : Nat]],
           \A q \in Payments : now[q].version <= now'[q].version,
           UNCHANGED <<issued, hub, streams, published>>
    PROVE  Types' /\ VersionsInv'
<1> DEFINE new == [Idle EXCEPT !.pc = pc, !.payment = p]
<1>0. new = [pc |-> pc, payment |-> p, snap |-> NoSnap]
  <2>1. new = [[Idle EXCEPT !.pc = pc] EXCEPT !.payment = p]
    BY Zenon DEF Idle
  <2>2. [Idle EXCEPT !.pc = pc] = [pc |-> pc, payment |-> "none", snap |-> NoSnap]
    BY DEF Idle
  <2>3. [[pc |-> pc, payment |-> "none", snap |-> NoSnap] EXCEPT !.payment = p]
            = [pc |-> pc, payment |-> p, snap |-> NoSnap]
    OBVIOUS
  <2> QED BY <2>1, <2>2, <2>3
<1>a. publishers' = [publishers EXCEPT ![x] = new]
  BY DEF Start
<1> HIDE DEF new
<1>1. /\ publishers' = [publishers EXCEPT ![x] = new]
      /\ new \in [pc : {"idle", "gate", "read", "send"},
                  payment : Payments \cup {"none"}, snap : Snaps]
      /\ new.pc = pc /\ new.payment = p
  BY <1>0, <1>a, NothingYet
<1>2. Types'
  BY <1>1 DEF IInv, Types
<1>3. \A q \in Payments : published'[q] <= now'[q].version
  BY DEF IInv, Types, VersionsInv
<1>4. ASSUME NEW y \in Publishers
      PROVE  /\ publishers'[y].pc # "idle" => publishers'[y].payment \in Payments
             /\ publishers'[y].pc = "send" =>
                   publishers'[y].snap.version <= now'[publishers'[y].payment].version
  <2>1. CASE y = x
    BY <2>1, <1>1 DEF IInv, Types
  <2>2. CASE y # x
    <3>1. publishers'[y] = publishers[y]
      BY <2>2, <1>1 DEF IInv, Types
    <3>2. publishers[y].snap.version \in Int
      BY DEF IInv, Types, Snaps
    <3> QED BY <3>1, <3>2 DEF IInv, Types, VersionsInv
  <2> QED BY <2>1, <2>2
<1> QED BY <1>2, <1>3, <1>4 DEF VersionsInv

-----------------------------------------------------------------------------
LEMMA InitHolds == Init => IInv
<1> SUFFICES ASSUME Init PROVE IInv
  OBVIOUS
<1> USE StatusStreamAssumption DEF Init
<1>1. \A s \in Streams : /\ streams[s] \in StreamRecords
                         /\ StreamFits(streams[s], Target[s], hub, issued, published[Target[s]])
  BY GoneFits
<1>2. Idle \in [pc : {"idle", "gate", "read", "send"},
                payment : Payments \cup {"none"}, snap : Snaps]
  BY NothingYet DEF Idle
<1>3. Types
  BY <1>1, <1>2 DEF Types, Situations, Snap
<1>4. VersionsInv
  BY DEF VersionsInv, Idle, Snap
<1>5. IssuedInv /\ StreamsInv
  BY <1>1 DEF IssuedInv, StreamsInv, Snap
<1> QED BY <1>3, <1>4, <1>5 DEF IInv

(* The changes of a payment, announced or not. *)
LEMMA ChangeStep ==
    ASSUME IInv, NEW p \in Payments,
           PrepareOrLapse(p) \/ Settle(p) \/ PollRow(p) \/ Downgrade(p)
    PROVE  IInv'
<1>1. CASE PrepareOrLapse(p)
  <2>1. PICK from, to :
            /\ Move(p, from, to) /\ to \subseteq Situations
            /\ issued \subseteq issued' /\ issued' \in SUBSET Payments
            /\ p \in issued' \/ "never_issued" \notin from
    <3>1. CASE Move(p, {"never_issued"}, {"awaiting"}) /\ issued' = issued \cup {p}
      BY <3>1 DEF Situations, IInv, Types
    <3>2. CASE Move(p, {"awaiting"}, {"lapsed"}) /\ UNCHANGED issued
      BY <3>2 DEF Situations, IInv, Types
    <3>3. CASE Move(p, {"lapsed"}, {"never_issued"}) /\ UNCHANGED issued
      BY <3>3 DEF Situations, IInv, Types
    <3> QED BY <1>1, <3>1, <3>2, <3>3 DEF PrepareOrLapse
  <2>2. /\ now' \in [Payments -> [situation : Situations, version : Nat]]
        /\ \A q \in Payments : now[q].version <= now'[q].version
        /\ IssuedInv' /\ StreamsInv'
    BY <1>1, <2>1, OneMove DEF PrepareOrLapse
  <2>3. Types'
    BY <1>1, <2>1, <2>2 DEF PrepareOrLapse, IInv, Types
  <2>4. VersionsInv'
    <3>1. UNCHANGED <<publishers, published>>
      BY <1>1 DEF PrepareOrLapse
    <3>2. \A q \in Payments : published'[q] <= now'[q].version
      BY <2>2, <3>1 DEF IInv, Types, VersionsInv
    <3>3. \A x \in Publishers : publishers[x].snap.version \in Int
      BY DEF IInv, Types, Snaps
    <3> QED BY <2>2, <3>1, <3>2, <3>3 DEF IInv, Types, VersionsInv
  <2> QED BY <2>2, <2>3, <2>4 DEF IInv
<1>2. ASSUME NEW x \in Publishers, NEW pc \in {"gate", "read"}, NEW from, NEW to,
             Move(p, from, to), Start(x, p, pc), to \subseteq Situations,
             "never_issued" \notin from, UNCHANGED <<issued, hub, streams, published>>
      PROVE  IInv'
  <2>1. issued' \in SUBSET Payments /\ issued \subseteq issued'
    BY <1>2 DEF IInv, Types
  <2>2. /\ now' \in [Payments -> [situation : Situations, version : Nat]]
        /\ \A q \in Payments : now[q].version <= now'[q].version
        /\ IssuedInv' /\ StreamsInv'
    BY <1>2, <2>1, OneMove
  <2> QED BY <1>2, <2>2, StartFits DEF IInv
<1>3. CASE Settle(p)
  BY <1>2, <1>3 DEF Settle, Publishers, Situations
<1>4. CASE Downgrade(p)
  BY <1>2, <1>4 DEF Downgrade, Publishers, Situations
<1>5. CASE PollRow(p) /\ UNCHANGED now
  <2>1. now' \in [Payments -> [situation : Situations, version : Nat]]
    BY <1>5 DEF IInv, Types
  <2>2. \A q \in Payments : now[q].version <= now'[q].version
    BY <1>5 DEF IInv, Types
  <2>3. Types' /\ VersionsInv'
    BY <1>5, <2>1, <2>2, StartFits DEF PollRow, Publishers
  <2>4. IssuedInv' /\ StreamsInv'
    BY <1>5 DEF PollRow, IInv, IssuedInv, StreamsInv
  <2> QED BY <2>3, <2>4 DEF IInv
<1>6. CASE PollRow(p) /\ ~UNCHANGED now
  <2>1. PICK from, to : /\ Move(p, from, to) /\ to \subseteq Situations
                        /\ "never_issued" \notin from
    <3>1. CASE Move(p, {"broadcast", "expired"}, {"mined"})
      BY <3>1 DEF Situations
    <3>2. CASE Move(p, {"mined"}, {"final"})
      BY <3>2 DEF Situations
    <3>3. CASE Move(p, {"mined", "final"}, {"broadcast", "settled"})
      BY <3>3 DEF Situations
    <3>4. CASE Move(p, {"broadcast"}, {"expired"})
      BY <3>4 DEF Situations
    <3> QED BY <1>6, <3>1, <3>2, <3>3, <3>4 DEF PollRow
  <2> QED BY <1>2, <1>6, <2>1 DEF PollRow, Publishers
<1> QED BY <1>1, <1>3, <1>4, <1>5, <1>6

(* A publisher asks the hub, reads, sends or gives up. *)
LEMMA PublisherStep ==
    ASSUME IInv, NEW x \in Publishers, PublishStep(x)
    PROVE  IInv'
<1> DEFINE old == publishers[x]
           p == old.payment
           snap == old.snap
           Records == [pc : {"idle", "gate", "read", "send"},
                       payment : Payments \cup {"none"}, snap : Snaps]
<1>0. old \in Records /\ Idle \in Records /\ Idle.pc = "idle"
  BY NothingYet DEF IInv, Types, Idle
<1>1. CASE Gate(x)
  <2>1. PICK new \in {Idle, [old EXCEPT !.pc = "read"]} :
            publishers' = [publishers EXCEPT ![x] = new]
    BY <1>1 DEF Gate
  <2>2. new \in Records /\ new.pc # "send" /\ (new.pc # "idle" => new.payment = p)
    BY <1>0
  <2>3. p \in Payments
    BY <1>1 DEF Gate, IInv, VersionsInv
  <2> HIDE DEF p
  <2> QED BY <1>1, <2>1, <2>2, <2>3, OnePublisher DEF Gate
<1>2. CASE ReadForPublish(x)
  <2> DEFINE new == [old EXCEPT !.pc = "send", !.snap = now[p]]
  <2>1. p \in Payments
    BY <1>2 DEF ReadForPublish, IInv, VersionsInv
  <2>2. now[p] \in Snaps /\ now[p].version \in Int
    BY <2>1 DEF IInv, Types, Snaps
  <2>3. new \in Records /\ new.pc = "send" /\ new.payment = p /\ new.snap = now[p]
    BY <1>0, <2>2
  <2>4. publishers' = [publishers EXCEPT ![x] = new]
    BY <1>2 DEF ReadForPublish, IInv, Types
  <2>5. UNCHANGED <<now, issued, hub, streams, published>>
    BY <1>2 DEF ReadForPublish
  <2>6. new.snap.version <= now[new.payment].version
    BY <2>2, <2>3
  <2> HIDE DEF new, p
  <2> QED BY <2>1, <2>3, <2>4, <2>5, <2>6, OnePublisher
<1>3. CASE ReadForPublishFails(x)
  BY <1>0, <1>3, OnePublisher DEF ReadForPublishFails
<1>4. CASE Publish(x)
  <2> DEFINE newest == IF snap.version > published[p] THEN snap.version ELSE published[p]
  <2>1. /\ p \in Payments /\ snap \in Snaps /\ snap.version \in Int
        /\ snap.version <= now[p].version
    BY <1>4, <1>0 DEF Publish, IInv, VersionsInv, Snaps
  <2>2. /\ published' = [published EXCEPT ![p] = newest]
        /\ publishers' = [publishers EXCEPT ![x] = Idle]
        /\ UNCHANGED <<now, issued, hub>>
        /\ streams' = [s \in Streams |-> IF p \in hub /\ s \in Receivers(p)
                                         THEN Enqueue(streams[s], snap) ELSE streams[s]]
    BY <1>4 DEF Publish
  <2>3. published[p] \in Int /\ now[p].version \in Int /\ published[p] <= now[p].version
    BY <2>1 DEF IInv, Types, VersionsInv
  <2>4. newest \in Int /\ newest <= now[p].version
    BY <2>1, <2>3
  <2>5. newest \in {snap.version, published[p]}
    OBVIOUS
  <2> HIDE DEF p, snap, newest
  <2>6. \A q \in Payments : published'[q] = IF q = p THEN newest ELSE published[q]
    BY <2>1, <2>2 DEF IInv, Types
  <2>7. ASSUME NEW s \in Streams
        PROVE  /\ streams'[s] \in StreamRecords
               /\ StreamFits(streams'[s], Target[s], hub, issued, published'[Target[s]])
    <3>1. /\ streams[s] \in StreamRecords /\ Target[s] \in Payments
          /\ StreamFits(streams[s], Target[s], hub, issued, published[Target[s]])
      BY StatusStreamAssumption DEF IInv, Types, StreamsInv
    <3>2. CASE p \in hub /\ s \in Receivers(p)
      <4>1. streams'[s] = Enqueue(streams[s], snap) /\ Target[s] = p
        BY <2>2, <3>2 DEF Receivers
      <4>2. /\ streams'[s] \in StreamRecords
            /\ streams'[s].best = streams[s].best /\ streams'[s].pc = streams[s].pc
            /\ Covered(streams'[s], snap.version)
            /\ Covered(streams[s], published[p]) => Covered(streams'[s], published[p])
        BY <4>1, <3>1, <2>1, <2>3, EnqueueFits
      <4>3. published'[Target[s]] = newest
        BY <4>1, <3>1, <2>6
      <4> QED BY <4>1, <4>2, <4>3, <3>1, <2>5 DEF StreamFits
    <3>3. CASE ~(p \in hub /\ s \in Receivers(p))
      <4>1. streams'[s] = streams[s]
        BY <2>2, <3>3
      <4>2. CASE Target[s] # p
        BY <4>1, <4>2, <3>1, <2>6
      <4>3. CASE Target[s] = p
        <5>1. ~Receiving(s)
          BY <3>1, <3>3, <4>3 DEF Receivers, Receiving, StreamFits
        <5> QED BY <4>1, <5>1, <3>1 DEF Receiving, StreamFits
      <4> QED BY <4>2, <4>3
    <3> QED BY <3>2, <3>3
  <2>8. Types'
    BY <2>2, <2>4, <2>7, <1>0 DEF IInv, Types
  <2>9. VersionsInv'
    BY <2>2, <2>4, <2>6, <1>0 DEF IInv, Types, VersionsInv
  <2>10. IssuedInv' /\ StreamsInv'
    BY <2>2, <2>7 DEF IInv, IssuedInv, StreamsInv
  <2> QED BY <2>8, <2>9, <2>10 DEF IInv
<1> QED BY <1>1, <1>2, <1>3, <1>4 DEF PublishStep

(* A connection is made, given up or closed. *)
LEMMA LeaveStep ==
    ASSUME IInv, NEW s \in Streams, NEW pc \in {"gone", "probe"},
           Set(s, [Gone EXCEPT !.pc = pc]), UNCHANGED <<Others, hub>>
    PROVE  IInv'
<1> DEFINE new == [Gone EXCEPT !.pc = pc]
<1>1. new \in StreamRecords /\ new.pc = pc /\ new.best = -1
  BY GoneFits DEF Gone, StreamRecords
<1> HIDE DEF new
<1>2. StreamFits(new, Target[s], hub', issued, published[Target[s]])
  BY <1>1 DEF StreamFits
<1>3. Set(s, new) /\ hub' = hub /\ UNCHANGED Others
  BY DEF new
<1> QED BY <1>1, <1>2, <1>3, OneStream

(* Telling one of the snapshots an open stream holds, or a fresh one. *)
LEMMA TellStep ==
    ASSUME IInv, NEW s \in Streams, NEW rest \in StreamRecords, NEW snap \in Snaps,
           streams[s].pc = "open", rest.pc = "open", rest.best >= -1,
           Covered(rest, published[Target[s]]) \/ snap.version >= published[Target[s]],
           Set(s, Told(rest, snap)), UNCHANGED <<Others, hub>>
    PROVE  IInv'
<1> DEFINE new == Told(rest, snap)
           v == published[Target[s]]
<1>1. /\ new \in StreamRecords /\ new.best >= -1 /\ new.pc \in {"open", "closed"}
      /\ new.pc = "open" =>
            /\ new.best >= rest.best /\ new.best >= snap.version
            /\ new.tail = rest.tail /\ new.head = rest.head
            /\ new.lagged = rest.lagged /\ new.resync = rest.resync
  BY ToldFits
<1>2. v \in Int /\ new.best \in Int /\ rest.best \in Int /\ snap.version \in Int
  BY <1>1, StatusStreamAssumption DEF IInv, Types, StreamRecords, Snaps
<1>3. Target[s] \in hub
  BY DEF IInv, StreamsInv, StreamFits
<1>4. Set(s, new) /\ hub' = hub /\ UNCHANGED Others
  OBVIOUS
<1>5. Covered(rest, v) \/ snap.version >= v
  OBVIOUS
<1> HIDE DEF new, v
<1>6. new.pc = "open" => Covered(new, v)
  BY <1>1, <1>2, <1>5 DEF Covered
<1>7. StreamFits(new, Target[s], hub', issued, v)
  BY <1>1, <1>3, <1>4, <1>6 DEF StreamFits
<1> QED BY <1>1, <1>4, <1>7, OneStream DEF v

LEMMA ConnectionStep ==
    ASSUME IInv, NEW s \in Streams,
           Connect(s) \/ StreamStep(s) \/ Disconnect(s) \/ Reconnect(s)
    PROVE  IInv'
<1> DEFINE old == streams[s]
           p == Target[s]
           v == published[p]
<1>0. /\ old \in StreamRecords /\ p \in Payments /\ v \in Int
      /\ StreamFits(old, p, hub, issued, v)
      /\ now[p] \in Snaps /\ v <= now[p].version
  BY StatusStreamAssumption DEF IInv, Types, StreamsInv, VersionsInv, Snaps
<1>1. Gone = [Gone EXCEPT !.pc = "gone"]
  <2>1. Gone \in StreamRecords /\ Gone.pc = "gone"
    BY GoneFits DEF Gone
  <2> QED BY <2>1 DEF StreamRecords
<1>2. CASE Connect(s) \/ Reconnect(s)
  <2>1. Set(s, [Gone EXCEPT !.pc = "probe"]) /\ UNCHANGED <<Others, hub>>
    BY <1>2 DEF Connect, Reconnect
  <2> QED BY <2>1, LeaveStep
<1>3. CASE LookupFails(s) \/ ResyncFails(s) \/ Disconnect(s)
  <2>1. Set(s, [Gone EXCEPT !.pc = "gone"]) /\ UNCHANGED <<Others, hub>>
    BY <1>1, <1>3 DEF LookupFails, ResyncFails, Disconnect
  <2> QED BY <2>1, LeaveStep
<1>4. CASE Probe(s)
  <2>1. CASE now[p].situation = "never_issued"
    BY <1>1, <1>4, <2>1, LeaveStep DEF Probe
  <2>2. CASE now[p].situation # "never_issued"
    <3> DEFINE new == [Gone EXCEPT !.pc = "subscribe"]
    <3>1. new \in StreamRecords /\ new.pc = "subscribe" /\ new.best = -1
      BY GoneFits DEF Gone, StreamRecords
    <3>2. Set(s, new) /\ UNCHANGED <<Others, hub>>
      BY <1>4, <2>2 DEF Probe
    <3>3. p \in issued
      BY <1>0, <2>2 DEF IInv, IssuedInv
    <3> HIDE DEF new
    <3>4. StreamFits(new, p, hub', issued, v)
      BY <3>1, <3>3 DEF StreamFits
    <3> QED BY <3>1, <3>2, <3>4, OneStream
  <2> QED BY <2>1, <2>2
<1>5. CASE Subscribe(s)
  <2> DEFINE new == [old EXCEPT !.pc = "reread"]
  <2>1. new \in StreamRecords /\ new.pc = "reread" /\ new.best = old.best
    BY <1>0 DEF StreamRecords
  <2>2. Set(s, new) /\ UNCHANGED Others /\ hub' = hub \cup {p} /\ old.pc = "subscribe"
    BY <1>5 DEF Subscribe, At
  <2>3. p \in issued
    BY <1>0, <2>2 DEF StreamFits
  <2> HIDE DEF new
  <2>4. StreamFits(new, p, hub', issued, v)
    BY <1>0, <2>1, <2>2 DEF StreamFits
  <2> QED BY <2>1, <2>2, <2>3, <2>4, OneStream
<1>6. CASE Reread(s)
  <2> DEFINE new == [old EXCEPT !.pc = "open", !.head = now[p]]
  <2>1. /\ new \in StreamRecords /\ new.pc = "open" /\ new.best = old.best
        /\ new.head = now[p]
    BY <1>0 DEF StreamRecords
  <2>2. Set(s, new) /\ UNCHANGED Others /\ hub' = hub /\ old.pc = "reread"
    BY <1>6 DEF Reread, At
  <2>3. now[p].version >= v
    BY <1>0 DEF Snaps
  <2> HIDE DEF new
  <2>4. StreamFits(new, p, hub', issued, v)
    BY <1>0, <2>1, <2>2, <2>3 DEF StreamFits, Covered
  <2> QED BY <2>1, <2>2, <2>4, OneStream
<1>7. CASE EmitHead(s)
  <2> DEFINE rest == [old EXCEPT !.head = NoSnap]
  <2>1. old.pc = "open" /\ Set(s, Told(rest, old.head)) /\ UNCHANGED <<Others, hub>>
    BY <1>7 DEF EmitHead, At
  <2>2. /\ rest \in StreamRecords /\ rest.pc = old.pc /\ rest.best = old.best
        /\ rest.tail = old.tail /\ rest.lagged = old.lagged /\ rest.resync = old.resync
        /\ old.head \in Snaps
    BY <1>0, NothingYet DEF StreamRecords
  <2> HIDE DEF rest
  <2>3. Covered(rest, v) \/ old.head.version >= v
    BY <1>0, <2>1, <2>2 DEF StreamFits, Covered
  <2>4. rest.best >= -1
    BY <1>0, <2>2 DEF StreamFits
  <2> QED BY <2>1, <2>2, <2>3, <2>4, TellStep
<1>8. CASE EmitResync(s)
  <2> DEFINE rest == [old EXCEPT !.resync = FALSE]
  <2>1. old.pc = "open" /\ Set(s, Told(rest, now[p])) /\ UNCHANGED <<Others, hub>>
    BY <1>8 DEF EmitResync, At
  <2>2. rest \in StreamRecords /\ rest.pc = old.pc /\ rest.best = old.best
    BY <1>0 DEF StreamRecords
  <2> HIDE DEF rest
  <2>3. now[p].version >= v
    BY <1>0 DEF Snaps
  <2>4. rest.best >= -1
    BY <1>0, <2>2 DEF StreamFits
  <2> QED BY <1>0, <2>1, <2>2, <2>3, <2>4, TellStep
<1>9. CASE EmitLag(s)
  <2> DEFINE new == [old EXCEPT !.lagged = FALSE, !.resync = TRUE]
  <2>1. old.pc = "open" /\ Set(s, new) /\ UNCHANGED Others /\ hub' = hub
    BY <1>9 DEF EmitLag, AtTail, At
  <2>2. new \in StreamRecords /\ new.pc = old.pc /\ new.best = old.best /\ new.resync
    BY <1>0 DEF StreamRecords
  <2> HIDE DEF new
  <2>3. StreamFits(new, p, hub', issued, v)
    BY <1>0, <2>1, <2>2 DEF StreamFits, Covered
  <2> QED BY <2>1, <2>2, <2>3, OneStream
<1>10. CASE EmitTail(s)
  <2> DEFINE rest == [old EXCEPT !.tail = Tail(@)]
  <2>1. /\ old.pc = "open" /\ Set(s, Told(rest, Head(old.tail)))
        /\ UNCHANGED <<Others, hub>> /\ old.tail # <<>>
    BY <1>10 DEF EmitTail, AtTail, At
  <2>2. /\ old.tail \in Seq(Snaps) /\ Len(old.tail) \in Nat \ {0}
        /\ Tail(old.tail) \in Seq(Snaps) /\ Head(old.tail) \in Snaps
        /\ Head(old.tail) = old.tail[1]
        /\ Len(Tail(old.tail)) = Len(old.tail) - 1
        /\ \A i \in 2 .. Len(old.tail) : Tail(old.tail)[i - 1] = old.tail[i]
    BY <1>0, <2>1 DEF StreamRecords
  <2>3. /\ rest \in StreamRecords /\ rest.pc = old.pc /\ rest.best = old.best
        /\ rest.tail = Tail(old.tail) /\ rest.head = old.head
        /\ rest.lagged = old.lagged /\ rest.resync = old.resync
    BY <1>0, <2>2 DEF StreamRecords
  <2> HIDE DEF rest
  <2>4. Covered(rest, v) \/ Head(old.tail).version >= v
    <3>1. Covered(old, v)
      BY <1>0, <2>1 DEF StreamFits
    <3>2. CASE \E i \in 1 .. Len(old.tail) : old.tail[i].version >= v
      <4>1. PICK i \in 1 .. Len(old.tail) : old.tail[i].version >= v
        BY <3>2
      <4>2. CASE i = 1
        BY <2>2, <4>1, <4>2
      <4>3. CASE i # 1
        <5>1. i - 1 \in 1 .. Len(rest.tail) /\ rest.tail[i - 1] = old.tail[i]
          BY <2>2, <2>3, <4>3
        <5> QED BY <4>1, <5>1 DEF Covered
      <4> QED BY <4>2, <4>3
    <3>3. CASE ~\E i \in 1 .. Len(old.tail) : old.tail[i].version >= v
      BY <2>3, <3>1, <3>3 DEF Covered
    <3> QED BY <3>2, <3>3
  <2>5. rest.best >= -1
    BY <1>0, <2>3 DEF StreamFits
  <2> QED BY <2>1, <2>2, <2>3, <2>4, <2>5, TellStep
<1> QED BY <1>2, <1>3, <1>4, <1>5, <1>6, <1>7, <1>8, <1>9, <1>10 DEF StreamStep

(* A restart forgets hub, streams and publishers at once. *)
LEMMA RestartStep ==
    ASSUME IInv, Restart
    PROVE  IInv'
<1>1. Idle \in [pc : {"idle", "gate", "read", "send"},
                payment : Payments \cup {"none"}, snap : Snaps] /\ Idle.pc = "idle"
  BY NothingYet DEF Idle
<1>2. Types'
  BY <1>1, GoneFits DEF Restart, IInv, Types
<1>3. VersionsInv'
  BY <1>1 DEF Restart, IInv, VersionsInv
<1>4. IssuedInv' /\ StreamsInv'
  BY GoneFits DEF Restart, IInv, IssuedInv, StreamsInv
<1> QED BY <1>2, <1>3, <1>4 DEF IInv

LEMMA NextHolds == IInv /\ [Next]_vars => IInv'
<1> SUFFICES ASSUME IInv, [Next]_vars PROVE IInv'
  OBVIOUS
<1>1. CASE \E p \in Payments : PrepareOrLapse(p) \/ Settle(p) \/ PollRow(p) \/ Downgrade(p)
  BY <1>1, ChangeStep
<1>2. CASE \E x \in Publishers : PublishStep(x)
  BY <1>2, PublisherStep
<1>3. CASE \E s \in Streams : Connect(s) \/ StreamStep(s) \/ Disconnect(s) \/ Reconnect(s)
  BY <1>3, ConnectionStep
<1>4. CASE Restart
  BY <1>4, RestartStep
<1>5. CASE UNCHANGED vars
  BY <1>5 DEF vars, IInv, Types, VersionsInv, IssuedInv, StreamsInv
<1> QED BY <1>1, <1>2, <1>3, <1>4, <1>5 DEF Next

-----------------------------------------------------------------------------
(* A client that asks for ids nobody issued never grows the registry of     *)
(* PaymentEventHub: events_handler probes before it subscribes.             *)
THEOREM RegistryBounded == Spec => []RegistryIsBounded
<1>1. IInv => RegistryIsBounded
  BY DEF IInv, IssuedInv, RegistryIsBounded
<1> QED BY <1>1, InitHolds, NextHolds, PTL DEF Spec

(* Whatever the capacity of the channels and however probe, subscription,   *)
(* second lookup, publications and lag interleave, an EventStream that has  *)
(* nothing left to say told its client the newest snapshot that was         *)
(* published for its payment, or a newer one.                               *)
THEOREM PublishedIsTold == Spec => []NothingPublishedIsLost
<1>1. ASSUME IInv, NEW s \in Streams, Drained(s)
      PROVE  streams[s].best >= published[Target[s]]
  <2>1. /\ streams[s].pc = "open" /\ streams[s].head = NoSnap /\ ~streams[s].resync
        /\ ~streams[s].lagged /\ streams[s].tail = <<>>
    BY <1>1 DEF Drained, AtTail, At
  <2>2. /\ Covered(streams[s], published[Target[s]]) /\ streams[s].best >= -1
        /\ streams[s].best \in Int /\ published[Target[s]] \in Int
    BY <1>1, <2>1, StatusStreamAssumption DEF IInv, Types, StreamRecords, StreamsInv, StreamFits
  <2>3. streams[s].head.version = -1 /\ Len(streams[s].tail) = 0
    BY <2>1 DEF NoSnap, Snap
  <2> QED BY <2>1, <2>2, <2>3 DEF Covered
<1>2. IInv => NothingPublishedIsLost
  BY <1>1 DEF NothingPublishedIsLost
<1> QED BY <1>2, InitHolds, NextHolds, PTL DEF Spec
=============================================================================
