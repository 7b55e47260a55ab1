---------------------------- MODULE StatusStream ----------------------------
(***************************************************************************)
(* GET /zpay/v1/payments/{id}/events: the hub of broadcast channels, its   *)
(* publishers, the handler that probes, subscribes and reads again, and    *)
(* the stream with its head, its bounded tail and its resynchronisation.   *)
(*                                                                         *)
(* LedgerRows says how a status comes about; here each payment only has    *)
(* the situation a lookup would find, with a version that counts its       *)
(* changes.  A snapshot is what a lookup read: situation and version.      *)
(***************************************************************************)
EXTENDS Integers, Sequences

CONSTANTS
    Payments,
    Streams,       \* connections of browsers and bridges
    Target,        \* the payment each connection asks for
    Capacity,      \* CHANNEL_CAPACITY
    MaxChanges,    \* bound on the changes of one payment
    MaxFaults      \* bound on failed lookups and disconnects

ASSUME StatusStreamAssumption ==
    /\ Target \in [Streams -> Payments]
    /\ Capacity \in Nat \ {0} /\ MaxChanges \in Nat /\ MaxFaults \in Nat

VARIABLES
    now,         \* what a lookup would read, by payment
    issued,      \* payments that were ever prepared
    hub,         \* payments with a sender in the registry
    publishers,  \* settle handler, confirmation poll, chain-event task
    streams,
    published,   \* newest version given to the hub, by payment
    mute,        \* payments of which an announcement was not made
    faults

vars == <<now, issued, hub, publishers, streams, published, mute, faults>>

Publishers == {"settle", "poll", "events"}

-----------------------------------------------------------------------------
(* Snapshots.  "lapsed" is a preparation past its deadline, "expired" a     *)
(* broadcast past its expiry height; both read as expired.  "settled" is a  *)
(* final payment below the settled tip.                                     *)

Situations == {"never_issued", "awaiting", "lapsed", "broadcast", "failed", "expired",
               "mined", "final", "settled"}
InLedger == {"broadcast", "expired", "mined", "final", "settled"}

Snap(situation, version) == [situation |-> situation, version |-> version]
NoSnap == Snap("none", -1)

(* PaymentStatusSnapshot::stream_closed *)
StreamClosed(snap) ==
    snap.situation \in {"settled", "failed", "never_issued", "lapsed", "expired"}

-----------------------------------------------------------------------------
Idle == [pc |-> "idle", payment |-> "none", snap |-> NoSnap]

(* head, in-flight resync and tail of an EventStream; `best' is the newest  *)
(* version the client was told.                                             *)
Gone == [pc |-> "gone", head |-> NoSnap, tail |-> <<>>, lagged |-> FALSE,
         resync |-> FALSE, best |-> -1]

Init ==
    /\ now = [p \in Payments |-> Snap("never_issued", 0)]
    /\ issued = {} /\ hub = {} /\ mute = {}
    /\ publishers = [x \in Publishers |-> Idle]
    /\ streams = [s \in Streams |-> Gone]
    /\ published = [p \in Payments |-> -1]
    /\ faults = 0

Fault == faults < MaxFaults /\ faults' = faults + 1

-----------------------------------------------------------------------------
(* What changes a payment, and who announces it. *)

Move(p, from, to) ==
    /\ now[p].situation \in from /\ now[p].version < MaxChanges
    /\ \E situation \in to : now' = [now EXCEPT ![p] = Snap(situation, @.version + 1)]

(* prepare, the deadline and the sweeper: nobody publishes. *)
PrepareOrLapse(p) ==
    /\ \/ Move(p, {"never_issued"}, {"awaiting"}) /\ issued' = issued \cup {p}
       \/ Move(p, {"awaiting"}, {"lapsed"}) /\ UNCHANGED issued
       \/ Move(p, {"lapsed"}, {"never_issued"}) /\ UNCHANGED issued
    /\ UNCHANGED <<hub, publishers, streams, published, mute, faults>>

Start(x, p, pc) ==
    /\ publishers[x] = Idle
    /\ publishers' = [publishers EXCEPT ![x] = [Idle EXCEPT !.pc = pc, !.payment = p]]

(* A settle records its outcome and announces it, whatever it is. *)
Settle(p) ==
    /\ Move(p, {"awaiting", "failed"}, {"broadcast", "failed"})
    /\ Start("settle", p, "read")
    /\ UNCHANGED <<issued, hub, streams, published, mute, faults>>

(* One row of a confirmation sweep, with or without a change. *)
PollRow(p) ==
    /\ now[p].situation \in InLedger
    /\ \/ UNCHANGED now
       \/ Move(p, {"broadcast", "expired"}, {"mined"})
       \/ Move(p, {"mined"}, {"final"})
       \/ Move(p, {"mined", "final"}, {"broadcast", "settled"})
       \/ Move(p, {"broadcast"}, {"expired"})
    /\ Start("poll", p, "gate")
    /\ UNCHANGED <<issued, hub, streams, published, mute, faults>>

(* The chain-event task downgrades what a reorg took. *)
Downgrade(p) ==
    /\ Move(p, {"mined", "final"}, {"broadcast"})
    /\ Start("events", p, "gate")
    /\ UNCHANGED <<issued, hub, streams, published, mute, faults>>

-----------------------------------------------------------------------------
(* The hub *)

Receiving(s) == streams[s].pc \in {"reread", "open"}
Receivers(p) == {s \in Streams : Target[s] = p /\ Receiving(s)}

(* has_subscribers: the background tasks read only what somebody watches. *)
Gate(x) ==
    /\ publishers[x].pc = "gate"
    /\ publishers' = [publishers EXCEPT ![x] =
                        IF Receivers(@.payment) # {} THEN [@ EXCEPT !.pc = "read"] ELSE Idle]
    /\ UNCHANGED <<now, issued, hub, streams, published, mute, faults>>

ReadForPublish(x) ==
    /\ publishers[x].pc = "read"
    /\ publishers' = [publishers EXCEPT ![x].pc = "send",
                                           ![x].snap = now[publishers[x].payment]]
    /\ UNCHANGED <<now, issued, hub, streams, published, mute, faults>>

(* The lookup errs: the handler skips the publish, the task logs. *)
ReadForPublishFails(x) ==
    /\ publishers[x].pc = "read"
    /\ Fault
    /\ publishers' = [publishers EXCEPT ![x] = Idle]
    /\ mute' = mute \cup {publishers[x].payment}
    /\ UNCHANGED <<now, issued, hub, streams, published>>

(* A receiver keeps the newest Capacity snapshots and knows that it lost     *)
(* older ones.                                                              *)
Enqueue(stream, snap) ==
    IF Len(stream.tail) < Capacity
    THEN [stream EXCEPT !.tail = Append(@, snap)]
    ELSE [stream EXCEPT !.tail = Append(Tail(@), snap), !.lagged = TRUE]

(* publish: no sender, no delivery; never a new registry entry. *)
Publish(x) ==
    LET p == publishers[x].payment  snap == publishers[x].snap
    IN  /\ publishers[x].pc = "send"
        /\ streams' = [s \in Streams |->
                         IF p \in hub /\ s \in Receivers(p)
                         THEN Enqueue(streams[s], snap) ELSE streams[s]]
        /\ published' = [published EXCEPT ![p] = IF snap.version > @ THEN snap.version ELSE @]
        /\ publishers' = [publishers EXCEPT ![x] = Idle]
        /\ UNCHANGED <<now, issued, hub, mute, faults>>

-----------------------------------------------------------------------------
(* events_handler *)

At(s, pc) == streams[s].pc = pc
Set(s, stream) == streams' = [streams EXCEPT ![s] = stream]
Others == <<now, issued, publishers, published, mute>>

Connect(s) ==
    /\ At(s, "gone")
    /\ Set(s, [Gone EXCEPT !.pc = "probe"])
    /\ UNCHANGED <<Others, hub, faults>>

(* Mutant: an id nobody has issued is subscribed to as well. *)
Probe_AnyId(s) ==
    /\ At(s, "probe")
    /\ Set(s, [Gone EXCEPT !.pc = "subscribe", !.head = now[Target[s]]])
    /\ UNCHANGED <<Others, hub, faults>>

(* The first lookup: 404 for an id nobody has issued, before the registry   *)
(* is touched.  Its snapshot is not used otherwise.                         *)
Probe(s) ==
    /\ At(s, "probe")
    /\ IF now[Target[s]].situation = "never_issued"
       THEN Set(s, Gone)
       ELSE Set(s, [Gone EXCEPT !.pc = "subscribe"])
    /\ UNCHANGED <<Others, hub, faults>>

(* Mutant: the lookup comes first and the subscription after it. *)
Subscribe_AfterRead(s) ==
    /\ At(s, "subscribe")
    /\ hub' = hub \cup {Target[s]}
    /\ \/ Set(s, [streams[s] EXCEPT !.head = now[Target[s]]])
       \/ /\ streams[s].head # NoSnap
          /\ Set(s, [streams[s] EXCEPT !.pc = "open"])
    /\ UNCHANGED <<Others, faults>>

Subscribe(s) ==
    /\ At(s, "subscribe")
    /\ hub' = hub \cup {Target[s]}
    /\ Set(s, [streams[s] EXCEPT !.pc = "reread"])
    /\ UNCHANGED <<Others, faults>>

(* The second lookup becomes the head of the stream. *)
Reread(s) ==
    /\ At(s, "reread")
    /\ Set(s, [streams[s] EXCEPT !.pc = "open", !.head = now[Target[s]]])
    /\ UNCHANGED <<Others, hub, faults>>

(* A lookup of the handler errs: 503, and the receiver is dropped. *)
LookupFails(s) ==
    /\ streams[s].pc \in {"probe", "reread"}
    /\ Fault
    /\ Set(s, Gone)
    /\ UNCHANGED <<Others, hub>>

-----------------------------------------------------------------------------
(* EventStream::poll_next: the head, then a resync in flight, then the tail. *)

(* A snapshot event; a closing one ends the stream and drops its receiver. *)
Told(stream, snap) ==
    LET best == IF snap.version > stream.best THEN snap.version ELSE stream.best
    IN  IF StreamClosed(snap)
        THEN [Gone EXCEPT !.pc = "closed", !.best = best]
        ELSE [stream EXCEPT !.best = best]

EmitHead(s) ==
    /\ At(s, "open") /\ streams[s].head # NoSnap
    /\ Set(s, Told([streams[s] EXCEPT !.head = NoSnap], streams[s].head))
    /\ UNCHANGED <<Others, hub, faults>>

EmitResync(s) ==
    /\ At(s, "open") /\ streams[s].head = NoSnap /\ streams[s].resync
    /\ Set(s, Told([streams[s] EXCEPT !.resync = FALSE], now[Target[s]]))
    /\ UNCHANGED <<Others, hub, faults>>

(* resync_failed: the stream ends, the client is told to come back. *)
ResyncFails(s) ==
    /\ At(s, "open") /\ streams[s].head = NoSnap /\ streams[s].resync
    /\ Fault
    /\ Set(s, Gone)
    /\ UNCHANGED <<Others, hub>>

AtTail(s) == At(s, "open") /\ streams[s].head = NoSnap /\ ~streams[s].resync

(* Mutant: the client is told of the lag and nothing is read again. *)
EmitLag_NoResync(s) ==
    /\ AtTail(s) /\ streams[s].lagged
    /\ Set(s, [streams[s] EXCEPT !.lagged = FALSE])
    /\ UNCHANGED <<Others, hub, faults>>

(* The receiver says Lagged and stands at the oldest snapshot kept. *)
EmitLag(s) ==
    /\ AtTail(s) /\ streams[s].lagged
    /\ Set(s, [streams[s] EXCEPT !.lagged = FALSE, !.resync = TRUE])
    /\ UNCHANGED <<Others, hub, faults>>

EmitTail(s) ==
    /\ AtTail(s) /\ ~streams[s].lagged /\ streams[s].tail # <<>>
    /\ Set(s, Told([streams[s] EXCEPT !.tail = Tail(@)], Head(streams[s].tail)))
    /\ UNCHANGED <<Others, hub, faults>>

(* The client leaves; an EventSource comes back after a close. *)
Disconnect(s) ==
    /\ streams[s].pc \notin {"gone", "closed"}
    /\ Fault
    /\ Set(s, Gone)
    /\ UNCHANGED <<Others, hub>>

Reconnect(s) ==
    /\ At(s, "closed")
    /\ Fault
    /\ Set(s, [Gone EXCEPT !.pc = "probe"])
    /\ UNCHANGED <<Others, hub>>

(* A restart: hub, streams and publishers are gone, the stores are not. *)
Restart ==
    /\ Fault
    /\ hub' = {}
    /\ streams' = [s \in Streams |-> Gone]
    /\ mute' = mute \cup {publishers[x].payment : x \in {y \in Publishers : publishers[y] # Idle}}
    /\ publishers' = [x \in Publishers |-> Idle]
    /\ UNCHANGED <<now, issued, published>>

-----------------------------------------------------------------------------
StreamStep(s) ==
    \/ Probe(s) \/ Subscribe(s) \/ Reread(s) \/ LookupFails(s)
    \/ EmitHead(s) \/ EmitResync(s) \/ ResyncFails(s) \/ EmitLag(s) \/ EmitTail(s)

PublishStep(x) == Gate(x) \/ ReadForPublish(x) \/ ReadForPublishFails(x) \/ Publish(x)

Next ==
    \/ \E p \in Payments : PrepareOrLapse(p) \/ Settle(p) \/ PollRow(p) \/ Downgrade(p)
    \/ \E x \in Publishers : PublishStep(x)
    \/ \E s \in Streams : Connect(s) \/ StreamStep(s) \/ Disconnect(s) \/ Reconnect(s)
    \/ Restart

(* Handlers and streams are driven on, the poll ticks and gets its turn. *)
Spec ==
    /\ Init /\ [][Next]_vars
    /\ \A s \in Streams : WF_vars(StreamStep(s))
    /\ \A x \in Publishers : WF_vars(PublishStep(x))
    /\ \A p \in Payments : SF_vars(PollRow(p))

-----------------------------------------------------------------------------
(* Properties *)

(* Type correctness; a channel holds at most its capacity and only what a   *)
(* subscriber of an open stream can still read.                             *)
TypeOK ==
    /\ \A p \in Payments : now[p].situation \in Situations
    /\ hub \subseteq Payments
    /\ \A s \in Streams :
          /\ streams[s].pc \in {"gone", "probe", "subscribe", "reread", "open", "closed"}
          /\ Len(streams[s].tail) <= Capacity
          /\ streams[s].tail # <<>> => Receiving(s)
    /\ \A x \in Publishers : publishers[x].pc \in {"idle", "gate", "read", "send"}

(* A probing client cannot grow the registry: every entry is for a payment  *)
(* that was issued.                                                         *)
RegistryIsBounded == hub \subseteq issued

(* No published change is lost on an open stream, whether it came between    *)
(* the probe and the subscription, before the second lookup, behind the     *)
(* capacity of the channel or out of order: a stream with nothing left to   *)
(* say has told something at least as new.                                  *)
Drained(s) == AtTail(s) /\ ~streams[s].lagged /\ streams[s].tail = <<>>
NothingPublishedIsLost ==
    \A s \in Streams : Drained(s) => streams[s].best >= published[Target[s]]

(* A payment that settles, expires on the chain or fails for good, and whose *)
(* announcement was made, ends every stream that watches it.                *)
LastWordComes ==
    \A s \in Streams :
        <>[](/\ now[Target[s]].situation \in {"settled", "expired", "failed"}
             /\ Target[s] \notin mute)
            => <>[](~At(s, "open"))
=============================================================================
