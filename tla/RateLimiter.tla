---------------------------- MODULE RateLimiter ----------------------------
(***************************************************************************)
(* The in-memory fixed-window limiter every x402 and zpay route shares     *)
(* (zpay-x402, rate_limit.rs), with the key the routes count against       *)
(* (lib.rs, client_ip).  Requests run on several threads.  A request reads *)
(* the clock once, may claim the opportunistic sweep, drops the expired    *)
(* windows if it did, and is then counted: four steps under two different  *)
(* mutexes, with other requests and the passage of time between them.      *)
(***************************************************************************)
EXTENDS Integers, FiniteSets

CONSTANTS
    Requests,              \* the requests that arrive
    Addresses,             \* client addresses; a caller may also forge one
    Unspecified,           \* the address of a caller without connect info
    IpBudget,              \* per_ip_per_minute, 0 disables the dimension
    JktBudget,             \* per_jkt_per_minute, 0 disables the dimension
    TrustForwardedHeaders, \* ZPAY trust_forwarded_headers
    TicksPerSecond,        \* clock resolution
    Window,                \* WINDOW, in ticks
    MaxClock,              \* bound: ticks modelled
    MaxHold                \* bound: ticks between reading the clock and counting

ASSUME RateLimiterAssumption ==
    /\ Unspecified \notin Addresses
    /\ {IpBudget, JktBudget, MaxClock, MaxHold} \subseteq Nat
    /\ {TicksPerSecond, Window} \subseteq Nat \ {0}
    /\ TrustForwardedHeaders \in BOOLEAN

(* check never awaits, so a request is not held for anything like a minute. *)
ASSUME HoldAssumption == MaxHold < Window

VARIABLES
    clock,      \* the monotonic clock
    windows,    \* windows: the running count of each key that has one
    lastSweep,  \* last_sweep
    calls       \* each request: its step, its caller, its clock reading, its answer

vars == <<clock, windows, lastSweep, calls>>

None == "none"
Hosts == Addresses \union {Unspecified}

(* RateLimitKey *)
IpKey(address) == <<"ip", address>>
JktKey(jkt) == <<"jkt", jkt>>
Keys == {"ip", "jkt"} \X Hosts

Budget(key) == IF key[1] = "ip" THEN IpBudget ELSE JktBudget

NoCall == [step |-> "new", host |-> Unspecified, key |-> IpKey(Unspecified),
           at |-> 0, done |-> 0, retry |-> 0]
Steps == {"new", "claim", "retain", "count", "admitted", "limited"}

TypeOK ==
    /\ clock \in 0 .. MaxClock
    /\ lastSweep \in 0 .. MaxClock
    /\ DOMAIN windows \subseteq Keys
    /\ \A key \in DOMAIN windows :
           /\ windows[key].count \in 1 .. Budget(key)
           /\ windows[key].startedAt \in 0 .. clock
    /\ calls \in [Requests -> [step : Steps, host : Hosts, key : Keys, at : 0 .. MaxClock,
                               done : 0 .. MaxClock, retry : 0 .. Window]]

Init ==
    /\ clock = 0
    /\ windows = [key \in {} |-> 0]
    /\ lastSweep = 0
    /\ calls = [r \in Requests |-> NoCall]

(* Instant::duration_since, which saturates when the reading is the earlier one. *)
DurationSince(now, then) == IF now >= then THEN now - then ELSE 0

Expired(window, now) == DurationSince(now, window.startedAt) >= Window

-----------------------------------------------------------------------------
(* client_ip: the forwarded address only when the deployment trusts it, else the
   socket peer, else the bucket every caller without connect info shares. *)
ClientIp_AlwaysForwarded(host, forwarded) ==
    IF forwarded # None THEN forwarded ELSE host
ClientIp(host, forwarded) ==
    IF TrustForwardedHeaders /\ forwarded # None THEN forwarded ELSE host

Running(r) == calls[r].step \in {"claim", "retain", "count"}

(* check: a disabled dimension admits at once; otherwise the clock is read before
   anything is locked. *)
Check(r, host, key) ==
    /\ calls[r].step = "new"
    /\ calls' = [calls EXCEPT ![r] =
           [NoCall EXCEPT !.step = IF Budget(key) = 0 THEN "admitted" ELSE "claim",
                          !.host = host, !.key = key, !.at = clock, !.done = clock]]
    /\ UNCHANGED <<clock, windows, lastSweep>>

(* ip_rate_limit: the dimension of the unauthenticated routes. *)
CheckIp(r) ==
    \E host \in Hosts, forwarded \in Addresses \union {None} :
        Check(r, host, IpKey(ClientIp(host, forwarded)))

(* accept_lifecycle_write: the dimension of the routes that verified a DPoP proof.
   The thumbprint identifies the caller, so it stands for its host too. *)
CheckJkt(r) ==
    \E jkt \in Addresses : Check(r, jkt, JktKey(jkt))

(* sweep_if_due: at most one request per window claims the sweep. *)
ClaimSweep(r) ==
    LET due == DurationSince(calls[r].at, lastSweep) >= Window
    IN  /\ calls[r].step = "claim"
        /\ lastSweep' = IF due THEN calls[r].at ELSE lastSweep
        /\ calls' = [calls EXCEPT ![r].step = IF due THEN "retain" ELSE "count"]
        /\ UNCHANGED <<clock, windows>>

Kept(now) == {key \in DOMAIN windows : ~Expired(windows[key], now)}
Kept_All(now) == DOMAIN windows

(* The retain of sweep_if_due, under the windows lock, after last_sweep is free. *)
RetainWith(r, kept) ==
    /\ calls[r].step = "retain"
    /\ windows' = [key \in kept |-> windows[key]]
    /\ calls' = [calls EXCEPT ![r].step = "count"]
    /\ UNCHANGED <<clock, lastSweep>>

Retain_DropsNothing(r) == RetainWith(r, Kept_All(calls[r].at))
Retain(r) == RetainWith(r, Kept(calls[r].at))

(* WINDOW less the elapsed time, in whole seconds, at least one. *)
RetryAfterSeconds_WholeWindow(window, now) == Window \div TicksPerSecond
RetryAfterSeconds(window, now) ==
    LET elapsed == DurationSince(now, window.startedAt)
        left == IF elapsed < Window THEN (Window - elapsed) \div TicksPerSecond ELSE 0
    IN  IF left > 1 THEN left ELSE 1

CurrentWindow_KeepsStart(key, now) ==
    CASE key \notin DOMAIN windows     -> [count |-> 0, startedAt |-> now]
      [] Expired(windows[key], now)    -> [windows[key] EXCEPT !.count = 0]
      [] OTHER                         -> windows[key]
(* The window a request is counted in: the entry of its key, begun anew when there
   is none or when it has run out. *)
CurrentWindow(key, now) ==
    IF key \in DOMAIN windows /\ ~Expired(windows[key], now)
    THEN windows[key]
    ELSE [count |-> 0, startedAt |-> now]

(* The rest of check, under the windows lock. *)
Count(r) ==
    LET key == calls[r].key
        now == calls[r].at
        window == CurrentWindow(key, now)
        limited == window.count >= Budget(key)
        counted == IF limited THEN window ELSE [window EXCEPT !.count = @ + 1]
    IN  /\ calls[r].step = "count"
        /\ windows' = [k \in DOMAIN windows \union {key} |->
                           IF k = key THEN counted ELSE windows[k]]
        /\ calls' = [calls EXCEPT
               ![r].step = IF limited THEN "limited" ELSE "admitted",
               ![r].done = clock,
               ![r].retry = IF limited THEN RetryAfterSeconds(window, now) ELSE 0]
        /\ UNCHANGED <<clock, lastSweep>>

(* Time passes; no request is held longer than MaxHold between reading the clock
   and being counted: check never awaits, it only waits for two short locks. *)
Tick ==
    /\ clock < MaxClock
    /\ \A r \in Requests : Running(r) => clock < calls[r].at + MaxHold
    /\ clock' = clock + 1
    /\ UNCHANGED <<windows, lastSweep, calls>>

Next ==
    \/ Tick
    \/ \E r \in Requests : CheckIp(r) \/ CheckJkt(r) \/ ClaimSweep(r) \/ Retain(r) \/ Count(r)

Spec == Init /\ [][Next]_vars

-----------------------------------------------------------------------------
(* Properties *)

Admitted(key) == {r \in Requests : calls[r].step = "admitted" /\ calls[r].key = key}

(* However requests interleave with the sweep and with the rollover of a window, a
   key of an enabled dimension is admitted at most twice its budget (the end of one
   window and the start of the next) in any span of time that is a window long, less
   the time a request may be held, twice.  A full window is too long: a held request
   may begin the window after a sweep in the past, and another may be counted late,
   so a third window may reach into it. *)
BudgetPerKey ==
    \A key \in Keys : Budget(key) > 0 =>
        \A from \in 0 .. clock :
            Cardinality({r \in Admitted(key) :
                            calls[r].done \in from .. from + Window - 2 * MaxHold})
                <= 2 * Budget(key)

(* The requests of a caller that were admitted before one of its requests was judged,
   and less than a window before that one read the clock. *)
OwnBefore(r) ==
    {q \in Admitted(calls[r].key) :
        /\ calls[q].host = calls[r].host
        /\ calls[q].done <= calls[r].done
        /\ calls[r].at - calls[q].done < Window}

(* Without trusted forwarding headers a caller is refused only for what it sent
   itself: at least a full budget of its own requests was admitted less than a
   window before, whatever headers other callers invent. *)
RefusedForOwnRequests ==
    ~TrustForwardedHeaders =>
        \A r \in Requests : calls[r].step = "limited" =>
            Cardinality(OwnBefore(r)) >= Budget(calls[r].key)

(* Retry-After is what is left of the window that refused the request, to within a
   second: it truncates to whole seconds and is at least one, so a caller that waits
   exactly that long may be refused once more, but one second later it is not. *)
RetryAfterIsHonest ==
    [][\A r \in Requests :
          calls[r].step = "count" /\ calls'[r].step = "limited" =>
              LET window == windows'[calls[r].key]
                  left == Window - DurationSince(calls[r].at, window.startedAt)
                  told == calls'[r].retry * TicksPerSecond
              IN  told \in (left - TicksPerSecond + 1) .. (left + TicksPerSecond - 1)]_vars

(* The live map stays bounded by the keys of two windows: once no sweep is under
   way, nothing in it had run out when the last sweep was claimed. *)
SweepForgets ==
    (\A r \in Requests : calls[r].step # "retain") =>
        \A key \in DOMAIN windows : windows[key].startedAt + Window > lastSweep
=============================================================================
