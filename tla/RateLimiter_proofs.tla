------------------------- MODULE RateLimiter_proofs -------------------------
(***************************************************************************)
(* What the rate limiter guarantees for any number of requests, addresses  *)
(* and budgets: its map only holds live windows once a sweep is done, and  *)
(* the Retry-After it answers is what is left of the window, to within a   *)
(* second.                                                                 *)
(***************************************************************************)
EXTENDS RateLimiter, FiniteSetTheorems, TLAPS

(* No request is held past MaxHold, and nothing lies in the future. *)
Prompt ==
    /\ lastSweep <= clock
    /\ \A r \in Requests :
           /\ calls[r].at <= clock
           /\ Running(r) => /\ clock <= calls[r].at + MaxHold
                            /\ Budget(calls[r].key) > 0

(* Whoever claimed the last sweep is still to drop the windows, or all that
   are left were live when it was claimed. *)
SweepPending == \E r \in Requests : calls[r].step = "retain" /\ calls[r].at = lastSweep
SweptOrPending ==
    SweepPending \/ \A key \in DOMAIN windows : windows[key].startedAt + Window > lastSweep

IInv == TypeOK /\ Prompt /\ SweptOrPending

-----------------------------------------------------------------------------
(* Whole seconds of a span: the truncation loses less than one. *)
LEMMA WholeSeconds ==
    ASSUME NEW span \in Nat, NEW ticks \in Nat \ {0}
    PROVE  /\ span \div ticks \in Nat
           /\ (span \div ticks) * ticks <= span
           /\ span < (span \div ticks) * ticks + ticks
           /\ span \div ticks <= span
  OBVIOUS

(* The Retry-After of a window that has not run out. *)
LEMMA RetryAfterBound ==
    ASSUME NEW window, window.startedAt \in Nat, NEW now \in Nat,
           ~Expired(window, now)
    PROVE  LET left == Window - DurationSince(now, window.startedAt)
               told == RetryAfterSeconds(window, now)
           IN  /\ told \in 1 .. Window
               /\ told * TicksPerSecond
                    \in (left - TicksPerSecond + 1) .. (left + TicksPerSecond - 1)
<1> DEFINE elapsed == DurationSince(now, window.startedAt)
           left == Window - elapsed
           whole == left \div TicksPerSecond
<1>1. elapsed \in Nat /\ elapsed < Window /\ left \in Nat /\ left >= 1 /\ left <= Window
  BY RateLimiterAssumption DEF Expired, DurationSince
<1>2. /\ whole \in Nat
      /\ whole * TicksPerSecond <= left
      /\ left < whole * TicksPerSecond + TicksPerSecond
      /\ whole <= left
  BY <1>1, WholeSeconds, RateLimiterAssumption
<1>3. RetryAfterSeconds(window, now) = IF whole > 1 THEN whole ELSE 1
  BY <1>1 DEF RetryAfterSeconds
<1>4. CASE whole > 1
  BY <1>1, <1>2, <1>3, <1>4, RateLimiterAssumption
<1>5. CASE ~(whole > 1)
  <2>1. left < 2 * TicksPerSecond
    BY <1>1, <1>2, <1>5, RateLimiterAssumption
  <2> QED
    BY <1>1, <1>3, <1>5, <2>1, RateLimiterAssumption
<1> QED
  BY <1>4, <1>5

(* The window a request is counted in has not run out. *)
LEMMA CurrentWindowIsLive ==
    ASSUME TypeOK, NEW key, NEW now \in Nat
    PROVE  LET window == CurrentWindow(key, now)
           IN  /\ window.count \in Nat /\ window.startedAt \in Nat
               /\ ~Expired(window, now)
               /\ \/ window.count = 0 /\ window.startedAt = now
                  \/ key \in DOMAIN windows /\ window = windows[key]
  BY RateLimiterAssumption DEF TypeOK, CurrentWindow, Expired, DurationSince, Keys, Budget

-----------------------------------------------------------------------------
LEMMA InitHolds == Init => IInv
  BY RateLimiterAssumption DEF Init, IInv, TypeOK, Prompt, SweptOrPending, NoCall, Steps, Keys,
     Hosts, IpKey, Running

(* Reading the clock. *)
LEMMA CheckKeeps ==
    ASSUME IInv, NEW r \in Requests, NEW host \in Hosts, NEW key \in Keys, Check(r, host, key)
    PROVE  IInv'
<1>1. TypeOK'
  <2> DEFINE next == IF Budget(key) = 0 THEN "admitted" ELSE "claim"
             call == [NoCall EXCEPT !.step = next, !.host = host, !.key = key,
                                    !.at = clock, !.done = clock]
  <2>1. next \in Steps /\ clock \in 0 .. MaxClock /\ 0 \in 0 .. Window
    BY RateLimiterAssumption DEF IInv, TypeOK, Steps
  <2>2. calls' = [calls EXCEPT ![r] = call] /\ UNCHANGED <<clock, windows, lastSweep>>
    BY DEF Check
  <2> HIDE DEF next
  <2>3. call \in [step : Steps, host : Hosts, key : Keys, at : 0 .. MaxClock,
                  done : 0 .. MaxClock, retry : 0 .. Window]
    BY <2>1 DEF NoCall
  <2> HIDE DEF call
  <2> QED
    BY <2>2, <2>3 DEF IInv, TypeOK, Budget
<1>2. Prompt'
  BY RateLimiterAssumption DEF IInv, TypeOK, Check, NoCall, Prompt, Running, Budget
<1>3. SweptOrPending'
  BY DEF IInv, TypeOK, Check, NoCall, SweptOrPending, SweepPending
<1> QED
  BY <1>1, <1>2, <1>3 DEF IInv

(* Claiming the sweep, or not. *)
LEMMA ClaimKeeps ==
    ASSUME IInv, NEW r \in Requests, ClaimSweep(r)
    PROVE  IInv'
<1>1. TypeOK'
  BY DEF IInv, TypeOK, ClaimSweep, Steps
<1>2. Prompt'
  BY RateLimiterAssumption DEF IInv, TypeOK, ClaimSweep, Prompt, Running, Budget
<1>3. SweptOrPending'
  BY DEF IInv, TypeOK, ClaimSweep, SweptOrPending, SweepPending
<1> QED
  BY <1>1, <1>2, <1>3 DEF IInv

(* Dropping what has run out. *)
LEMMA RetainKeeps ==
    ASSUME IInv, NEW r \in Requests, Retain(r)
    PROVE  IInv'
<1> USE DEF Retain, RetainWith
<1>1. TypeOK'
  BY DEF IInv, TypeOK, Kept, Steps
<1>2. Prompt'
  BY RateLimiterAssumption DEF IInv, TypeOK, Prompt, Running, Budget
<1>3. SweptOrPending'
  <2>1. CASE calls[r].at = lastSweep
    BY <2>1, RateLimiterAssumption
       DEF IInv, TypeOK, Kept, Expired, DurationSince, SweptOrPending
  <2>2. CASE calls[r].at # lastSweep
    BY <2>2 DEF IInv, TypeOK, Kept, SweptOrPending, SweepPending
  <2> QED
    BY <2>1, <2>2
<1> QED
  BY <1>1, <1>2, <1>3 DEF IInv

(* Counting a request, or refusing it. *)
LEMMA CountKeeps ==
    ASSUME IInv, NEW r \in Requests, Count(r)
    PROVE  IInv'
<1> DEFINE key == calls[r].key
           now == calls[r].at
           window == CurrentWindow(key, now)
           limited == window.count >= Budget(key)
           counted == IF limited THEN window ELSE [window EXCEPT !.count = @ + 1]
<1>1. key \in Keys /\ now \in Nat /\ now <= clock /\ clock <= now + MaxHold
      /\ Budget(key) \in Nat /\ Budget(key) > 0
  BY RateLimiterAssumption DEF IInv, TypeOK, Prompt, Running, Count, Budget
<1>2. /\ window.count \in Nat /\ window.startedAt \in Nat
      /\ ~Expired(window, now)
      /\ \/ window.count = 0 /\ window.startedAt = now
         \/ key \in DOMAIN windows /\ window = windows[key]
  BY <1>1, CurrentWindowIsLive DEF IInv
<1>3. counted.count \in 1 .. Budget(key) /\ counted.startedAt = window.startedAt
  BY <1>1, <1>2 DEF IInv, TypeOK, CurrentWindow
<1>4. RetryAfterSeconds(window, now) \in 1 .. Window
  BY <1>1, <1>2, RetryAfterBound
<1>5. /\ windows' = [k \in DOMAIN windows \union {key} |-> IF k = key THEN counted ELSE windows[k]]
      /\ calls' = [calls EXCEPT
               ![r].step = IF limited THEN "limited" ELSE "admitted",
               ![r].done = clock,
               ![r].retry = IF limited THEN RetryAfterSeconds(window, now) ELSE 0]
      /\ UNCHANGED <<clock, lastSweep>>
      /\ calls[r].step = "count"
  BY DEF Count
<1> HIDE DEF counted, window, limited
<1>6. TypeOK'
  <2>1. window.startedAt \in 0 .. clock
    BY <1>1, <1>2 DEF IInv, TypeOK
  <2>2. DOMAIN windows' \subseteq Keys
    BY <1>1, <1>5 DEF IInv, TypeOK
  <2>3. \A k \in DOMAIN windows' :
            windows'[k].count \in 1 .. Budget(k) /\ windows'[k].startedAt \in 0 .. clock
    BY <1>3, <1>5, <2>1 DEF IInv, TypeOK
  <2>4. calls' \in [Requests -> [step : Steps, host : Hosts, key : Keys, at : 0 .. MaxClock,
                                 done : 0 .. MaxClock, retry : 0 .. Window]]
    <3> DEFINE answer == IF limited THEN "limited" ELSE "admitted"
               retry == IF limited THEN RetryAfterSeconds(window, now) ELSE 0
    <3>1. answer \in Steps /\ retry \in 0 .. Window /\ clock \in 0 .. MaxClock
      BY <1>4, RateLimiterAssumption DEF IInv, TypeOK, Steps
    <3>2. calls' = [calls EXCEPT ![r] =
                       [calls[r] EXCEPT !.step = answer, !.done = clock, !.retry = retry]]
      BY <1>5 DEF IInv, TypeOK
    <3> HIDE DEF answer, retry
    <3> QED
      BY <3>1, <3>2 DEF IInv, TypeOK
  <2> QED
    BY <1>5, <2>2, <2>3, <2>4 DEF IInv, TypeOK, Budget
<1>7. Prompt'
  BY <1>5 DEF IInv, TypeOK, Prompt, Running, Budget
<1>8. SweptOrPending'
  <2>1. CASE SweepPending
    BY <1>5, <2>1 DEF IInv, TypeOK, SweptOrPending, SweepPending
  <2>2. CASE ~SweepPending
    <3>1. window.startedAt + Window > lastSweep
      BY <1>1, <1>2, <2>2, RateLimiterAssumption, HoldAssumption
         DEF IInv, TypeOK, Prompt, SweptOrPending
    <3> QED
      BY <1>3, <1>5, <2>2, <3>1 DEF IInv, TypeOK, SweptOrPending
  <2> QED
    BY <2>1, <2>2
<1> QED
  BY <1>6, <1>7, <1>8 DEF IInv

(* Time passes. *)
LEMMA TickKeeps ==
    ASSUME IInv, Tick
    PROVE  IInv'
<1>1. TypeOK'
  BY RateLimiterAssumption DEF IInv, TypeOK, Tick
<1>2. Prompt'
  BY RateLimiterAssumption DEF IInv, TypeOK, Tick, Prompt, Running, Budget
<1>3. SweptOrPending'
  BY DEF IInv, Tick, SweptOrPending, SweepPending
<1> QED
  BY <1>1, <1>2, <1>3 DEF IInv

LEMMA NextKeeps == IInv /\ [Next]_vars => IInv'
<1> SUFFICES ASSUME IInv, [Next]_vars PROVE IInv'
  OBVIOUS
<1>1. CASE Tick
  BY <1>1, TickKeeps
<1>2. ASSUME NEW r \in Requests, CheckIp(r) PROVE IInv'
  <2>1. PICK host \in Hosts, forwarded \in Addresses \union {None} :
            Check(r, host, IpKey(ClientIp(host, forwarded)))
    BY <1>2 DEF CheckIp
  <2>2. IpKey(ClientIp(host, forwarded)) \in Keys
    BY DEF IpKey, ClientIp, Keys, Hosts
  <2> QED
    BY <2>1, <2>2, CheckKeeps
<1>3. ASSUME NEW r \in Requests, CheckJkt(r) PROVE IInv'
  <2>1. PICK jkt \in Addresses : Check(r, jkt, JktKey(jkt))
    BY <1>3 DEF CheckJkt
  <2>2. jkt \in Hosts /\ JktKey(jkt) \in Keys
    BY DEF JktKey, Keys, Hosts
  <2> QED
    BY <2>1, <2>2, CheckKeeps
<1>4. ASSUME NEW r \in Requests, ClaimSweep(r) \/ Retain(r) \/ Count(r) PROVE IInv'
  BY <1>4, ClaimKeeps, RetainKeeps, CountKeeps
<1>5. CASE UNCHANGED vars
  BY <1>5 DEF IInv, TypeOK, Prompt, Running, SweptOrPending, SweepPending, vars
<1> QED
  BY <1>1, <1>2, <1>3, <1>4, <1>5 DEF Next

THEOREM Invariant == Spec => []IInv
  BY InitHolds, NextKeeps, PTL DEF Spec

-----------------------------------------------------------------------------
(* RateLimiter keeps its types: no window counts past its budget, and none begins in
   the future. *)
THEOREM TypeCorrect == Spec => []TypeOK
<1>1. IInv => TypeOK
  BY DEF IInv
<1> QED
  BY <1>1, Invariant, PTL

(* sweep_if_due bounds the map: however requests interleave with the sweep, once it
   is done nothing is kept that had run out when it was claimed. *)
THEOREM SweepIsComplete == Spec => []SweepForgets
<1>1. IInv => SweepForgets
  BY DEF IInv, SweptOrPending, SweepPending, SweepForgets
<1> QED
  BY <1>1, Invariant, PTL

(* A refused request is told to come back when the window that refused it rolls
   over, to within a second, for every window length and clock resolution. *)
THEOREM RetryAfterIsTold == Spec => RetryAfterIsHonest
<1> DEFINE Told(r) ==
        LET window == windows'[calls[r].key]
            left == Window - DurationSince(calls[r].at, window.startedAt)
            told == calls'[r].retry * TicksPerSecond
        IN  told \in (left - TicksPerSecond + 1) .. (left + TicksPerSecond - 1)
<1>1. ASSUME IInv, NEW r \in Requests, calls[r].step = "count", calls'[r].step = "limited",
             NEW q \in Requests, Count(q)
      PROVE  Told(r)
  <2>1. q = r
    BY <1>1 DEF Count, IInv, TypeOK
  <2> DEFINE key == calls[r].key
             now == calls[r].at
             window == CurrentWindow(key, now)
  <2>2. now \in Nat /\ key \in Keys
    BY <1>1, RateLimiterAssumption DEF IInv, TypeOK
  <2>3. window.count \in Nat /\ window.startedAt \in Nat /\ ~Expired(window, now)
    BY <1>1, <2>2, CurrentWindowIsLive DEF IInv
  <2>4. window.count >= Budget(key)
    BY <1>1, <2>1 DEF Count, IInv, TypeOK
  <2>5. windows'[key] = window /\ calls'[r].retry = RetryAfterSeconds(window, now)
    BY <1>1, <2>1, <2>4 DEF Count, IInv, TypeOK
  <2> HIDE DEF window
  <2> QED
    BY <2>2, <2>3, <2>5, RetryAfterBound
<1>2. ASSUME IInv, [Next]_vars, NEW r \in Requests,
             calls[r].step = "count", calls'[r].step = "limited"
      PROVE  Told(r)
  <2>1. \E q \in Requests : Count(q)
    <3>1. ASSUME NEW q \in Requests, ClaimSweep(q) \/ Retain(q) PROVE FALSE
      BY <1>2, <3>1 DEF ClaimSweep, Retain, RetainWith, IInv, TypeOK
    <3>2. ASSUME NEW q \in Requests, NEW host, NEW key, Check(q, host, key) PROVE FALSE
      BY <1>2, <3>2 DEF Check, IInv, TypeOK, NoCall
    <3>3. ASSUME NEW q \in Requests, CheckIp(q) \/ CheckJkt(q) PROVE FALSE
      BY <3>2, <3>3 DEF CheckIp, CheckJkt
    <3>4. ~Tick /\ ~UNCHANGED vars
      BY <1>2 DEF Tick, vars
    <3> QED
      BY <1>2, <3>1, <3>3, <3>4 DEF Next
  <2> QED
    BY <1>1, <1>2, <2>1
<1>3. IInv /\ [Next]_vars =>
          [\A r \in Requests :
              calls[r].step = "count" /\ calls'[r].step = "limited" => Told(r)]_vars
  BY <1>2
<1> QED
  BY <1>3, Invariant, PTL DEF Spec, RetryAfterIsHonest

-----------------------------------------------------------------------------
(* Budgets.  A ghost assigns every admitted request the start of the window it
   was counted in; the model does not keep it, so the invariant says that there
   is such an assignment. *)

Class(key, g, start) == {q \in Admitted(key) : g[q] = start}

(* A request was admitted while its window ran, give or take a hold. *)
InItsWindow(key, g) ==
    \A q \in Admitted(key) :
        /\ g[q] <= calls[q].done /\ calls[q].done <= clock
        /\ calls[q].done < g[q] + Window + MaxHold

(* A later window begins a window later, give or take a hold, and nothing is
   admitted into it before the earlier one has run out. *)
WindowsFollow(key, g) ==
    \A p, q \in Admitted(key) : g[p] < g[q] =>
        g[p] + Window <= g[q] + MaxHold /\ g[p] + Window <= calls[q].done

ClassesInBudget(key, g) ==
    /\ IsFiniteSet(Admitted(key))
    /\ \A start \in Nat : Cardinality(Class(key, g, start)) <= Budget(key)

(* The entry of the map counts the last class; every other one has run out. *)
LastClass(key, g) ==
    IF key \in DOMAIN windows
    THEN /\ Cardinality(Class(key, g, windows[key].startedAt)) = windows[key].count
         /\ \A q \in Admitted(key) : g[q] # windows[key].startedAt =>
                /\ g[q] + Window <= windows[key].startedAt + MaxHold
                /\ g[q] + Window <= clock
    ELSE \A q \in Admitted(key) : g[q] + Window <= clock

History(key, g) ==
    InItsWindow(key, g) /\ WindowsFollow(key, g) /\ ClassesInBudget(key, g) /\ LastClass(key, g)

Histories == \A key \in Keys : Budget(key) > 0 => \E g \in [Requests -> Nat] : History(key, g)

(* Nobody is counted, or refused, under the key of somebody else. *)
OwnKeys == ~TrustForwardedHeaders => \A r \in Requests : calls[r].host = calls[r].key[2]
LimitedIsEnabled == \A r \in Requests : calls[r].step = "limited" => Budget(calls[r].key) > 0

CountInv == Histories /\ OwnKeys /\ LimitedIsEnabled /\ RefusedForOwnRequests

LEMMA ClassIsFinite ==
    ASSUME NEW key, NEW g, IsFiniteSet(Admitted(key)), NEW start
    PROVE  IsFiniteSet(Class(key, g, start)) /\ Cardinality(Class(key, g, start)) \in Nat
<1>1. Class(key, g, start) \subseteq Admitted(key)
  BY DEF Class
<1> QED
  BY <1>1, FS_Subset, FS_CardinalityType

(* A step that neither admits under a key nor touches its entry. *)
LEMMA HistoryStays ==
    ASSUME TypeOK, NEW key, NEW g \in [Requests -> Nat], History(key, g),
           Admitted(key)' = Admitted(key), \A q \in Admitted(key) : calls'[q].done = calls[q].done,
           key \in DOMAIN windows' <=> key \in DOMAIN windows,
           key \in DOMAIN windows => windows'[key] = windows[key],
           clock' \in Nat, clock <= clock'
    PROVE  History(key, g)'
<1>1. \A q \in Admitted(key) : q \in Requests /\ calls[q].done \in Nat /\ g[q] \in Nat
  BY RateLimiterAssumption DEF TypeOK, Admitted
<1>2. InItsWindow(key, g)'
  BY <1>1 DEF History, InItsWindow, TypeOK
<1>3. WindowsFollow(key, g)'
  BY <1>1 DEF History, WindowsFollow
<1>4. \A start : Class(key, g, start)' = Class(key, g, start)
  BY DEF Class
<1>5. ClassesInBudget(key, g)'
  BY <1>4 DEF History, ClassesInBudget, Budget
<1>6. LastClass(key, g)'
  <2>1. CASE key \in DOMAIN windows
    <3>1. Class(key, g, windows[key].startedAt)' = Class(key, g, windows[key].startedAt)
      BY <2>1 DEF Class
    <3> QED
      BY <1>1, <2>1, <3>1, RateLimiterAssumption DEF History, LastClass, TypeOK
  <2>2. CASE key \notin DOMAIN windows
    BY <1>1, <2>2, RateLimiterAssumption DEF History, LastClass, TypeOK
  <2> QED
    BY <2>1, <2>2
<1> QED
  BY <1>2, <1>3, <1>5, <1>6 DEF History

(* An entry that has run out is dropped. *)
LEMMA HistoryAfterDrop ==
    ASSUME TypeOK, NEW key, NEW g \in [Requests -> Nat], History(key, g),
           Admitted(key)' = Admitted(key), \A q \in Admitted(key) : calls'[q].done = calls[q].done,
           key \in DOMAIN windows, windows[key].startedAt + Window <= clock,
           key \notin DOMAIN windows', clock' = clock
    PROVE  History(key, g)'
<1>1. \A q \in Admitted(key) : q \in Requests /\ calls[q].done \in Nat /\ g[q] \in Nat
  BY RateLimiterAssumption DEF TypeOK, Admitted
<1>2. InItsWindow(key, g)'
  BY <1>1 DEF History, InItsWindow, TypeOK
<1>3. WindowsFollow(key, g)'
  BY <1>1 DEF History, WindowsFollow
<1>4. \A start : Class(key, g, start)' = Class(key, g, start)
  BY DEF Class
<1>5. ClassesInBudget(key, g)'
  BY <1>4 DEF History, ClassesInBudget, Budget
<1>6. LastClass(key, g)'
  BY <1>1, RateLimiterAssumption DEF History, LastClass, TypeOK
<1> QED
  BY <1>2, <1>3, <1>5, <1>6 DEF History

(* A history bounds what is admitted in a span. *)
LEMMA HistoryBounds ==
    ASSUME TypeOK, NEW key \in Keys, NEW g \in [Requests -> Nat], History(key, g), NEW from \in Nat,
           Budget(key) \in Nat
    PROVE  Cardinality({r \in Admitted(key) :
                           calls[r].done \in from .. from + Window - 2 * MaxHold})
               <= 2 * Budget(key)
<1> DEFINE span == {r \in Admitted(key) : calls[r].done \in from .. from + Window - 2 * MaxHold}
<1>1. \A q \in Admitted(key) : q \in Requests /\ calls[q].done \in Nat /\ g[q] \in Nat
  BY RateLimiterAssumption DEF TypeOK, Admitted
<1>2. IsFiniteSet(Admitted(key))
  BY DEF History, ClassesInBudget
<1>3. \A p, q, r \in span : ~(g[p] < g[q] /\ g[q] < g[r])
  <2> SUFFICES ASSUME NEW p \in span, NEW q \in span, NEW r \in span, g[p] < g[q], g[q] < g[r]
               PROVE  FALSE
    OBVIOUS
  <2>1. p \in Admitted(key) /\ q \in Admitted(key) /\ r \in Admitted(key)
    OBVIOUS
  <2>2. /\ g[p] + Window <= g[q] + MaxHold /\ g[q] + Window <= calls[r].done
        /\ calls[p].done < g[p] + Window + MaxHold
    BY <2>1 DEF History, WindowsFollow, InItsWindow
  <2>3. from <= calls[p].done /\ calls[r].done <= from + Window - 2 * MaxHold
    OBVIOUS
  <2> QED
    BY <1>1, <2>1, <2>2, <2>3, RateLimiterAssumption
<1>4. \A a, b : /\ IsFiniteSet(Class(key, g, a) \cup Class(key, g, b))
                /\ (a \in Nat /\ b \in Nat) =>
                      Cardinality(Class(key, g, a) \cup Class(key, g, b)) <= 2 * Budget(key)
  <2> TAKE a, b
  <2>1. /\ IsFiniteSet(Class(key, g, a)) /\ Cardinality(Class(key, g, a)) \in Nat
        /\ IsFiniteSet(Class(key, g, b)) /\ Cardinality(Class(key, g, b)) \in Nat
    BY <1>2, ClassIsFinite
  <2>2. IsFiniteSet(Class(key, g, a) \cup Class(key, g, b))
    BY <2>1, FS_Union
  <2>3. Cardinality(Class(key, g, a) \cup Class(key, g, b))
          = Cardinality(Class(key, g, a)) + Cardinality(Class(key, g, b))
            - Cardinality(Class(key, g, a) \cap Class(key, g, b))
    BY <2>1, FS_Union
  <2>4. Cardinality(Class(key, g, a) \cap Class(key, g, b)) \in Nat
    BY <2>1, FS_Intersection, FS_CardinalityType
  <2>5. a \in Nat /\ b \in Nat =>
            Cardinality(Class(key, g, a)) <= Budget(key) /\ Cardinality(Class(key, g, b)) <= Budget(key)
    BY DEF History, ClassesInBudget
  <2> QED
    BY <2>1, <2>2, <2>3, <2>4, <2>5
<1>5. \E a, b \in Nat : span \subseteq Class(key, g, a) \cup Class(key, g, b)
  <2>1. CASE span = {}
    BY <2>1
  <2>2. ASSUME NEW p \in span PROVE \E a, b \in Nat : span \subseteq Class(key, g, a) \cup Class(key, g, b)
    <3>1. CASE \A q \in span : g[q] = g[p]
      BY <1>1, <2>2, <3>1 DEF Class
    <3>2. CASE \E q \in span : g[q] # g[p]
      <4>1. PICK q \in span : g[q] # g[p]
        BY <3>2
      <4>2. \A r \in span : g[r] = g[p] \/ g[r] = g[q]
        <5> TAKE r \in span
        <5>1. g[p] \in Nat /\ g[q] \in Nat /\ g[r] \in Nat
          BY <1>1
        <5> QED
          BY <1>3, <4>1, <5>1
      <4>3. span \subseteq Class(key, g, g[p]) \cup Class(key, g, g[q])
        BY <4>2 DEF Class
      <4> QED
        BY <1>1, <4>3
    <3> QED
      BY <3>1, <3>2
  <2> QED
    BY <2>1, <2>2
<1>6. PICK a \in Nat, b \in Nat : span \subseteq Class(key, g, a) \cup Class(key, g, b)
  BY <1>5
<1> HIDE DEF span
<1>7. /\ Cardinality(span) <= Cardinality(Class(key, g, a) \cup Class(key, g, b))
      /\ Cardinality(span) \in Nat /\ Cardinality(Class(key, g, a) \cup Class(key, g, b)) \in Nat
  BY <1>4, <1>6, FS_Subset, FS_CardinalityType
<1>8. Cardinality(span) <= 2 * Budget(key)
  <2>1. Cardinality(Class(key, g, a) \cup Class(key, g, b)) <= 2 * Budget(key)
    BY <1>4, <1>6
  <2>2. 2 * Budget(key) \in Nat
    OBVIOUS
  <2>3. \A x, y, z \in Nat : x <= y /\ y <= z => x <= z
    OBVIOUS
  <2> QED
    BY <1>7, <2>1, <2>2, <2>3, Zenon
<1> QED
  BY <1>8 DEF span

(* A request is admitted into the entry of its key. *)
LEMMA HistoryAfterJoining ==
    ASSUME TypeOK, NEW key \in Keys, NEW g \in [Requests -> Nat], History(key, g), NEW r \in Requests,
           r \notin Admitted(key), Admitted(key)' = Admitted(key) \cup {r},
           \A q \in Admitted(key) : calls'[q].done = calls[q].done,
           key \in DOMAIN windows, key \in DOMAIN windows',
           NEW start \in Nat, start = windows[key].startedAt, windows'[key].startedAt = start,
           windows'[key].count = windows[key].count + 1, windows'[key].count <= Budget(key),
           start <= clock, clock < start + Window + MaxHold,
           calls'[r].done = clock, clock' = clock
    PROVE  History(key, [g EXCEPT ![r] = start])'
<1> DEFINE h == [g EXCEPT ![r] = start]
<1>1. \A q \in Admitted(key) : /\ q \in Requests /\ calls[q].done \in Nat /\ g[q] \in Nat
                               /\ q # r /\ h[q] = g[q]
  BY RateLimiterAssumption DEF TypeOK, Admitted
<1>2. h[r] = start /\ clock \in Nat /\ h \in [Requests -> Nat]
  BY RateLimiterAssumption DEF TypeOK
<1> HIDE DEF h
<1>3. \A q \in Admitted(key) : g[q] # start => g[q] + Window <= start + MaxHold /\ g[q] + Window <= clock
  BY DEF History, LastClass
<1>4. InItsWindow(key, h)'
  BY <1>1, <1>2 DEF History, InItsWindow
<1>5. WindowsFollow(key, h)'
  BY <1>1, <1>2, <1>3, RateLimiterAssumption, HoldAssumption DEF History, WindowsFollow
<1>6. IsFiniteSet(Admitted(key)) /\ IsFiniteSet(Admitted(key)')
  BY FS_AddElement DEF History, ClassesInBudget
<1>7. \A s : s # start => Class(key, h, s)' = Class(key, g, s)
  BY <1>1, <1>2 DEF Class
<1>8. Class(key, h, start)' = Class(key, g, start) \cup {r} /\ r \notin Class(key, g, start)
  BY <1>1, <1>2 DEF Class
<1>9. Cardinality(Class(key, h, start)') = windows[key].count + 1
  <2>1. IsFiniteSet(Class(key, g, start)) /\ Cardinality(Class(key, g, start)) = windows[key].count
    BY <1>6, ClassIsFinite DEF History, LastClass
  <2> QED
    BY <1>8, <2>1, FS_AddElement
<1>10. ClassesInBudget(key, h)'
  <2> SUFFICES ASSUME NEW s \in Nat
               PROVE  Cardinality(Class(key, h, s)') <= Budget(key)
    BY <1>6 DEF ClassesInBudget, Budget
  <2>1. CASE s = start
    BY <1>9, <2>1
  <2>2. CASE s # start
    BY <1>7, <2>2 DEF History, ClassesInBudget
  <2> QED
    BY <2>1, <2>2
<1>11. LastClass(key, h)'
  <2>1. Class(key, h, windows[key].startedAt)' = Class(key, h, start)'
    BY DEF Class
  <2>2. \A q \in Admitted(key)' : h[q] # start => h[q] + Window <= start + MaxHold /\ h[q] + Window <= clock
    BY <1>1, <1>2, <1>3
  <2> QED
    BY <1>9, <2>1, <2>2 DEF LastClass
<1> QED
  BY <1>4, <1>5, <1>10, <1>11 DEF History, h

(* A request is admitted into a window it begins. *)
LEMMA HistoryAfterBeginning ==
    ASSUME TypeOK, NEW key \in Keys, NEW g \in [Requests -> Nat], History(key, g), NEW r \in Requests,
           r \notin Admitted(key), Admitted(key)' = Admitted(key) \cup {r},
           \A q \in Admitted(key) : calls'[q].done = calls[q].done,
           NEW start \in Nat, key \in DOMAIN windows', windows'[key].startedAt = start,
           windows'[key].count = 1, 1 <= Budget(key), Budget(key) \in Nat,
           key \in DOMAIN windows => windows[key].startedAt + Window <= clock,
           start <= clock, clock <= start + MaxHold,
           calls'[r].done = clock, clock' = clock
    PROVE  History(key, [g EXCEPT ![r] = start])'
<1> DEFINE h == [g EXCEPT ![r] = start]
<1>1. \A q \in Admitted(key) : /\ q \in Requests /\ calls[q].done \in Nat /\ g[q] \in Nat
                               /\ q # r /\ h[q] = g[q]
  BY RateLimiterAssumption DEF TypeOK, Admitted
<1>2. h[r] = start /\ clock \in Nat /\ h \in [Requests -> Nat]
  BY RateLimiterAssumption DEF TypeOK
<1> HIDE DEF h
<1>3. \A q \in Admitted(key) : g[q] + Window <= clock
  BY <1>1 DEF History, LastClass
<1>4. \A q \in Admitted(key) : g[q] + Window <= start + MaxHold /\ g[q] < start
  BY <1>1, <1>2, <1>3, RateLimiterAssumption, HoldAssumption
<1>5. InItsWindow(key, h)'
  BY <1>1, <1>2, RateLimiterAssumption DEF History, InItsWindow
<1>6. WindowsFollow(key, h)'
  BY <1>1, <1>2, <1>3, <1>4 DEF History, WindowsFollow
<1>7. IsFiniteSet(Admitted(key)')
  BY FS_AddElement DEF History, ClassesInBudget
<1>8. \A s : s # start => Class(key, h, s)' = Class(key, g, s)
  BY <1>1, <1>2 DEF Class
<1>9. Class(key, h, start)' = {r}
  BY <1>1, <1>2, <1>4 DEF Class
<1>10. Cardinality(Class(key, h, start)') = 1
  BY <1>9, FS_Singleton
<1>11. ClassesInBudget(key, h)'
  <2> SUFFICES ASSUME NEW s \in Nat
               PROVE  Cardinality(Class(key, h, s)') <= Budget(key)
    BY <1>7 DEF ClassesInBudget, Budget
  <2>1. CASE s = start
    BY <1>10, <2>1
  <2>2. CASE s # start
    BY <1>8, <2>2 DEF History, ClassesInBudget
  <2> QED
    BY <2>1, <2>2
<1>12. LastClass(key, h)'
  <2>1. Class(key, h, windows[key].startedAt)' = Class(key, h, start)'
    BY DEF Class
  <2>2. \A q \in Admitted(key)' : h[q] # start => h[q] + Window <= start + MaxHold /\ h[q] + Window <= clock
    BY <1>1, <1>2, <1>3, <1>4
  <2> QED
    BY <1>10, <2>1, <2>2 DEF LastClass
<1> QED
  BY <1>5, <1>6, <1>11, <1>12 DEF History, h

(* What an answered call says never changes. *)
Settled(r) == calls[r].step \in {"admitted", "limited"}

(* More of a caller's own requests may be admitted after a refusal; the ones
   before it stay. *)
LEMMA RefusalsStay ==
    ASSUME TypeOK, CountInv, Histories', NEW r \in Requests, calls[r].step = "limited",
           ~TrustForwardedHeaders, \A q \in Requests : Settled(q) => calls'[q] = calls[q]
    PROVE  Cardinality(OwnBefore(r)') >= Budget(calls[r].key)
<1>1. calls'[r] = calls[r] /\ calls[r].key \in Keys /\ Budget(calls[r].key) > 0
  BY DEF Settled, TypeOK, CountInv, LimitedIsEnabled
<1>2. PICK key \in Keys : key = calls[r].key
  BY <1>1
<1>3. IsFiniteSet(Admitted(key)')
  <2>1. Budget(key)' > 0
    BY <1>1, <1>2 DEF Budget
  <2> QED
    BY <2>1 DEF Histories, History, ClassesInBudget
<1>4. OwnBefore(r)' \subseteq Admitted(key)'
  BY <1>1, <1>2 DEF OwnBefore, Admitted
<1>5. OwnBefore(r) \subseteq OwnBefore(r)'
  <2>1. \A q \in Admitted(key) : q \in Requests /\ Settled(q) /\ calls'[q] = calls[q]
    BY DEF Admitted, Settled
  <2> QED
    BY <1>1, <1>2, <2>1 DEF OwnBefore, Admitted
<1>6. IsFiniteSet(OwnBefore(r)')
  BY <1>3, <1>4, FS_Subset
<1>7. /\ Cardinality(OwnBefore(r)) <= Cardinality(OwnBefore(r)')
      /\ Cardinality(OwnBefore(r)) \in Nat /\ Cardinality(OwnBefore(r)') \in Nat
  BY <1>5, <1>6, FS_Subset, FS_CardinalityType
<1>8. Cardinality(OwnBefore(r)) >= Budget(calls[r].key)
  BY DEF CountInv, RefusedForOwnRequests
<1>9. Budget(calls[r].key) \in Nat
  BY RateLimiterAssumption DEF Budget
<1> QED
  BY <1>7, <1>8, <1>9

(* A step that admits and refuses nobody and touches no entry. *)
LEMMA CountsStay ==
    ASSUME TypeOK, CountInv, windows' = windows, clock' \in Nat, clock <= clock',
           \A q \in Requests : Settled(q) => calls'[q] = calls[q],
           \A q \in Requests : Settled(q)' /\ Budget(calls'[q].key) > 0 => Settled(q),
           \A q \in Requests : calls'[q].step = "limited" => Settled(q),
           OwnKeys'
    PROVE  CountInv'
<1>1. Histories'
  <2> SUFFICES ASSUME NEW key \in Keys, Budget(key) > 0
               PROVE  \E g \in [Requests -> Nat] : History(key, g)'
    BY DEF Histories, Budget
  <2>1. PICK g \in [Requests -> Nat] : History(key, g)
    BY DEF CountInv, Histories
  <2>2. Admitted(key)' = Admitted(key)
    BY DEF Admitted, Settled
  <2>3. \A q \in Admitted(key) : calls'[q].done = calls[q].done
    BY DEF Admitted, Settled
  <2>4. History(key, g)'
    BY <2>1, <2>2, <2>3, HistoryStays
  <2> QED
    BY <2>4
<1>2. \A q \in Requests : calls'[q].step = "limited" => calls'[q] = calls[q]
  BY DEF Settled
<1>3. LimitedIsEnabled'
  BY <1>2 DEF CountInv, LimitedIsEnabled, Budget
<1>4. RefusedForOwnRequests'
  <2> SUFFICES ASSUME ~TrustForwardedHeaders, NEW r \in Requests, calls'[r].step = "limited"
               PROVE  Cardinality(OwnBefore(r)') >= Budget(calls'[r].key)
    BY DEF RefusedForOwnRequests, Budget
  <2> QED
    BY <1>1, <1>2, RefusalsStay
<1> QED
  BY <1>1, <1>3, <1>4 DEF CountInv

LEMMA CheckCounts ==
    ASSUME IInv, CountInv, NEW r \in Requests, NEW host \in Hosts, NEW key \in Keys,
           Check(r, host, key), ~TrustForwardedHeaders => host = key[2]
    PROVE  CountInv'
<1> DEFINE call == [NoCall EXCEPT !.step = IF Budget(key) = 0 THEN "admitted" ELSE "claim",
                                  !.host = host, !.key = key, !.at = clock, !.done = clock]
<1>1. /\ calls[r].step = "new" /\ calls' = [calls EXCEPT ![r] = call]
      /\ UNCHANGED <<clock, windows, lastSweep>>
  BY DEF Check
<1>2. /\ call.host = host /\ call.key = key
      /\ call.step = IF Budget(key) = 0 THEN "admitted" ELSE "claim"
  BY DEF NoCall
<1> HIDE DEF call
<1>3. calls'[r] = call /\ \A q \in Requests : q # r => calls'[q] = calls[q]
  BY <1>1 DEF IInv, TypeOK
<1>4. clock \in Nat
  BY DEF IInv, TypeOK
<1>5. \A q \in Requests : Settled(q) => calls'[q] = calls[q]
  BY <1>1, <1>3 DEF Settled
<1>6. \A q \in Requests : Settled(q)' /\ Budget(calls'[q].key) > 0 => Settled(q)
  BY <1>2, <1>3 DEF Settled
<1>7. \A q \in Requests : calls'[q].step = "limited" => Settled(q)
  BY <1>2, <1>3 DEF Settled
<1>8. OwnKeys'
  BY <1>2, <1>3 DEF CountInv, OwnKeys
<1> QED
  BY <1>1, <1>4, <1>5, <1>6, <1>7, <1>8, CountsStay DEF IInv

LEMMA ClaimCounts ==
    ASSUME IInv, CountInv, NEW r \in Requests, ClaimSweep(r)
    PROVE  CountInv'
<1>1. PICK next \in {"retain", "count"} : calls' = [calls EXCEPT ![r].step = next]
  BY DEF ClaimSweep
<1>2. calls[r].step = "claim" /\ windows' = windows /\ clock' = clock /\ clock \in Nat
  BY DEF ClaimSweep, IInv, TypeOK
<1>3. /\ calls'[r].step = next /\ calls'[r].key = calls[r].key /\ calls'[r].host = calls[r].host
      /\ \A q \in Requests : q # r => calls'[q] = calls[q]
  BY <1>1 DEF IInv, TypeOK
<1>4. \A q \in Requests : Settled(q) => calls'[q] = calls[q]
  BY <1>2, <1>3 DEF Settled
<1>5. \A q \in Requests : Settled(q)' => Settled(q)
  BY <1>3 DEF Settled
<1>6. \A q \in Requests : calls'[q].step = "limited" => Settled(q)
  BY <1>3 DEF Settled
<1>7. OwnKeys'
  BY <1>3 DEF CountInv, OwnKeys
<1> QED
  BY <1>2, <1>4, <1>5, <1>6, <1>7, CountsStay DEF IInv

LEMMA TickCounts ==
    ASSUME IInv, CountInv, Tick
    PROVE  CountInv'
<1>1. calls' = calls /\ windows' = windows /\ clock' \in Nat /\ clock <= clock'
  BY DEF Tick, IInv, TypeOK
<1> QED
  BY <1>1, CountsStay DEF IInv, Settled, CountInv, OwnKeys

LEMMA RetainCounts ==
    ASSUME IInv, CountInv, NEW r \in Requests, Retain(r)
    PROVE  CountInv'
<1>1. /\ calls[r].step = "retain" /\ calls' = [calls EXCEPT ![r].step = "count"] /\ clock' = clock
      /\ windows' = [key \in Kept(calls[r].at) |-> windows[key]]
  BY DEF Retain, RetainWith
<1>2. /\ calls'[r].step = "count" /\ calls'[r].key = calls[r].key /\ calls'[r].host = calls[r].host
      /\ \A q \in Requests : q # r => calls'[q] = calls[q]
  BY <1>1 DEF IInv, TypeOK
<1>3. \A q \in Requests : Settled(q) => calls'[q] = calls[q]
  BY <1>1, <1>2 DEF Settled
<1>4. clock \in Nat /\ calls[r].at \in Nat /\ calls[r].at <= clock
  BY DEF IInv, TypeOK, Prompt
<1>5. Histories'
  <2> SUFFICES ASSUME NEW key \in Keys, Budget(key) > 0
               PROVE  \E g \in [Requests -> Nat] : History(key, g)'
    BY DEF Histories, Budget
  <2>1. PICK g \in [Requests -> Nat] : History(key, g)
    BY DEF CountInv, Histories
  <2>2. Admitted(key)' = Admitted(key)
    BY <1>1, <1>2 DEF Admitted
  <2>3. \A q \in Admitted(key) : calls'[q].done = calls[q].done
    BY <1>3 DEF Admitted, Settled
  <2>4. CASE key \in DOMAIN windows /\ key \notin Kept(calls[r].at)
    <3>1. windows[key].startedAt \in Nat /\ Expired(windows[key], calls[r].at)
      BY <2>4 DEF Kept, IInv, TypeOK
    <3>2. windows[key].startedAt + Window <= clock
      BY <1>4, <3>1, RateLimiterAssumption DEF Expired, DurationSince
    <3>3. key \notin DOMAIN windows'
      BY <1>1, <2>4
    <3> QED
      BY <1>1, <2>1, <2>2, <2>3, <2>4, <3>2, <3>3, HistoryAfterDrop DEF IInv
  <2>5. CASE ~(key \in DOMAIN windows /\ key \notin Kept(calls[r].at))
    <3>1. /\ key \in DOMAIN windows' <=> key \in DOMAIN windows
          /\ key \in DOMAIN windows => windows'[key] = windows[key]
      BY <1>1, <2>5 DEF Kept
    <3>2. TypeOK /\ clock' \in Nat /\ clock <= clock'
      BY <1>1, <1>4 DEF IInv
    <3>3. History(key, g)'
      BY <2>1, <2>2, <2>3, <3>1, <3>2, HistoryStays
    <3> QED
      BY <3>3
  <2> QED
    BY <2>4, <2>5
<1>6. \A q \in Requests : calls'[q].step = "limited" => calls[q].step = "limited" /\ calls'[q] = calls[q]
  BY <1>2
<1>7. OwnKeys'
  BY <1>2 DEF CountInv, OwnKeys
<1>8. LimitedIsEnabled'
  BY <1>6 DEF CountInv, LimitedIsEnabled, Budget
<1>9. RefusedForOwnRequests'
  <2> SUFFICES ASSUME ~TrustForwardedHeaders, NEW q \in Requests, calls'[q].step = "limited"
               PROVE  Cardinality(OwnBefore(q)') >= Budget(calls'[q].key)
    BY DEF RefusedForOwnRequests, Budget
  <2> QED
    BY <1>3, <1>5, <1>6, RefusalsStay DEF IInv
<1> QED
  BY <1>5, <1>7, <1>8, <1>9 DEF CountInv

(* A request is counted: it joins the entry of its key, begins a new one, or is
   refused by a full one. *)
LEMMA CountCounts ==
    ASSUME IInv, CountInv, NEW r \in Requests, Count(r)
    PROVE  CountInv'
<1>1. PICK key \in Keys, now \in Nat : key = calls[r].key /\ now = calls[r].at
  BY DEF IInv, TypeOK
<1>2. PICK window : window = CurrentWindow(key, now)
  OBVIOUS
<1>3. /\ now <= clock /\ clock <= now + MaxHold /\ clock \in Nat
      /\ Budget(key) \in Nat /\ Budget(key) > 0
  BY <1>1, RateLimiterAssumption DEF IInv, TypeOK, Prompt, Running, Count, Budget
<1>4. /\ window.count \in Nat /\ window.startedAt \in Nat
      /\ ~Expired(window, now)
      /\ \/ /\ window = [count |-> 0, startedAt |-> now]
            /\ key \in DOMAIN windows => Expired(windows[key], now)
         \/ key \in DOMAIN windows /\ window = windows[key]
  BY <1>1, <1>2, CurrentWindowIsLive DEF IInv, CurrentWindow
<1>5. PICK limited \in BOOLEAN : limited <=> window.count >= Budget(key)
  OBVIOUS
<1>6. PICK counted : counted = IF limited THEN window ELSE [window EXCEPT !.count = @ + 1]
  OBVIOUS
<1>7. /\ windows' = [k \in DOMAIN windows \union {key} |-> IF k = key THEN counted ELSE windows[k]]
      /\ calls[r].step = "count" /\ clock' = clock
  BY <1>1, <1>2, <1>5, <1>6 DEF Count
<1>8. /\ calls'[r].step = (IF limited THEN "limited" ELSE "admitted") /\ calls'[r].done = clock
      /\ calls'[r].key = key /\ calls'[r].host = calls[r].host /\ calls'[r].at = now
      /\ \A q \in Requests : q # r => calls'[q] = calls[q]
  BY <1>1, <1>2, <1>5 DEF Count, IInv, TypeOK
<1>9. \A q \in Requests : Settled(q) => calls'[q] = calls[q]
  BY <1>7, <1>8 DEF Settled
<1>10. OwnKeys'
  BY <1>1, <1>8 DEF CountInv, OwnKeys
<1>11. LimitedIsEnabled'
  BY <1>3, <1>8 DEF CountInv, LimitedIsEnabled, Budget
<1>12. ~limited => counted.count = window.count + 1 /\ counted.startedAt = window.startedAt
  BY <1>4, <1>6 DEF IInv, TypeOK
<1>13. Histories'
  <2> SUFFICES ASSUME NEW k \in Keys, Budget(k) > 0
               PROVE  \E g \in [Requests -> Nat] : History(k, g)'
    BY DEF Histories, Budget
  <2>1. PICK g \in [Requests -> Nat] : History(k, g)
    BY DEF CountInv, Histories
  <2>2. \A q \in Admitted(k) : calls'[q].done = calls[q].done
    BY <1>9 DEF Admitted, Settled
  <2>3. CASE k # key
    <3>1. Admitted(k)' = Admitted(k)
      BY <1>1, <1>7, <1>8, <2>3 DEF Admitted
    <3>2. /\ k \in DOMAIN windows' <=> k \in DOMAIN windows
          /\ k \in DOMAIN windows => windows'[k] = windows[k]
      BY <1>7, <2>3
    <3>3. TypeOK /\ clock' \in Nat /\ clock <= clock'
      BY <1>3, <1>7 DEF IInv
    <3>4. History(k, g)'
      BY <2>1, <2>2, <3>1, <3>2, <3>3, HistoryStays
    <3> QED
      BY <3>4
  <2>4. CASE k = key /\ limited
    <3>1. Admitted(k)' = Admitted(k)
      BY <1>1, <1>7, <1>8, <2>4 DEF Admitted
    <3>2. key \in DOMAIN windows /\ window = windows[key]
      BY <1>3, <1>4, <1>5, <2>4
    <3>3. /\ k \in DOMAIN windows' <=> k \in DOMAIN windows
          /\ k \in DOMAIN windows => windows'[k] = windows[k]
      BY <1>6, <1>7, <2>4, <3>2
    <3>4. TypeOK /\ clock' \in Nat /\ clock <= clock'
      BY <1>3, <1>7 DEF IInv
    <3>5. History(k, g)'
      BY <2>1, <2>2, <3>1, <3>3, <3>4, HistoryStays
    <3> QED
      BY <3>5
  <2>5. CASE k = key /\ ~limited
    <3>1. r \notin Admitted(k) /\ Admitted(k)' = Admitted(k) \cup {r}
      BY <1>1, <1>7, <1>8, <2>5 DEF Admitted
    <3>2. /\ k \in DOMAIN windows' /\ windows'[k].count = window.count + 1
          /\ windows'[k].startedAt = window.startedAt
      BY <1>7, <1>12, <2>5
    <3>3. window.count + 1 <= Budget(k)
      BY <1>3, <1>4, <1>5, <2>5
    <3>4. CASE k \in DOMAIN windows /\ window = windows[k]
      <4>1. window.startedAt <= clock /\ clock < window.startedAt + Window + MaxHold
        BY <1>3, <1>4, <3>4, RateLimiterAssumption DEF IInv, TypeOK, Expired, DurationSince
      <4>2. History(k, [g EXCEPT ![r] = window.startedAt])'
        BY <1>4, <1>7, <1>8, <2>1, <2>2, <3>1, <3>2, <3>3, <3>4, <4>1, HistoryAfterJoining DEF IInv
      <4>3. [g EXCEPT ![r] = window.startedAt] \in [Requests -> Nat]
        BY <1>4
      <4> QED
        BY <4>2, <4>3
    <3>5. CASE /\ window = [count |-> 0, startedAt |-> now]
               /\ k \in DOMAIN windows => Expired(windows[k], now)
      <4>1. k \in DOMAIN windows => windows[k].startedAt + Window <= clock
        BY <1>3, <3>5, RateLimiterAssumption DEF IInv, TypeOK, Expired, DurationSince
      <4>2. windows'[k].count = 1 /\ windows'[k].startedAt = now /\ 1 <= Budget(k)
        BY <1>3, <2>5, <3>2, <3>5
      <4>3. History(k, [g EXCEPT ![r] = now])'
        BY <1>3, <1>7, <1>8, <2>1, <2>2, <2>5, <3>1, <3>2, <4>1, <4>2, HistoryAfterBeginning DEF IInv
      <4> QED
        BY <4>3
    <3> QED
      BY <1>4, <2>5, <3>4, <3>5
  <2> QED
    BY <2>3, <2>4, <2>5
<1>14. RefusedForOwnRequests'
  <2> SUFFICES ASSUME ~TrustForwardedHeaders, NEW q \in Requests, calls'[q].step = "limited"
               PROVE  Cardinality(OwnBefore(q)') >= Budget(calls'[q].key)
    BY DEF RefusedForOwnRequests, Budget
  <2>1. CASE q # r
    <3>1. calls'[q] = calls[q] /\ calls[q].step = "limited"
      BY <1>8, <2>1
    <3> QED
      BY <1>9, <1>13, <3>1, RefusalsStay DEF IInv
  <2>2. CASE q = r
    <3>1. limited
      BY <1>8, <2>2
    <3>2. key \in DOMAIN windows /\ window = windows[key] /\ window.count >= Budget(key)
      BY <1>3, <1>4, <1>5, <3>1
    <3>3. PICK g \in [Requests -> Nat] : History(key, g)
      BY <1>3 DEF CountInv, Histories
    <3>4. IsFiniteSet(Admitted(key)') /\ Admitted(key)' = Admitted(key)
      <4>1. Admitted(key)' = Admitted(key)
        BY <1>1, <1>7, <1>8, <3>1 DEF Admitted
      <4> QED
        BY <3>3, <4>1 DEF History, ClassesInBudget
    <3>5. Class(key, g, window.startedAt) \subseteq OwnBefore(r)'
      <4> SUFFICES ASSUME NEW p \in Admitted(key), g[p] = window.startedAt
                   PROVE  p \in OwnBefore(r)'
        BY DEF Class
      <4>1. p \in Requests /\ calls'[p] = calls[p] /\ calls[p].key = key /\ calls[p].done \in Nat
        BY <1>9, RateLimiterAssumption DEF Admitted, Settled, IInv, TypeOK
      <4>2. calls'[p].host = calls'[r].host
        BY <1>8, <1>10, <4>1 DEF OwnKeys
      <4>3. calls[p].done <= clock /\ window.startedAt <= calls[p].done
        BY <3>3 DEF History, InItsWindow
      <4>4. now - calls[p].done < Window
        BY <1>3, <1>4, <4>1, <4>3, RateLimiterAssumption DEF Expired, DurationSince
      <4>5. p \in Admitted(calls[r].key)'
        BY <1>8, <3>4 DEF Admitted
      <4> QED
        BY <1>8, <4>1, <4>2, <4>3, <4>4, <4>5 DEF OwnBefore
    <3>6. IsFiniteSet(OwnBefore(r)')
      <4>1. OwnBefore(r)' \subseteq Admitted(key)'
        BY <1>8 DEF OwnBefore, Admitted
      <4> QED
        BY <3>4, <4>1, FS_Subset
    <3>7. /\ Cardinality(Class(key, g, window.startedAt)) <= Cardinality(OwnBefore(r)')
          /\ Cardinality(OwnBefore(r)') \in Nat
      BY <3>5, <3>6, FS_Subset, FS_CardinalityType
    <3>8. Cardinality(Class(key, g, window.startedAt)) = window.count
      BY <3>2, <3>3 DEF History, LastClass
    <3> QED
      BY <1>3, <1>4, <1>8, <2>2, <3>2, <3>7, <3>8
  <2> QED
    BY <2>1, <2>2
<1> QED
  BY <1>10, <1>11, <1>13, <1>14 DEF CountInv

LEMMA InitCounts == Init => CountInv
<1> SUFFICES ASSUME Init PROVE CountInv
  OBVIOUS
<1>1. \A r \in Requests : calls[r] = NoCall
  BY DEF Init
<1>2. NoCall.step = "new" /\ NoCall.host = NoCall.key[2]
  BY DEF NoCall, IpKey
<1>3. \A key : Admitted(key) = {}
  BY <1>1, <1>2 DEF Admitted
<1>4. Histories
  <2> SUFFICES ASSUME NEW key \in Keys PROVE \E g \in [Requests -> Nat] : History(key, g)
    BY DEF Histories
  <2> DEFINE g == [r \in Requests |-> 0]
  <2>1. g \in [Requests -> Nat]
    OBVIOUS
  <2> HIDE DEF g
  <2>2. InItsWindow(key, g) /\ WindowsFollow(key, g)
    BY <1>3 DEF InItsWindow, WindowsFollow
  <2>3. \A start : Class(key, g, start) = {}
    BY <1>3 DEF Class
  <2>4. Budget(key) \in Nat
    BY RateLimiterAssumption DEF Budget
  <2>5. ClassesInBudget(key, g)
    BY <1>3, <2>3, <2>4, FS_EmptySet DEF ClassesInBudget
  <2>6. LastClass(key, g)
    BY <1>3 DEF LastClass, Init
  <2>7. History(key, g)
    BY <2>2, <2>5, <2>6 DEF History
  <2> QED
    BY <2>1, <2>7
<1>5. OwnKeys /\ LimitedIsEnabled /\ RefusedForOwnRequests
  BY <1>1, <1>2 DEF OwnKeys, LimitedIsEnabled, RefusedForOwnRequests
<1> QED
  BY <1>4, <1>5 DEF CountInv

LEMMA NextCounts == IInv /\ CountInv /\ [Next]_vars => CountInv'
<1> SUFFICES ASSUME IInv, CountInv, [Next]_vars PROVE CountInv'
  OBVIOUS
<1>1. CASE Tick
  BY <1>1, TickCounts
<1>2. ASSUME NEW r \in Requests, CheckIp(r) PROVE CountInv'
  <2>1. PICK host \in Hosts, forwarded \in Addresses \union {None} :
            Check(r, host, IpKey(ClientIp(host, forwarded)))
    BY <1>2 DEF CheckIp
  <2>2. IpKey(ClientIp(host, forwarded)) \in Keys
    BY DEF IpKey, ClientIp, Keys, Hosts
  <2>3. ~TrustForwardedHeaders => host = IpKey(ClientIp(host, forwarded))[2]
    BY DEF IpKey, ClientIp
  <2> QED
    BY <2>1, <2>2, <2>3, CheckCounts
<1>3. ASSUME NEW r \in Requests, CheckJkt(r) PROVE CountInv'
  <2>1. PICK jkt \in Addresses : Check(r, jkt, JktKey(jkt))
    BY <1>3 DEF CheckJkt
  <2>2. jkt \in Hosts /\ JktKey(jkt) \in Keys /\ JktKey(jkt)[2] = jkt
    BY DEF JktKey, Keys, Hosts
  <2> QED
    BY <2>1, <2>2, CheckCounts
<1>4. ASSUME NEW r \in Requests, ClaimSweep(r) \/ Retain(r) \/ Count(r) PROVE CountInv'
  BY <1>4, ClaimCounts, RetainCounts, CountCounts
<1>5. CASE UNCHANGED vars
  <2>1. calls' = calls /\ windows' = windows /\ clock' \in Nat /\ clock <= clock'
    BY <1>5 DEF vars, IInv, TypeOK
  <2> QED
    BY <2>1, CountsStay DEF IInv, Settled, CountInv, OwnKeys
<1> QED
  BY <1>1, <1>2, <1>3, <1>4, <1>5 DEF Next

LEMMA CountInvHolds == Spec => [](IInv /\ CountInv)
  BY InitHolds, NextKeeps, InitCounts, NextCounts, PTL DEF Spec

(* However requests race for the two locks, the sweep and the rollover of a window, no
   key is admitted more than twice its budget in a span of a window less two holds. *)
THEOREM BudgetsHold == Spec => []BudgetPerKey
<1>1. IInv /\ CountInv => BudgetPerKey
  <2> SUFFICES ASSUME IInv, CountInv, NEW key \in Keys, Budget(key) > 0, NEW from \in 0 .. clock
               PROVE  Cardinality({r \in Admitted(key) :
                                      calls[r].done \in from .. from + Window - 2 * MaxHold})
                          <= 2 * Budget(key)
    BY DEF BudgetPerKey
  <2>1. PICK g \in [Requests -> Nat] : History(key, g)
    BY DEF CountInv, Histories
  <2>2. Budget(key) \in Nat /\ from \in Nat /\ TypeOK
    BY RateLimiterAssumption DEF Budget, IInv
  <2> QED
    BY <2>1, <2>2, HistoryBounds
<1> QED
  BY <1>1, CountInvHolds, PTL

(* A caller that is refused had a full budget of its own requests admitted less than a
   window before, for any number of other callers and whatever they claim to be. *)
THEOREM RefusalsAreEarned == Spec => []RefusedForOwnRequests
<1>1. CountInv => RefusedForOwnRequests
  BY DEF CountInv
<1> QED
  BY <1>1, CountInvHolds, PTL
=============================================================================
