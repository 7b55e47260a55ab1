------------------------------ MODULE Revocation ------------------------------
(***************************************************************************)
(* The wallet's revocation cache: the sign-time check of an access-token    *)
(* jti, the lazy refresh it runs when the cache is stale, and the pages it  *)
(* drains from the issuer's delta endpoint.  Any number of checks overlap;  *)
(* the cache is locked only while it is read or written, never across a     *)
(* request to the issuer.                                                   *)
(*                                                                          *)
(* The issuer is outside the repository.  It is modelled by what the code   *)
(* relies on: revocations have an order, `since' names a place in it, and   *)
(* a page holds the next PageLimit of them.                                 *)
(***************************************************************************)
EXTENDS Integers

CONSTANTS
    Tokens, NoToken, \* access-token ids (jti)
    Checks,          \* concurrent sign requests at the revocation check
    MaxStaleness,    \* ZSPEND_REVOCATION_MAX_STALENESS_SECONDS
    Latency,         \* from the issuer's last page to its arrival in the cache
    PageLimit,       \* REVOCATION_PAGE_LIMIT
    MaxPages,        \* MAX_DELTA_PAGES
    MaxClock         \* bound on the clock

ASSUME RevocationAssumption ==
    /\ NoToken \notin Tokens
    /\ MaxStaleness \in Nat /\ Latency \in Nat /\ MaxClock \in Nat
    /\ PageLimit \in Nat \ {0} /\ MaxPages \in Nat \ {0}

VARIABLES
    clock,
    position,     \* issuer: place of a jti among the revocations, 0 if none
    revokedAt,    \* issuer: when it was revoked
    issued,       \* issuer: how many revocations there are
    revoked,      \* cache
    cursor,       \* cache
    lastRefresh,  \* cache
    checks        \* the requests

revocationVars == <<clock, position, revokedAt, issued, revoked, cursor, lastRefresh, checks>>
issuer == <<position, revokedAt, issued>>
cache == <<revoked, cursor, lastRefresh>>

Never == -1

Outcomes == {"none", "live", "revoked", "cache_stale"}
CheckState == [pc : {"idle", "fetch", "store", "read"}, jti : Tokens \cup {NoToken},
               since : Nat, found : SUBSET Tokens, pages : Nat, asked : Nat,
               outcome : Outcomes, at : Nat]
NoCheck == [pc |-> "idle", jti |-> NoToken, since |-> 0, found |-> {}, pages |-> 0,
            asked |-> 0, outcome |-> "none", at |-> 0]

RevocationInit ==
    /\ clock = 0
    /\ position = [j \in Tokens |-> 0] /\ revokedAt = [j \in Tokens |-> 0] /\ issued = 0
    /\ revoked = {} /\ cursor = 0 /\ lastRefresh = Never
    /\ checks = [t \in Checks |-> NoCheck]

CheckGoto(t, pc) == [checks EXCEPT ![t] = [@ EXCEPT !.pc = pc]]

-----------------------------------------------------------------------------
(* RevocationStore::check and refresh *)

IsFresh == lastRefresh # Never /\ clock - lastRefresh < MaxStaleness

CheckFresh(t, jti) ==
    /\ checks[t].pc = "idle"
    /\ IsFresh
    /\ checks' = [checks EXCEPT ![t] = [NoCheck EXCEPT !.pc = "read", !.jti = jti]]
    /\ UNCHANGED <<clock, issuer, cache>>

(* refresh starts from the cursor as it is now. *)
CheckStale(t, jti) ==
    /\ checks[t].pc = "idle"
    /\ ~IsFresh
    /\ checks' = [checks EXCEPT ![t] = [NoCheck EXCEPT !.pc = "fetch", !.jti = jti,
                                                       !.since = cursor]]
    /\ UNCHANGED <<clock, issuer, cache>>

(* One page of the delta: the next PageLimit revocations after `since'. *)
PageEnd(since) == IF issued <= since + PageLimit THEN issued ELSE since + PageLimit
Page(since) == {j \in Tokens : since < position[j] /\ position[j] <= PageEnd(since)}
IsTruncated(since) == PageEnd(since) < issued

(* Mutant: the rows of the last page replace those of the pages before. *)
FetchLastPage_Replaces(t) ==
    LET since == checks[t].since
    IN  /\ checks[t].pc = "fetch" /\ ~IsTruncated(since)
        /\ checks' = [checks EXCEPT ![t] = [@ EXCEPT
                        !.pc = "store", !.since = PageEnd(since),
                        !.found = Page(since), !.asked = clock]]
        /\ UNCHANGED <<clock, issuer, cache>>

FetchLastPage(t) ==
    LET since == checks[t].since
    IN  /\ checks[t].pc = "fetch" /\ ~IsTruncated(since)
        /\ checks' = [checks EXCEPT ![t] = [@ EXCEPT
                        !.pc = "store", !.since = PageEnd(since),
                        !.found = checks[t].found \cup Page(since), !.asked = clock]]
        /\ UNCHANGED <<clock, issuer, cache>>

(* A truncated page: drain on, unless the cap makes it an error. *)
FetchMore(t) ==
    LET since == checks[t].since
        pages == checks[t].pages + 1
    IN  /\ checks[t].pc = "fetch" /\ IsTruncated(since)
        /\ checks' = [checks EXCEPT ![t] = [@ EXCEPT
                        !.pc = IF pages >= MaxPages THEN "read" ELSE "fetch",
                        !.since = PageEnd(since),
                        !.found = checks[t].found \cup Page(since), !.pages = pages]]
        /\ UNCHANGED <<clock, issuer, cache>>

(* Mutant: a refresh that failed is stamped too. *)
FetchFails_Stamps(t) ==
    /\ checks[t].pc = "fetch"
    /\ lastRefresh' = clock
    /\ checks' = CheckGoto(t, "read")
    /\ UNCHANGED <<clock, issuer, revoked, cursor>>

(* Request, status, decode and non-advancing cursor errors: what was found  *)
(* is dropped and the check goes on with the set as it is.                  *)
FetchFails(t) ==
    /\ checks[t].pc = "fetch"
    /\ checks' = CheckGoto(t, "read")
    /\ UNCHANGED <<clock, issuer, cache>>

(* The drain ended: union, cursor and stamp under one lock.  Overlapping    *)
(* refreshes store in any order, so the cursor may move back.               *)
StoreRefresh(t) ==
    /\ checks[t].pc = "store"
    /\ revoked' = revoked \cup checks[t].found
    /\ cursor' = checks[t].since
    /\ lastRefresh' = clock
    /\ checks' = CheckGoto(t, "read")
    /\ UNCHANGED <<clock, issuer>>

Outcome(jti) ==
    IF jti \in revoked THEN "revoked" ELSE IF IsFresh THEN "live" ELSE "cache_stale"

Read(t) ==
    /\ checks[t].pc = "read"
    /\ checks' = [checks EXCEPT ![t] = [NoCheck EXCEPT !.jti = checks[t].jti, !.at = clock,
                                                       !.outcome = Outcome(checks[t].jti)]]
    /\ UNCHANGED <<clock, issuer, cache>>

-----------------------------------------------------------------------------
(* The issuer, the clock, a restart *)

Revoke(jti) ==
    /\ position[jti] = 0
    /\ issued' = issued + 1
    /\ position' = [position EXCEPT ![jti] = issued + 1]
    /\ revokedAt' = [revokedAt EXCEPT ![jti] = clock]
    /\ UNCHANGED <<clock, cache, checks>>

(* The issuer's last page reaches the cache within Latency. *)
ClockTick ==
    /\ clock < MaxClock
    /\ \A t \in Checks : checks[t].pc = "store" => clock < checks[t].asked + Latency
    /\ clock' = clock + 1
    /\ UNCHANGED <<issuer, cache, checks>>

(* The cache is in memory. *)
Restart ==
    /\ revoked' = {} /\ cursor' = 0 /\ lastRefresh' = Never
    /\ checks' = [t \in Checks |-> NoCheck]
    /\ UNCHANGED <<clock, issuer>>

RevocationNext ==
    \/ \E t \in Checks :
          \/ \E jti \in Tokens : CheckFresh(t, jti) \/ CheckStale(t, jti)
          \/ FetchLastPage(t) \/ FetchMore(t) \/ FetchFails(t)
          \/ StoreRefresh(t) \/ Read(t)
    \/ \E jti \in Tokens : Revoke(jti)
    \/ ClockTick
    \/ Restart

RevocationSpec == RevocationInit /\ [][RevocationNext]_revocationVars

-----------------------------------------------------------------------------
(* Properties *)

(* Type correctness; a refresh is never stamped in the future and the       *)
(* cursor never runs ahead of the issuer.                                   *)
TypeOKRevocation ==
    /\ clock \in Nat /\ issued \in Nat
    /\ position \in [Tokens -> 0..issued] /\ revokedAt \in [Tokens -> 0..clock]
    /\ revoked \subseteq Tokens /\ cursor \in 0..issued
    /\ lastRefresh \in 0..clock \cup {Never}
    /\ checks \in [Checks -> CheckState]

(* Every revocation up to the cursor is in the set: no refresh, however     *)
(* refreshes overlap, fail or drain in pages, makes the cache step over one *)
(* that no later refresh would ask for again.                               *)
CursorCovers ==
    \A j \in Tokens : position[j] \in 1..cursor => j \in revoked

(* A jti is never admitted once it has been revoked for the staleness bound *)
(* plus the time a page takes to arrive.                                    *)
NoLateAdmission ==
    \A t \in Checks :
        checks[t].outcome = "live" /\ position[checks[t].jti] # 0
            => checks[t].at - revokedAt[checks[t].jti] < MaxStaleness + Latency
=============================================================================
