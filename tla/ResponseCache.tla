---------------------------- MODULE ResponseCache ----------------------------
(***************************************************************************)
(* The read-through cache of one analytics endpoint and one organisation   *)
(* (app/core/cache.py, app/routers/analytics.py): the copy in Redis, the   *)
(* copy each browser keeps under the Cache-Control header, and the         *)
(* handlers that change what the endpoint reads.                           *)
(*                                                                         *)
(* A reader looks, computes and stores in three awaits; a writer commits   *)
(* and then invalidates.  Redis may fail any call, which then counts as a  *)
(* miss or does nothing.  The data is told apart by the commit it is of.   *)
(***************************************************************************)
EXTENDS Naturals

CONSTANTS
    Browsers,   \* users that open the endpoint
    Savers,     \* requests that change the data
    MaxCommits, \* bound on the changes
    Ttl         \* ttl_seconds, in ticks of the clock

ASSUME CacheAssumption == MaxCommits \in Nat /\ Ttl \in Nat \ {0}

VARIABLES
    data,     \* number of commits so far
    cached,   \* the entry in Redis; why is a history: how it came to be out of date
    page,     \* page[b]: the copy a browser shows without asking
    fetch,    \* fetch[b]: the request of a browser
    saver     \* requests between their commit and their invalidation

cachevars == <<data, cached, page, fetch, saver>>

NoEntry == [left |-> 0]
Entry(of, why) == [of |-> of, left |-> Ttl, why |-> why]
Copy(of) == [of |-> of, left |-> Ttl]
NoFetch == [pc |-> "idle"]

CacheInit ==
    /\ data = 0 /\ cached = NoEntry /\ saver = {}
    /\ page = [b \in Browsers |-> NoEntry]
    /\ fetch = [b \in Browsers |-> NoFetch]

----------------------------------------------------------------------------
(* cached *)

\* max-age is the whole time to live, also for an answer that Redis held.
Hit(b) ==
    /\ fetch[b] = NoFetch /\ page[b] = NoEntry /\ cached # NoEntry
    /\ page' = [page EXCEPT ![b] = Copy(cached.of)]
    /\ UNCHANGED <<data, cached, fetch, saver>>

\* No entry, or Redis did not answer.
Miss(b) ==
    /\ fetch[b] = NoFetch /\ page[b] = NoEntry
    /\ fetch' = [fetch EXCEPT ![b] = [pc |-> "compute"]]
    /\ UNCHANGED <<data, cached, page, saver>>

ComputeAnswer(b) ==
    /\ fetch[b].pc = "compute"
    /\ fetch' = [fetch EXCEPT ![b] = [pc |-> "store", of |-> data, overtaken |-> FALSE]]
    /\ UNCHANGED <<data, cached, page, saver>>

StoreAnswer(b) ==
    LET q == fetch[b]
    IN  /\ q.pc = "store"
        /\ \/ cached' = Entry(q.of, IF q.overtaken THEN {"raced"} ELSE {})
           \/ UNCHANGED cached
        /\ page' = [page EXCEPT ![b] = Copy(q.of)]
        /\ fetch' = [fetch EXCEPT ![b] = NoFetch]
        /\ UNCHANGED <<data, saver>>

FetchDies(b) ==
    /\ fetch[b] # NoFetch
    /\ fetch' = [fetch EXCEPT ![b] = NoFetch]
    /\ UNCHANGED <<data, cached, page, saver>>

----------------------------------------------------------------------------
(* The handlers that write, and invalidate_cache *)

Overtaking == [b \in Browsers |-> IF fetch[b].pc = "store"
                   THEN [fetch[b] EXCEPT !.overtaken = TRUE] ELSE fetch[b]]
Excused(reason) == IF cached = NoEntry THEN cached
                   ELSE [cached EXCEPT !.why = @ \cup {reason}]

CommitData(s) ==
    /\ s \notin saver /\ data < MaxCommits
    /\ data' = data + 1 /\ saver' = saver \cup {s}
    /\ fetch' = Overtaking
    /\ UNCHANGED <<cached, page>>

\* delete_document, links and new versions commit and invalidate nothing.
CommitQuietly ==
    /\ data < MaxCommits
    /\ data' = data + 1
    /\ fetch' = Overtaking
    /\ cached' = Excused("quiet")
    /\ UNCHANGED <<page, saver>>

Spared == cached
Purged == NoEntry

Invalidate(s) ==
    /\ s \in saver
    /\ cached' = Purged
    /\ saver' = saver \ {s}
    /\ UNCHANGED <<data, page, fetch>>

\* Redis fails, or the process dies after its commit.
InvalidationIsLost(s) ==
    /\ s \in saver
    /\ cached' = Excused("lost")
    /\ saver' = saver \ {s}
    /\ UNCHANGED <<data, page, fetch>>

Unaged(copy) == copy
Aged(copy) == IF copy.left <= 1 THEN NoEntry ELSE [copy EXCEPT !.left = @ - 1]

CacheTick ==
    /\ cached # NoEntry \/ \E b \in Browsers : page[b] # NoEntry
    /\ cached' = Aged(cached)
    /\ page' = [b \in Browsers |-> Aged(page[b])]
    /\ UNCHANGED <<data, fetch, saver>>

CacheNext ==
    \/ \E b \in Browsers :
        Hit(b) \/ Miss(b) \/ ComputeAnswer(b) \/ StoreAnswer(b) \/ FetchDies(b)
    \/ \E s \in Savers : CommitData(s) \/ Invalidate(s) \/ InvalidationIsLost(s)
    \/ CommitQuietly \/ CacheTick

CacheSpec == CacheInit /\ [][CacheNext]_cachevars /\ WF_cachevars(CacheTick)

----------------------------------------------------------------------------
\* Redis answers with data of before a commit only while that commit's
\* invalidation is on its way, or if the answer was computed before the commit
\* and stored after it, the commit invalidates nothing, or Redis lost the call.
StaleForAReason ==
    (cached # NoEntry /\ cached.of < data) => saver # {} \/ cached.why # {}

\* Whatever went wrong, when the changes stop the old answers die out, in Redis
\* and in the browsers, for good: the copies feed one another no longer than
\* two times to live.
StalenessDiesOut ==
    <>[](/\ cached # NoEntry => cached.of = data
         /\ \A b \in Browsers : page[b] # NoEntry => page[b].of = data)
============================================================================
