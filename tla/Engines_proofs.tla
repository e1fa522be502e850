--------------------------- MODULE Engines_proofs ---------------------------
(***************************************************************************)
(* The engines of MCEngines: the response cache, the lock on logins,       *)
(* coverage, the roadmap, the scan importer, the pull of SIEM rules, the   *)
(* merge of review findings and the breaker around the insight calls.      *)
(* They share no state; each section proves the invariant or the action    *)
(* property of one of them, for any values of the constants.               *)
(***************************************************************************)
EXTENDS ResponseCache, CircuitBreaker, LoginLockout, FindingMerge, Coverage, Roadmap,
        ScanReport, RulePull, TLAPS, FiniteSetTheorems, SequenceTheorems, WellFoundedInduction

----------------------------------------------------------------------------
(***************************************************************************)
(* Response cache: any number of browsers and processes.  An answer computed*)
(* before a commit may be stored after it, which is all that makes an entry*)
(* stale without a trace (AnswersAreFresh); every other stale entry has a  *)
(* commit that did not, or could not, bump the prefix.                     *)
(***************************************************************************)
Reasons == {"raced", "quiet", "lost"}
CacheEntries == [of : Nat, left : 1..Ttl, why : SUBSET Reasons]
Copies == [of : Nat, left : 1..Ttl]
Fetches == {NoFetch, [pc |-> "compute"]} \cup [pc : {"store"}, of : Nat, overtaken : BOOLEAN]

CacheTypeOK ==
    /\ data \in Nat
    /\ cached \in {NoEntry} \cup CacheEntries
    /\ page \in [Browsers -> {NoEntry} \cup Copies]
    /\ fetch \in [Browsers -> Fetches]
    /\ saver \in SUBSET Savers

\* An answer that no commit overtook is of the data as it is.
AnswersAreFresh ==
    \A b \in Browsers : fetch[b].pc = "store" =>
        fetch[b].of <= data /\ (~fetch[b].overtaken => fetch[b].of = data)

CacheInv == CacheTypeOK /\ AnswersAreFresh /\ StaleForAReason

LEMMA InitCache == CacheInit => CacheInv
  BY DEF CacheInit, CacheInv, CacheTypeOK, AnswersAreFresh, StaleForAReason, Fetches,
         NoFetch, NoEntry

LEMMA NextCache == CacheInv /\ [CacheNext]_cachevars => CacheInv'
<1> SUFFICES ASSUME CacheInv, [CacheNext]_cachevars PROVE CacheInv'
  OBVIOUS
<1> USE CacheAssumption DEF CacheInv
<1>t. CacheTypeOK
  OBVIOUS
<1>1. ASSUME NEW b \in Browsers, Hit(b) PROVE CacheInv'
  <2>1. cached \in CacheEntries
    BY <1>1, <1>t DEF Hit, CacheTypeOK
  <2>2. Copy(cached.of) \in Copies
    BY <2>1 DEF CacheEntries, Copies, Copy
  <2>3. CacheTypeOK'
    BY <1>1, <2>2, <1>t DEF Hit, CacheTypeOK
  <2> QED
    BY <1>1, <2>3 DEF Hit, AnswersAreFresh, StaleForAReason
<1>2. ASSUME NEW b \in Browsers, Miss(b) PROVE CacheInv'
  <2>1. CacheTypeOK'
    BY <1>2, <1>t DEF Miss, CacheTypeOK, Fetches
  <2>2. AnswersAreFresh'
    BY <1>2, <1>t DEF Miss, CacheTypeOK, AnswersAreFresh, Fetches
  <2> QED
    BY <1>2, <2>1, <2>2 DEF Miss, StaleForAReason
<1>3. ASSUME NEW b \in Browsers, ComputeAnswer(b) PROVE CacheInv'
  <2>1. CacheTypeOK'
    BY <1>3, <1>t DEF ComputeAnswer, CacheTypeOK, Fetches
  <2>2. AnswersAreFresh'
    BY <1>3, <1>t DEF ComputeAnswer, CacheTypeOK, AnswersAreFresh, Fetches
  <2> QED
    BY <1>3, <2>1, <2>2 DEF ComputeAnswer, StaleForAReason
<1>4. ASSUME NEW b \in Browsers, StoreAnswer(b) PROVE CacheInv'
  <2> DEFINE q == fetch[b]
             why == IF q.overtaken THEN {"raced"} ELSE {}
  <2>1. q.of \in Nat /\ q.overtaken \in BOOLEAN /\ (~q.overtaken => q.of = data)
    BY <1>4, <1>t DEF StoreAnswer, CacheTypeOK, Fetches, NoFetch, AnswersAreFresh
  <2>2. Copy(q.of) \in Copies /\ Entry(q.of, why) \in CacheEntries
    BY <2>1 DEF Copies, CacheEntries, Copy, Entry, Reasons
  <2>3. CacheTypeOK'
    BY <1>4, <1>t, <2>2 DEF StoreAnswer, CacheTypeOK, Fetches
  <2>4. AnswersAreFresh'
    BY <1>4, <1>t DEF StoreAnswer, CacheTypeOK, AnswersAreFresh, Fetches, NoFetch
  <2>5. StaleForAReason'
    BY <1>4, <1>t, <2>1 DEF StoreAnswer, StaleForAReason, Entry, CacheTypeOK
  <2> QED
    BY <2>3, <2>4, <2>5
<1>5. ASSUME NEW b \in Browsers, FetchDies(b) PROVE CacheInv'
  <2>1. CacheTypeOK'
    BY <1>5, <1>t DEF FetchDies, CacheTypeOK, Fetches
  <2>2. AnswersAreFresh'
    BY <1>5, <1>t DEF FetchDies, CacheTypeOK, AnswersAreFresh, Fetches, NoFetch
  <2> QED
    BY <1>5, <2>1, <2>2 DEF FetchDies, StaleForAReason
<1>o. ASSUME fetch' = Overtaking, data' = data + 1
      PROVE  AnswersAreFresh' /\ fetch' \in [Browsers -> Fetches]
  <2>1. ASSUME NEW b \in Browsers, fetch[b].pc = "store"
        PROVE  /\ fetch'[b] \in Fetches
               /\ fetch'[b].of = fetch[b].of /\ fetch'[b].of \in Nat
               /\ fetch'[b].overtaken = TRUE
    <3>1. fetch[b] \in [pc : {"store"}, of : Nat, overtaken : BOOLEAN]
      BY <1>t, <2>1 DEF CacheTypeOK, Fetches, NoFetch
    <3>2. fetch'[b] = [fetch[b] EXCEPT !.overtaken = TRUE]
      BY <1>o, <2>1 DEF Overtaking
    <3>3. fetch'[b] = [pc |-> "store", of |-> fetch[b].of, overtaken |-> TRUE]
      BY <3>1, <3>2
    <3> QED
      BY <3>1, <3>3 DEF Fetches
  <2>2. ASSUME NEW b \in Browsers, fetch[b].pc # "store" PROVE fetch'[b] = fetch[b]
    BY <1>o, <2>2 DEF Overtaking
  <2>3. AnswersAreFresh'
    <3>1. SUFFICES ASSUME NEW b \in Browsers, fetch'[b].pc = "store"
                   PROVE  fetch'[b].of <= data' /\ fetch'[b].overtaken
      BY DEF AnswersAreFresh
    <3>2. fetch[b].pc = "store"
      BY <2>2, <3>1
    <3>3. fetch[b].of <= data
      BY <3>2 DEF AnswersAreFresh
    <3>4. /\ fetch'[b].of = fetch[b].of /\ fetch'[b].of \in Nat
          /\ fetch'[b].overtaken = TRUE
      BY <2>1, <3>2
    <3> QED
      BY <1>o, <1>t, <3>3, <3>4 DEF CacheTypeOK
  <2>4. fetch' \in [Browsers -> Fetches]
    BY <1>o, <1>t, <2>1, <2>2 DEF Overtaking, CacheTypeOK
  <2> QED
    BY <2>3, <2>4
<1>e. ASSUME NEW reason \in Reasons
      PROVE  /\ Excused(reason) \in {NoEntry} \cup CacheEntries
             /\ Excused(reason) # NoEntry => Excused(reason).why # {}
  BY <1>t DEF Excused, CacheTypeOK, CacheEntries, NoEntry
<1>6. ASSUME NEW s \in Savers, CommitData(s) PROVE CacheInv'
  <2>1. CacheTypeOK'
    BY <1>6, <1>t, <1>o DEF CommitData, CacheTypeOK
  <2> QED
    BY <1>6, <1>o, <2>1 DEF CommitData, StaleForAReason
<1>7. ASSUME CommitQuietly PROVE CacheInv'
  <2>1. CacheTypeOK'
    BY <1>7, <1>t, <1>o, <1>e DEF CommitQuietly, CacheTypeOK, Reasons
  <2> QED
    BY <1>7, <1>o, <1>e, <2>1 DEF CommitQuietly, StaleForAReason, Reasons
<1>8. ASSUME NEW s \in Savers, Invalidate(s) PROVE CacheInv'
  <2>1. CacheTypeOK'
    BY <1>8, <1>t DEF Invalidate, CacheTypeOK, Purged
  <2> QED
    BY <1>8, <2>1 DEF Invalidate, StaleForAReason, AnswersAreFresh, Purged
<1>9. ASSUME NEW s \in Savers, InvalidationIsLost(s) PROVE CacheInv'
  <2>1. CacheTypeOK'
    BY <1>9, <1>t, <1>e DEF InvalidationIsLost, CacheTypeOK, Reasons
  <2> QED
    BY <1>9, <1>e, <2>1 DEF InvalidationIsLost, StaleForAReason, AnswersAreFresh, Reasons
<1>10. ASSUME CacheTick PROVE CacheInv'
  <2>1. /\ Aged(cached) \in {NoEntry} \cup CacheEntries
        /\ Aged(cached) # NoEntry => /\ cached # NoEntry
                                     /\ Aged(cached).of = cached.of
                                     /\ Aged(cached).why = cached.why
    BY <1>t DEF CacheTypeOK, Aged, CacheEntries, NoEntry
  <2>2. \A b \in Browsers : Aged(page[b]) \in {NoEntry} \cup Copies
    <3> TAKE b \in Browsers
    <3>1. page[b] \in {NoEntry} \cup Copies
      BY <1>t DEF CacheTypeOK
    <3> QED
      BY <3>1 DEF Aged, Copies, NoEntry
  <2>3. CacheTypeOK'
    BY <1>10, <1>t, <2>1, <2>2 DEF CacheTick, CacheTypeOK
  <2> QED
    BY <1>10, <2>1, <2>3 DEF CacheTick, StaleForAReason, AnswersAreFresh
<1>11. CASE UNCHANGED cachevars
  BY <1>11 DEF cachevars, CacheTypeOK, AnswersAreFresh, StaleForAReason
<1> QED
  BY <1>1, <1>2, <1>3, <1>4, <1>5, <1>6, <1>7, <1>8, <1>9, <1>10, <1>11 DEF CacheNext

\* Redis answers with data of before a commit only while the invalidation is on
\* its way or for one of the three reasons (cached and invalidate_cache in
\* app/core/cache.py), with any number of browsers and writers.
THEOREM StaleAnswersHaveAReason == CacheSpec => [](CacheTypeOK /\ StaleForAReason)
<1>1. CacheInit => CacheInv
  BY InitCache
<1>2. CacheInv /\ [CacheNext]_cachevars => CacheInv'
  BY NextCache
<1>3. CacheInv => CacheTypeOK /\ StaleForAReason
  BY DEF CacheInv
<1> QED
  BY <1>1, <1>2, <1>3, PTL DEF CacheSpec

----------------------------------------------------------------------------
(***************************************************************************)
(* Lock on logins: any addresses, attempts and dictionary limit.  Of an    *)
(* address never evicted, the wrong passwords taken are the ones recorded  *)
(* while it is open, and, once it is locked, at most what the logins still in*)
(* flight may add (GuessesAreCounted).                                     *)
(***************************************************************************)
DictItems == [key : Emails, val : Nat]
Dict(dict) ==
    /\ dict \in Seq(DictItems)
    /\ \A i, j \in DOMAIN dict : dict[i].key = dict[j].key => i = j

InFlight(e) == {a \in Attempts : attempt[a] = e}

LockTypeOK ==
    /\ Dict(failures) /\ Dict(locked)
    /\ attempt \in [Attempts -> Emails \cup {NoAttempt}]
    /\ guesses \in [Emails -> Nat]

\* What an address that was never evicted has used up: unlocked, what is recorded
\* of it; locked, no more than what is left to the logins still in flight.
GuessesAreCounted ==
    \A e \in Emails \ evicted :
        /\ ValueOf(failures, e) < MaxFailures
        /\ e \notin Keys(locked) => guesses[e] = ValueOf(failures, e)
        /\ e \in Keys(locked) =>
               guesses[e] + Cardinality(InFlight(e)) <= MaxFailures + Cardinality(Attempts) - 1

LockInv == LockTypeOK /\ GuessesAreCounted

----------------------------------------------------------------------------
(* The dictionaries *)

LEMMA DictType ==
    ASSUME NEW d, Dict(d)
    PROVE  /\ DOMAIN d = 1..Len(d) /\ Len(d) \in Nat
           /\ \A i \in DOMAIN d : d[i] \in DictItems
  BY LenProperties, ElementOfSeq DEF Dict

LEMMA ValueIsThere ==
    ASSUME NEW d, Dict(d), NEW i \in DOMAIN d
    PROVE  /\ d[i].key \in Keys(d) /\ Place(d, d[i].key) = i
           /\ ValueOf(d, d[i].key) = d[i].val
<1>1. d[i].key \in Keys(d)
  BY DEF Keys
<1>2. Place(d, d[i].key) = i
  BY DEF Place, Dict
<1> QED
  BY <1>1, <1>2 DEF ValueOf

LEMMA ValueType ==
    ASSUME NEW d, Dict(d), NEW x
    PROVE  ValueOf(d, x) \in Nat
<1>1. CASE x \in Keys(d)
  <2>1. PICK i \in DOMAIN d : d[i].key = x
    BY <1>1 DEF Keys
  <2> QED
    BY <2>1, ValueIsThere, DictType DEF DictItems
<1>2. CASE x \notin Keys(d)
  BY <1>2 DEF ValueOf
<1> QED
  BY <1>1, <1>2

\* An address that has the same item in two dictionaries, or none, has one value.
LEMMA SameValue ==
    ASSUME NEW c, NEW d, Dict(c), Dict(d), NEW x, x \in Keys(c) => x \in Keys(d),
           \A i \in DOMAIN d : d[i].key = x => \E j \in DOMAIN c : c[j] = d[i]
    PROVE  ValueOf(c, x) = ValueOf(d, x) /\ (x \in Keys(c) <=> x \in Keys(d))
<1>1. CASE x \in Keys(d)
  <2>1. PICK i \in DOMAIN d : d[i].key = x
    BY <1>1 DEF Keys
  <2>2. PICK j \in DOMAIN c : c[j] = d[i]
    BY <2>1
  <2>3. ValueOf(c, c[j].key) = c[j].val /\ ValueOf(d, d[i].key) = d[i].val /\ c[j].key \in Keys(c)
    BY ValueIsThere
  <2> QED
    BY <1>1, <2>1, <2>2, <2>3
<1>2. CASE x \notin Keys(d)
  BY <1>2 DEF ValueOf
<1> QED
  BY <1>1, <1>2

LEMMA RemoveAtShifts ==
    ASSUME NEW S, NEW q \in Seq(S), NEW m \in 1..Len(q)
    PROVE  /\ RemoveAt(q, m) \in Seq(S) /\ DOMAIN RemoveAt(q, m) = 1..(Len(q) - 1)
           /\ \A i \in 1..(Len(q) - 1) : RemoveAt(q, m)[i] = IF i < m THEN q[i] ELSE q[i + 1]
<1> DEFINE n == Len(q)
           front == SubSeq(q, 1, m - 1)
           back == SubSeq(q, m + 1, n)
           r == front \o back
<1>0. n \in Nat /\ \A i \in 1..n : q[i] \in S
  BY LenProperties, ElementOfSeq
<1>1. RemoveAt(q, m) = r
  BY DEF RemoveAt
<1> HIDE DEF n
<1>2. m \in 1..n /\ m \in Nat /\ m - 1 \in Nat /\ n - m \in Nat
  BY <1>0 DEF n
<1>3. /\ front \in Seq(S) /\ Len(front) = m - 1
      /\ \A i \in 1..(m - 1) : front[i] = q[i]
  <2>1. \A i \in 1..(m - 1) : q[i] \in S
    BY <1>0, <1>2
  <2> QED
    BY <1>2, <2>1, SubSeqProperties
<1>4. /\ back \in Seq(S) /\ Len(back) = n - m
      /\ \A i \in 1..(n - m) : back[i] = q[m + i]
  <2>1. \A i \in (m + 1)..n : q[i] \in S
    BY <1>0, <1>2
  <2>2. /\ back \in Seq(S)
        /\ Len(back) = IF m + 1 <= n THEN n - (m + 1) + 1 ELSE 0
        /\ \A i \in 1..(n - (m + 1) + 1) : back[i] = q[(m + 1) + i - 1]
    BY <1>0, <1>2, <2>1, SubSeqProperties
  <2> QED
    BY <1>0, <1>2, <2>2
<1> HIDE DEF front, back
<1>5. /\ r \in Seq(S) /\ Len(r) = (m - 1) + (n - m)
      /\ \A i \in 1..((m - 1) + (n - m)) :
             r[i] = IF i <= m - 1 THEN front[i]
                    ELSE back[i - (m - 1)]
  <2>1. /\ r \in Seq(S) /\ Len(r) = Len(front) + Len(back)
        /\ \A i \in 1..(Len(front) + Len(back)) :
               r[i] = IF i <= Len(front) THEN front[i] ELSE back[i - Len(front)]
    BY <1>3, <1>4, ConcatProperties
  <2> QED
    BY <1>3, <1>4, <2>1, Zenon
<1> HIDE DEF r
<1>6. (m - 1) + (n - m) = n - 1
  BY <1>0, <1>2
<1>7. DOMAIN r = 1..(n - 1)
  BY <1>5, <1>6, LenProperties
<1>8. ASSUME NEW i \in 1..(n - 1) PROVE r[i] = IF i < m THEN q[i] ELSE q[i + 1]
  <2>1. CASE i < m
    <3>1. i <= m - 1 /\ i \in 1..(m - 1)
      BY <1>2, <1>8, <2>1
    <3> QED
      BY <1>3, <1>5, <1>6, <2>1, <3>1
  <2>2. CASE ~(i < m)
    <3>1. ~(i <= m - 1) /\ i - (m - 1) \in 1..(n - m) /\ m + (i - (m - 1)) = i + 1
      BY <1>0, <1>2, <1>8, <2>2
    <3> QED
      BY <1>4, <1>5, <1>6, <2>2, <3>1
  <2> QED
    BY <2>1, <2>2
<1> QED
  BY <1>1, <1>5, <1>7, <1>8 DEF n, r, front, back

LEMMA DropForgets ==
    ASSUME NEW d, Dict(d), NEW e
    PROVE  /\ Dict(Drop(d, e)) /\ Keys(Drop(d, e)) = Keys(d) \ {e}
           /\ \A x : x # e => ValueOf(Drop(d, e), x) = ValueOf(d, x)
<1>1. CASE e \notin Keys(d)
  BY <1>1 DEF Drop
<1>2. CASE e \in Keys(d)
  <2> DEFINE m == Place(d, e)
             n == Len(d)
             c == Drop(d, e)
  <2>1. m \in DOMAIN d /\ d[m].key = e /\ c = RemoveAt(d, m)
    <3>1. PICK i \in DOMAIN d : d[i].key = e
      BY <1>2 DEF Keys
    <3> QED
      BY <1>2, <3>1, ValueIsThere DEF Drop
  <2> HIDE DEF m, c, n
  <2>2. n \in Nat /\ m \in 1..n /\ DOMAIN d = 1..n
    BY <2>1, DictType DEF n
  <2>3. /\ c \in Seq(DictItems) /\ DOMAIN c = 1..(n - 1)
        /\ \A i \in 1..(n - 1) : c[i] = IF i < m THEN d[i] ELSE d[i + 1]
    BY <2>1, <2>2, RemoveAtShifts DEF n, Dict
  <2> DEFINE f(i) == IF i < m THEN i ELSE i + 1
  <2>4. \A i \in 1..(n - 1) : f(i) \in 1..n /\ f(i) # m /\ c[i] = d[f(i)]
    BY <2>2, <2>3
  <2>5. Dict(c)
    <3> SUFFICES ASSUME NEW i \in 1..(n - 1), NEW j \in 1..(n - 1), c[i].key = c[j].key
                 PROVE  i = j
      BY <2>3 DEF Dict
    <3>1. f(i) = f(j)
      BY <2>2, <2>4 DEF Dict
    <3> QED
      BY <2>2, <3>1
  <2>6. \A i \in DOMAIN d : i # m => \E j \in DOMAIN c : c[j] = d[i]
    <3> SUFFICES ASSUME NEW i \in 1..n, i # m PROVE \E j \in 1..(n - 1) : c[j] = d[i]
      BY <2>2, <2>3
    <3>1. CASE i < m
      <4>1. i \in 1..(n - 1)
        BY <2>2, <3>1
      <4> QED
        BY <2>3, <3>1, <4>1
    <3>2. CASE i > m
      <4>1. i - 1 \in 1..(n - 1) /\ ~(i - 1 < m) /\ (i - 1) + 1 = i
        BY <2>2, <3>2
      <4> QED
        BY <2>3, <4>1
    <3> QED
      BY <2>2, <3>1, <3>2
  <2>7. \A i \in DOMAIN c : \E j \in DOMAIN d : j # m /\ c[i] = d[j]
    BY <2>2, <2>3, <2>4
  <2>8. Keys(c) = Keys(d) \ {e}
    <3>1. \A i \in DOMAIN d : i # m => d[i].key # e
      BY <2>1 DEF Dict
    <3> QED
      BY <2>1, <2>6, <2>7, <3>1 DEF Keys
  <2>9. \A x : x # e => ValueOf(c, x) = ValueOf(d, x)
    <3> SUFFICES ASSUME NEW x, x # e PROVE ValueOf(c, x) = ValueOf(d, x)
      OBVIOUS
    <3>1. \A i \in DOMAIN d : d[i].key = x => \E j \in DOMAIN c : c[j] = d[i]
      BY <2>1, <2>6
    <3> QED
      BY <2>5, <2>8, <3>1, SameValue
  <2> QED
    BY <2>5, <2>8, <2>9 DEF c
<1> QED
  BY <1>1, <1>2

LEMMA PutRecords ==
    ASSUME NEW d, Dict(d), NEW e \in Emails, NEW v \in Nat
    PROVE  /\ Dict(Put(d, e, v)) /\ Keys(Put(d, e, v)) = Keys(d) \cup {e}
           /\ ValueOf(Put(d, e, v), e) = v
           /\ \A x : x # e => ValueOf(Put(d, e, v), x) = ValueOf(d, x)
<1> DEFINE c == Put(d, e, v)
           n == Len(d)
           new == [key |-> e, val |-> v]
<1>0. n \in Nat /\ DOMAIN d = 1..n /\ (\A i \in 1..n : d[i] \in DictItems) /\ new \in DictItems
  BY DictType DEF DictItems
<1>1. \E m \in 1..(n + 1) :
        /\ c \in Seq(DictItems) /\ c[m] = new /\ m \in DOMAIN c
        /\ \A i \in DOMAIN c : i # m => i \in DOMAIN d /\ c[i] = d[i] /\ d[i].key # e
        /\ \A i \in DOMAIN d : i \in DOMAIN c /\ (i = m => d[i].key = e)
  <2>1. CASE e \notin Keys(d)
    <3>1. c = Append(d, new)
      BY <2>1 DEF Put
    <3> HIDE DEF c, new
    <3>2. /\ c \in Seq(DictItems) /\ DOMAIN c = 1..(n + 1) /\ c[n + 1] = new
          /\ \A i \in 1..n : c[i] = d[i]
      BY <1>0, <3>1, AppendProperties, LenProperties DEF Dict
    <3>3. \A i \in 1..n : d[i].key # e
      BY <1>0, <2>1 DEF Keys
    <3> HIDE DEF n
    <3>4. n + 1 \in 1..(n + 1) /\ \A i \in 1..(n + 1) : i # n + 1 => i \in 1..n
      BY <1>0
    <3>5. \A i \in 1..n : i \in 1..(n + 1) /\ i # n + 1
      BY <1>0
    <3> QED
      BY <1>0, <3>2, <3>3, <3>4, <3>5
  <2>2. CASE e \in Keys(d)
    <3> DEFINE m == Place(d, e)
    <3>1. m \in 1..n /\ d[m].key = e
      <4>1. PICK i \in DOMAIN d : d[i].key = e
        BY <2>2 DEF Keys
      <4> QED
        BY <1>0, <4>1, ValueIsThere
    <3>2. c = [d EXCEPT ![m].val = v]
      BY <2>2 DEF Put
    <3> HIDE DEF m, c
    <3>3. c[m] = [d[m] EXCEPT !.val = v] /\ \A i \in 1..n : i # m => c[i] = d[i]
      BY <1>0, <3>1, <3>2
    <3>4. c[m] = new
      BY <1>0, <3>1, <3>3 DEF DictItems
    <3>5. c \in [1..n -> DictItems]
      BY <1>0, <3>1, <3>2, <3>3, <3>4 DEF Dict
    <3>6. c \in Seq(DictItems) /\ DOMAIN c = 1..n
      BY <1>0, <3>5, SeqDef
    <3>7. \A i \in 1..n : i # m => d[i].key # e
      BY <1>0, <3>1 DEF Dict
    <3> HIDE DEF n, new
    <3>8. m \in 1..(n + 1)
      BY <1>0, <3>1
    <3> QED
      BY <1>0, <3>1, <3>3, <3>4, <3>6, <3>7, <3>8
  <2> QED
    BY <2>1, <2>2
<1>2. PICK m \in 1..(n + 1) :
        /\ c \in Seq(DictItems) /\ c[m] = new /\ m \in DOMAIN c
        /\ \A i \in DOMAIN c : i # m => i \in DOMAIN d /\ c[i] = d[i] /\ d[i].key # e
        /\ \A i \in DOMAIN d : i \in DOMAIN c /\ (i = m => d[i].key = e)
  BY <1>1
<1>3. new.key = e /\ new.val = v
  OBVIOUS
<1> HIDE DEF c, n, new
<1>4. Dict(c)
  <2> SUFFICES ASSUME NEW i \in DOMAIN c, NEW j \in DOMAIN c, c[i].key = c[j].key PROVE i = j
    BY <1>2 DEF Dict
  <2>1. i # m \/ j # m => i # m /\ j # m
    BY <1>2, <1>3
  <2> QED
    BY <1>2, <2>1 DEF Dict
<1>5. Keys(c) = Keys(d) \cup {e}
  <2>1. ASSUME NEW i \in DOMAIN c PROVE c[i].key \in Keys(d) \cup {e}
    BY <1>2, <1>3 DEF Keys
  <2>2. ASSUME NEW i \in DOMAIN d PROVE d[i].key \in Keys(c)
    BY <1>2, <1>3 DEF Keys
  <2>3. e \in Keys(c)
    BY <1>2, <1>3 DEF Keys
  <2>4. Keys(c) \subseteq Keys(d) \cup {e}
    BY <2>1 DEF Keys
  <2>5. Keys(d) \subseteq Keys(c)
    BY <2>2 DEF Keys
  <2> QED
    BY <2>3, <2>4, <2>5
<1>6. ValueOf(c, e) = v
  BY <1>2, <1>3, <1>4, ValueIsThere
<1>7. ASSUME NEW x, x # e PROVE ValueOf(c, x) = ValueOf(d, x)
  <2>1. ASSUME NEW i \in DOMAIN d, d[i].key = x PROVE i \in DOMAIN c /\ c[i] = d[i]
    BY <1>2, <1>7, <2>1
  <2> QED
    BY <1>4, <1>5, <1>7, <2>1, SameValue
<1> QED
  BY <1>4, <1>5, <1>6, <1>7 DEF c

LEMMA FitKeepsOthers ==
    ASSUME NEW d, Dict(d)
    PROVE  /\ Dict(Fit(d)) /\ Keys(Fit(d)) \subseteq Keys(d)
           /\ \A x : x \notin Keys(d) \ Keys(Fit(d)) =>
                 /\ ValueOf(Fit(d), x) = ValueOf(d, x)
                 /\ x \in Keys(Fit(d)) <=> x \in Keys(d)
<1>1. CASE ~(Len(d) > Capacity)
  BY <1>1 DEF Fit
<1>2. CASE Len(d) > Capacity
  <2> DEFINE n == Len(d)
             c == Fit(d)
  <2>1. c = Tail(d) /\ n \in Nat /\ DOMAIN d = 1..n /\ n > 0
    BY <1>2, DictType, LockoutAssumption DEF Fit
  <2>2. d \in Seq(DictItems) /\ d # <<>>
    BY <2>1, EmptySeq DEF Dict
  <2> HIDE DEF c
  <2>3. /\ c \in Seq(DictItems) /\ DOMAIN c = 1..(n - 1)
        /\ \A i \in 1..(n - 1) : c[i] = d[i + 1]
    BY <2>1, <2>2, HeadTailProperties, LenProperties
  <2> HIDE DEF n
  <2>4. \A i \in 1..(n - 1) : i + 1 \in 1..n
    BY <2>1
  <2>5. Dict(c)
    <3> SUFFICES ASSUME NEW i \in 1..(n - 1), NEW j \in 1..(n - 1), c[i].key = c[j].key
                 PROVE  i = j
      BY <2>3 DEF Dict
    <3>1. i + 1 = j + 1
      BY <2>1, <2>3, <2>4 DEF Dict
    <3> QED
      BY <3>1
  <2>6. Keys(c) \subseteq Keys(d)
    BY <2>1, <2>3, <2>4 DEF Keys
  <2>7. ASSUME NEW x, x \notin Keys(d) \ Keys(c)
        PROVE  ValueOf(c, x) = ValueOf(d, x) /\ (x \in Keys(c) <=> x \in Keys(d))
    <3>1. CASE x \notin Keys(d)
      BY <2>6, <3>1 DEF ValueOf
    <3>2. CASE x \in Keys(c)
      <4>1. PICK j \in DOMAIN c : c[j].key = x
        BY <3>2 DEF Keys
      <4>2. \A i \in DOMAIN d : d[i].key = x => c[j] = d[i]
        BY <2>1, <2>3, <2>4, <4>1 DEF Dict
      <4> QED
        BY <2>5, <2>6, <3>2, <4>1, <4>2, SameValue
    <3> QED
      BY <2>7, <3>1, <3>2
  <2> QED
    BY <2>5, <2>6, <2>7 DEF c
<1> QED
  BY <1>1, <1>2

----------------------------------------------------------------------------
(* The logins *)

LEMMA InFlightType ==
    ASSUME NEW e
    PROVE  /\ IsFiniteSet(InFlight(e)) /\ Cardinality(InFlight(e)) \in Nat
           /\ Cardinality(Attempts) \in Nat
<1>1. IsFiniteSet(Attempts) /\ InFlight(e) \subseteq Attempts
  BY LockoutAssumption DEF InFlight
<1> QED
  BY <1>1, FS_Subset, FS_CardinalityType

\* When the login a ends, its address has one fewer in flight, less than all.
LEMMA FewerInFlight ==
    ASSUME LockTypeOK, NEW a \in Attempts, NEW e \in Emails, attempt[a] = e,
           attempt' = [attempt EXCEPT ![a] = NoAttempt]
    PROVE  /\ attempt' \in [Attempts -> Emails \cup {NoAttempt}]
           /\ Cardinality(InFlight(e)') = Cardinality(InFlight(e)) - 1
           /\ Cardinality(InFlight(e)') <= Cardinality(Attempts) - 1
           /\ \A x \in Emails : x # e => InFlight(x)' = InFlight(x)
<1> DEFINE S == InFlight(e)
           T == InFlight(e)'
<1>1. attempt' \in [Attempts -> Emails \cup {NoAttempt}]
  BY DEF LockTypeOK
<1>2. a \in S /\ T = S \ {a}
  BY LockoutAssumption DEF LockTypeOK, InFlight, NoAttempt
<1>3. \A x \in Emails : x # e => InFlight(x)' = InFlight(x)
  BY LockoutAssumption DEF LockTypeOK, InFlight, NoAttempt
<1>4. IsFiniteSet(S) /\ IsFiniteSet(Attempts) /\ S \subseteq Attempts
  BY InFlightType, LockoutAssumption DEF InFlight
<1>5. Cardinality(T) = Cardinality(S) - 1
  BY <1>2, <1>4, FS_RemoveElement
<1>6. Cardinality(S) <= Cardinality(Attempts) /\ Cardinality(S) \in Nat
      /\ Cardinality(Attempts) \in Nat
  BY <1>4, FS_Subset, FS_CardinalityType
<1> HIDE DEF S, T
<1>7. Cardinality(T) <= Cardinality(Attempts) - 1
  BY <1>5, <1>6
<1> QED
  BY <1>1, <1>3, <1>5, <1>7 DEF S, T

\* A dictionary that is told apart at e only, and one that lost what was evicted.
LEMMA OthersAreCounted ==
    ASSUME LockInv, NEW x \in Emails \ evicted,
           ValueOf(failures, x)' = ValueOf(failures, x),
           x \in Keys(locked)' <=> x \in Keys(locked),
           InFlight(x)' = InFlight(x), guesses'[x] = guesses[x]
    PROVE  /\ ValueOf(failures, x)' < MaxFailures
           /\ x \notin Keys(locked)' => guesses'[x] = ValueOf(failures, x)'
           /\ x \in Keys(locked)' => guesses'[x] + Cardinality(InFlight(x)')
                                          <= MaxFailures + Cardinality(Attempts) - 1
  BY DEF LockInv, GuessesAreCounted

LEMMA AdmitKeepsCount ==
    ASSUME LockInv, NEW a \in Attempts, NEW e \in Emails, AdmitLogin(a, e) PROVE LockInv'
<1>1. /\ attempt[a] = NoAttempt /\ attempt' = [attempt EXCEPT ![a] = e]
      /\ locked' = Drop(locked, e)
      /\ failures' = IF e \in Keys(locked) THEN Drop(failures, e) ELSE failures
      /\ guesses' = IF e \in Keys(locked) THEN [guesses EXCEPT ![e] = 0] ELSE guesses
      /\ evicted' = evicted
      /\ LockTypeOK
  BY DEF AdmitLogin, LockInv
<1>2. /\ Dict(locked') /\ Keys(locked') = Keys(locked) \ {e}
      /\ Dict(failures') /\ (\A x : x # e => ValueOf(failures', x) = ValueOf(failures, x))
      /\ e \in Keys(locked) => e \notin Keys(failures')
      /\ e \notin Keys(locked) => failures' = failures
  BY <1>1, DropForgets DEF LockTypeOK
<1>3. LockTypeOK'
  BY <1>1, <1>2 DEF LockTypeOK
<1>4. ASSUME NEW x \in Emails \ evicted'
      PROVE  /\ ValueOf(failures, x)' < MaxFailures
             /\ x \notin Keys(locked)' => guesses'[x] = ValueOf(failures, x)'
             /\ x \in Keys(locked)' => guesses'[x] + Cardinality(InFlight(x)')
                                            <= MaxFailures + Cardinality(Attempts) - 1
  <2>1. CASE x # e
    <3>1. InFlight(x)' = InFlight(x)
      BY <1>1, <2>1, LockoutAssumption DEF InFlight, LockTypeOK, NoAttempt
    <3>2. guesses'[x] = guesses[x]
      BY <1>1, <2>1 DEF LockTypeOK
    <3> QED
      BY <1>1, <1>2, <2>1, <3>1, <3>2, OthersAreCounted
  <2>2. CASE x = e /\ e \in Keys(locked)
    <3>1. ValueOf(failures', e) = 0 /\ e \notin Keys(locked')
      BY <1>2, <2>2 DEF ValueOf
    <3>2. guesses'[e] = 0
      BY <1>1, <2>2 DEF LockTypeOK
    <3> QED
      BY <2>2, <3>1, <3>2, LockoutAssumption
  <2>3. CASE x = e /\ e \notin Keys(locked)
    BY <1>1, <1>2, <2>3 DEF LockInv, GuessesAreCounted
  <2> QED
    BY <2>1, <2>2, <2>3
<1> QED
  BY <1>3, <1>4 DEF LockInv, GuessesAreCounted

LEMMA FailureKeepsCount ==
    ASSUME LockInv, NEW a \in Attempts, LoginFails(a) PROVE LockInv'
<1> DEFINE e == attempt[a]
           count == ValueOf(failures, e) + 1
           counted == Put(failures, e, count)
           kept == IF AtLimit(count) THEN Drop(counted, e) ELSE counted
           locks == IF AtLimit(count) THEN Put(locked, e, LockTime) ELSE locked
<1>1. /\ e \in Emails /\ LockTypeOK
      /\ failures' = Fit(kept) /\ locked' = Fit(locks)
      /\ evicted' = evicted \cup (Keys(kept) \ Keys(Fit(kept)))
                            \cup (Keys(locks) \ Keys(Fit(locks)))
      /\ guesses' = [x \in Emails |->
             IF x \in evicted' THEN 0
             ELSE IF x = e /\ guesses[x] < AllGuesses THEN guesses[x] + 1
             ELSE guesses[x]]
      /\ attempt' = [attempt EXCEPT ![a] = NoAttempt]
  BY DEF LoginFails, LockInv, LockTypeOK
<1>2. PICK u \in Emails : u = e
  BY <1>1
<1>3. count \in Nat \ {0} /\ LockTime \in Nat /\ Dict(failures) /\ Dict(locked)
  BY <1>1, ValueType, LockoutAssumption DEF LockTypeOK
<1>4. /\ Dict(counted) /\ ValueOf(counted, e) = count /\ e \in Keys(counted)
      /\ \A x : x # e => ValueOf(counted, x) = ValueOf(failures, x)
  BY <1>1, <1>3, PutRecords
<1> HIDE DEF count, counted
<1>5. /\ Dict(kept) /\ (\A x : x # e => ValueOf(kept, x) = ValueOf(failures, x))
      /\ AtLimit(count) => ValueOf(kept, e) = 0
      /\ ~AtLimit(count) => ValueOf(kept, e) = count
  BY <1>4, DropForgets DEF ValueOf
<1>6. /\ Dict(locks) /\ (\A x : x # e => (x \in Keys(locks) <=> x \in Keys(locked)))
      /\ AtLimit(count) => e \in Keys(locks)
      /\ ~AtLimit(count) => locks = locked
  BY <1>1, <1>3, PutRecords
<1> HIDE DEF kept, locks
<1>7. /\ Dict(failures') /\ Dict(locked')
      /\ \A x : x \notin evicted' =>
            /\ ValueOf(failures', x) = ValueOf(kept, x)
            /\ x \in Keys(locked') <=> x \in Keys(locks)
  BY <1>1, <1>5, <1>6, FitKeepsOthers
<1>8. /\ attempt' \in [Attempts -> Emails \cup {NoAttempt}]
      /\ Cardinality(InFlight(u)') = Cardinality(InFlight(u)) - 1
      /\ Cardinality(InFlight(u)') <= Cardinality(Attempts) - 1
      /\ \A x \in Emails : x # u => InFlight(x)' = InFlight(x)
  BY <1>1, <1>2, FewerInFlight
<1>9. LockTypeOK'
  <2>1. guesses' \in [Emails -> Nat]
    BY <1>1 DEF LockTypeOK
  <2> QED
    BY <1>7, <1>8, <2>1 DEF LockTypeOK
<1>10. ASSUME NEW x \in Emails \ evicted'
       PROVE  /\ ValueOf(failures, x)' < MaxFailures
              /\ x \notin Keys(locked)' => guesses'[x] = ValueOf(failures, x)'
              /\ x \in Keys(locked)' => guesses'[x] + Cardinality(InFlight(x)')
                                             <= MaxFailures + Cardinality(Attempts) - 1
  <2>0. x \in Emails \ evicted
    BY <1>1
  <2>1. CASE x # u
    <3>1. guesses'[x] = guesses[x]
      BY <1>1, <1>2, <2>1
    <3> QED
      BY <1>2, <1>5, <1>6, <1>7, <1>8, <2>0, <2>1, <3>1, OthersAreCounted
  <2>2. CASE x = u
    <3>1. /\ ValueOf(failures, u) < MaxFailures
          /\ u \notin Keys(locked) => guesses[u] = ValueOf(failures, u)
          /\ u \in Keys(locked) => guesses[u] + Cardinality(InFlight(u))
                                        <= MaxFailures + Cardinality(Attempts) - 1
      BY <2>0, <2>2 DEF LockInv, GuessesAreCounted
    <3>2. /\ guesses[u] \in Nat /\ ValueOf(failures, u) \in Nat
          /\ Cardinality(InFlight(u)) \in Nat /\ Cardinality(Attempts) \in Nat
          /\ MaxFailures \in Nat \ {0} /\ Cardinality(InFlight(u)') \in Int
          /\ count = ValueOf(failures, u) + 1
      BY <1>1, <1>2, <1>3, <1>8, ValueType, InFlightType, LockoutAssumption DEF LockTypeOK, count
    <3>3. guesses[u] < MaxFailures + Cardinality(Attempts)
      BY <3>1, <3>2
    <3>4. guesses'[u] = guesses[u] + 1
      BY <1>1, <1>2, <2>2, <3>3 DEF AllGuesses
    <3>5. CASE AtLimit(count)
      <4>1. u \in Keys(locked') /\ ValueOf(failures', u) = 0
        BY <1>2, <1>5, <1>6, <1>7, <2>2, <3>5
      <4>2. guesses'[u] + Cardinality(InFlight(u)') <= MaxFailures + Cardinality(Attempts) - 1
        <5>1. CASE u \in Keys(locked)
          BY <1>8, <3>1, <3>2, <3>4, <5>1
        <5>2. CASE u \notin Keys(locked)
          BY <1>8, <3>1, <3>2, <3>4, <5>2
        <5> QED
          BY <5>1, <5>2
      <4> QED
        BY <2>2, <3>2, <4>1, <4>2
    <3>6. CASE ~AtLimit(count)
      <4>1. /\ ValueOf(failures', u) = count
            /\ u \in Keys(locked') <=> u \in Keys(locked)
            /\ count < MaxFailures
        BY <1>2, <1>5, <1>6, <1>7, <2>2, <3>2, <3>6 DEF AtLimit
      <4> QED
        BY <1>8, <2>2, <3>1, <3>2, <3>4, <4>1
    <3> QED
      BY <3>5, <3>6
  <2> QED
    BY <2>1, <2>2
<1> QED
  BY <1>9, <1>10 DEF LockInv, GuessesAreCounted

LEMMA SuccessKeepsCount ==
    ASSUME LockInv, NEW a \in Attempts, LoginSucceeds(a) PROVE LockInv'
<1>1. PICK e \in Emails : e = attempt[a]
  BY DEF LoginSucceeds, LockInv, LockTypeOK
<1>2. /\ failures' = Drop(failures, e) /\ locked' = Drop(locked, e)
      /\ guesses' = [guesses EXCEPT ![e] = 0] /\ evicted' = evicted
      /\ attempt' = [attempt EXCEPT ![a] = NoAttempt] /\ LockTypeOK
  BY <1>1 DEF LoginSucceeds, LockInv
<1>3. /\ Dict(locked') /\ Keys(locked') = Keys(locked) \ {e}
      /\ Dict(failures') /\ Keys(failures') = Keys(failures) \ {e}
      /\ \A x : x # e => ValueOf(failures', x) = ValueOf(failures, x)
  BY <1>2, DropForgets DEF LockTypeOK
<1>4. /\ attempt' \in [Attempts -> Emails \cup {NoAttempt}]
      /\ \A x \in Emails : x # e => InFlight(x)' = InFlight(x)
  BY <1>1, <1>2, FewerInFlight
<1>5. LockTypeOK'
  BY <1>2, <1>3, <1>4 DEF LockTypeOK
<1>6. ASSUME NEW x \in Emails \ evicted'
      PROVE  /\ ValueOf(failures, x)' < MaxFailures
             /\ x \notin Keys(locked)' => guesses'[x] = ValueOf(failures, x)'
             /\ x \in Keys(locked)' => guesses'[x] + Cardinality(InFlight(x)')
                                            <= MaxFailures + Cardinality(Attempts) - 1
  <2>1. CASE x # e
    <3>1. guesses'[x] = guesses[x]
      BY <1>2, <2>1 DEF LockTypeOK
    <3> QED
      BY <1>2, <1>3, <1>4, <2>1, <3>1, OthersAreCounted
  <2>2. CASE x = e
    <3>1. ValueOf(failures', e) = 0 /\ e \notin Keys(locked')
      BY <1>3 DEF ValueOf
    <3>2. guesses'[e] = 0
      BY <1>2 DEF LockTypeOK
    <3> QED
      BY <2>2, <3>1, <3>2, LockoutAssumption
  <2> QED
    BY <2>1, <2>2
<1> QED
  BY <1>5, <1>6 DEF LockInv, GuessesAreCounted

LEMMA DeathKeepsCount ==
    ASSUME LockInv, NEW a \in Attempts, LoginDies(a) PROVE LockInv'
<1>1. PICK e \in Emails : e = attempt[a]
  BY DEF LoginDies, LockInv, LockTypeOK
<1>2. /\ UNCHANGED <<failures, locked, guesses, evicted>> /\ LockTypeOK
      /\ attempt' = [attempt EXCEPT ![a] = NoAttempt]
  BY DEF LoginDies, LockInv
<1>3. /\ attempt' \in [Attempts -> Emails \cup {NoAttempt}]
      /\ Cardinality(InFlight(e)') = Cardinality(InFlight(e)) - 1
      /\ \A x \in Emails : x # e => InFlight(x)' = InFlight(x)
  BY <1>1, <1>2, FewerInFlight
<1>4. LockTypeOK'
  BY <1>2, <1>3 DEF LockTypeOK
<1>5. ASSUME NEW x \in Emails \ evicted'
      PROVE  /\ ValueOf(failures, x)' < MaxFailures
             /\ x \notin Keys(locked)' => guesses'[x] = ValueOf(failures, x)'
             /\ x \in Keys(locked)' => guesses'[x] + Cardinality(InFlight(x)')
                                            <= MaxFailures + Cardinality(Attempts) - 1
  <2>1. CASE x # e
    BY <1>2, <1>3, <2>1, OthersAreCounted
  <2>2. CASE x = e
    <3>1. /\ ValueOf(failures, e) < MaxFailures
          /\ e \notin Keys(locked) => guesses[e] = ValueOf(failures, e)
          /\ e \in Keys(locked) => guesses[e] + Cardinality(InFlight(e))
                                        <= MaxFailures + Cardinality(Attempts) - 1
      BY <1>2, <2>2 DEF LockInv, GuessesAreCounted
    <3>2. /\ guesses[e] \in Nat /\ Cardinality(InFlight(e)) \in Nat
          /\ Cardinality(Attempts) \in Nat /\ MaxFailures \in Nat
      BY <1>2, InFlightType, LockoutAssumption DEF LockTypeOK
    <3> QED
      BY <1>2, <1>3, <2>2, <3>1, <3>2
  <2> QED
    BY <2>1, <2>2
<1> QED
  BY <1>4, <1>5 DEF LockInv, GuessesAreCounted

LEMMA TickKeepsCount == LockInv /\ LockTick => LockInv'
<1> SUFFICES ASSUME LockInv, LockTick PROVE LockInv'
  OBVIOUS
<1>1. /\ UNCHANGED <<failures, attempt, guesses, evicted>> /\ LockTypeOK /\ Dict(locked)
      /\ locked' = [i \in DOMAIN locked |->
                       [locked[i] EXCEPT !.val = IF @ > 0 THEN @ - 1 ELSE 0]]
  BY DEF LockTick, LockInv, LockTypeOK
<1>2. ASSUME NEW i \in DOMAIN locked
      PROVE  locked'[i] \in DictItems /\ locked'[i].key = locked[i].key
  <2>1. locked[i] \in DictItems
    BY <1>1, DictType
  <2>2. locked'[i] = [locked[i] EXCEPT !.val = IF locked[i].val > 0 THEN locked[i].val - 1 ELSE 0]
    BY <1>1
  <2> QED
    BY <2>1, <2>2 DEF DictItems
<1>3. DOMAIN locked' = DOMAIN locked /\ locked' \in [1..Len(locked) -> DictItems] /\ Len(locked) \in Nat
  BY <1>1, <1>2, DictType
<1>4. Dict(locked')
  <2>1. locked' \in Seq(DictItems)
    BY <1>3, SeqDef
  <2> QED
    BY <1>1, <1>2, <1>3, <2>1 DEF Dict
<1>5. Keys(locked') = Keys(locked)
  BY <1>2, <1>3 DEF Keys
<1>6. \A x : InFlight(x)' = InFlight(x)
  BY <1>1 DEF InFlight
<1> QED
  BY <1>1, <1>4, <1>5, <1>6 DEF LockInv, LockTypeOK, GuessesAreCounted

LEMMA InitLock == LockInit => LockInv
<1> SUFFICES ASSUME LockInit PROVE LockInv
  OBVIOUS
<1>1. <<>> \in Seq(DictItems) /\ DOMAIN <<>> = {}
  BY EmptySeq
<1>2. Dict(<<>>) /\ Keys(<<>>) = {}
  BY <1>1 DEF Dict, Keys
<1>3. \A x : ValueOf(<<>>, x) = 0
  BY <1>2 DEF ValueOf
<1>4. LockTypeOK
  BY <1>2 DEF LockInit, LockTypeOK
<1> QED
  BY <1>2, <1>3, <1>4, LockoutAssumption DEF LockInit, LockInv, GuessesAreCounted

LEMMA NextLock == LockInv /\ [LockNext]_lockvars => LockInv'
<1> SUFFICES ASSUME LockInv, [LockNext]_lockvars PROVE LockInv'
  OBVIOUS
<1>1. ASSUME NEW a \in Attempts, NEW e \in Emails, AdmitLogin(a, e) PROVE LockInv'
  BY <1>1, AdmitKeepsCount
<1>2. ASSUME NEW a \in Attempts, LoginFails(a) PROVE LockInv'
  BY <1>2, FailureKeepsCount
<1>3. ASSUME NEW a \in Attempts, LoginSucceeds(a) PROVE LockInv'
  BY <1>3, SuccessKeepsCount
<1>4. ASSUME NEW a \in Attempts, LoginDies(a) PROVE LockInv'
  BY <1>4, DeathKeepsCount
<1>5. CASE LockTick
  BY <1>5, TickKeepsCount
<1>6. CASE UNCHANGED lockvars
  BY <1>6 DEF lockvars, LockInv, LockTypeOK, GuessesAreCounted, InFlight
<1> QED
  BY <1>1, <1>2, <1>3, <1>4, <1>5, <1>6 DEF LockNext

LEMMA CountedHolds == LockInv => LockoutHolds
<1> SUFFICES ASSUME LockInv, NEW e \in Emails \ evicted
             PROVE  /\ guesses[e] <= MaxFailures + Cardinality(Attempts) - 1
                    /\ guesses[e] >= MaxFailures => e \in Keys(locked)
  BY DEF LockoutHolds
<1>1. /\ guesses[e] \in Nat /\ Cardinality(InFlight(e)) \in Nat
      /\ Cardinality(Attempts) \in Nat /\ MaxFailures \in Nat /\ ValueOf(failures, e) \in Nat
  BY InFlightType, ValueType, LockoutAssumption DEF LockInv, LockTypeOK
<1>2. /\ ValueOf(failures, e) < MaxFailures
      /\ e \notin Keys(locked) => guesses[e] = ValueOf(failures, e)
      /\ e \in Keys(locked) => guesses[e] + Cardinality(InFlight(e))
                                    <= MaxFailures + Cardinality(Attempts) - 1
  BY DEF LockInv, GuessesAreCounted
<1> QED
  BY <1>1, <1>2

\* With any number of addresses and logins at once, and dictionaries of any size:
\* an address that was never evicted gets the allowed failures, and no more than
\* the other logins already past the look at the lock (is_locked, record_failure
\* and record_success in app/core/login_lockout.py).
THEOREM LockoutsHold == LockSpec => []LockoutHolds
  BY InitLock, NextLock, CountedHolds, PTL DEF LockSpec

----------------------------------------------------------------------------
(***************************************************************************)
(* Coverage: any techniques, rules and exclusions.  A rule or a platform more*)
(* leaves the other rules alone and takes no technique out of scope (Grows),*)
(* and the state of a technique only rises with the rules that hit it.     *)
(***************************************************************************)
CovTypeOK ==
    /\ rule \in [RuleRows -> Rules \cup {NoRule}]
    /\ inventory \in SUBSET Platforms

\* No rule is lost, and no technique leaves the scope.
Grows ==
    /\ UNCHANGED <<exclusion, gated, policy>>
    /\ \A r \in RuleRows : rule[r] # NoRule => rule'[r] = rule[r]
    /\ \A t \in Techniques : NotApplicable(t)' => NotApplicable(t)

\* The states, from the least to the best.
LEMMA StatesAreOrdered ==
    ASSUME NEW t
    PROVE  /\ DirectState(t) \in {"not_covered", "partial", "covered"}
           /\ DirectState(t)' \in {"not_covered", "partial", "covered"}
           /\ StateOf(t) \in {"not_applicable", "not_covered", "partial", "covered"}
           /\ StateOf(t)' \in {"not_applicable", "not_covered", "partial", "covered"}
<1>1. /\ DirectState(t) \in {"not_covered", "partial", "covered"}
      /\ DirectState(t)' \in {"not_covered", "partial", "covered"}
  BY DEF DirectState
<1> QED
  BY <1>1 DEF StateOf, OwnState

LEMMA InitCovType == CovInit => CovTypeOK
  BY DEF CovInit, CovTypeOK

LEMMA NextCovType == CovTypeOK /\ [CovNext]_covvars => CovTypeOK'
  BY DEF CovTypeOK, CovNext, covvars, AddRule, RemoveRule, DeclarePlatform

\* A larger inventory puts no technique out of scope once platforms are filtered.
LEMMA PlatformsGrow ==
    ASSUME CovTypeOK, NEW p \in Platforms, DeclarePlatform(p), inventory # {} PROVE Grows
<1>1. UNCHANGED <<rule, exclusion, gated, policy>> /\ inventory' = inventory \cup {p}
  BY DEF DeclarePlatform
<1>2. ASSUME NEW t \in Techniques, PlatformOut(t)' PROVE PlatformOut(t)
  <2>1. Present(t) \subseteq Present(t)'
    BY <1>1 DEF Present, PlatformFiltering
  <2>2. DomainOut(t)' = DomainOut(t)
    BY <1>1 DEF DomainOut
  <2> QED
    BY <1>1, <1>2, <2>1, <2>2 DEF PlatformOut, AllGone
<1>3. \A t \in Techniques : NotApplicable(t)' => NotApplicable(t)
  BY <1>1, <1>2 DEF NotApplicable, DomainOut
<1> QED
  BY <1>1, <1>3 DEF Grows

LEMMA RulesGrow ==
    ASSUME CovTypeOK, NEW r \in RuleRows, NEW new \in Rules, AddRule(r, new) PROVE Grows
<1>1. UNCHANGED <<inventory, exclusion, gated, policy>>
  BY DEF AddRule
<1>2. \A q \in RuleRows : rule[q] # NoRule => rule'[q] = rule[q]
  BY DEF AddRule, CovTypeOK
<1>3. \A t \in Techniques : NotApplicable(t)' => NotApplicable(t)
  BY <1>1 DEF NotApplicable, DomainOut, PlatformOut, Present, PlatformFiltering, AllGone
<1> QED
  BY <1>1, <1>2, <1>3 DEF Grows

\* More of both never makes a state worse: it is covered by the same rules, its
\* parent by the same sub-techniques.
LEMMA StatesGrow ==
    ASSUME Grows, NEW t \in Register PROVE Order[StateOf(t)] <= Order[StateOf(t)']
<1>1. ASSUME NEW s \in Register
      PROVE  /\ Hits(s) \subseteq Hits(s)'
             /\ \A r \in Hits(s) : rule'[r] = rule[r] /\ (Counts(r) => Counts(r)')
             /\ NotApplicable(s)' => NotApplicable(s)
  BY DEF Grows, Hits, Counts, Register
<1>2. ASSUME NEW s \in Register
      PROVE  /\ DirectState(s) = "covered" => DirectState(s)' = "covered"
             /\ DirectState(s) = "partial" => DirectState(s)' \in {"partial", "covered"}
  BY <1>1 DEF DirectState
<1>3. ASSUME NEW s \in Register
      PROVE  /\ OwnState(s) = "covered" => OwnState(s)' = "covered"
             /\ OwnState(s) = "partial" => OwnState(s)' \in {"partial", "covered"}
             /\ OwnState(s) = "not_covered" => OwnState(s)' # "not_applicable"
  BY <1>1, <1>2, StatesAreOrdered DEF OwnState
<1>4. CoveredSub(t) => CoveredSub(t)'
  BY <1>3 DEF CoveredSub
<1>5. /\ StateOf(t) = "covered" => StateOf(t)' = "covered"
      /\ StateOf(t) = "partial" => StateOf(t)' \in {"partial", "covered"}
      /\ StateOf(t) = "not_covered" => StateOf(t)' \in {"not_covered", "partial", "covered"}
  BY <1>3, <1>4, StatesAreOrdered DEF StateOf, OwnState
<1>6. /\ Order["not_applicable"] = 0 /\ Order["not_covered"] = 1
      /\ Order["partial"] = 2 /\ Order["covered"] = 3
      /\ DOMAIN Order = {"not_applicable", "not_covered", "partial", "covered"}
  BY DEF Order
<1> QED
  BY <1>5, <1>6, StatesAreOrdered

\* Whatever the register, the rules and the environment: one more rule, or one more
\* platform after the first, never lowers the state of a technique
\* (compute_coverage and compute_applicability).
THEOREM MoreRulesNeverHurt == CovSpec => MoreIsNeverWorse
<1> DEFINE NotWorse == Added => \A t \in Register : Order[StateOf(t)] <= Order[StateOf(t)']
<1>1. CovTypeOK /\ [CovNext]_covvars => [NotWorse]_covvars
  <2> SUFFICES ASSUME CovTypeOK, CovNext, Added, NEW t \in Register
               PROVE  Order[StateOf(t)] <= Order[StateOf(t)']
    OBVIOUS
  <2>1. CASE \E r \in RuleRows, new \in Rules : AddRule(r, new)
    BY <2>1, RulesGrow, StatesGrow
  <2>2. CASE \E p \in Platforms : DeclarePlatform(p)
    <3>1. inventory # {}
      BY <2>2 DEF Added, DeclarePlatform
    <3> QED
      BY <2>2, <3>1, PlatformsGrow, StatesGrow
  <2>3. CASE \E r \in RuleRows : RemoveRule(r)
    BY <2>3 DEF RemoveRule, Added, CovTypeOK
  <2> QED
    BY <2>1, <2>2, <2>3 DEF CovNext
<1> QED
  BY InitCovType, NextCovType, <1>1, PTL DEF CovSpec, MoreIsNeverWorse

----------------------------------------------------------------------------
(***************************************************************************)
(* Roadmap: any categories and tactics.  What a gap is short of only shrinks*)
(* as sources are usable, and the order of the sort is an order            *)
(* (BeforeIsAnOrder), so that a source never moves a gap back.             *)
(***************************************************************************)
RoadTypeOK == source \in Seq(Sources)

Short(g) == \E c \in Chosen(g) : \E i \in Onboarded(g, c) : source[i].healthy
Mid(g) == \/ Chosen(g) # {}
          \/ \E c \in Needed(g), idp \in BOOLEAN : <<c, idp>> \in tooling /\ Sees(idp, c, g)

\* A gap is nearer if it stays short and stays closable.
LEMMA NearerBucket ==
    ASSUME NEW g, Short(g) => Short(g)', Mid(g) => Short(g)' \/ Mid(g)'
    PROVE  Nearness[Bucket(g)] <= Nearness[Bucket(g)']
<1>1. /\ Bucket(g) = IF Short(g) THEN "short" ELSE IF Mid(g) THEN "mid" ELSE "long"
      /\ Bucket(g)' = IF Short(g)' THEN "short" ELSE IF Mid(g)' THEN "mid" ELSE "long"
  BY DEF Bucket, Short, Mid
<1>2. Nearness["short"] = 2 /\ Nearness["mid"] = 1 /\ Nearness["long"] = 0
  BY DEF Nearness
<1> QED
  BY <1>1, <1>2

LEMMA InitRoadType == RoadInit => RoadTypeOK
  BY EmptySeq DEF RoadInit, RoadTypeOK

LEMMA HealthType ==
    ASSUME RoadTypeOK, NEW i \in DOMAIN source, ChangeHealth(i)
    PROVE  /\ RoadTypeOK' /\ DOMAIN source' = DOMAIN source /\ Len(source') = Len(source)
           /\ \A j \in DOMAIN source : /\ source'[j].category = source[j].category
                                       /\ source'[j].idp = source[j].idp
                                       /\ j # i => source'[j] = source[j]
           /\ source'[i].healthy = ~source[i].healthy
<1>1. /\ DOMAIN source = 1..Len(source) /\ Len(source) \in Nat
      /\ \A j \in 1..Len(source) : source[j] \in Sources
  BY LenProperties, ElementOfSeq DEF RoadTypeOK
<1>2. source' = [source EXCEPT ![i].healthy = ~source[i].healthy]
  BY DEF ChangeHealth
<1>3. source[i] \in Sources
  BY <1>1
<1>4. source'[i] = [source[i] EXCEPT !.healthy = ~source[i].healthy]
  BY <1>1, <1>2
<1>5. /\ source'[i].category = source[i].category /\ source'[i].idp = source[i].idp
      /\ source'[i].healthy = ~source[i].healthy
      /\ source'[i] \in Sources
  BY <1>3, <1>4 DEF Sources
<1>6. \A j \in DOMAIN source : j # i => source'[j] = source[j]
  BY <1>2
<1>7. source' \in [1..Len(source) -> Sources]
  BY <1>1, <1>2, <1>5, <1>6
<1>8. source' \in Seq(Sources) /\ Len(source') = Len(source)
  BY <1>1, <1>7, SeqDef, LenProperties
<1> QED
  BY <1>1, <1>5, <1>6, <1>7, <1>8 DEF RoadTypeOK

LEMMA NextRoadType == RoadTypeOK /\ [RoadNext]_roadvars => RoadTypeOK'
<1> SUFFICES ASSUME RoadTypeOK, [RoadNext]_roadvars PROVE RoadTypeOK'
  OBVIOUS
<1>1. CASE \E s \in Sources : AddSource(s)
  BY <1>1, AppendProperties DEF AddSource, RoadTypeOK
<1>2. CASE \E i \in DOMAIN source : ChangeHealth(i)
  BY <1>2, HealthType
<1>3. CASE RemoveSource
  BY <1>3, HeadTailProperties DEF RemoveSource, RoadTypeOK
<1>4. CASE \E c \in Categories, idp \in BOOLEAN : AddTool(c, idp)
  BY <1>4 DEF AddTool, RoadTypeOK
<1>5. CASE UNCHANGED roadvars
  BY <1>5 DEF roadvars, RoadTypeOK
<1> QED
  BY <1>1, <1>2, <1>3, <1>4, <1>5 DEF RoadNext

----------------------------------------------------------------------------
\* The order of a gap's categories is strict.
LEMMA RanksAreNumbers ==
    ASSUME NEW g \in Gaps, NEW c \in Needed(g)
    PROVE  HowOften(g, c) \in Nat /\ FirstSeen(g, c) \in Nat
<1> DEFINE I == {i \in DOMAIN Wants[g] : Wants[g][i] = c}
<1>1. Wants[g] \in Seq(Categories) /\ DOMAIN Wants[g] = 1..Len(Wants[g]) /\ Len(Wants[g]) \in Nat
  <2> DEFINE w == Wants[g]
  <2>1. w \in Seq(Categories)
    BY RoadmapAssumption DEF Gaps
  <2> HIDE DEF w
  <2>2. DOMAIN w = 1..Len(w) /\ Len(w) \in Nat
    BY <2>1, LenProperties
  <2> QED
    BY <2>1, <2>2 DEF w
<1>2. IsFiniteSet(1..Len(Wants[g])) /\ I \subseteq 1..Len(Wants[g])
  <2> DEFINE n == Len(Wants[g])
  <2>1. I \subseteq 1..n
    BY <1>1
  <2>2. n \in Int
    BY <1>1
  <2> HIDE DEF I, n
  <2>3. 1 \in Int
    OBVIOUS
  <2>4. IsFiniteSet(1..n)
    BY <2>2, <2>3, FS_Interval
  <2> QED
    BY <2>1, <2>4 DEF n
<1>3. Cardinality(I) \in Nat
  BY <1>2, FS_Subset, FS_CardinalityType
<1>4. I \subseteq Nat /\ I # {}
  BY <1>1 DEF Needed
<1>5. PICK k \in I : \A j \in I : <<j, k>> \notin OpToRel(<, Nat)
  BY <1>4, WFMin, NatLessThanWellFounded, Zenon
<1>6. \A j \in I : ~(j < k)
  BY <1>4, <1>5, Zenon DEF OpToRel
<1>7. k \in DOMAIN Wants[g] /\ Wants[g][k] = c /\ \A j \in 1..(k - 1) : Wants[g][j] # c
  <2>1. k \in 1..Len(Wants[g]) /\ Wants[g][k] = c
    BY <1>1
  <2>2. \A j \in 1..(k - 1) : j \in 1..Len(Wants[g]) /\ j < k
    BY <1>1, <2>1
  <2> QED
    BY <1>1, <1>6, <2>1, <2>2
<1>8. FirstSeen(g, c) \in DOMAIN Wants[g]
  BY <1>7 DEF FirstSeen
<1> QED
  BY <1>1, <1>3, <1>8 DEF HowOften

LEMMA BeforeIsAnOrder ==
    ASSUME NEW g \in Gaps, NEW c \in Needed(g), NEW d \in Needed(g), NEW e \in Needed(g)
    PROVE  ~Before(g, c, c) /\ (Before(g, c, d) /\ Before(g, d, e) => Before(g, c, e))
  BY RanksAreNumbers DEF Before

----------------------------------------------------------------------------
(* The steps that better the telemetry *)

\* The same rows, none of them in worse health, and no fewer tools.
LEMMA SameRowsAreNearer ==
    ASSUME DOMAIN source' = DOMAIN source, tooling \subseteq tooling',
           \A i \in DOMAIN source : /\ source'[i].category = source[i].category
                                    /\ source'[i].idp = source[i].idp
                                    /\ source[i].healthy => source'[i].healthy,
           NEW g \in Gaps
    PROVE  Nearness[Bucket(g)] <= Nearness[Bucket(g)']
<1>1. \A c : Onboarded(g, c)' = Onboarded(g, c)
  BY DEF Onboarded
<1>2. Chosen(g)' = Chosen(g)
  BY <1>1 DEF Chosen, Usable
<1>3. Short(g) => Short(g)'
  BY <1>1, <1>2 DEF Short, Onboarded
<1>4. Mid(g) => Mid(g)'
  BY <1>2 DEF Mid
<1> QED
  BY <1>3, <1>4, NearerBucket

\* One healthy row more: what it makes usable comes before what was chosen, and
\* then is itself chosen, or leaves the choice as it was.
LEMMA HealthyRowIsNearer ==
    ASSUME RoadTypeOK, NEW s \in Sources, AddSource(s), s.healthy, NEW g \in Gaps
    PROVE  Nearness[Bucket(g)] <= Nearness[Bucket(g)']
<1> DEFINE n == Len(source) + 1
           k == s.category
<1>1. /\ DOMAIN source = 1..Len(source) /\ DOMAIN source' = 1..n /\ Len(source) \in Nat
      /\ source'[n] = s /\ \A i \in 1..Len(source) : source'[i] = source[i]
      /\ tooling' = tooling
  BY AppendProperties, LenProperties DEF AddSource, RoadTypeOK
<1>2. \A c : Onboarded(g, c) \subseteq Onboarded(g, c)'
  BY <1>1 DEF Onboarded
<1>3. \A c : c # k \/ ~Sees(s.idp, k, g) => Onboarded(g, c)' = Onboarded(g, c)
  BY <1>1 DEF Onboarded
<1>4. Sees(s.idp, k, g) => n \in Onboarded(g, k)'
  BY <1>1 DEF Onboarded
<1>5. \A c : \A i \in Onboarded(g, c) : source[i].healthy => source'[i].healthy
  BY <1>1 DEF Onboarded
<1>6. \A c \in Chosen(g) : c \in Chosen(g)' \/ Short(g)'
  <2> SUFFICES ASSUME NEW c \in Chosen(g), c \notin Chosen(g)' PROVE Short(g)'
    OBVIOUS
  <2>1. c \in Needed(g) /\ Usable(g, c) /\ \A d \in Needed(g) : Before(g, d, c) => ~Usable(g, d)
    BY DEF Chosen
  <2>2. Usable(g, c)'
    BY <1>2, <2>1 DEF Usable
  <2>3. PICK d \in Needed(g) : Before(g, d, c) /\ Usable(g, d)'
    BY <2>1, <2>2 DEF Chosen, Needed, Before, HowOften, FirstSeen
  <2>4. d = k /\ Sees(s.idp, k, g)
    BY <1>3, <2>1, <2>3 DEF Usable
  <2>5. ASSUME NEW e \in Needed(g), Before(g, e, k) PROVE ~Usable(g, e)'
    <3>1. e # k /\ Before(g, e, c)
      BY <2>1, <2>3, <2>4, <2>5, BeforeIsAnOrder
    <3> QED
      BY <1>3, <2>1, <3>1 DEF Usable
  <2>6. k \in Chosen(g)'
    BY <2>3, <2>4, <2>5 DEF Chosen, Needed, Before, HowOften, FirstSeen
  <2>7. source'[n].healthy
    BY <1>1
  <2> QED
    BY <1>4, <2>4, <2>6, <2>7 DEF Short
<1>7. Short(g) => Short(g)'
  BY <1>2, <1>5, <1>6 DEF Short
<1>8. Mid(g) => Short(g)' \/ Mid(g)'
  BY <1>1, <1>6 DEF Mid
<1> QED
  BY <1>7, <1>8, NearerBucket

LEMMA AnotherNumber ==
    ASSUME NEW n \in Nat PROVE n + 1 # n /\ n - 1 # n /\ n - 1 # n + 1
  OBVIOUS

LEMMA BetterStepIsNearer ==
    ASSUME RoadTypeOK, RoadNext, Better, NEW g \in Gaps
    PROVE  Nearness[Bucket(g)] <= Nearness[Bucket(g)']
<1>0. Len(source) \in Nat /\ DOMAIN source = 1..Len(source)
  BY LenProperties DEF RoadTypeOK
<1>1. ASSUME NEW s \in Sources, AddSource(s) PROVE Nearness[Bucket(g)] <= Nearness[Bucket(g)']
  <2>1. Len(source') = Len(source) + 1 /\ source'[Len(source')] = s
    BY <1>1, AppendProperties DEF AddSource, RoadTypeOK
  <2>2. Len(source') # Len(source)
    BY <1>0, <2>1, AnotherNumber
  <2>3. source'[Len(source')].healthy
    BY <2>2 DEF Better
  <2>4. s.healthy
    BY <2>1, <2>3
  <2> QED
    BY <1>1, <2>4, HealthyRowIsNearer
<1>2. ASSUME NEW i \in DOMAIN source, ChangeHealth(i)
      PROVE  Nearness[Bucket(g)] <= Nearness[Bucket(g)']
  <2>1. \A j \in DOMAIN source : source[j].healthy => source'[j].healthy
    BY <1>0, <1>2, HealthType DEF Better
  <2>2. tooling' = tooling
    BY <1>2 DEF ChangeHealth
  <2> QED
    BY <1>2, <2>1, <2>2, HealthType, SameRowsAreNearer
<1>3. CASE RemoveSource
  <2>1. Len(source') = Len(source) - 1
    BY <1>3, HeadTailProperties DEF RemoveSource, RoadTypeOK
  <2>2. Len(source') # Len(source) + 1 /\ Len(source') # Len(source)
    BY <1>0, <2>1, AnotherNumber
  <2> QED
    BY <2>2 DEF Better
<1>4. ASSUME NEW c \in Categories, NEW idp \in BOOLEAN, AddTool(c, idp)
      PROVE  Nearness[Bucket(g)] <= Nearness[Bucket(g)']
  BY <1>4, SameRowsAreNearer DEF AddTool
<1> QED
  BY <1>1, <1>2, <1>3, <1>4 DEF RoadNext

\* Whatever the gaps want and the sheets hold: a healthy source more, a repair or a
\* tool never moves a gap further away (_feasibility in app/mitre/ranking.py).
THEOREM BetterIsNearer == RoadSpec => BetterTelemetryNeverHurts
<1> DEFINE Nearer == Better => \A g \in Gaps : Nearness[Bucket(g)] <= Nearness[Bucket(g)']
<1>1. RoadTypeOK /\ [RoadNext]_roadvars => [Nearer]_roadvars
  BY BetterStepIsNearer
<1> QED
  BY InitRoadType, NextRoadType, <1>1, PTL DEF RoadSpec, BetterTelemetryNeverHurts

----------------------------------------------------------------------------
(***************************************************************************)
(* Scan importer: any findings and severities.  What is ahead of a finding in*)
(* the report has a smaller rank (RankRises), so that no two findings share a*)
(* rank and a chain's renumbered steps are the findings it was drawn from. *)
(***************************************************************************)
ScanTypeOK ==
    /\ entry \in [Positions -> Severities \cup {0}]
    /\ base \in {0, 1}
    /\ \A i \in DOMAIN steps : steps[i] \in Int

\* What was imported is the import of the file, which stays as it is.
Imported ==
    shown.done =>
        /\ shown.findings = [i \in 1..Cardinality(Displayed) |-> AtRank(i)]
        /\ Displayed # {} => shown.steps = [i \in DOMAIN steps |-> Remapped(Step(i))]

ScanInv == ScanTypeOK /\ Imported

LEMMA InitScan == ScanInit => ScanInv
<1> SUFFICES ASSUME ScanInit PROVE ScanInv
  OBVIOUS
<1>1. base \in {0, 1} /\ entry \in [Positions -> Severities \cup {0}]
  BY DEF ScanInit
<1>2. PICK n \in 0..MaxSteps : steps \in [1..n -> {NotANumber} \cup 0..Entries]
  BY DEF ScanInit
<1>3. \A i \in DOMAIN steps : steps[i] \in Int
  BY <1>2, ScanAssumption DEF NotANumber
<1>4. Imported
  BY DEF ScanInit, NotImported, Imported
<1> QED
  BY <1>1, <1>3, <1>4 DEF ScanInv, ScanTypeOK

LEMMA NextScan == ScanInv /\ [ScanNext]_scanvars => ScanInv'
<1> SUFFICES ASSUME ScanInv, [ScanNext]_scanvars PROVE ScanInv'
  OBVIOUS
<1>1. UNCHANGED <<entry, base, steps>>
  BY DEF ScanNext, Import, scanvars
<1>2. ScanTypeOK'
  BY <1>1 DEF ScanInv, ScanTypeOK, Positions
<1>3. Imported'
  <2>1. /\ Displayed' = Displayed /\ (\A i : AtRank(i)' = AtRank(i))
        /\ (\A s : Remapped(s)' = Remapped(s)) /\ (\A i : Step(i)' = Step(i))
    BY <1>1 DEF Displayed, AtRank, Remapped, Kept, Rank, Ahead, Pos, Offset, Step, Positions
  <2>2. CASE Import
    <3>1. shown' = [findings |-> [i \in 1..Cardinality(Displayed) |-> AtRank(i)],
                    steps |-> [i \in DOMAIN steps |->
                                  IF Displayed = {} THEN Step(i) ELSE Remapped(Step(i))],
                    done |-> TRUE]
      BY <2>2 DEF Import
    <3>2. Displayed # {} => shown'.steps = [i \in DOMAIN steps |-> Remapped(Step(i))]
      BY <3>1
    <3> QED
      BY <1>1, <2>1, <3>1, <3>2 DEF Imported
  <2>3. CASE UNCHANGED scanvars
    BY <1>1, <2>1, <2>3 DEF scanvars, ScanInv, Imported
  <2> QED
    BY <2>2, <2>3 DEF ScanNext
<1> QED
  BY <1>2, <1>3 DEF ScanInv

----------------------------------------------------------------------------
(* The display order *)

LEMMA KeptIsOrdered ==
    ASSUME ScanTypeOK
    PROVE  /\ IsFiniteSet(Kept) /\ Kept \subseteq Int
           /\ \A p, q \in Kept : p = q \/ Ahead(p, q) \/ Ahead(q, p)
           /\ \A p \in Kept : ~Ahead(p, p)
           /\ \A p, q, r \in Kept : Ahead(p, q) /\ Ahead(q, r) => Ahead(p, r)
<1>1. IsFiniteSet(Positions) /\ Positions \subseteq Int
  <2>1. 0 \in Int /\ Entries - 1 \in Int
    BY ScanAssumption
  <2> QED
    BY <2>1, FS_Interval DEF Positions
<1>2. Kept \subseteq Positions
  BY DEF Kept
<1>3. IsFiniteSet(Kept)
  BY <1>1, <1>2, FS_Subset
<1>4. \A p \in Kept : p \in Int /\ entry[p] \in Int
  <2> TAKE p \in Kept
  <2>1. p \in Positions /\ p \in Int
    BY <1>1, <1>2
  <2>2. entry[p] \in Severities \cup {0}
    BY <2>1 DEF ScanTypeOK
  <2>3. \A s \in Severities \cup {0} : s \in Int
    BY ScanAssumption
  <2>4. entry[p] \in Int
    BY <2>2, <2>3
  <2> QED
    BY <2>1, <2>4
<1>5. ASSUME NEW p \in Kept, NEW q \in Kept PROVE p = q \/ Ahead(p, q) \/ Ahead(q, p)
  BY <1>4 DEF Ahead
<1>6. ASSUME NEW p \in Kept PROVE ~Ahead(p, p)
  BY <1>4 DEF Ahead
<1>7. ASSUME NEW p \in Kept, NEW q \in Kept, NEW r \in Kept, Ahead(p, q), Ahead(q, r)
      PROVE  Ahead(p, r)
  BY <1>4, <1>7 DEF Ahead
<1>8. Kept \subseteq Int
  BY <1>4
<1> QED
  BY <1>3, <1>5, <1>6, <1>7, <1>8

\* What is ahead has a smaller rank, so no two findings have one rank.
LEMMA RankRises ==
    ASSUME ScanTypeOK, NEW p \in Kept, NEW q \in Kept, Ahead(q, p)
    PROVE  Rank(q) < Rank(p)
<1> DEFINE S == {x \in Kept : Ahead(x, q)}
           T == {x \in Kept : Ahead(x, p)}
<1>1. q \in T /\ S \subseteq T \ {q}
  <2>1. ~Ahead(q, q)
    BY KeptIsOrdered
  <2>2. ASSUME NEW x \in Kept, Ahead(x, q) PROVE Ahead(x, p)
    BY <2>2, KeptIsOrdered
  <2> QED
    BY <2>1, <2>2
<1>2. IsFiniteSet(T)
  BY KeptIsOrdered, FS_Subset
<1>3. IsFiniteSet(T \ {q}) /\ Cardinality(T \ {q}) = Cardinality(T) - 1
  BY <1>1, <1>2, FS_RemoveElement
<1>4. Cardinality(S) <= Cardinality(T \ {q}) /\ IsFiniteSet(S)
  BY <1>1, <1>3, FS_Subset
<1>5. Cardinality(S) \in Nat /\ Cardinality(T) \in Nat
  BY <1>2, <1>4, FS_CardinalityType
<1>6. Rank(q) = Cardinality(S) + 1 /\ Rank(p) = Cardinality(T) + 1
  BY DEF Rank
<1> HIDE DEF S, T
<1> QED
  BY <1>3, <1>4, <1>5, <1>6

LEMMA RankType ==
    ASSUME ScanTypeOK, NEW p \in Kept PROVE Rank(p) \in Nat \ {0}
<1> DEFINE T == {x \in Kept : Ahead(x, p)}
<1>1. IsFiniteSet(T)
  BY KeptIsOrdered, FS_Subset
<1>2. Cardinality(T) \in Nat
  BY <1>1, FS_CardinalityType
<1>3. Rank(p) = Cardinality(T) + 1
  BY DEF Rank
<1> QED
  BY <1>2, <1>3

LEMMA RankNames ==
    ASSUME ScanTypeOK, NEW p \in Kept PROVE AtRank(Rank(p)) = p
<1>1. \A q \in Kept : Rank(q) = Rank(p) => q = p
  <2> SUFFICES ASSUME NEW q \in Kept, Rank(q) = Rank(p), q # p PROVE FALSE
    OBVIOUS
  <2>1. Rank(q) < Rank(p) \/ Rank(p) < Rank(q)
    BY KeptIsOrdered, RankRises
  <2>2. Rank(p) \in Nat /\ Rank(q) \in Nat
    BY RankType
  <2> QED
    BY <2>1, <2>2
<1> QED
  BY <1>1 DEF AtRank

\* The displayed findings are the first ones: a rank is one of their number.
LEMMA RankIsDisplayed ==
    ASSUME ScanTypeOK, NEW p \in Displayed PROVE Rank(p) \in 1..Cardinality(Displayed)
<1> DEFINE T == {x \in Kept : Ahead(x, p)}
<1>1. p \in Kept /\ Rank(p) <= MaxFindings
  BY DEF Displayed
<1>2. T \subseteq Displayed \ {p}
  <2> SUFFICES ASSUME NEW q \in Kept, Ahead(q, p) PROVE q \in Displayed /\ q # p
    OBVIOUS
  <2>1. Rank(q) < Rank(p) /\ Rank(q) \in Nat /\ Rank(p) \in Nat
    BY <1>1, RankRises, RankType
  <2> QED
    BY <1>1, <2>1, ScanAssumption DEF Displayed
<1>3. IsFiniteSet(Displayed)
  BY KeptIsOrdered, FS_Subset DEF Displayed
<1>4. IsFiniteSet(Displayed \ {p}) /\ Cardinality(Displayed \ {p}) = Cardinality(Displayed) - 1
  BY <1>3, FS_RemoveElement
<1>5. Cardinality(T) <= Cardinality(Displayed \ {p})
  BY <1>2, <1>4, FS_Subset
<1>6. Rank(p) = Cardinality(T) + 1 /\ Rank(p) \in Nat \ {0}
  BY <1>1, RankType DEF Rank
<1>7. Cardinality(Displayed) \in Nat /\ Cardinality(T) \in Nat
  BY <1>2, <1>3, FS_CardinalityType, FS_Subset
<1> HIDE DEF T
<1> QED
  BY <1>4, <1>5, <1>6, <1>7

LEMMA OffsetIsNear ==
    ASSUME ScanTypeOK PROVE base - Offset \in -1..1 /\ (BaseShows => base - Offset = 0)
<1>1. (\E i \in DOMAIN steps : Step(i) = 0) <=> \E i \in DOMAIN steps : steps[i] \in {0, NotANumber}
  BY DEF Step
<1> QED
  BY <1>1 DEF Offset, BaseShows, ScanTypeOK

\* Whatever the offset is taken to be, a step shows the position it then means.
LEMMA StepShows ==
    ASSUME ScanInv, shown.done, NEW i \in DOMAIN steps, steps[i] # NotANumber
    PROVE  Shows(i, steps[i] - Offset)
<1> DEFINE meant == steps[i] - Offset
<1> SUFFICES ASSUME meant \in Displayed
             PROVE  /\ shown.steps[i] \in DOMAIN shown.findings
                    /\ shown.findings[shown.steps[i]] = meant
  BY DEF Shows
<1>1. ScanTypeOK /\ meant \in Kept
  BY DEF ScanInv, Displayed
<1>2. /\ shown.findings = [j \in 1..Cardinality(Displayed) |-> AtRank(j)]
      /\ shown.steps[i] = Remapped(steps[i])
  BY DEF ScanInv, Imported, Step
<1>3. Remapped(steps[i]) = Rank(meant)
  BY DEF Remapped, Pos
<1>4. Rank(meant) \in 1..Cardinality(Displayed) /\ AtRank(Rank(meant)) = meant
  BY <1>1, RankIsDisplayed, RankNames
<1> QED
  BY <1>2, <1>3, <1>4

LEMMA ImportFollows == ScanInv => ChainsFollowFindings
<1> SUFFICES ASSUME ScanInv, shown.done
             PROVE  \E off \in -1..1 :
                        /\ BaseShows => off = 0
                        /\ \A i \in DOMAIN steps :
                               steps[i] # NotANumber => Shows(i, steps[i] - base + off)
  BY DEF ChainsFollowFindings
<1> DEFINE off == base - Offset
<1>1. ScanTypeOK
  BY DEF ScanInv
<1>2. off \in -1..1 /\ (BaseShows => off = 0)
  BY <1>1, OffsetIsNear
<1>3. ASSUME NEW i \in DOMAIN steps, steps[i] # NotANumber
      PROVE  Shows(i, steps[i] - base + off)
  <2>1. steps[i] \in Int /\ base \in Int /\ Offset \in Int
    BY <1>1, ScanAssumption DEF ScanTypeOK, Offset, NotANumber
  <2>2. steps[i] - base + off = steps[i] - Offset
    BY <2>1
  <2> QED
    BY <1>3, <2>2, StepShows
<1> HIDE DEF off
<1> QED
  BY <1>2, <1>3

\* Any file, with any number of malformed entries, severities and cut-off: the
\* steps that are numbers show the displayed findings the scanner meant, or all
\* those one place off, and the former where the scanner's base shows
\* (_from_findings_json, _map_chains, _finalize).
THEOREM StepsFollowFindings == ScanSpec => []ChainsFollowFindings
  BY InitScan, NextScan, ImportFollows, PTL DEF ScanSpec

----------------------------------------------------------------------------
(***************************************************************************)
(* Pull of SIEM rules: any rules, page size and limits.  Unless a rule was *)
(* deleted meanwhile, what stayed and is not pulled yet lies ahead of the  *)
(* offset (RestIsAhead); unless one was added, what is pulled lies behind it*)
(* (PulledIsBehind).                                                       *)
(***************************************************************************)
PullTypeOK ==
    /\ platform \in {"splunk", "sentinel"}
    /\ listed \in SUBSET SiemRules
    /\ pull \in [pc : {"token", "page", "inventory", "done", "failed"}, got : Seq(SiemRules),
                 offset : Nat, pages : Nat, attempt : Nat, cut : BOOLEAN]
    /\ unsized \in BOOLEAN

Paging == pull.pc \in {"token", "page"}

\* Without deletions, what is not pulled yet of the rules that stayed lies ahead.
RestIsAhead ==
    (Paging /\ removed = {}) =>
        \A x \in listed \ added : x \in ToSet(pull.got) \/ Position(x) > pull.offset

\* Without additions, what was pulled and is still listed lies behind.
PulledIsBehind ==
    added = {} =>
        /\ IsInjective(pull.got)
        /\ Paging => \A x \in listed : x \in ToSet(pull.got) => Position(x) <= pull.offset

PulledInFull ==
    pull.pc \in {"inventory", "done"} =>
        pull.cut \/ unsized \/ removed # {} \/ listed \ added \subseteq ToSet(pull.got)

PullInv == PullTypeOK /\ RestIsAhead /\ PulledIsBehind /\ PulledInFull

----------------------------------------------------------------------------
(* Sequences *)

LEMMA ConcatHolds ==
    ASSUME NEW S, NEW p \in Seq(S), NEW q \in Seq(S)
    PROVE  /\ p \o q \in Seq(S) /\ Len(p \o q) = Len(p) + Len(q)
           /\ ToSet(p \o q) = ToSet(p) \cup ToSet(q)
           /\ IsInjective(p) /\ IsInjective(q) /\ ToSet(p) \cap ToSet(q) = {}
                  => IsInjective(p \o q)
<1> DEFINE r == p \o q
           m == Len(p)
           n == Len(q)
<1>1. /\ m \in Nat /\ n \in Nat /\ DOMAIN p = 1..m /\ DOMAIN q = 1..n
      /\ r \in Seq(S) /\ Len(r) = m + n
      /\ \A i \in 1..(m + n) : r[i] = IF i <= m THEN p[i] ELSE q[i - m]
  BY ConcatProperties, LenProperties
<1>2. DOMAIN r = 1..(m + n)
  BY <1>1, LenProperties
<1> HIDE DEF r, m, n
<1>3. \A i \in 1..(m + n) : \/ i \in 1..m /\ r[i] = p[i]
                            \/ i > m /\ i - m \in 1..n /\ r[i] = q[i - m]
  BY <1>1
<1>4. \A i \in 1..m : i \in 1..(m + n) /\ r[i] = p[i]
  BY <1>1
<1>5. \A i \in 1..n : i + m \in 1..(m + n) /\ r[i + m] = q[i]
  <2> TAKE i \in 1..n
  <2>1. i + m \in 1..(m + n) /\ ~(i + m <= m) /\ (i + m) - m = i
    BY <1>1
  <2> QED
    BY <1>1, <2>1
<1>6. ToSet(r) = ToSet(p) \cup ToSet(q)
  <2>1. ToSet(r) \subseteq ToSet(p) \cup ToSet(q)
    BY <1>1, <1>2, <1>3 DEF ToSet
  <2>2. ToSet(p) \subseteq ToSet(r)
    BY <1>1, <1>2, <1>4 DEF ToSet
  <2>3. ToSet(q) \subseteq ToSet(r)
    BY <1>1, <1>2, <1>5 DEF ToSet
  <2> QED
    BY <2>1, <2>2, <2>3
<1>7. ASSUME IsInjective(p), IsInjective(q), ToSet(p) \cap ToSet(q) = {} PROVE IsInjective(r)
  <2> SUFFICES ASSUME NEW i \in 1..(m + n), NEW j \in 1..(m + n), r[i] = r[j] PROVE i = j
    BY <1>2 DEF IsInjective
  <2>1. \A k \in 1..m : p[k] \in ToSet(p)
    BY <1>1 DEF ToSet
  <2>2. \A k \in 1..n : q[k] \in ToSet(q)
    BY <1>1 DEF ToSet
  <2>3. CASE i \in 1..m /\ r[i] = p[i] /\ j \in 1..m /\ r[j] = p[j]
    BY <1>1, <1>7, <2>3 DEF IsInjective
  <2>4. CASE i > m /\ i - m \in 1..n /\ r[i] = q[i - m]
             /\ j > m /\ j - m \in 1..n /\ r[j] = q[j - m]
    <3>1. i - m = j - m
      BY <1>1, <1>7, <2>4 DEF IsInjective
    <3> QED
      BY <1>1, <3>1
  <2> QED
    BY <1>3, <1>7, <2>1, <2>2, <2>3, <2>4
<1> QED
  BY <1>1, <1>6, <1>7 DEF r, m, n

LEMMA PrefixHolds ==
    ASSUME NEW S, NEW q \in Seq(S), NEW k \in Nat, k <= Len(q)
    PROVE  /\ SubSeq(q, 1, k) \in Seq(S) /\ ToSet(SubSeq(q, 1, k)) \subseteq ToSet(q)
           /\ IsInjective(q) => IsInjective(SubSeq(q, 1, k))
<1> DEFINE r == SubSeq(q, 1, k)
<1>1. Len(q) \in Nat /\ DOMAIN q = 1..Len(q) /\ \A i \in 1..Len(q) : q[i] \in S
  BY LenProperties, ElementOfSeq
<1>2. \A i \in 1..k : i \in 1..Len(q)
  BY <1>1
<1>3. \A i \in 1..k : q[i] \in S
  BY <1>1, <1>2
<1>4. /\ r \in Seq(S) /\ Len(r) = (IF 1 <= k THEN k - 1 + 1 ELSE 0)
      /\ \A i \in 1..(k - 1 + 1) : r[i] = q[1 + i - 1]
  BY <1>3, SubSeqProperties
<1>5. Len(r) = k /\ \A i \in 1..k : r[i] = q[i]
  BY <1>4
<1>6. DOMAIN r = 1..k
  BY <1>4, <1>5, LenProperties
<1> HIDE DEF r
<1>7. ToSet(r) \subseteq ToSet(q)
  BY <1>1, <1>2, <1>5, <1>6 DEF ToSet
<1>8. IsInjective(q) => IsInjective(r)
  BY <1>1, <1>2, <1>5, <1>6 DEF IsInjective
<1> QED
  BY <1>4, <1>7, <1>8 DEF r

----------------------------------------------------------------------------
(* The list of the SIEM *)

LEMMA ListedType ==
    ASSUME PullTypeOK
    PROVE  /\ IsFiniteSet(listed) /\ Cardinality(listed) \in Nat /\ listed \subseteq Nat
           /\ \A x \in listed : Position(x) \in 1..Cardinality(listed)
           /\ \A x, y \in listed : x < y => Position(x) < Position(y)
<1>1. IsFiniteSet(listed) /\ listed \subseteq Nat
  BY PullAssumption, FS_Subset DEF PullTypeOK
<1>2. Cardinality(listed) \in Nat
  BY <1>1, FS_CardinalityType
<1> DEFINE Less(x) == {z \in listed : z < x}
<1>3. \A x \in listed : IsFiniteSet(Less(x)) /\ Cardinality(Less(x)) \in Nat
  <2> TAKE x \in listed
  <2>1. Less(x) \subseteq listed
    OBVIOUS
  <2> QED
    BY <1>1, <2>1, FS_Subset, FS_CardinalityType
<1>4. \A x : Position(x) = Cardinality(Less(x)) + 1
  BY DEF Position
<1>5. ASSUME NEW x \in listed PROVE Position(x) \in 1..Cardinality(listed)
  <2>1. Less(x) \subseteq listed \ {x}
    BY <1>1
  <2>2. IsFiniteSet(listed \ {x}) /\ Cardinality(listed \ {x}) = Cardinality(listed) - 1
    BY <1>1, FS_RemoveElement
  <2>3. Cardinality(Less(x)) <= Cardinality(listed \ {x}) /\ Cardinality(Less(x)) \in Nat
    BY <1>3, <2>1, <2>2, FS_Subset
  <2>4. Position(x) = Cardinality(Less(x)) + 1
    BY <1>4
  <2> DEFINE a == Cardinality(Less(x))
             b == Cardinality(listed \ {x})
             n == Cardinality(listed)
  <2>5. a \in Nat /\ n \in Nat /\ b = n - 1 /\ a <= b /\ Position(x) = a + 1
    BY <1>2, <2>2, <2>3, <2>4
  <2> HIDE DEF Less, a, b, n
  <2>6. Position(x) \in 1..n
    BY <2>5
  <2> QED
    BY <2>6 DEF n
<1>6. ASSUME NEW x \in listed, NEW y \in listed, x < y PROVE Position(x) < Position(y)
  <2>a. listed \subseteq Int /\ x \in Int /\ y \in Int /\ x < y /\ x \in listed
    BY <1>1, <1>6
  <2>b. ASSUME NEW z \in Less(x) PROVE z \in listed /\ z < y /\ z # x
    BY <2>a
  <2>c. \A z \in listed : z < y => z \in Less(y)
    OBVIOUS
  <2>1. Less(x) \subseteq Less(y) \ {x} /\ x \in Less(y)
    <3> HIDE DEF Less
    <3> QED
      BY <2>a, <2>b, <2>c
  <2>2. /\ IsFiniteSet(Less(y)) /\ Cardinality(Less(y)) \in Nat /\ Cardinality(Less(x)) \in Nat
    BY <1>3
  <2> HIDE DEF Less
  <2>3. IsFiniteSet(Less(y) \ {x}) /\ Cardinality(Less(y) \ {x}) = Cardinality(Less(y)) - 1
    BY <2>1, <2>2, FS_RemoveElement
  <2>4. Cardinality(Less(x)) <= Cardinality(Less(y) \ {x})
    BY <2>1, <2>3, FS_Subset
  <2> QED
    BY <1>4, <2>2, <2>3, <2>4
<1> QED
  BY <1>1, <1>2, <1>5, <1>6

\* Every position is taken, by one rule: the listing is the list by position.
LEMMA ListingIsByPosition ==
    ASSUME PullTypeOK
    PROVE  /\ DOMAIN Listing = 1..Cardinality(listed) /\ Len(Listing) = Cardinality(listed)
           /\ \A i \in 1..Cardinality(listed) :
                 Listing[i] \in listed /\ Position(Listing[i]) = i
           /\ \A x \in listed : Listing[Position(x)] = x
<1> DEFINE N == Cardinality(listed)
           f == [x \in listed |-> Position(x)]
           T == {Position(x) : x \in listed}
<1>0. N \in Nat /\ IsFiniteSet(listed) /\ T \subseteq 1..N
  BY ListedType
<1>1. \A x, y \in listed : Position(x) = Position(y) => x = y
  <2> SUFFICES ASSUME NEW x \in listed, NEW y \in listed, Position(x) = Position(y), x # y
               PROVE  FALSE
    OBVIOUS
  <2>1. x \in Nat /\ y \in Nat /\ Position(x) \in Nat
    BY <1>0, ListedType
  <2>2. Position(x) < Position(y) \/ Position(y) < Position(x)
    BY <2>1, ListedType
  <2> QED
    BY <2>1, <2>2
<1>2. f \in Surjection(listed, T)
  BY DEF Surjection
<1>3. f \in Injection(listed, T)
  BY <1>1 DEF Injection, IsInjective
<1>4. Cardinality(T) = N
  BY <1>0, <1>2, <1>3, FS_Surjection
<1>5. IsFiniteSet(1..N) /\ Cardinality(1..N) = N
  BY <1>0, FS_Interval
<1> HIDE DEF T
<1>6. T = 1..N
  BY <1>0, <1>4, <1>5, FS_Subset
<1>7. \A i \in 1..N : \E x \in listed : Position(x) = i
  BY <1>6 DEF T
<1>8. \A i \in 1..N : Listing[i] \in listed /\ Position(Listing[i]) = i
  BY <1>7 DEF Listing
<1>9. \A x \in listed : Listing[Position(x)] = x
  BY <1>0, <1>1, <1>8, ListedType
<1>10. DOMAIN Listing = 1..N
  BY DEF Listing
<1>11. Listing \in Seq(listed) /\ Len(Listing) = N
  <2>1. Listing \in [1..N -> listed]
    BY <1>8, <1>10 DEF Listing
  <2> QED
    BY <1>0, <2>1, SeqDef, LenProperties
<1> QED
  BY <1>8, <1>9, <1>10, <1>11

LEMMA PageIsThere ==
    ASSUME PullTypeOK, NEW n \in Nat, NEW k \in Nat, k + n <= Cardinality(listed) \/ n = 0
    PROVE  /\ SubSeq(Listing, k + 1, k + n) \in Seq(SiemRules)
           /\ Len(SubSeq(Listing, k + 1, k + n)) = n
           /\ IsInjective(SubSeq(Listing, k + 1, k + n))
           /\ ToSet(SubSeq(Listing, k + 1, k + n)) =
                  {x \in listed : Position(x) > k /\ Position(x) <= k + n}
<1> DEFINE N == Cardinality(listed)
           batch == SubSeq(Listing, k + 1, k + n)
<1>1. /\ N \in Nat /\ listed \subseteq SiemRules
      /\ \A i \in 1..N : Listing[i] \in listed /\ Position(Listing[i]) = i
      /\ \A x \in listed : Position(x) \in 1..N /\ Listing[Position(x)] = x
  BY ListedType, ListingIsByPosition DEF PullTypeOK
<1> HIDE DEF N
<1>2. k + n <= N \/ n = 0
  BY DEF N
<1>3. \A i \in (k + 1)..(k + n) : i \in 1..N
  BY <1>1, <1>2
<1>4. \A i \in (k + 1)..(k + n) : Listing[i] \in SiemRules
  BY <1>1, <1>3
<1>5. k + 1 \in Int /\ k + n \in Int
  OBVIOUS
<1>6. /\ batch \in Seq(SiemRules)
      /\ Len(batch) = (IF k + 1 <= k + n THEN k + n - (k + 1) + 1 ELSE 0)
      /\ \A i \in 1..(k + n - (k + 1) + 1) : batch[i] = Listing[k + 1 + i - 1]
  BY <1>4, <1>5, SubSeqProperties
<1>7. Len(batch) = n /\ k + n - (k + 1) + 1 = n /\ \A i \in 1..n : k + 1 + i - 1 = k + i
  BY <1>6
<1>8. \A i \in 1..n : batch[i] = Listing[k + i]
  BY <1>6, <1>7
<1>9. DOMAIN batch = 1..n
  BY <1>6, <1>7, LenProperties
<1> HIDE DEF batch
<1>10. \A i \in 1..n : k + i \in 1..N
  BY <1>3
<1>11. \A i \in 1..n : batch[i] \in listed /\ Position(batch[i]) = k + i
  BY <1>1, <1>8, <1>10
<1>12. IsInjective(batch)
  <2> SUFFICES ASSUME NEW i \in 1..n, NEW j \in 1..n, batch[i] = batch[j] PROVE i = j
    BY <1>9 DEF IsInjective
  <2>1. k + i = k + j
    BY <1>11
  <2> QED
    BY <2>1
<1>13. \A x \in ToSet(batch) : x \in listed /\ Position(x) > k /\ Position(x) <= k + n
  <2>1. \A i \in 1..n : k + i > k /\ k + i <= k + n
    OBVIOUS
  <2> QED
    BY <1>9, <1>11, <2>1 DEF ToSet
<1>14. ASSUME NEW x \in listed, Position(x) > k, Position(x) <= k + n PROVE x \in ToSet(batch)
  <2>1. Position(x) \in 1..N /\ Listing[Position(x)] = x
    BY <1>1
  <2>2. Position(x) - k \in 1..n /\ k + (Position(x) - k) = Position(x)
    BY <1>1, <1>14, <2>1
  <2>3. batch[Position(x) - k] = x
    BY <1>8, <2>1, <2>2
  <2> QED
    BY <1>9, <2>2, <2>3 DEF ToSet
<1> QED
  BY <1>6, <1>7, <1>12, <1>13, <1>14 DEF batch

----------------------------------------------------------------------------
(* The actions *)

LEMMA InitPull == PullInit => PullInv
<1> SUFFICES ASSUME PullInit PROVE PullInv
  OBVIOUS
<1>1. /\ platform \in {"splunk", "sentinel"} /\ listed \in SUBSET SiemRules
      /\ pull = [pc |-> IF platform = "splunk" THEN "page" ELSE "token",
                 got |-> <<>>, offset |-> 0, pages |-> 0, attempt |-> 1, cut |-> FALSE]
      /\ added = {} /\ removed = {} /\ unsized = FALSE
  BY DEF PullInit
<1>2. <<>> \in Seq(SiemRules) /\ DOMAIN <<>> = {}
  BY EmptySeq
<1>3. ToSet(<<>>) = {} /\ IsInjective(<<>>)
  BY <1>2 DEF ToSet, IsInjective
<1>4. PullTypeOK
  BY <1>1, <1>2 DEF PullTypeOK
<1>5. pull.got = <<>> /\ pull.offset = 0 /\ pull.pc \in {"token", "page"}
  BY <1>1
<1>6. \A x \in listed : Position(x) > 0
  BY <1>4, ListedType
<1> QED
  BY <1>3, <1>4, <1>5, <1>6 DEF PullInv, RestIsAhead, PulledIsBehind, PulledInFull

\* A step that goes on with what was pulled, or gives up.
LEMMA AsideKeepsPull ==
    ASSUME PullInv, UNCHANGED <<platform, listed, added, removed, unsized>>,
           PullTypeOK', pull'.got = pull.got, pull'.offset = pull.offset,
           pull'.pc \in {"token", "page"} => Paging,
           pull'.pc \in {"inventory", "done"} =>
               pull'.cut \/ (pull.pc \in {"inventory", "done"} /\ pull'.cut = pull.cut)
    PROVE  PullInv'
<1>1. \A x : Position(x)' = Position(x)
  BY DEF Position
<1>2. RestIsAhead'
  BY <1>1 DEF PullInv, RestIsAhead, Paging
<1>3. PulledIsBehind'
  BY <1>1 DEF PullInv, PulledIsBehind, Paging
<1>4. PulledInFull'
  BY DEF PullInv, PulledInFull
<1> QED
  BY <1>2, <1>3, <1>4 DEF PullInv

LEMMA PullFields ==
    ASSUME PullTypeOK
    PROVE  /\ pull.pc \in {"token", "page", "inventory", "done", "failed"}
           /\ pull.got \in Seq(SiemRules) /\ pull.offset \in Nat /\ pull.pages \in Nat
           /\ pull.attempt \in Nat /\ pull.cut \in BOOLEAN
  BY DEF PullTypeOK

LEMMA RetryKeepsPull == PullInv /\ (Retry \/ PullFails \/ GetToken) => PullInv'
<1> SUFFICES ASSUME PullInv, Retry \/ PullFails \/ GetToken PROVE PullInv'
  OBVIOUS
<1>1. UNCHANGED <<platform, listed, added, removed, unsized>> /\ PullTypeOK
  BY DEF PullInv, Retry, PullFails, GetToken
<1>2. /\ PullTypeOK' /\ pull'.got = pull.got /\ pull'.offset = pull.offset
      /\ pull'.cut = pull.cut
      /\ pull'.pc \in {"token", "page"} => pull.pc \in {"token", "page"}
      /\ pull'.pc \in {"inventory", "done"} => pull'.pc = pull.pc
  <2>1. CASE Retry
    <3>1. pull' = [pull EXCEPT !.attempt = pull.attempt + 1]
      BY <2>1 DEF Retry
    <3> QED
      BY <1>1, <3>1 DEF PullTypeOK
  <2>2. CASE PullFails
    <3>1. pull' = [pull EXCEPT !.pc = "failed"]
      BY <2>2 DEF PullFails
    <3> QED
      BY <1>1, <3>1 DEF PullTypeOK
  <2>3. CASE GetToken
    <3>1. pull.pc = "token" /\ pull' = [pull EXCEPT !.pc = "page", !.attempt = 1]
      BY <2>3 DEF GetToken
    <3> QED
      BY <1>1, <3>1 DEF PullTypeOK
  <2> QED
    BY <2>1, <2>2, <2>3
<1> QED
  BY <1>1, <1>2, AsideKeepsPull DEF Paging

LEMMA InventoryKeepsPull == PullInv /\ (TooManyPages \/ Inventory) => PullInv'
<1> SUFFICES ASSUME PullInv, TooManyPages \/ Inventory PROVE PullInv'
  OBVIOUS
<1>1. UNCHANGED <<platform, listed, added, removed, unsized>> /\ PullTypeOK
  BY DEF PullInv, TooManyPages, Inventory
<1>2. /\ PullTypeOK' /\ pull'.got = pull.got /\ pull'.offset = pull.offset
      /\ pull'.pc \notin {"token", "page"}
      /\ pull'.cut = TRUE \/ (pull.pc = "inventory" /\ pull'.cut = pull.cut)
  BY <1>1 DEF PullTypeOK, TooManyPages, AfterPages, Inventory
<1> QED
  BY <1>1, <1>2, AsideKeepsPull

LEMMA SaveKeepsPull ==
    ASSUME PullInv, NEW z \in SiemRules, SaveRule(z) PROVE PullInv'
<1>1. /\ UNCHANGED <<platform, pull, removed, unsized>> /\ PullTypeOK
      /\ listed' = listed \cup {z} /\ added' = added \cup {z}
  BY DEF PullInv, SaveRule
<1>2. PullTypeOK'
  BY <1>1 DEF PullTypeOK
<1>3. ASSUME NEW x \in listed, Position(x) > pull.offset PROVE Position(x)' > pull.offset
  <2> DEFINE S == {y \in listed : y < x}
             T == {y \in listed' : y < x}
  <2>1. S \subseteq T /\ T \subseteq listed'
    BY <1>1
  <2>2. IsFiniteSet(listed')
    <3>1. PullTypeOK' => IsFiniteSet(listed')
      BY PullAssumption, FS_Subset DEF PullTypeOK
    <3> QED
      BY <1>2, <3>1
  <2>3. IsFiniteSet(T) /\ Cardinality(T) \in Nat
    BY <2>1, <2>2, FS_Subset, FS_CardinalityType
  <2>4. Cardinality(S) <= Cardinality(T) /\ IsFiniteSet(S)
    BY <2>1, <2>3, FS_Subset
  <2>5. Cardinality(S) \in Nat
    BY <2>4, FS_CardinalityType
  <2>6. Position(x) = Cardinality(S) + 1 /\ Position(x)' = Cardinality(T) + 1
    BY DEF Position
  <2>7. pull.offset \in Nat
    BY <1>1, PullFields
  <2> HIDE DEF S, T
  <2> QED
    BY <1>3, <2>3, <2>4, <2>5, <2>6, <2>7
<1>4. RestIsAhead'
  BY <1>1, <1>3 DEF PullInv, RestIsAhead, Paging
<1>5. PulledIsBehind' /\ PulledInFull'
  BY <1>1 DEF PullInv, PulledIsBehind, PulledInFull
<1> QED
  BY <1>2, <1>4, <1>5 DEF PullInv

LEMMA DeleteKeepsPull ==
    ASSUME PullInv, NEW z \in SiemRules, DeleteRule(z) PROVE PullInv'
<1>1. /\ UNCHANGED <<platform, pull, added, unsized>> /\ PullTypeOK
      /\ listed' = listed \ {z} /\ removed' = removed \cup {z}
  BY DEF PullInv, DeleteRule
<1>2. PullTypeOK'
  BY <1>1 DEF PullTypeOK
<1>3. ASSUME NEW x \in listed', Position(x) <= pull.offset PROVE Position(x)' <= pull.offset
  <2> DEFINE S == {y \in listed : y < x}
             T == {y \in listed' : y < x}
  <2>1. T \subseteq S /\ S \subseteq listed
    BY <1>1
  <2>2. IsFiniteSet(S) /\ Cardinality(S) \in Nat
    BY <1>1, <2>1, ListedType, FS_Subset, FS_CardinalityType
  <2>3. Cardinality(T) <= Cardinality(S) /\ IsFiniteSet(T)
    BY <2>1, <2>2, FS_Subset
  <2>4. Cardinality(T) \in Nat
    BY <2>3, FS_CardinalityType
  <2>5. Position(x) = Cardinality(S) + 1 /\ Position(x)' = Cardinality(T) + 1
    BY DEF Position
  <2>6. pull.offset \in Nat
    BY <1>1, PullFields
  <2> HIDE DEF S, T
  <2> QED
    BY <1>3, <2>2, <2>3, <2>4, <2>5, <2>6
<1>4. PulledIsBehind'
  BY <1>1, <1>3 DEF PullInv, PulledIsBehind, Paging
<1>5. RestIsAhead' /\ PulledInFull'
  BY <1>1 DEF PullInv, RestIsAhead, PulledInFull
<1> QED
  BY <1>2, <1>4, <1>5 DEF PullInv

\* A batch takes the rules of the next positions; what it cuts off, it says.
LEMMA PageKeepsPull ==
    ASSUME PullInv, NEW n \in 0..PageSize, NEW sized \in BOOLEAN, GetPage(n, sized)
    PROVE  PullInv'
<1> DEFINE k == pull.offset
           batch == SubSeq(Listing, k + 1, k + n)
           got == pull.got \o batch
           full == Len(got) >= MaxRules
           more == k + Len(batch) < Len(Listing) /\ (platform = "splunk" => batch # <<>> /\ sized)
<1>1. /\ PullTypeOK /\ k \in Nat /\ n \in Nat /\ pull.got \in Seq(SiemRules) /\ pull.pages \in Nat
      /\ MaxRules \in Nat \ {0} /\ PageSize \in Nat
  BY PullFields, PullAssumption DEF PullInv
<1>2. Cardinality(listed) \in Nat /\ Len(Listing) = Cardinality(listed)
      /\ \A x \in listed : Position(x) \in 1..Cardinality(listed)
  BY <1>1, ListedType, ListingIsByPosition
<1>3. /\ pull.pc = "page"
      /\ k + n <= Cardinality(listed) \/ n = 0
      /\ (platform = "splunk" /\ n = 0) => k >= Cardinality(listed)
      /\ pull' = [pull EXCEPT !.got = Capped(got), !.offset = k + Len(batch),
                             !.pages = @ + 1, !.attempt = 1, !.cut = full,
                             !.pc = IF more /\ ~full THEN "page" ELSE AfterPages(got)]
      /\ unsized' = (unsized \/ (platform = "splunk" /\ ~sized))
      /\ UNCHANGED <<platform, listed, added, removed>>
  BY <1>2 DEF GetPage, NextOffset
<1>4. /\ batch \in Seq(SiemRules) /\ Len(batch) = n /\ IsInjective(batch)
      /\ ToSet(batch) = {x \in listed : Position(x) > k /\ Position(x) <= k + n}
  BY <1>1, <1>3, PageIsThere
<1>5. n = 0 \/ batch # <<>>
  BY <1>4, EmptySeq
<1> HIDE DEF batch
<1>6. /\ got \in Seq(SiemRules) /\ ToSet(got) = ToSet(pull.got) \cup ToSet(batch)
      /\ IsInjective(pull.got) /\ ToSet(pull.got) \cap ToSet(batch) = {} => IsInjective(got)
  BY <1>1, <1>4, ConcatHolds
<1>7. Len(got) \in Nat /\ full \in BOOLEAN
  BY <1>6, LenProperties
<1> HIDE DEF got
<1>8. /\ Capped(got) \in Seq(SiemRules) /\ ToSet(Capped(got)) \subseteq ToSet(got)
      /\ IsInjective(got) => IsInjective(Capped(got))
      /\ ~full => Capped(got) = got
  BY <1>1, <1>6, <1>7, PrefixHolds DEF Capped
<1> DEFINE pc == IF more /\ ~full THEN "page" ELSE AfterPages(got)
<1>9. pc \in {"page", "inventory", "done", "failed"}
  BY DEF AfterPages
<1>9a. pc \in {"inventory", "done"} => full \/ ~more
  BY DEF AfterPages
<1>9b. pc = "page" => ~full
  BY DEF AfterPages
<1> HIDE DEF pc, full
<1>10. /\ pull'.pc = pc /\ pull'.got = Capped(got) /\ pull'.offset = k + n
       /\ pull' \in [pc : {"token", "page", "inventory", "done", "failed"}, got : Seq(SiemRules),
                      offset : Nat, pages : Nat, attempt : Nat, cut : BOOLEAN]
       /\ pull'.cut = full
  <2>1. k + Len(batch) = k + n /\ k + n \in Nat /\ pull.pages + 1 \in Nat
    BY <1>1, <1>4
  <2>2. pull' = [pull EXCEPT !.got = Capped(got), !.offset = k + n, !.pages = pull.pages + 1,
                            !.attempt = 1, !.cut = full, !.pc = pc]
    BY <1>3, <2>1 DEF pc
  <2> QED
    BY <1>1, <1>7, <1>8, <1>9, <2>1, <2>2 DEF PullTypeOK
<1>11. PullTypeOK'
  BY <1>1, <1>3, <1>10 DEF PullTypeOK
<1>12. /\ RestIsAhead => (removed = {} =>
             \A x \in listed \ added : x \in ToSet(pull.got) \/ Position(x) > k)
       /\ \A x \in listed : Position(x)' = Position(x)
  BY <1>3 DEF RestIsAhead, Paging, Position
<1>13. ASSUME removed = {}, NEW x \in listed \ added
       PROVE  x \in ToSet(got) \/ Position(x) > k + n
  <2>1. x \in ToSet(pull.got) \/ Position(x) > k
    BY <1>12, <1>13 DEF PullInv
  <2>2. Position(x) \in Nat
    BY <1>2
  <2> QED
    BY <1>1, <1>4, <1>6, <2>1, <2>2
<1>14. RestIsAhead'
  <2> SUFFICES ASSUME pc \in {"token", "page"}, removed = {}, NEW x \in listed \ added
               PROVE  x \in ToSet(Capped(got)) \/ Position(x) > k + n
    BY <1>3, <1>10, <1>12 DEF RestIsAhead, Paging
  <2>1. Capped(got) = got
    BY <1>8, <1>9, <1>9b
  <2> QED
    BY <1>13, <2>1
<1>15. PulledIsBehind'
  <2> SUFFICES ASSUME added = {}
               PROVE  /\ IsInjective(Capped(got))
                      /\ \A x \in listed : x \in ToSet(Capped(got)) => Position(x) <= k + n
    BY <1>3, <1>10, <1>12 DEF PulledIsBehind
  <2>1. /\ IsInjective(pull.got)
        /\ \A x \in listed : x \in ToSet(pull.got) => Position(x) <= k
    BY <1>3 DEF PullInv, PulledIsBehind, Paging
  <2>2. ToSet(pull.got) \cap ToSet(batch) = {}
    <3> SUFFICES ASSUME NEW x \in ToSet(pull.got), x \in ToSet(batch) PROVE FALSE
      OBVIOUS
    <3>1. x \in listed /\ Position(x) > k /\ Position(x) <= k /\ Position(x) \in Nat
      BY <1>2, <1>4, <2>1
    <3> QED
      BY <1>1, <3>1
  <2>3. ASSUME NEW x \in listed, x \in ToSet(got) PROVE Position(x) <= k + n
    <3>1. Position(x) <= k \/ Position(x) <= k + n
      BY <1>4, <1>6, <2>1, <2>3
    <3>2. Position(x) \in Nat
      BY <1>2
    <3> QED
      BY <1>1, <3>1, <3>2
  <2> QED
    BY <1>6, <1>8, <2>1, <2>2, <2>3
<1>16. PulledInFull'
  <2> SUFFICES ASSUME pc \in {"inventory", "done"}, ~full, ~unsized', removed = {},
                      NEW x \in listed \ added
               PROVE  x \in ToSet(Capped(got))
    BY <1>3, <1>10 DEF PulledInFull
  <2>1. ~more /\ Capped(got) = got
    BY <1>8, <1>9a
  <2>2. k + n >= Cardinality(listed)
    <3>1. platform = "splunk" => sized
      BY <1>3
    <3>2. CASE ~(k + n < Cardinality(listed))
      BY <1>1, <1>2, <3>2
    <3>3. CASE platform = "splunk" /\ batch = <<>>
      BY <1>1, <1>2, <1>3, <1>5, <3>3
    <3> QED
      BY <1>2, <1>4, <2>1, <3>1, <3>2, <3>3
  <2>3. ~(Position(x) > k + n)
    BY <1>1, <1>2, <2>2
  <2> QED
    BY <1>13, <2>1, <2>3
<1> QED
  BY <1>11, <1>14, <1>15, <1>16 DEF PullInv

LEMMA NextPull == PullInv /\ [PullNext]_pullvars => PullInv'
<1> SUFFICES ASSUME PullInv, [PullNext]_pullvars PROVE PullInv'
  OBVIOUS
<1>1. CASE Retry \/ PullFails \/ GetToken
  BY <1>1, RetryKeepsPull
<1>2. CASE TooManyPages \/ Inventory
  BY <1>2, InventoryKeepsPull
<1>3. ASSUME NEW n \in 0..PageSize, NEW sized \in BOOLEAN, GetPage(n, sized) PROVE PullInv'
  BY <1>3, PageKeepsPull
<1>4. ASSUME NEW x \in SiemRules, SaveRule(x) PROVE PullInv'
  BY <1>4, SaveKeepsPull
<1>5. ASSUME NEW x \in SiemRules, DeleteRule(x) PROVE PullInv'
  BY <1>5, DeleteKeepsPull
<1>6. CASE UNCHANGED pullvars
  BY <1>6 DEF pullvars, PullInv, PullTypeOK, RestIsAhead, PulledIsBehind, PulledInFull, Paging,
              Position
<1> QED
  BY <1>1, <1>2, <1>3, <1>4, <1>5, <1>6 DEF PullNext

\* Any list, batch sizes, limits and edits beside it: a pull that ends without a word
\* of a limit has every rule that was there throughout, each once, but for the
\* reasons named (pull in app/mitre/connectors/splunk.py and sentinel.py).
THEOREM PullsAreComplete == PullSpec => [](PullTypeOK /\ PullsMissForAReason)
<1>1. PullInv => PullTypeOK /\ PullsMissForAReason
  BY DEF PullInv, PulledInFull, PulledIsBehind, PullsMissForAReason
<1> QED
  BY InitPull, NextPull, <1>1, PTL DEF PullSpec

----------------------------------------------------------------------------
(***************************************************************************)
(* Merge of findings: any number of findings, however similar.  A root     *)
(* function and a depth witness that the parents are a forest (IsForest):  *)
(* halving changes neither who has which root nor who is a root, and a     *)
(* union moves one tree below another.  Sets that links do not leave are   *)
(* not left by the parents either (LinksCarry), so a tree is one connected *)
(* component.                                                              *)
(***************************************************************************)
IsForest(p, top, depth) ==
    \A i \in Items :
        /\ top[p[i]] = top[i] /\ p[top[i]] = top[i]
        /\ p[i] = i => top[i] = i
        /\ p[i] # i => depth[p[i]] < depth[i]

\* S is left by no parent link, in neither direction.
Keeps(p, S) == \A i \in Items : i \in S <=> p[i] \in S

Walks ==
    {NoWalk} \cup [goal : {"left", "group"}, at : Items]
             \cup [goal : {"right"}, at : Items, left : Items]

MergeTypeOK ==
    /\ author \in [Items -> Reviewers] /\ short \in SUBSET Items /\ alike \in SUBSET Pairs
    /\ parent \in [Items -> Items]
    /\ pair[1] \in Items /\ pair[2] \in Nat /\ pair = <<pair[1], pair[2]>>
    /\ pair[1] < pair[2] /\ (pair[1] < Reports => pair[2] <= Reports)
    /\ walk \in Walks
    /\ group \in Seq(Items) /\ Len(group) <= Reports

\* The loops run one after the other; union is called for comparable pairs only.
InLoops ==
    /\ walk.goal \in {"left", "right"} => pair[1] < Reports /\ Comparable(pair[1], pair[2])
    /\ walk.goal = "group" => pair[1] = Reports /\ Len(group) < Reports
    /\ group # <<>> => pair[1] = Reports

\* Where a find is has the root of where it began.
OnTheWay(top) ==
    /\ walk.goal = "left" => top[walk.at] = top[pair[1]]
    /\ walk.goal = "right" => /\ top[walk.left] = top[pair[1]] /\ parent[walk.left] = walk.left
                              /\ top[walk.at] = top[pair[2]]
    /\ walk.goal = "group" => top[walk.at] = top[Len(group) + 1]

LinksShareRoot(top) == \A q \in Linked : top[q[1]] = top[q[2]]
LinksCarry == \A S \in SUBSET Items : Closed(S) => Keeps(parent, S)
GroupsAreRoots(top) == \A k \in 1..Len(group) : group[k] = top[k]

Rooted(top) == /\ OnTheWay(top) /\ LinksShareRoot(top) /\ GroupsAreRoots(top)

MergeInv ==
    /\ MergeTypeOK /\ InLoops /\ LinksCarry
    /\ \E top \in [Items -> Items], depth \in [Items -> Nat] :
            IsForest(parent, top, depth) /\ Rooted(top)

\* Among findings of any kind one is least deep.
LEMMA LeastDeep ==
    ASSUME NEW depth \in [Items -> Nat], NEW B \in SUBSET Items, B # {}
    PROVE  \E i \in B : \A j \in B : ~(depth[j] < depth[i])
<1> DEFINE D == {depth[i] : i \in B}
<1>1. D \subseteq Nat /\ D # {}
  OBVIOUS
<1>2. PICK n \in D : \A m \in D : <<m, n>> \notin OpToRel(<, Nat)
  BY <1>1, WFMin, NatLessThanWellFounded, Zenon
<1>3. \A m \in D : ~(m < n)
  BY <1>1, <1>2, Zenon DEF OpToRel
<1>4. PICK i \in B : depth[i] = n
  OBVIOUS
<1> QED
  BY <1>3, <1>4

\* In a forest every find ends.
LEMMA ForestsHaveRoots ==
    ASSUME NEW p \in [Items -> Items], NEW top \in [Items -> Items],
           NEW depth \in [Items -> Nat], IsForest(p, top, depth),
           NEW S \in SUBSET Items, S # {}, \A i \in S : p[i] \in S
    PROVE  \E i \in S : p[i] = i
<1>1. PICK i \in S : \A j \in S : ~(depth[j] < depth[i])
  BY LeastDeep
<1> QED
  BY <1>1 DEF IsForest

\* A set the parents do not leave holds a finding if it holds its root.
LEMMA KeptWithRoot ==
    ASSUME NEW p \in [Items -> Items], NEW top \in [Items -> Items],
           NEW depth \in [Items -> Nat], IsForest(p, top, depth),
           NEW S \in SUBSET Items, Keeps(p, S)
    PROVE  \A i \in Items : i \in S <=> top[i] \in S
<1> DEFINE B == {i \in Items : ~(i \in S <=> top[i] \in S)}
<1> SUFFICES ASSUME B # {} PROVE FALSE
  OBVIOUS
<1>1. PICK i \in B : \A j \in B : ~(depth[j] < depth[i])
  BY LeastDeep
<1>2. p[i] # i /\ p[i] \in Items /\ top[p[i]] = top[i] /\ depth[p[i]] < depth[i]
  BY DEF IsForest
<1>3. p[i] \notin B
  BY <1>1, <1>2
<1>4. i \in S <=> p[i] \in S
  BY DEF Keeps
<1> QED
  BY <1>2, <1>3, <1>4

\* Halving a path changes no root and makes nothing deeper than its parent.
LEMMA HalvingKeepsForest ==
    ASSUME NEW p \in [Items -> Items], NEW top \in [Items -> Items],
           NEW depth \in [Items -> Nat], IsForest(p, top, depth),
           NEW i \in Items, p[i] # i,
           NEW q, q = [p EXCEPT ![i] = p[p[i]]]
    PROVE  IsForest(q, top, depth)
<1>1. ASSUME NEW j \in Items
      PROVE  /\ top[q[j]] = top[j] /\ q[top[j]] = top[j]
             /\ q[j] = j => top[j] = j
             /\ q[j] # j => depth[q[j]] < depth[j]
  <2>1. top[j] # i
    BY DEF IsForest
  <2>2. CASE j # i
    BY <2>1, <2>2 DEF IsForest
  <2>3. CASE j = i
    <3>1. p[i] \in Items /\ q[i] = p[p[i]] /\ q[i] \in Items
      OBVIOUS
    <3>2. depth[p[i]] < depth[i]
      BY DEF IsForest
    <3>3. depth[q[i]] < depth[i]
      <4>1. CASE p[p[i]] = p[i]
        BY <3>1, <3>2, <4>1
      <4>2. CASE p[p[i]] # p[i]
        <5>1. depth[p[p[i]]] < depth[p[i]]
          BY <3>1, <4>2 DEF IsForest
        <5> QED
          BY <3>1, <3>2, <5>1
      <4> QED
        BY <4>1, <4>2
    <3>4. q[i] # i
      BY <3>1, <3>3
    <3>5. top[q[i]] = top[i]
      BY <3>1 DEF IsForest
    <3>6. q[top[i]] = top[i]
      BY <2>1, <2>3 DEF IsForest
    <3> QED
      BY <2>3, <3>3, <3>4, <3>5, <3>6
  <2> QED
    BY <2>2, <2>3
<1> QED
  BY <1>1 DEF IsForest

\* Hanging a root below another one moves its tree there.
Moved(top, i, j) == [k \in Items |-> IF top[k] = i THEN j ELSE top[k]]
Deeper(top, depth, i, j) ==
    [k \in Items |-> IF top[k] = i THEN depth[k] + depth[j] + 1 ELSE depth[k]]

LEMMA UnionKeepsForest ==
    ASSUME NEW p \in [Items -> Items], NEW top \in [Items -> Items],
           NEW depth \in [Items -> Nat], IsForest(p, top, depth),
           NEW i \in Items, NEW j \in Items, i # j, p[i] = i, p[j] = j,
           NEW q, q = [p EXCEPT ![i] = j]
    PROVE  /\ Moved(top, i, j) \in [Items -> Items] /\ Deeper(top, depth, i, j) \in [Items -> Nat]
           /\ IsForest(q, Moved(top, i, j), Deeper(top, depth, i, j))
<1> DEFINE t == Moved(top, i, j)
           d == Deeper(top, depth, i, j)
<1>1. t \in [Items -> Items] /\ d \in [Items -> Nat]
  BY DEF Moved, Deeper
<1>2. top[i] = i /\ top[j] = j
  BY DEF IsForest
<1>3. ASSUME NEW k \in Items
      PROVE  /\ t[q[k]] = t[k] /\ q[t[k]] = t[k]
             /\ q[k] = k => t[k] = k
             /\ q[k] # k => d[q[k]] < d[k]
  <2>1. /\ top[p[k]] = top[k] /\ p[top[k]] = top[k] /\ p[k] \in Items /\ top[k] \in Items
        /\ p[k] = k => top[k] = k
        /\ p[k] # k => depth[p[k]] < depth[k]
    BY DEF IsForest
  <2>2. CASE k = i
    <3>1. q[k] = j /\ t[k] = j /\ t[j] = j /\ q[j] = j
      BY <1>2, <2>2 DEF Moved
    <3>2. d[k] = depth[i] + depth[j] + 1 /\ d[j] = depth[j]
      BY <1>2, <2>2 DEF Deeper
    <3> QED
      BY <2>2, <3>1, <3>2
  <2>3. CASE k # i
    <3>1. q[k] = p[k]
      BY <2>3
    <3>2. t[p[k]] = t[k]
      BY <2>1 DEF Moved
    <3>3. q[t[k]] = t[k]
      BY <1>2, <2>1 DEF Moved
    <3>4. p[k] = k => t[k] = k
      BY <2>1, <2>3 DEF Moved
    <3>5. p[k] # k => d[p[k]] < d[k]
      BY <2>1 DEF Deeper
    <3> QED
      BY <3>1, <3>2, <3>3, <3>4, <3>5
  <2> QED
    BY <2>2, <2>3
<1>4. IsForest(q, t, d)
  BY <1>3 DEF IsForest
<1> QED
  BY <1>1, <1>4

LEMMA InitMerge == MergeInit => MergeInv
<1> SUFFICES ASSUME MergeInit PROVE MergeInv
  OBVIOUS
<1> USE MergeAssumption DEF MergeInit
<1>1. MergeTypeOK
  BY DEF MergeTypeOK, Items, Walks
<1>2. InLoops
  BY DEF InLoops, NoWalk
<1>3. LinksCarry
  BY DEF LinksCarry, Keeps
<1> DEFINE top == [i \in Items |-> i]
           depth == [i \in Items |-> 0]
<1>4. top \in [Items -> Items] /\ depth \in [Items -> Nat] /\ IsForest(parent, top, depth)
  BY DEF IsForest
<1>5. Linked = {}
  BY DEF Linked, Pairs, Items
<1>6. Rooted(top)
  BY <1>5 DEF Rooted, OnTheWay, LinksShareRoot, GroupsAreRoots, NoWalk
<1> QED
  BY <1>1, <1>2, <1>3, <1>4, <1>6 DEF MergeInv

\* The pairs the loops leave behind: those before, and the one they were at.
LEMMA OneMorePair ==
    ASSUME MergeTypeOK, pair[1] < Reports, pair' = NextPair,
           UNCHANGED <<author, short, alike>>
    PROVE  /\ pair'[1] \in Items /\ pair'[2] \in Nat /\ pair' = <<pair'[1], pair'[2]>>
           /\ pair'[1] < pair'[2] /\ (pair'[1] < Reports => pair'[2] <= Reports)
           /\ Linked' = Linked \cup {q \in {pair} : Comparable(pair[1], pair[2])}
<1> USE MergeAssumption DEF MergeTypeOK
<1>1. /\ pair'[1] \in Items /\ pair'[2] \in Nat /\ pair' = <<pair'[1], pair'[2]>>
      /\ pair'[1] < pair'[2] /\ (pair'[1] < Reports => pair'[2] <= Reports)
  BY DEF NextPair, Items
<1>2. ASSUME NEW q \in Pairs
      PROVE (q[1] < pair'[1] \/ (q[1] = pair'[1] /\ q[2] < pair'[2]))
            <=> (q[1] < pair[1] \/ (q[1] = pair[1] /\ q[2] < pair[2])) \/ q = pair
  <2>1. q = <<q[1], q[2]>> /\ q[1] \in Items /\ q[2] \in Items /\ q[1] < q[2]
    BY DEF Pairs
  <2>2. q = pair <=> q[1] = pair[1] /\ q[2] = pair[2]
    BY <2>1
  <2>3. pair[1] \in Int /\ pair[2] \in Int /\ q[1] \in 1..Reports /\ q[2] \in 1..Reports
    BY <2>1 DEF Items
  <2>4. CASE pair[2] < Reports
    <3>1. pair'[1] = pair[1] /\ pair'[2] = pair[2] + 1
      BY <2>4 DEF NextPair
    <3> QED
      BY <2>2, <2>3, <3>1
  <2>5. CASE ~(pair[2] < Reports)
    <3>1. pair'[1] = pair[1] + 1 /\ pair'[2] = pair[1] + 2 /\ pair[2] = Reports
      BY <2>3, <2>5 DEF NextPair, Items
    <3> QED
      BY <2>1, <2>2, <2>3, <3>1
  <2> QED
    BY <2>4, <2>5
<1>3. Linked' = {q \in alike : /\ {q[1], q[2]} \cap short = {} /\ author[q[1]] # author[q[2]]
                               /\ q[1] < pair'[1] \/ (q[1] = pair'[1] /\ q[2] < pair'[2])}
  BY DEF Linked
<1>4. pair[2] \in Items
  BY DEF Items
<1>5. pair \in Pairs
  BY <1>4 DEF Pairs
<1>6. Comparable(pair[1], pair[2]) <=>
        {pair[1], pair[2]} \cap short = {} /\ pair \in alike /\ author[pair[1]] # author[pair[2]]
  BY DEF Comparable, Anyone
<1>7. ASSUME NEW q \in alike
      PROVE q \in Linked' <=> (q \in Linked \/ (q = pair /\ Comparable(pair[1], pair[2])))
  <2>1. q \in Pairs
    OBVIOUS
  <2> QED
    BY <1>2, <1>3, <1>6, <2>1 DEF Linked
<1>8. Linked \subseteq alike /\ Linked' \subseteq alike
  BY <1>3 DEF Linked
<1>9. Linked' = Linked \cup {q \in {pair} : Comparable(pair[1], pair[2])}
  BY <1>6, <1>7, <1>8
<1> QED
  BY <1>1, <1>9

LEMMA CompareKeepsMerge == MergeInv /\ ComparePair => MergeInv'
<1> SUFFICES ASSUME MergeInv, ComparePair PROVE MergeInv'
  OBVIOUS
<1> USE MergeAssumption
<1>0. MergeTypeOK /\ InLoops /\ LinksCarry
  BY DEF MergeInv
<1>1. PICK top \in [Items -> Items], depth \in [Items -> Nat] :
            IsForest(parent, top, depth) /\ Rooted(top)
  BY DEF MergeInv
<1>2. walk = NoWalk /\ pair[1] < Reports /\ UNCHANGED <<author, short, alike, parent, group>>
  BY DEF ComparePair
<1>3. IsForest(parent', top, depth)
  BY <1>1, <1>2
<1>4. group = <<>>
  BY <1>0, <1>2 DEF InLoops, MergeTypeOK, Items
<1>5. GroupsAreRoots(top)'
  BY <1>1, <1>2 DEF Rooted, GroupsAreRoots
<1>6. CASE Comparable(pair[1], pair[2])
  <2>1. walk' = [goal |-> "left", at |-> pair[1]] /\ pair' = pair
    BY <1>6 DEF ComparePair
  <2>2. MergeTypeOK'
    BY <1>0, <1>2, <2>1 DEF MergeTypeOK, Walks
  <2>3. InLoops'
    BY <1>2, <1>4, <1>6, <2>1 DEF InLoops, Comparable, Anyone
  <2>4. Linked' = Linked
    BY <1>2, <2>1 DEF Linked
  <2>5. LinksCarry'
    BY <1>0, <1>2, <2>4 DEF LinksCarry, Closed
  <2>6. Rooted(top)'
    BY <1>1, <1>5, <2>1, <2>4 DEF Rooted, OnTheWay, LinksShareRoot
  <2> QED
    BY <1>3, <2>2, <2>3, <2>5, <2>6 DEF MergeInv
<1>7. CASE ~Comparable(pair[1], pair[2])
  <2>1. walk' = NoWalk /\ pair' = NextPair
    BY <1>2, <1>7 DEF ComparePair
  <2>2. Linked' = Linked
    BY <1>0, <1>2, <1>7, <2>1, OneMorePair
  <2>3. MergeTypeOK'
    BY <1>0, <1>2, <2>1, OneMorePair DEF MergeTypeOK, Walks
  <2>4. InLoops'
    BY <1>2, <1>4, <2>1 DEF InLoops, NoWalk
  <2>5. LinksCarry'
    BY <1>0, <1>2, <2>2 DEF LinksCarry, Closed
  <2>6. Rooted(top)'
    BY <1>1, <1>5, <2>1, <2>2 DEF Rooted, OnTheWay, LinksShareRoot, NoWalk
  <2> QED
    BY <1>3, <2>3, <2>4, <2>5, <2>6 DEF MergeInv
<1> QED
  BY <1>6, <1>7

\* Halving reads a link twice and writes it once: who keeps the parents keeps them.
LEMMA HalveKeepsMerge == MergeInv /\ Halve => MergeInv'
<1> SUFFICES ASSUME MergeInv, Halve PROVE MergeInv'
  OBVIOUS
<1>0. MergeTypeOK /\ InLoops /\ LinksCarry
  BY DEF MergeInv
<1>1. PICK top \in [Items -> Items], depth \in [Items -> Nat] :
            IsForest(parent, top, depth) /\ Rooted(top)
  BY DEF MergeInv
<1> DEFINE i == walk.at
           g == parent[parent[i]]
<1>2. walk \in Walks /\ walk # NoWalk /\ parent \in [Items -> Items]
  BY <1>0 DEF Halve, MergeTypeOK
<1>3. i \in Items /\ parent[i] \in Items /\ g \in Items /\ parent[i] # i
  BY <1>2 DEF Walks, Halve
<1>4. parent' = [parent EXCEPT ![i] = g] /\ walk' = [walk EXCEPT !.at = g]
      /\ UNCHANGED <<author, short, alike, pair, group>>
  BY DEF Halve
<1>5. walk' \in Walks /\ walk'.goal = walk.goal /\ walk'.at = g
      /\ (walk.goal = "right" => walk'.left = walk.left)
  BY <1>2, <1>3, <1>4 DEF Walks
<1>6. MergeTypeOK'
  BY <1>0, <1>2, <1>3, <1>4, <1>5 DEF MergeTypeOK
<1>7. InLoops'
  BY <1>0, <1>4, <1>5 DEF InLoops, Comparable, Anyone
<1>8. Linked' = Linked
  BY <1>4 DEF Linked
<1>9. ASSUME NEW S \in SUBSET Items, Keeps(parent, S) PROVE Keeps(parent', S)
  <2>1. i \in S <=> g \in S
    BY <1>3, <1>9 DEF Keeps
  <2> QED
    BY <1>2, <1>3, <1>4, <1>9, <2>1 DEF Keeps
<1>10. LinksCarry'
  BY <1>0, <1>8, <1>9 DEF LinksCarry, Closed
<1>11. IsForest(parent', top, depth)
  BY <1>1, <1>2, <1>3, <1>4, HalvingKeepsForest
<1>12. top[g] = top[i]
  BY <1>1, <1>3 DEF IsForest
<1>13. OnTheWay(top)'
  <2>1. walk.goal = "right" => walk.left \in Items /\ walk.left # i /\ parent[walk.left] = walk.left
    BY <1>1, <1>2, <1>3 DEF Rooted, OnTheWay, Walks
  <2>2. walk.goal = "right" => parent'[walk.left] = walk.left
    BY <1>2, <1>4, <2>1
  <2> QED
    BY <1>1, <1>4, <1>5, <1>12, <2>1, <2>2 DEF Rooted, OnTheWay
<1>14. Rooted(top)'
  BY <1>1, <1>4, <1>8, <1>13 DEF Rooted, LinksShareRoot, GroupsAreRoots
<1> QED
  BY <1>6, <1>7, <1>10, <1>11, <1>14 DEF MergeInv

LEMMA LeftKeepsMerge == MergeInv /\ LeftFound => MergeInv'
<1> SUFFICES ASSUME MergeInv, LeftFound PROVE MergeInv'
  OBVIOUS
<1>0. MergeTypeOK /\ InLoops /\ LinksCarry
  BY DEF MergeInv
<1>1. PICK top \in [Items -> Items], depth \in [Items -> Nat] :
            IsForest(parent, top, depth) /\ Rooted(top)
  BY DEF MergeInv
<1>2. walk.goal = "left" /\ parent[walk.at] = walk.at
      /\ walk' = [goal |-> "right", at |-> pair[2], left |-> walk.at]
      /\ UNCHANGED <<author, short, alike, parent, pair, group>>
  BY DEF LeftFound, AtRoot
<1>3. walk.at \in Items /\ pair[2] \in Items
  BY <1>0, <1>2, MergeAssumption DEF MergeTypeOK, InLoops, Walks, NoWalk, Items
<1>4. MergeTypeOK'
  BY <1>0, <1>2, <1>3 DEF MergeTypeOK, Walks
<1>5. InLoops'
  BY <1>0, <1>2 DEF InLoops, Comparable, Anyone
<1>6. Linked' = Linked
  BY <1>2 DEF Linked
<1>7. LinksCarry'
  BY <1>0, <1>2, <1>6 DEF LinksCarry, Closed
<1>8. Rooted(top)'
  BY <1>1, <1>2, <1>6 DEF Rooted, OnTheWay, LinksShareRoot, GroupsAreRoots
<1>9. IsForest(parent', top, depth)
  BY <1>1, <1>2
<1> QED
  BY <1>4, <1>5, <1>7, <1>8, <1>9 DEF MergeInv

\* A union joins the trees of a pair that is comparable; no link leaves a set
\* that the old parents and the pair keep.
LEMMA RightKeepsMerge == MergeInv /\ RightFound => MergeInv'
<1> SUFFICES ASSUME MergeInv, RightFound PROVE MergeInv'
  OBVIOUS
<1> USE MergeAssumption
<1>0. MergeTypeOK /\ InLoops /\ LinksCarry
  BY DEF MergeInv
<1>1. PICK top \in [Items -> Items], depth \in [Items -> Nat] :
            IsForest(parent, top, depth) /\ Rooted(top)
  BY DEF MergeInv
<1> DEFINE i == walk.left
           j == walk.at
<1>2. walk.goal = "right" /\ parent[j] = j /\ parent' = Joined(i, j) /\ pair' = NextPair
      /\ walk' = NoWalk /\ UNCHANGED <<author, short, alike, group>>
  BY DEF RightFound, AtRoot
<1>3. i \in Items /\ j \in Items /\ pair[1] \in Items /\ pair[2] \in Items
      /\ parent \in [Items -> Items] /\ pair[1] < Reports /\ Comparable(pair[1], pair[2])
  <2>1. i \in Items /\ j \in Items
    BY <1>0, <1>2 DEF MergeTypeOK, Walks, NoWalk
  <2>2. pair[1] < Reports /\ Comparable(pair[1], pair[2])
    BY <1>0, <1>2 DEF InLoops
  <2>3. pair[1] \in Items /\ pair[2] \in Items
    BY <1>0, <2>2 DEF MergeTypeOK, Items
  <2> QED
    BY <1>0, <2>1, <2>2, <2>3 DEF MergeTypeOK
<1>4. parent[i] = i /\ top[i] = top[pair[1]] /\ top[j] = top[pair[2]] /\ top[i] = i /\ top[j] = j
  BY <1>1, <1>2, <1>3 DEF Rooted, OnTheWay, IsForest
<1>5. parent' \in [Items -> Items]
  BY <1>2, <1>3 DEF Joined
<1>6. MergeTypeOK'
  <2>1. /\ pair'[1] \in Items /\ pair'[2] \in Nat /\ pair' = <<pair'[1], pair'[2]>>
        /\ pair'[1] < pair'[2] /\ (pair'[1] < Reports => pair'[2] <= Reports)
    BY <1>0, <1>2, <1>3, OneMorePair
  <2> QED
    BY <1>0, <1>2, <1>5, <2>1 DEF MergeTypeOK, Walks
<1>7. group = <<>>
  <2>1. pair[1] < Reports
    BY <1>3
  <2>2. Reports \in Int
    OBVIOUS
  <2>3. pair[1] # Reports
    BY <2>1, <2>2
  <2> QED
    BY <1>0, <2>3 DEF InLoops
<1>8. InLoops'
  BY <1>2, <1>7 DEF InLoops, NoWalk
<1>9. Linked' = Linked \cup {pair}
  BY <1>0, <1>2, <1>3, OneMorePair
<1>10. LinksCarry'
  <2> SUFFICES ASSUME NEW S \in SUBSET Items, Closed(S)' PROVE Keeps(parent', S)
    BY DEF LinksCarry
  <2>1. Closed(S) /\ (pair[1] \in S <=> pair[2] \in S)
    BY <1>9 DEF Closed
  <2>2. Keeps(parent, S)
    BY <1>0, <2>1 DEF LinksCarry
  <2>3. \A k \in Items : k \in S <=> top[k] \in S
    BY <1>1, <1>3, <2>2, KeptWithRoot
  <2>4. i \in S <=> j \in S
    BY <1>3, <1>4, <2>1, <2>3
  <2> QED
    BY <1>2, <1>3, <2>2, <2>4 DEF Joined, Keeps
<1>11. CASE i = j
  <2>1. IsForest(parent', top, depth)
    BY <1>1, <1>2, <1>11 DEF Joined
  <2>2. Rooted(top)'
    BY <1>1, <1>2, <1>4, <1>9, <1>11 DEF Rooted, OnTheWay, LinksShareRoot, GroupsAreRoots, NoWalk
  <2> QED
    BY <1>6, <1>8, <1>10, <2>1, <2>2 DEF MergeInv
<1>12. CASE i # j
  <2>1. PICK t \in [Items -> Items], d \in [Items -> Nat] :
            t = Moved(top, i, j) /\ IsForest(parent', t, d)
    <3>1. parent' = [parent EXCEPT ![i] = j]
      BY <1>2, <1>12 DEF Joined
    <3> HIDE DEF i, j
    <3>2. /\ Moved(top, i, j) \in [Items -> Items] /\ Deeper(top, depth, i, j) \in [Items -> Nat]
          /\ IsForest(parent', Moved(top, i, j), Deeper(top, depth, i, j))
      BY <1>1, <1>2, <1>3, <1>4, <1>12, <3>1, UnionKeepsForest
    <3> QED
      BY <3>2
  <2>2. t[pair[1]] = t[pair[2]]
    BY <1>3, <1>4, <2>1 DEF Moved
  <2>3. \A q \in Linked : t[q[1]] = t[q[2]]
    <3>1. Linked \subseteq Items \X Items
      BY <1>0 DEF Linked, MergeTypeOK, Pairs
    <3> QED
      BY <1>1, <2>1, <3>1 DEF Rooted, LinksShareRoot, Moved
  <2>4. LinksShareRoot(t)'
    BY <1>9, <2>2, <2>3 DEF LinksShareRoot
  <2>5. Rooted(t)'
    BY <1>2, <1>7, <2>4 DEF Rooted, OnTheWay, GroupsAreRoots, NoWalk
  <2> QED
    BY <1>6, <1>8, <1>10, <2>1, <2>5 DEF MergeInv
<1> QED
  BY <1>11, <1>12

LEMMA ItemKeepsMerge == MergeInv /\ NextItem => MergeInv'
<1> SUFFICES ASSUME MergeInv, NextItem PROVE MergeInv'
  OBVIOUS
<1>0. MergeTypeOK /\ InLoops /\ LinksCarry
  BY DEF MergeInv
<1>1. PICK top \in [Items -> Items], depth \in [Items -> Nat] :
            IsForest(parent, top, depth) /\ Rooted(top)
  BY DEF MergeInv
<1>2. pair[1] = Reports /\ Len(group) < Reports /\ walk' = [goal |-> "group", at |-> Len(group) + 1]
      /\ UNCHANGED <<author, short, alike, parent, pair, group>>
  BY DEF NextItem
<1>3. Len(group) + 1 \in Items
  BY <1>0, <1>2, MergeAssumption DEF MergeTypeOK, Items
<1>4. MergeTypeOK'
  BY <1>0, <1>2, <1>3 DEF MergeTypeOK, Walks
<1>5. InLoops'
  BY <1>2 DEF InLoops
<1>6. Linked' = Linked
  BY <1>2 DEF Linked
<1>7. LinksCarry'
  BY <1>0, <1>2, <1>6 DEF LinksCarry, Closed
<1>8. Rooted(top)' /\ IsForest(parent', top, depth)
  BY <1>1, <1>2, <1>6 DEF Rooted, OnTheWay, LinksShareRoot, GroupsAreRoots
<1> QED
  BY <1>4, <1>5, <1>7, <1>8 DEF MergeInv

LEMMA GroupKeepsMerge == MergeInv /\ GroupFound => MergeInv'
<1> SUFFICES ASSUME MergeInv, GroupFound PROVE MergeInv'
  OBVIOUS
<1>0. MergeTypeOK /\ InLoops /\ LinksCarry
  BY DEF MergeInv
<1>1. PICK top \in [Items -> Items], depth \in [Items -> Nat] :
            IsForest(parent, top, depth) /\ Rooted(top)
  BY DEF MergeInv
<1>2. walk.goal = "group" /\ parent[walk.at] = walk.at /\ group' = Append(group, walk.at)
      /\ walk' = NoWalk /\ UNCHANGED <<author, short, alike, parent, pair>>
  BY DEF GroupFound, AtRoot
<1>3. walk.at \in Items /\ group \in Seq(Items) /\ Len(group) < Reports /\ pair[1] = Reports
  BY <1>0, <1>2 DEF MergeTypeOK, InLoops, Walks, NoWalk
<1>4. group' \in Seq(Items) /\ Len(group') = Len(group) + 1 /\ group'[Len(group) + 1] = walk.at
      /\ \A k \in 1..Len(group) : group'[k] = group[k]
  BY <1>2, <1>3
<1>5. MergeTypeOK'
  BY <1>0, <1>2, <1>3, <1>4, MergeAssumption DEF MergeTypeOK, Walks
<1>6. InLoops'
  BY <1>2, <1>3 DEF InLoops, NoWalk
<1>7. Linked' = Linked
  BY <1>2 DEF Linked
<1>8. LinksCarry'
  BY <1>0, <1>2, <1>7 DEF LinksCarry, Closed
<1>9. walk.at = top[Len(group) + 1]
  BY <1>1, <1>2, <1>3 DEF Rooted, OnTheWay, IsForest
<1>10. GroupsAreRoots(top)'
  <2>1. Len(group) \in Nat
    BY <1>3
  <2>2. \A k \in 1..Len(group') : k \in 1..Len(group) \/ k = Len(group) + 1
    BY <1>4, <2>1
  <2> QED
    BY <1>1, <1>4, <1>9, <2>2 DEF Rooted, GroupsAreRoots
<1>11. Rooted(top)' /\ IsForest(parent', top, depth)
  BY <1>1, <1>2, <1>7, <1>10 DEF Rooted, OnTheWay, LinksShareRoot, NoWalk
<1> QED
  BY <1>5, <1>6, <1>8, <1>11 DEF MergeInv

LEMMA NextMerge == MergeInv /\ [MergeNext]_mergevars => MergeInv'
<1> SUFFICES ASSUME MergeInv, [MergeNext]_mergevars PROVE MergeInv'
  OBVIOUS
<1>1. CASE UNCHANGED mergevars
  BY <1>1 DEF mergevars, MergeInv, MergeTypeOK, InLoops, LinksCarry, Rooted, OnTheWay,
     LinksShareRoot, GroupsAreRoots, Linked, Closed, Comparable, Anyone
<1> QED
  BY <1>1, CompareKeepsMerge, HalveKeepsMerge, LeftKeepsMerge, RightKeepsMerge,
     ItemKeepsMerge, GroupKeepsMerge DEF MergeNext

\* The groups are the trees, and the trees are the components of the links.
LEMMA TreesAreComponents == MergeInv => GroupsAreConnected
<1> SUFFICES ASSUME MergeInv PROVE GroupsAreConnected
  OBVIOUS
<1>0. MergeTypeOK /\ LinksCarry
  BY DEF MergeInv
<1>1. PICK top \in [Items -> Items], depth \in [Items -> Nat] :
            IsForest(parent, top, depth) /\ Rooted(top)
  BY DEF MergeInv
<1>2. FindEnds
  BY <1>0, <1>1, ForestsHaveRoots DEF FindEnds, MergeTypeOK
<1>3. ASSUME Len(group) = Reports, NEW i \in Items
      PROVE  /\ Closed(GroupOf(i))
             /\ \A S \in SUBSET GroupOf(i) : (i \in S /\ Closed(S)) => S = GroupOf(i)
  <2>1. \A k \in Items : group[k] = top[k]
    BY <1>1, <1>3 DEF Rooted, GroupsAreRoots, Items
  <2>2. GroupOf(i) = {j \in Items : top[j] = top[i]}
    BY <2>1 DEF GroupOf
  <2>3. Closed(GroupOf(i))
    <3>1. Linked \subseteq Items \X Items
      BY <1>0 DEF Linked, MergeTypeOK, Pairs
    <3> QED
      BY <1>1, <2>2, <3>1 DEF Closed, Rooted, LinksShareRoot
  <2>4. ASSUME NEW S \in SUBSET GroupOf(i), i \in S, Closed(S) PROVE S = GroupOf(i)
    <3>1. S \in SUBSET Items
      BY <2>2
    <3>2. Keeps(parent, S)
      BY <1>0, <2>4, <3>1 DEF LinksCarry
    <3>3. \A j \in Items : j \in S <=> top[j] \in S
      BY <1>0, <1>1, <3>1, <3>2, KeptWithRoot DEF MergeTypeOK
    <3> QED
      BY <2>2, <2>4, <3>3
  <2> QED
    BY <2>3, <2>4
<1> QED
  BY <1>2, <1>3 DEF GroupsAreConnected

\* The findings of a review are collapsed by connected components of the
\* pairwise comparison, whatever the order of the pairs and the halving of the
\* paths, and no find runs for ever.
THEOREM GroupsAreComponents == MergeSpec => [](MergeTypeOK /\ GroupsAreConnected)
<1>1. MergeInit => MergeInv
  BY InitMerge
<1>2. MergeInv /\ [MergeNext]_mergevars => MergeInv'
  BY NextMerge
<1>3. MergeInv => MergeTypeOK /\ GroupsAreConnected
  BY TreesAreComponents DEF MergeInv
<1> QED
  BY <1>1, <1>2, <1>3, PTL DEF MergeSpec
----------------------------------------------------------------------------
(***************************************************************************)
(* The breaker, for any number of calls.  Its liveness is for TLC; what it *)
(* rests on is proved: the failures counted say in which state it is, and  *)
(* an open one runs down (BreakerRunsDown).                                *)
(***************************************************************************)
BreakerTypeOK ==
    /\ breaker \in [state : {"closed", "open", "half_open"}, failures : 0..Threshold,
                    since : 0..ResetTime]
    /\ insight \in [InsightCalls -> {"idle", "closed", "half_open"}]

OpensAtThreshold == breaker.state = "closed" <=> breaker.failures < Threshold
BreakerInv == BreakerTypeOK /\ OpensAtThreshold

Busy == {c \in InsightCalls : insight[c] # "idle"}
RunsDown ==
    breaker.state = "open" /\ breaker.since < ResetTime =>
        /\ Busy' \subseteq Busy
        /\ Busy' = Busy => breaker'.state = "open" /\ breaker'.since >= breaker.since

LEMMA NextBreaker == BreakerInv /\ [BreakerNext]_breakervars => BreakerInv'
<1> SUFFICES ASSUME BreakerInv, [BreakerNext]_breakervars PROVE BreakerInv'
  OBVIOUS
<1> USE BreakerAssumption
<1> DEFINE Breakers == [state : {"closed", "open", "half_open"}, failures : 0..Threshold,
                        since : 0..ResetTime]
<1>1. breaker \in Breakers /\ insight \in [InsightCalls -> {"idle", "closed", "half_open"}]
  BY DEF BreakerInv, BreakerTypeOK
<1>2. Updated \in Breakers /\ (Updated.state = "closed" <=> Updated.failures < Threshold)
  BY <1>1 DEF BreakerInv, OpensAtThreshold, Updated
<1>3. Counted(breaker.failures) \in 0..Threshold
  BY <1>1 DEF Counted
<1>4. ASSUME NEW c \in InsightCalls, CallProvider(c) PROVE BreakerInv'
  <2>1. breaker' = Updated /\ Updated.state \in {"closed", "half_open"}
    BY <1>2, <1>4 DEF CallProvider
  <2>2. insight' \in [InsightCalls -> {"idle", "closed", "half_open"}]
    BY <1>1, <1>4, <2>1 DEF CallProvider
  <2> QED
    BY <1>2, <2>1, <2>2 DEF BreakerInv, BreakerTypeOK, OpensAtThreshold
<1>5. ASSUME NEW c \in InsightCalls, CallFails(c) PROVE BreakerInv'
  <2>1. insight' \in [InsightCalls -> {"idle", "closed", "half_open"}]
    BY <1>1, <1>5 DEF CallFails
  <2>2. CASE breaker.state = "half_open" \/ Counted(breaker.failures) >= Threshold
    <3>1. Counted(breaker.failures) = Threshold
      BY <1>1, <1>3, <2>2 DEF BreakerInv, OpensAtThreshold, Counted
    <3>2. breaker' = [state |-> "open", failures |-> Threshold, since |-> 0]
      BY <1>5, <2>2, <3>1 DEF CallFails
    <3> QED
      BY <2>1, <3>2 DEF BreakerInv, BreakerTypeOK, OpensAtThreshold
  <2>3. CASE ~(breaker.state = "half_open" \/ Counted(breaker.failures) >= Threshold)
    <3>1. breaker.state = "closed"
      BY <1>1, <2>3 DEF BreakerInv, OpensAtThreshold, Counted
    <3>2. breaker' = [breaker EXCEPT !.failures = Counted(breaker.failures)]
      BY <1>5, <2>3 DEF CallFails
    <3> QED
      BY <1>1, <1>3, <2>1, <2>3, <3>1, <3>2 DEF BreakerInv, BreakerTypeOK, OpensAtThreshold
  <2> QED
    BY <2>2, <2>3
<1>6. ASSUME NEW c \in InsightCalls, CallSucceeds(c) PROVE BreakerInv'
  <2>1. breaker' = [state |-> "closed", failures |-> 0, since |-> breaker.since]
    BY <1>1, <1>6 DEF CallSucceeds
  <2>2. insight' \in [InsightCalls -> {"idle", "closed", "half_open"}]
    BY <1>1, <1>6 DEF CallSucceeds
  <2> QED
    BY <1>1, <2>1, <2>2 DEF BreakerInv, BreakerTypeOK, OpensAtThreshold
<1>7. ASSUME NEW c \in InsightCalls, CallIsCancelled(c) \/ Reject(c) PROVE BreakerInv'
  <2>1. UNCHANGED breaker /\ insight' \in [InsightCalls -> {"idle", "closed", "half_open"}]
    BY <1>1, <1>7 DEF CallIsCancelled, Reject, FailedFast
  <2> QED
    BY <2>1 DEF BreakerInv, BreakerTypeOK, OpensAtThreshold
<1>8. CASE BreakerTick
  BY <1>1, <1>8 DEF BreakerTick, BreakerInv, BreakerTypeOK, OpensAtThreshold
<1>9. CASE UNCHANGED breakervars
  BY <1>9 DEF breakervars, BreakerInv, BreakerTypeOK, OpensAtThreshold
<1> QED
  BY <1>4, <1>5, <1>6, <1>7, <1>8, <1>9 DEF BreakerNext

LEMMA StepRunsDown == BreakerInv /\ [BreakerNext]_breakervars => RunsDown
<1> SUFFICES ASSUME BreakerInv, [BreakerNext]_breakervars,
                    breaker.state = "open", breaker.since < ResetTime
             PROVE  /\ Busy' \subseteq Busy
                    /\ Busy' = Busy => breaker'.state = "open" /\ breaker'.since >= breaker.since
  BY DEF RunsDown
<1>1. /\ breaker.since \in Nat /\ ResetTime \in Nat
      /\ insight \in [InsightCalls -> {"idle", "closed", "half_open"}]
      /\ breaker = [state |-> breaker.state, failures |-> breaker.failures, since |-> breaker.since]
  BY BreakerAssumption DEF BreakerInv, BreakerTypeOK
<1>2. Updated = breaker
  BY <1>1 DEF Updated
<1>3. ASSUME NEW c \in InsightCalls, CallFails(c) \/ CallSucceeds(c) \/ CallIsCancelled(c)
      PROVE  Busy' \subseteq Busy /\ Busy' # Busy
  BY <1>1, <1>3 DEF CallFails, CallSucceeds, CallIsCancelled, Busy
<1>4. ASSUME NEW c \in InsightCalls, CallProvider(c) PROVE FALSE
  BY <1>2, <1>4 DEF CallProvider
<1>5. CASE (\E c \in InsightCalls : Reject(c)) \/ UNCHANGED breakervars
  BY <1>1, <1>5 DEF Reject, FailedFast, breakervars, Busy
<1>6. CASE BreakerTick
  BY <1>1, <1>6 DEF BreakerTick, Busy
<1> QED
  BY <1>3, <1>4, <1>5, <1>6 DEF BreakerNext

\* "Closed -> Open after failure_threshold consecutive failures" (CircuitBreaker):
\* however calls overlap and however late they end, the breaker is closed exactly
\* while fewer failures are counted; an open one stays open, and
\* its reset time runs, but for the ends of calls that were admitted before: no
\* new call puts it off, so it is put off at most once for each of those.
THEOREM BreakerRunsDown ==
    BreakerSpec => [](BreakerTypeOK /\ OpensAtThreshold) /\ [][RunsDown]_breakervars
<1>1. BreakerInit => BreakerInv
  BY BreakerAssumption DEF BreakerInit, BreakerInv, BreakerTypeOK, OpensAtThreshold
<1>2. BreakerInv /\ [BreakerNext]_breakervars => [RunsDown]_breakervars
  BY StepRunsDown
<1>3. BreakerInv <=> BreakerTypeOK /\ OpensAtThreshold
  BY DEF BreakerInv
<1> QED
  BY NextBreaker, <1>1, <1>2, <1>3, PTL DEF BreakerSpec
============================================================================
