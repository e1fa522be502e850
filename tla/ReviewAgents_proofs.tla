------------------------ MODULE ReviewAgents_proofs -------------------------
(***************************************************************************)
(* Any number of reviewers, threads and models: a completed review holds   *)
(* what was reported in time.  A call is in the queue, in a thread or      *)
(* neither, once (CallsAreApart); unless it was given up it is the one its *)
(* caller waits for (OnlyLiveCallsCount), so an answer counts just when    *)
(* its window is open, and what was heard is what the callers hold when    *)
(* the review ends.  A given-up call has left the queue, and whoever waits *)
(* has a call on its way (CallsAreServed).                                 *)
(***************************************************************************)
EXTENDS ReviewAgents, TLAPS, FiniteSetTheorems, SequenceTheorems,
        WellFoundedInduction

Queued == ToSet(queue)

\* The call x of a caller came before its call y.
Earlier(x, y) == x[2] < y[2] \/ (x[2] = y[2] /\ x[3] < y[3])

\* A call is in one place once, and none is later than its caller's current one.
CallsAreApart ==
    /\ IsInjective(queue)
    /\ Queued \cap running = {}
    /\ \A call \in Queued \cup running \cup given_up :
           call = Live(call[1]) \/ Earlier(call, Live(call[1]))

\* A call on its way is given up or the one its caller waits for, not both.
OnlyLiveCallsCount ==
    /\ \A call \in (Queued \cup running) \ given_up : Awaited(call)
    /\ \A c \in Callers : Waiting(c) => Live(c) \notin given_up

\* Who waits has its call on the way, and the queue holds none that was given up.
CallsAreServed ==
    /\ \A c \in Callers : Waiting(c) => Live(c) \in Queued \cup running
    /\ Queued \cap given_up = {}

\* What was heard is what the callers hold; who still waits holds nothing.
HeardIsHeld ==
    /\ \A c \in Callers : Waiting(c) => agent[c].outcome = "none"
    /\ \A c \in Callers, i \in Issues : <<c, i>> \in heard <=> c \in Reporters(i)

\* The review ends when nobody waits any more.
EndedAfterAll ==
    /\ review.status # "running" => \A c \in Callers : ~Waiting(c)
    /\ review.status = "completed" => \A i \in Issues : review.found[i] = Reporters(i)

AgentsInv ==
    TypeOK /\ CallsAreApart /\ OnlyLiveCallsCount /\ CallsAreServed /\ HeardIsHeld
           /\ EndedAfterAll

----------------------------------------------------------------------------
(* Queues without repetition *)

LEMMA TailOfQueue ==
    ASSUME NEW S, NEW q \in Seq(S), IsInjective(q), q # <<>>
    PROVE  /\ Head(q) \in S /\ Tail(q) \in Seq(S) /\ IsInjective(Tail(q))
           /\ ToSet(Tail(q)) = ToSet(q) \ {Head(q)} /\ Head(q) \in ToSet(q)
<1>1. /\ Len(q) \in Nat \ {0} /\ DOMAIN q = 1..Len(q) /\ Tail(q) \in Seq(S) /\ Head(q) \in S
      /\ Head(q) = q[1] /\ Len(Tail(q)) = Len(q) - 1 /\ DOMAIN Tail(q) = 1..(Len(q) - 1)
      /\ \A i \in 1..(Len(q) - 1) : Tail(q)[i] = q[i + 1]
  BY HeadTailProperties, LenProperties, EmptySeq
<1>2. IsInjective(Tail(q))
  BY <1>1 DEF IsInjective
<1>3. ASSUME NEW x \in ToSet(q), x # q[1] PROVE x \in ToSet(Tail(q))
  <2>1. PICK i \in 1..Len(q) : q[i] = x
    BY <1>1 DEF ToSet
  <2>2. i - 1 \in 1..(Len(q) - 1)
    BY <1>1, <1>3, <2>1
  <2>3. Tail(q)[i - 1] = x
    BY <1>1, <2>1, <2>2
  <2> QED
    BY <1>1, <2>2, <2>3 DEF ToSet
<1>4. ASSUME NEW i \in 1..(Len(q) - 1) PROVE Tail(q)[i] \in ToSet(q) \ {q[1]}
  <2>1. i + 1 \in 1..Len(q) /\ i + 1 # 1 /\ 1 \in 1..Len(q)
    BY <1>1
  <2> QED
    BY <1>1, <2>1 DEF ToSet, IsInjective
<1>5. ToSet(Tail(q)) \subseteq ToSet(q) \ {q[1]}
  BY <1>1, <1>4 DEF ToSet
<1>6. q[1] \in ToSet(q)
  BY <1>1 DEF ToSet
<1> QED
  BY <1>1, <1>2, <1>3, <1>5, <1>6

LEMMA AppendToQueue ==
    ASSUME NEW S, NEW q \in Seq(S), IsInjective(q), NEW e \in S, e \notin ToSet(q)
    PROVE  /\ Append(q, e) \in Seq(S) /\ IsInjective(Append(q, e))
           /\ ToSet(Append(q, e)) = ToSet(q) \cup {e}
<1>1. /\ Len(q) \in Nat /\ DOMAIN q = 1..Len(q) /\ Append(q, e) \in Seq(S)
      /\ DOMAIN Append(q, e) = 1..(Len(q) + 1) /\ Append(q, e)[Len(q) + 1] = e
      /\ \A i \in 1..Len(q) : Append(q, e)[i] = q[i]
  BY AppendProperties, LenProperties
<1>2. \A i \in 1..(Len(q) + 1) : i \in 1..Len(q) \/ i = Len(q) + 1
  BY <1>1
<1>3. \A i \in 1..Len(q) : i \in 1..(Len(q) + 1) /\ q[i] # e
  BY <1>1 DEF ToSet
<1>4. IsInjective(Append(q, e))
  BY <1>1, <1>2, <1>3 DEF IsInjective
<1>5. ToSet(Append(q, e)) = ToSet(q) \cup {e}
  <2>1. \A x \in ToSet(Append(q, e)) : x \in ToSet(q) \cup {e}
    BY <1>1, <1>2 DEF ToSet
  <2>2. \A x \in ToSet(q) : x \in ToSet(Append(q, e))
    BY <1>1, <1>3 DEF ToSet
  <2>3. Len(q) + 1 \in 1..(Len(q) + 1)
    BY <1>1
  <2>4. e \in ToSet(Append(q, e))
    BY <1>1, <2>3 DEF ToSet
  <2> QED
    BY <2>1, <2>2, <2>4
<1> QED
  BY <1>1, <1>4, <1>5

\* A nonempty set of positions has a first.
LEMMA MinIsThere ==
    ASSUME NEW I \in SUBSET Nat, I # {} PROVE Min(I) \in I
<1>1. PICK k \in I : \A j \in I : <<j, k>> \notin OpToRel(<, Nat)
  BY WFMin, NatLessThanWellFounded, Zenon
<1>2. \A j \in I : ~(j < k)
  BY <1>1, Zenon DEF OpToRel
<1>3. \A j \in I : k <= j
  BY <1>2
<1> QED
  BY <1>3 DEF Min

LEMMA CancelFromQueue ==
    ASSUME NEW S, NEW q \in Seq(S), IsInjective(q), NEW e
    PROVE  /\ RemoveFirst(q, e) \in Seq(S) /\ IsInjective(RemoveFirst(q, e))
           /\ ToSet(RemoveFirst(q, e)) = ToSet(q) \ {e}
<1>0. Len(q) \in Nat /\ DOMAIN q = 1..Len(q) /\ \A i \in 1..Len(q) : q[i] \in S
  BY LenProperties, ElementOfSeq
<1>1. CASE ~ \E i \in 1..Len(q) : q[i] = e
  <2>1. RemoveFirst(q, e) = q
    BY <1>1 DEF RemoveFirst
  <2> QED
    BY <1>0, <1>1, <2>1 DEF ToSet
<1>2. CASE \E i \in 1..Len(q) : q[i] = e
  <2> DEFINE I == {i \in 1..Len(q) : q[i] = e}
             m == Min(I)
             n == Len(q)
             r == SubSeq(q, 1, m - 1) \o SubSeq(q, m + 1, n)
  <2>1. m \in 1..n /\ q[m] = e
    <3>1. I \in SUBSET Nat /\ I # {}
      BY <1>2
    <3>2. Min(I) \in I
      BY <3>1, MinIsThere
    <3> QED
      BY <3>2
  <2>2. RemoveFirst(q, e) = r
    BY <1>2 DEF RemoveFirst, RemoveAt, SelectInSeq
  <2> HIDE DEF I, m
  <2>3. n \in Nat /\ m \in Nat /\ m - 1 \in Nat /\ n - m \in Nat
    BY <1>0, <2>1
  <2>4. /\ SubSeq(q, 1, m - 1) \in Seq(S) /\ Len(SubSeq(q, 1, m - 1)) = m - 1
        /\ \A i \in 1..(m - 1) : SubSeq(q, 1, m - 1)[i] = q[i]
    <3>1. \A i \in 1..(m - 1) : q[i] \in S
      BY <1>0, <2>1
    <3> QED
      BY <2>1, <2>3, <3>1, SubSeqProperties
  <2>5. /\ SubSeq(q, m + 1, n) \in Seq(S) /\ Len(SubSeq(q, m + 1, n)) = n - m
        /\ \A i \in 1..(n - m) : SubSeq(q, m + 1, n)[i] = q[m + i]
    <3>1. \A i \in (m + 1)..n : q[i] \in S
      BY <1>0, <2>1
    <3>2. /\ SubSeq(q, m + 1, n) \in Seq(S)
          /\ Len(SubSeq(q, m + 1, n)) = IF m + 1 <= n THEN n - (m + 1) + 1 ELSE 0
          /\ \A i \in 1..(n - (m + 1) + 1) : SubSeq(q, m + 1, n)[i] = q[(m + 1) + i - 1]
      BY <2>3, <3>1, SubSeqProperties
    <3> QED
      BY <2>1, <2>3, <3>2
  <2>6. /\ r \in Seq(S) /\ DOMAIN r = 1..(n - 1)
        /\ \A i \in 1..(n - 1) : r[i] = IF i < m THEN q[i] ELSE q[i + 1]
    <3>1. /\ r \in Seq(S) /\ Len(r) = (m - 1) + (n - m)
          /\ \A i \in 1..((m - 1) + (n - m)) :
                 r[i] = IF i <= m - 1 THEN SubSeq(q, 1, m - 1)[i]
                        ELSE SubSeq(q, m + 1, n)[i - (m - 1)]
      BY <2>4, <2>5, ConcatProperties
    <3>2. (m - 1) + (n - m) = n - 1
      BY <2>3
    <3>3. DOMAIN r = 1..(n - 1)
      BY <3>1, <3>2, LenProperties
    <3>4. ASSUME NEW i \in 1..(n - 1) PROVE r[i] = IF i < m THEN q[i] ELSE q[i + 1]
      <4>1. CASE i < m
        <5>1. i <= m - 1 /\ i \in 1..(m - 1)
          BY <2>3, <3>4, <4>1
        <5> QED
          BY <2>4, <3>1, <3>2, <4>1, <5>1
      <4>2. CASE ~(i < m)
        <5>1. ~(i <= m - 1) /\ i - (m - 1) \in 1..(n - m) /\ m + (i - (m - 1)) = i + 1
          BY <2>3, <3>4, <4>2
        <5> QED
          BY <2>5, <3>1, <3>2, <4>2, <5>1
      <4> QED
        BY <4>1, <4>2
    <3> QED
      BY <3>1, <3>3, <3>4
  <2> HIDE DEF r
  <2>7. IsInjective(r)
    <3> SUFFICES ASSUME NEW i \in 1..(n - 1), NEW j \in 1..(n - 1), r[i] = r[j] PROVE i = j
      BY <2>6 DEF IsInjective
    <3> DEFINE f(k) == IF k < m THEN k ELSE k + 1
    <3>1. r[i] = q[f(i)] /\ r[j] = q[f(j)] /\ f(i) \in 1..n /\ f(j) \in 1..n
      BY <2>3, <2>6
    <3>2. f(i) = f(j)
      BY <1>0, <3>1 DEF IsInjective
    <3> QED
      BY <2>3, <3>2
  <2>8. ASSUME NEW x \in ToSet(r) PROVE x \in ToSet(q) \ {e}
    <3>1. PICK i \in 1..(n - 1) : r[i] = x
      BY <2>6 DEF ToSet
    <3>2. \E k \in 1..n : k # m /\ q[k] = x
      BY <2>3, <2>6, <3>1
    <3> QED
      BY <1>0, <2>1, <3>2 DEF ToSet, IsInjective
  <2>9. ASSUME NEW x \in ToSet(q) \ {e} PROVE x \in ToSet(r)
    <3>1. PICK k \in 1..n : q[k] = x
      BY <1>0 DEF ToSet
    <3>2. k # m
      BY <2>1, <3>1
    <3>3. \E i \in 1..(n - 1) : r[i] = x
      <4>1. CASE k < m
        BY <2>1, <2>3, <2>6, <3>1, <4>1
      <4>2. CASE k > m
        <5>1. k - 1 \in 1..(n - 1) /\ ~(k - 1 < m) /\ (k - 1) + 1 = k
          BY <2>3, <3>1, <4>2
        <5>2. r[k - 1] = x
          BY <2>6, <3>1, <5>1
        <5> QED
          BY <5>1, <5>2
      <4> QED
        BY <2>3, <3>1, <3>2, <4>1, <4>2
    <3> QED
      BY <2>6, <3>3 DEF ToSet
  <2> QED
    BY <2>2, <2>6, <2>7, <2>8, <2>9
<1> QED
  BY <1>1, <1>2

LEMMA SetToSeqIsQueue ==
    ASSUME NEW S, IsFiniteSet(S)
    PROVE  /\ SetToSeq(S) \in Seq(S) /\ IsInjective(SetToSeq(S)) /\ ToSet(SetToSeq(S)) = S
<1> DEFINE n == Cardinality(S)
           q == SetToSeq(S)
<1>1. n \in Nat /\ \E f \in [1..n -> S] : IsInjective(f)
  BY FS_CardinalityType DEF ExistsBijection, Bijection, Injection
<1>2. q \in [1..n -> S] /\ IsInjective(q)
  BY <1>1 DEF SetToSeq
<1> HIDE DEF q
<1>3. q \in Seq(S)
  BY <1>1, <1>2, SeqDef
<1>4. ToSet(q) = S
  <2>1. q \in Injection(1..n, S) /\ IsFiniteSet(1..n) /\ Cardinality(1..n) = n
    BY <1>1, <1>2, FS_Interval DEF Injection, IsInjective
  <2>2. q \in Surjection(1..n, S)
    BY <2>1, FS_Injection
  <2> QED
    BY <1>2, <2>2 DEF Surjection, ToSet
<1> QED
  BY <1>2, <1>3, <1>4 DEF q

----------------------------------------------------------------------------
(* Types *)

LEMMA LiveType ==
    ASSUME TypeOK, NEW c \in Callers
    PROVE  /\ Live(c) \in Calls /\ Live(c)[1] = c
           /\ agent[c].attempt \in 1..2 /\ agent[c].model \in 1..Models
BY DEF TypeOK, Agent, Live, Calls

LEMMA CallType ==
    ASSUME NEW call \in Calls
    PROVE  /\ call[1] \in Callers /\ call[2] \in 1..2 /\ call[3] \in 1..Models
           /\ call = <<call[1], call[2], call[3]>>
BY DEF Calls

LEMMA CallsOnTheWay == TypeOK => Queued \cup running \cup given_up \subseteq Calls
<1> SUFFICES ASSUME TypeOK PROVE Queued \cup running \cup given_up \subseteq Calls
  OBVIOUS
<1>1. queue \in Seq(Calls) /\ running \subseteq Calls /\ given_up \subseteq Calls
  BY DEF TypeOK
<1>2. \A i \in DOMAIN queue : queue[i] \in Calls
  BY <1>1, LenProperties, ElementOfSeq
<1> QED
  BY <1>1, <1>2 DEF Queued, ToSet

LEMMA FirstCalls ==
    ASSUME NEW active \in SUBSET Callers
    PROVE  /\ IsFiniteSet({<<c, 1, 1>> : c \in active})
           /\ {<<c, 1, 1>> : c \in active} \subseteq Calls
<1>1. IsFiniteSet(Callers)
  BY CallerAssumption, FS_AddElement DEF Callers
<1>2. IsFiniteSet(active)
  BY <1>1, FS_Subset
<1> DEFINE f == [c \in active |-> <<c, 1, 1>>]
           T == {<<c, 1, 1>> : c \in active}
<1>3. f \in Surjection(active, T)
  BY DEF Surjection
<1>4. IsFiniteSet(T)
  BY <1>2, <1>3, FS_Surjection
<1>5. T \subseteq Calls
  BY ChainAssumption DEF Calls
<1> QED
  BY <1>4, <1>5

LEMMA InitAgents == Init => AgentsInv
<1> SUFFICES ASSUME Init PROVE AgentsInv
  OBVIOUS
<1>1. PICK active \in SUBSET Callers :
        /\ agent = [c \in Callers |-> Coroutine(IF c \in active THEN "calling" ELSE "off")]
        /\ queue = SetToSeq({<<c, 1, 1>> : c \in active})
        /\ running = {} /\ given_up = {} /\ heard = {}
        /\ review = [status |-> "running", found |-> [i \in Issues |-> {}],
                     models_used |-> {}, verdict |-> [i \in Issues |-> "none"]]
  BY DEF Init
<1> DEFINE First == {<<c, 1, 1>> : c \in active}
<1>2. /\ queue \in Seq(First) /\ IsInjective(queue) /\ Queued = First
      /\ First \subseteq Calls
  BY <1>1, FirstCalls, SetToSeqIsQueue DEF Queued
<1>3. \A c \in Callers :
        /\ agent[c] \in Agent
        /\ agent[c].pc = IF c \in active THEN "calling" ELSE "off"
        /\ agent[c].attempt = 1 /\ agent[c].model = 1 /\ agent[c].outcome = "none"
  BY <1>1, ChainAssumption DEF Coroutine, Agent, Outcomes
<1>4. TypeOK
  <2>1. agent \in [Callers -> Agent]
    BY <1>1, <1>3
  <2>2. queue \in Seq(Calls)
    BY <1>2, SeqMonotonic
  <2>3. review \in Review
    BY <1>1 DEF Review
  <2> QED
    BY <1>1, <2>1, <2>2, <2>3 DEF TypeOK
<1>5. \A call \in Queued : call[1] \in active /\ call = Live(call[1])
  BY <1>2, <1>3 DEF Live
<1>6. CallsAreApart
  BY <1>1, <1>2, <1>5 DEF CallsAreApart
<1>7. OnlyLiveCallsCount
  BY <1>1, <1>3, <1>5 DEF OnlyLiveCallsCount, Awaited, Waiting
<1>8. HeardIsHeld
  BY <1>1, <1>3 DEF HeardIsHeld, Reporters
<1>9. EndedAfterAll
  BY <1>1 DEF EndedAfterAll
<1>10. CallsAreServed
  BY <1>1, <1>2, <1>3 DEF CallsAreServed, Waiting, Live
<1> QED
  BY <1>4, <1>6, <1>7, <1>8, <1>9, <1>10 DEF AgentsInv

----------------------------------------------------------------------------
(* Calls that go from the queue to a thread, and callers that go on or end *)

\* A call later than its caller's current one is new.
LEMMA LaterIsNew ==
    ASSUME TypeOK, CallsAreApart, NEW c \in Callers, NEW new \in Calls,
           new[1] = c, Earlier(Live(c), new)
    PROVE  new \notin Queued \cup running \cup given_up
<1> SUFFICES ASSUME new \in Queued \cup running \cup given_up PROVE FALSE
  OBVIOUS
<1>1. new = Live(c) \/ Earlier(new, Live(c))
  BY DEF CallsAreApart
<1>2. /\ new[2] \in Nat /\ new[3] \in Nat
      /\ Live(c)[2] \in Nat /\ Live(c)[3] \in Nat
  BY LiveType, CallType, ChainAssumption
<1> QED
  BY <1>1, <1>2 DEF Earlier

\* A caller goes on to a later call; its current one is answered or given up.
LEMMA CallerGoesOn ==
    ASSUME AgentsInv, NEW c \in Callers, NEW new \in Calls, new[1] = c, Earlier(Live(c), new),
           Live(c)' = new, Waiting(c)',
           \A d \in Callers \ {c} : agent'[d] = agent[d],
           IsInjective(queue'), Queued' \subseteq Queued \cup {new},
           running' \subseteq running,
           given_up \subseteq given_up', given_up' \subseteq given_up \cup {Live(c)},
           Live(c) \in given_up' \/ Live(c) \notin Queued' \cup running'
    PROVE  CallsAreApart' /\ OnlyLiveCallsCount'
<1>1. Queued \cup running \cup given_up \subseteq Calls
  BY CallsOnTheWay DEF AgentsInv
<1>2. new \notin Queued \cup running \cup given_up
  BY LaterIsNew DEF AgentsInv
<1>3. \A d \in Callers \ {c} : Live(d)' = Live(d) /\ Waiting(d)' = Waiting(d)
  BY DEF Live, Waiting
<1>4. Live(c) \in Calls /\ Live(c)[1] = c
  BY LiveType DEF AgentsInv
<1>5. new # Live(c)
  BY <1>4, CallType, ChainAssumption DEF Earlier
<1>6. ASSUME NEW call \in Queued' \cup running' \cup given_up'
      PROVE  call = Live(call[1])' \/ Earlier(call, Live(call[1])')
  <2>1. CASE call = new
    BY <2>1
  <2>2. CASE call # new
    <3>1. call \in Queued \cup running \cup given_up \cup {Live(c)}
      BY <2>2
    <3>2. call \in Calls /\ call[1] \in Callers
      BY <1>1, <1>4, <3>1, CallType
    <3>3. call = Live(call[1]) \/ Earlier(call, Live(call[1]))
      BY <1>4, <3>1 DEF AgentsInv, CallsAreApart
    <3>4. CASE call[1] # c
      BY <1>3, <3>2, <3>3, <3>4
    <3>5. CASE call[1] = c
      <4>1. /\ call[2] \in Nat /\ call[3] \in Nat /\ new[2] \in Nat /\ new[3] \in Nat
            /\ Live(c)[2] \in Nat /\ Live(c)[3] \in Nat
        BY <1>4, <3>2, CallType, ChainAssumption
      <4>2. Earlier(call, new)
        BY <3>3, <3>5, <4>1 DEF Earlier
      <4> QED
        BY <3>5, <4>2
    <3> QED
      BY <3>4, <3>5
  <2> QED
    BY <2>1, <2>2
<1>7. Queued' \cap running' = {}
  BY <1>2 DEF AgentsInv, CallsAreApart
<1>8. CallsAreApart'
  BY <1>6, <1>7 DEF CallsAreApart
<1>9. ASSUME NEW call \in (Queued' \cup running') \ given_up' PROVE Awaited(call)'
  <2>1. CASE call = new
    BY <2>1 DEF Awaited
  <2>2. CASE call # new
    <3>1. call \in (Queued \cup running) \ given_up
      BY <2>2
    <3>2. Waiting(call[1]) /\ call = Live(call[1]) /\ call[1] \in Callers
      BY <1>1, <3>1, CallType DEF AgentsInv, OnlyLiveCallsCount, Awaited
    <3>3. call[1] # c
      BY <1>9, <3>2
    <3> QED
      BY <1>3, <3>2, <3>3 DEF Awaited
  <2> QED
    BY <2>1, <2>2
<1>10. ASSUME NEW d \in Callers, Waiting(d)' PROVE Live(d)' \notin given_up'
  <2>1. CASE d = c
    BY <1>2, <1>5, <2>1
  <2>2. CASE d # c
    <3>1. Live(d)' = Live(d) /\ Waiting(d) /\ Live(d)[1] = d
      BY <1>3, <1>10, <2>2, LiveType DEF AgentsInv
    <3> QED
      BY <1>4, <2>2, <3>1 DEF AgentsInv, OnlyLiveCallsCount
  <2> QED
    BY <2>1, <2>2
<1> QED
  BY <1>8, <1>9, <1>10 DEF OnlyLiveCallsCount

\* A caller ends; its current call is answered or given up.
LEMMA CallerEnds ==
    ASSUME AgentsInv, NEW c \in Callers, Live(c)' = Live(c), ~Waiting(c)',
           \A d \in Callers \ {c} : agent'[d] = agent[d],
           IsInjective(queue'), Queued' \subseteq Queued, running' \subseteq running,
           given_up \subseteq given_up', given_up' \subseteq given_up \cup {Live(c)},
           Live(c) \in given_up' \/ Live(c) \notin Queued' \cup running'
    PROVE  CallsAreApart' /\ OnlyLiveCallsCount'
<1>1. Queued \cup running \cup given_up \subseteq Calls
  BY CallsOnTheWay DEF AgentsInv
<1>2. \A d \in Callers : Live(d)' = Live(d) /\ (d # c => Waiting(d)' = Waiting(d))
  BY DEF Live, Waiting
<1>3. Live(c) \in Calls /\ Live(c)[1] = c
  BY LiveType DEF AgentsInv
<1>4. CallsAreApart'
  <2>1. ASSUME NEW call \in Queued' \cup running' \cup given_up'
        PROVE  call = Live(call[1])' \/ Earlier(call, Live(call[1])')
    <3>1. call \in Queued \cup running \cup given_up \cup {Live(c)}
      BY <2>1
    <3>2. call[1] \in Callers
      BY <1>1, <1>3, <3>1, CallType
    <3>3. call = Live(call[1]) \/ Earlier(call, Live(call[1]))
      BY <1>3, <3>1 DEF AgentsInv, CallsAreApart
    <3> QED
      BY <1>2, <3>2, <3>3
  <2> QED
    BY <2>1 DEF AgentsInv, CallsAreApart
<1>5. ASSUME NEW call \in (Queued' \cup running') \ given_up' PROVE Awaited(call)'
  <2>1. call \in (Queued \cup running) \ given_up
    BY <1>5
  <2>2. Waiting(call[1]) /\ call = Live(call[1]) /\ call[1] \in Callers
    BY <1>1, <2>1, CallType DEF AgentsInv, OnlyLiveCallsCount, Awaited
  <2>3. call[1] # c
    BY <1>5, <2>2
  <2> QED
    BY <1>2, <2>2, <2>3 DEF Awaited
<1>6. ASSUME NEW d \in Callers, Waiting(d)' PROVE Live(d)' \notin given_up'
  <2>1. d # c /\ Waiting(d) /\ Live(d)' = Live(d) /\ Live(d)[1] = d
    BY <1>2, <1>6, LiveType DEF AgentsInv
  <2> QED
    BY <1>3, <2>1 DEF AgentsInv, OnlyLiveCallsCount
<1> QED
  BY <1>4, <1>5, <1>6 DEF OnlyLiveCallsCount

\* A caller goes on to a call just queued, or ends; no other call is lost.
LEMMA CallersAreServed ==
    ASSUME AgentsInv, NEW c \in Callers,
           \A d \in Callers \ {c} : agent'[d] = agent[d],
           Waiting(c)' => Live(c)' \in Queued',
           \A call \in Queued \cup running : call # Live(c) => call \in Queued' \cup running',
           given_up' \subseteq given_up \cup {Live(c)},
           Queued' \subseteq Queued \cup {Live(c)'},
           Live(c)' \in Queued' => Live(c)' \notin given_up',
           given_up' = given_up \/ Live(c) \notin Queued'
    PROVE  CallsAreServed'
<1>1. ASSUME NEW d \in Callers, Waiting(d)' PROVE Live(d)' \in Queued' \cup running'
  <2>1. CASE d = c
    BY <1>1, <2>1
  <2>2. CASE d # c
    <3>1. Live(d)' = Live(d) /\ Waiting(d) /\ Live(d) # Live(c)
      BY <1>1, <2>2 DEF Live, Waiting
    <3> QED
      BY <3>1 DEF AgentsInv, CallsAreServed
  <2> QED
    BY <2>1, <2>2
<1>2. Queued' \cap given_up' = {}
  <2> SUFFICES ASSUME NEW call \in Queued', call \in given_up' PROVE FALSE
    OBVIOUS
  <2>1. call \in Queued /\ call \in given_up
    OBVIOUS
  <2> QED
    BY <2>1 DEF AgentsInv, CallsAreServed
<1> QED
  BY <1>1, <1>2 DEF CallsAreServed

----------------------------------------------------------------------------
(* The actions *)

LEMMA SendKeeps == AgentsInv /\ Send => AgentsInv'
<1> SUFFICES ASSUME AgentsInv, Send PROVE AgentsInv'
  OBVIOUS
<1>1. /\ queue \in Seq(Calls) /\ IsInjective(queue) /\ queue # <<>>
      /\ running' = running \cup {Head(queue)} /\ queue' = Tail(queue)
      /\ UNCHANGED <<agent, review, given_up, heard>>
  BY DEF Send, AgentsInv, TypeOK, CallsAreApart
<1>2. /\ Head(queue) \in Calls /\ queue' \in Seq(Calls) /\ IsInjective(queue')
      /\ Queued' = Queued \ {Head(queue)} /\ Head(queue) \in Queued
  BY <1>1, TailOfQueue DEF Queued
<1>3. TypeOK'
  BY <1>1, <1>2 DEF AgentsInv, TypeOK
<1>4. CallsAreApart'
  BY <1>1, <1>2 DEF AgentsInv, CallsAreApart, Live
<1>5. OnlyLiveCallsCount'
  BY <1>1, <1>2 DEF AgentsInv, OnlyLiveCallsCount, Awaited, Live, Waiting
<1>6. CallsAreServed'
  BY <1>1, <1>2 DEF AgentsInv, CallsAreServed, Live, Waiting
<1> QED
  BY <1>1, <1>3, <1>4, <1>5, <1>6 DEF AgentsInv, HeardIsHeld, EndedAfterAll, Reporters, Waiting

\* The current call of a caller that waits: where it may be, and what is known.
LEMMA CurrentCall ==
    ASSUME AgentsInv, NEW c \in Callers, Waiting(c)
    PROVE  /\ review.status = "running" /\ agent[c].outcome = "none"
           /\ agent[c] \in Agent /\ Live(c) \in Calls /\ Live(c)[1] = c
           /\ \A i \in Issues : <<c, i>> \notin heard
<1>1. agent[c].outcome = "none" /\ agent[c] \in Agent
  BY DEF AgentsInv, HeardIsHeld, TypeOK
<1>2. \A i \in Issues : c \notin Reporters(i)
  BY <1>1 DEF Reporters
<1>3. \A i \in Issues : <<c, i>> \notin heard
  BY <1>2 DEF AgentsInv, HeardIsHeld
<1>4. review.status = "running"
  BY DEF AgentsInv, EndedAfterAll
<1> QED
  BY <1>1, <1>3, <1>4, LiveType DEF AgentsInv

\* The parts that look at what the callers hold, when one of them moves on or
\* ends with what is put down to it.
LEMMA CallerHolds ==
    ASSUME AgentsInv, NEW c \in Callers, Waiting(c),
           UNCHANGED review,
           \A d \in Callers \ {c} : agent'[d] = agent[d],
           NEW found \in SUBSET Issues,
           Waiting(c)' => agent'[c].outcome = "none",
           \/ agent'[c].outcome = "answered" /\ agent'[c].found = found
              /\ heard' = heard \cup {c} \X found
           \/ agent'[c].outcome # "answered" /\ heard' = heard
    PROVE  HeardIsHeld' /\ EndedAfterAll'
<1>1. review.status = "running" /\ \A i \in Issues : <<c, i>> \notin heard
  BY CurrentCall
<1>2. ASSUME NEW d \in Callers, NEW i \in Issues
      PROVE  <<d, i>> \in heard' <=> d \in Reporters(i)'
  <2>1. CASE d = c
    <3>1. c \in Reporters(i)' <=> agent'[c].outcome = "answered" /\ i \in agent'[c].found
      BY DEF Reporters
    <3> QED
      BY <1>1, <2>1, <3>1
  <2>2. CASE d # c
    <3>1. d \in Reporters(i)' <=> d \in Reporters(i)
      BY <2>2 DEF Reporters
    <3>2. <<d, i>> \in heard' <=> <<d, i>> \in heard
      BY <2>2
    <3> QED
      BY <3>1, <3>2 DEF AgentsInv, HeardIsHeld
  <2> QED
    BY <2>1, <2>2
<1>3. \A d \in Callers : Waiting(d)' => agent'[d].outcome = "none"
  BY DEF AgentsInv, HeardIsHeld, Waiting
<1>4. HeardIsHeld'
  BY <1>2, <1>3 DEF HeardIsHeld
<1> QED
  BY <1>1, <1>4 DEF EndedAfterAll

LEMMA TimeoutKeeps ==
    ASSUME AgentsInv, NEW c \in Callers, Timeout(c) PROVE AgentsInv'
<1> DEFINE waiting == Cancelled(c)
           new == <<c, agent[c].attempt + 1, 1>>
<1>1. /\ Waiting(c) /\ given_up' = given_up \cup {Live(c)}
      /\ UNCHANGED <<running, review, heard>>
      /\ queue \in Seq(Calls) /\ IsInjective(queue)
      /\ agent \in [Callers -> Agent]
  BY DEF Timeout, AgentsInv, TypeOK, CallsAreApart
<1>2. /\ agent[c] \in Agent /\ Live(c) \in Calls /\ Live(c)[1] = c
      /\ agent[c].outcome = "none"
  BY <1>1, CurrentCall
<1>3. /\ waiting \in Seq(Calls) /\ IsInjective(waiting)
      /\ ToSet(waiting) = Queued \ {Live(c)}
  BY <1>1, CancelFromQueue DEF Queued, Cancelled
<1> HIDE DEF waiting
<1>4. given_up' \in SUBSET Calls
  BY <1>1, <1>2 DEF AgentsInv, TypeOK
<1>5. CASE agent[c].attempt < Attempts(c)
  <2>1. agent[c].attempt + 1 \in 1..2 /\ agent[c].attempt \in Nat
    BY <1>2, <1>5 DEF Attempts, Agent
  <2>2. new \in Calls /\ new[1] = c /\ Earlier(Live(c), new)
    BY <2>1, ChainAssumption DEF Calls, Earlier, Live
  <2>3. agent'[c] = [Coroutine("calling") EXCEPT !.attempt = agent[c].attempt + 1]
        /\ \A d \in Callers \ {c} : agent'[d] = agent[d]
    BY <1>1, <1>5 DEF Timeout
  <2>4. /\ agent'[c] \in Agent /\ agent'[c].pc = "calling" /\ agent'[c].outcome = "none"
        /\ agent'[c].attempt = agent[c].attempt + 1 /\ agent'[c].model = 1
    <3> DEFINE again == [pc |-> "calling", attempt |-> agent[c].attempt + 1, model |-> 1,
                         raw |-> FALSE, outcome |-> "none", found |-> {}]
    <3>1. agent'[c] = again
      BY <2>3 DEF Coroutine
    <3>2. 1 \in 1..Models
      BY ChainAssumption
    <3>3. again \in Agent
      BY <2>1, <3>2 DEF Agent, Outcomes
    <3>4. /\ again.pc = "calling" /\ again.outcome = "none"
          /\ again.attempt = agent[c].attempt + 1 /\ again.model = 1
      OBVIOUS
    <3> QED
      BY <3>1, <3>3, <3>4
  <2>5. Live(c)' = new /\ Waiting(c)'
    BY <2>4 DEF Live, Waiting
  <2>6. queue' = Append(waiting, new)
    BY <1>5 DEF Timeout, waiting
  <2> HIDE DEF new
  <2>7. new \notin ToSet(waiting)
    BY <1>3, <2>2, LaterIsNew DEF AgentsInv
  <2>8. queue' \in Seq(Calls) /\ IsInjective(queue') /\ Queued' = (Queued \ {Live(c)}) \cup {new}
    BY <1>3, <2>2, <2>6, <2>7, AppendToQueue DEF Queued
  <2>9. CallsAreApart' /\ OnlyLiveCallsCount'
    BY <1>1, <1>2, <2>2, <2>3, <2>5, <2>8, CallerGoesOn
  <2>10. HeardIsHeld' /\ EndedAfterAll'
    BY <1>1, <2>3, <2>4, CallerHolds
  <2>11. agent' \in [Callers -> Agent]
    BY <1>1, <1>5, <2>4 DEF Timeout
  <2>12. TypeOK'
    BY <1>1, <1>4, <2>8, <2>11 DEF AgentsInv, TypeOK
  <2>13. CallsAreServed'
    <3>1. new # Live(c) /\ new \notin given_up
      BY <1>2, <2>2, LaterIsNew, CallType, ChainAssumption DEF AgentsInv, Earlier
    <3> QED
      BY <1>1, <2>3, <2>5, <2>8, <3>1, CallersAreServed
  <2> QED
    BY <2>9, <2>10, <2>12, <2>13 DEF AgentsInv
<1>6. CASE ~(agent[c].attempt < Attempts(c))
  <2>1. /\ agent' = [agent EXCEPT ![c].pc = "done", ![c].outcome = "timeout"]
        /\ queue' = waiting
    BY <1>6 DEF Timeout, waiting
  <2>2. /\ agent'[c] \in Agent /\ agent'[c].pc = "done" /\ agent'[c].outcome = "timeout"
        /\ agent'[c].attempt = agent[c].attempt /\ agent'[c].model = agent[c].model
        /\ \A d \in Callers \ {c} : agent'[d] = agent[d]
    BY <1>1, <1>2, <2>1 DEF Agent, Outcomes
  <2>3. Live(c)' = Live(c) /\ ~Waiting(c)'
    BY <2>2 DEF Live, Waiting
  <2>4. Queued' = Queued \ {Live(c)}
    BY <1>3, <2>1 DEF Queued
  <2>5. CallsAreApart' /\ OnlyLiveCallsCount'
    BY <1>1, <1>3, <2>1, <2>2, <2>3, <2>4, CallerEnds
  <2>6. HeardIsHeld' /\ EndedAfterAll'
    BY <1>1, <2>2, <2>3, CallerHolds
  <2>7. agent' \in [Callers -> Agent]
    BY <1>1, <2>1, <2>2
  <2>8. TypeOK'
    BY <1>1, <1>3, <1>4, <2>1, <2>7 DEF AgentsInv, TypeOK
  <2>9. CallsAreServed'
    <3>1. \A call \in Queued \cup running : call # Live(c) => call \in Queued' \cup running'
      BY <1>1, <2>4
    <3> QED
      BY <1>1, <2>2, <2>3, <2>4, <3>1, CallersAreServed
  <2> QED
    BY <2>5, <2>6, <2>8, <2>9 DEF AgentsInv
<1> QED
  BY <1>5, <1>6

\* The awaited call leaves its thread and its caller ends.
LEMMA AnswerEnds ==
    ASSUME AgentsInv, NEW call \in running, Awaited(call), running' = running \ {call},
           UNCHANGED <<review, given_up>>,
           NEW outcome \in Outcomes, NEW found \in SUBSET Issues,
           Ends(call[1], outcome, found),
           \/ outcome = "answered" /\ heard' = heard \cup {call[1]} \X found
           \/ outcome # "answered" /\ heard' = heard
    PROVE  AgentsInv'
<1> DEFINE c == call[1]
<1>1. /\ c \in Callers /\ Waiting(c) /\ call = Live(c)
      /\ agent \in [Callers -> Agent] /\ queue' = queue
      /\ agent' = [agent EXCEPT ![c].pc = "done", ![c].outcome = outcome,
                               ![c].found = found]
  BY CallsOnTheWay, CallType DEF AgentsInv, TypeOK, Awaited, Ends
<1> HIDE DEF c
<1>2. /\ agent'[c] \in Agent /\ agent'[c].pc = "done" /\ agent'[c].outcome = outcome
      /\ agent'[c].found = found
      /\ agent'[c].attempt = agent[c].attempt /\ agent'[c].model = agent[c].model
      /\ \A d \in Callers \ {c} : agent'[d] = agent[d]
  BY <1>1 DEF Agent, Outcomes
<1>3. Live(c)' = Live(c) /\ ~Waiting(c)'
  BY <1>2 DEF Live, Waiting
<1>4. /\ IsInjective(queue') /\ Queued' \subseteq Queued /\ running' \subseteq running
      /\ Live(c) \notin Queued' \cup running'
  BY <1>1 DEF AgentsInv, CallsAreApart, Queued
<1>5. CallsAreApart' /\ OnlyLiveCallsCount'
  BY <1>1, <1>2, <1>3, <1>4, CallerEnds
<1>6. HeardIsHeld' /\ EndedAfterAll'
  <2>1. \/ agent'[c].outcome = "answered" /\ agent'[c].found = found
           /\ heard' = heard \cup {c} \X found
        \/ agent'[c].outcome # "answered" /\ heard' = heard
    BY <1>2 DEF c
  <2> QED
    BY <1>1, <1>2, <1>3, <2>1, CallerHolds
<1>7. heard' \in SUBSET (Callers \X Issues)
  BY <1>1 DEF AgentsInv, TypeOK, c
<1>8. TypeOK'
  <2>1. agent' \in [Callers -> Agent]
    BY <1>1, <1>2
  <2> QED
    BY <1>1, <1>7, <2>1 DEF AgentsInv, TypeOK
<1>9. CallsAreServed'
  <2>1. Queued' = Queued /\ given_up' = given_up
    BY <1>1 DEF Queued
  <2>2. \A d \in Queued \cup running : d # Live(c) => d \in Queued' \cup running'
    BY <1>1, <2>1
  <2> QED
    BY <1>1, <1>2, <1>3, <1>4, <2>1, <2>2, CallersAreServed
<1> QED
  BY <1>5, <1>6, <1>8, <1>9 DEF AgentsInv

\* The awaited call leaves its thread and its caller goes down the chain.
LEMMA AnswerGoesOn ==
    ASSUME AgentsInv, NEW call \in running, Awaited(call), running' = running \ {call},
           UNCHANGED <<review, given_up, heard>>,
           NEW raw \in BOOLEAN, NextModel(call[1], raw)
    PROVE  AgentsInv'
<1> DEFINE c == call[1]
           new == <<c, agent[c].attempt, agent[c].model + 1>>
<1>1. /\ c \in Callers /\ Waiting(c) /\ call = Live(c)
      /\ agent \in [Callers -> Agent] /\ queue \in Seq(Calls) /\ IsInjective(queue)
  BY CallsOnTheWay, CallType DEF AgentsInv, TypeOK, Awaited, CallsAreApart
<1>2. CASE agent[c].model < Models
  <2>1. /\ agent' = [agent EXCEPT ![c].model = @ + 1, ![c].raw = raw]
        /\ queue' = Append(queue, new)
    BY <1>2 DEF NextModel
  <2> HIDE DEF c
  <2>2. agent[c].attempt \in 1..2 /\ agent[c].model + 1 \in 1..Models /\ agent[c].model \in Nat
    BY <1>1, <1>2, ChainAssumption DEF Agent
  <2>3. new \in Calls /\ new[1] = c /\ Earlier(Live(c), new)
    BY <1>1, <2>2 DEF Calls, Earlier, Live
  <2>4. /\ agent'[c] \in Agent /\ agent'[c].pc = agent[c].pc
        /\ agent'[c].outcome = agent[c].outcome
        /\ agent'[c].attempt = agent[c].attempt /\ agent'[c].model = agent[c].model + 1
        /\ \A d \in Callers \ {c} : agent'[d] = agent[d]
    BY <1>1, <2>1, <2>2 DEF Agent
  <2>5. Live(c)' = new /\ Waiting(c)' /\ agent'[c].outcome = "none"
    BY <1>1, <2>4, CurrentCall DEF Live, Waiting
  <2> HIDE DEF new
  <2>6. new \notin Queued
    BY <1>1, <2>3, LaterIsNew DEF AgentsInv
  <2>7. queue' \in Seq(Calls) /\ IsInjective(queue') /\ Queued' = Queued \cup {new}
    BY <1>1, <2>1, <2>3, <2>6, AppendToQueue DEF Queued
  <2>8. Live(c) \notin Queued' \cup running'
    <3>1. new # Live(c)
      BY <2>2, <2>3, <2>5 DEF Live, new
    <3> QED
      BY <1>1, <2>7, <3>1 DEF AgentsInv, CallsAreApart
  <2>9. CallsAreApart' /\ OnlyLiveCallsCount'
    BY <1>1, <2>3, <2>4, <2>5, <2>7, <2>8, CallerGoesOn
  <2>10. HeardIsHeld' /\ EndedAfterAll'
    <3>1. {} \in SUBSET Issues
      OBVIOUS
    <3> QED
      BY <1>1, <2>4, <2>5, <3>1, CallerHolds
  <2>11. TypeOK'
    <3>1. agent' \in [Callers -> Agent]
      BY <1>1, <2>1, <2>4
    <3> QED
      BY <2>7, <3>1 DEF AgentsInv, TypeOK
  <2>12. CallsAreServed'
    <3>1. new \notin given_up
      BY <1>1, <2>3, LaterIsNew DEF AgentsInv
    <3> QED
      BY <1>1, <2>4, <2>5, <2>7, <3>1, CallersAreServed
  <2> QED
    BY <2>9, <2>10, <2>11, <2>12 DEF AgentsInv
<1>3. CASE ~(agent[c].model < Models)
  <2> DEFINE outcome == IF raw THEN "raw" ELSE "error"
  <2>1. Ends(call[1], outcome, {})
    BY <1>3 DEF NextModel
  <2>2. outcome \in Outcomes /\ outcome # "answered" /\ {} \in SUBSET Issues
    BY DEF Outcomes
  <2> HIDE DEF outcome
  <2> QED
    BY <2>1, <2>2, AnswerEnds
<1> QED
  BY <1>2, <1>3

LEMMA AnswerKeeps ==
    ASSUME AgentsInv, NEW call \in running, NEW found \in SUBSET Issues,
           NEW kind \in {"answered", "malformed", "raw", "error"}, Answer(call, kind, found)
    PROVE  AgentsInv'
<1> DEFINE c == call[1]
<1>1. running' = running \ {call} /\ UNCHANGED <<review, given_up>> /\ c \in Callers
  BY CallsOnTheWay, CallType DEF Answer, AgentsInv
<1>2. CASE ~Awaited(call)
  <2>1. agent' = agent /\ queue' = queue
    BY <1>2 DEF Answer
  <2>2. call \in given_up
    BY <1>2 DEF AgentsInv, OnlyLiveCallsCount
  <2>3. heard' = heard
    BY <2>2 DEF Answer
  <2>4. TypeOK' /\ CallsAreApart'
    BY <1>1, <2>1, <2>3 DEF AgentsInv, TypeOK, CallsAreApart, Queued, Live
  <2>5. OnlyLiveCallsCount'
    BY <1>1, <2>1 DEF AgentsInv, OnlyLiveCallsCount, Queued, Awaited, Live, Waiting
  <2>6. CallsAreServed'
    BY <1>1, <2>1, <2>2
    DEF AgentsInv, OnlyLiveCallsCount, CallsAreServed, Queued, Live, Waiting
  <2> QED
    BY <1>1, <2>1, <2>3, <2>4, <2>5, <2>6
    DEF AgentsInv, HeardIsHeld, EndedAfterAll, Reporters, Waiting
<1>3. CASE Awaited(call)
  <2>1. Waiting(c) /\ call = Live(c) /\ call \notin given_up
    BY <1>1, <1>3 DEF Awaited, AgentsInv, OnlyLiveCallsCount
  <2>2. heard' = IF kind = "answered" THEN heard \cup {c} \X found ELSE heard
    BY <2>1 DEF Answer
  <2>3. CASE kind \in {"answered", "malformed"}
    <3>1. Ends(call[1], kind, found)
      BY <1>3, <2>3 DEF Answer
    <3>2. kind \in Outcomes
      BY <2>3 DEF Outcomes
    <3> QED
      BY <1>1, <1>3, <2>2, <2>3, <3>1, <3>2, AnswerEnds
  <2>4. CASE kind = "raw"
    <3>1. NextModel(call[1], TRUE) /\ heard' = heard
      BY <1>3, <2>2, <2>4 DEF Answer
    <3> QED
      BY <1>1, <1>3, <3>1, AnswerGoesOn
  <2>5. CASE kind = "error"
    <3>1. NextModel(call[1], agent[c].raw) /\ heard' = heard
      BY <1>3, <2>2, <2>5 DEF Answer
    <3>2. agent[c].raw \in BOOLEAN
      BY <1>1 DEF AgentsInv, TypeOK, Agent
    <3> QED
      BY <1>1, <1>3, <3>1, <3>2, AnswerGoesOn
  <2> QED
    BY <2>3, <2>4, <2>5
<1> QED
  BY <1>2, <1>3

LEMMA FinishKeeps == AgentsInv /\ Finish => AgentsInv'
<1> SUFFICES ASSUME AgentsInv, Finish PROVE AgentsInv'
  OBVIOUS
<1>1. /\ UNCHANGED <<agent, queue, running, given_up, heard>>
      /\ \A c \in Callers : ~Waiting(c)
  BY DEF Finish, Waiting
<1>2. CASE Unmergeable
  <2>1. review' = [review EXCEPT !.status = "failed"] /\ review \in Review
    BY <1>2 DEF Finish, AgentsInv, TypeOK
  <2>2. review' \in Review /\ review'.status = "failed"
    BY <2>1 DEF Review
  <2>3. EndedAfterAll'
    BY <1>1, <2>2 DEF EndedAfterAll, Waiting
  <2> QED
    BY <1>1, <2>2, <2>3 DEF AgentsInv, TypeOK, CallsAreApart, OnlyLiveCallsCount,
       CallsAreServed, HeardIsHeld, Reporters, Queued, Awaited, Live, Waiting
<1>3. CASE ~Unmergeable
  <2>1. review' = [status |-> "completed", found |-> [i \in Issues |-> Reporters(i)],
                   models_used |-> Answered,
                   verdict |-> [i \in Issues |-> IF Reporters(i) = {} THEN "verified"
                                                 ELSE "still_present"]]
    BY <1>3 DEF Finish
  <2>2. review'.status = "completed" /\ \A i \in Issues : review'.found[i] = Reporters(i)
    BY <2>1
  <2>3. review' \in Review
    <3>1. [i \in Issues |-> Reporters(i)] \in [Issues -> SUBSET Callers]
      BY DEF Reporters
    <3>2. Answered \in SUBSET Agents
      BY DEF Answered
    <3> QED
      BY <2>1, <3>1, <3>2 DEF Review
  <2>4. EndedAfterAll'
    BY <1>1, <2>2 DEF EndedAfterAll, Waiting, Reporters
  <2> QED
    BY <1>1, <2>3, <2>4 DEF AgentsInv, TypeOK, CallsAreApart, OnlyLiveCallsCount,
       CallsAreServed, HeardIsHeld, Reporters, Queued, Awaited, Live, Waiting
<1> QED
  BY <1>2, <1>3

LEMMA NextAgents == AgentsInv /\ [Next]_vars => AgentsInv'
<1> SUFFICES ASSUME AgentsInv, [Next]_vars PROVE AgentsInv'
  OBVIOUS
<1>1. CASE Send
  BY <1>1, SendKeeps
<1>2. ASSUME NEW call \in running, NEW found \in SUBSET Issues,
             NEW kind \in {"answered", "malformed", "raw", "error"}, Answer(call, kind, found)
      PROVE  AgentsInv'
  BY <1>2, AnswerKeeps
<1>3. ASSUME NEW c \in Callers, Timeout(c) PROVE AgentsInv'
  BY <1>3, TimeoutKeeps
<1>4. CASE Finish
  BY <1>4, FinishKeeps
<1>5. CASE UNCHANGED vars
  BY <1>5 DEF vars, AgentsInv, TypeOK, CallsAreApart, OnlyLiveCallsCount, HeardIsHeld,
     CallsAreServed, EndedAfterAll, Reporters, Queued, Awaited, Live, Waiting
<1> QED
  BY <1>1, <1>2, <1>3, <1>4, <1>5 DEF Next

LEMMA HeldIsTimely == AgentsInv => OnlyTimelyAnswers
<1> SUFFICES ASSUME AgentsInv, review.status = "completed", NEW i \in Issues
             PROVE  review.found[i] = {c \in Callers : <<c, i>> \in heard}
  BY DEF OnlyTimelyAnswers
<1>1. review.found[i] = Reporters(i) /\ \A c \in Callers : <<c, i>> \in heard <=> c \in Reporters(i)
  BY DEF AgentsInv, EndedAfterAll, HeardIsHeld
<1> QED
  BY <1>1 DEF Reporters

\* Whatever the number of reviewers, threads and models: a completed review holds
\* what its agents reported within a window and nothing else (run_agents and
\* call_agent).
THEOREM ReviewsHoldTimelyAnswers == Spec => [](TypeOK /\ OnlyTimelyAnswers)
<1>1. AgentsInv => TypeOK /\ OnlyTimelyAnswers
  BY HeldIsTimely DEF AgentsInv
<1> QED
  BY InitAgents, NextAgents, <1>1, PTL DEF Spec

\* The shapes of a review of any number of agents, threads, models and retries:
\* the pool, the calls on the way, their answers and what became of the review.
THEOREM TypeCorrect == Spec => []TypeOK
<1> QED
  BY ReviewsHoldTimelyAnswers, PTL

\* Whatever answers, fails and is given up, in whatever order: an agent that waits
\* has its call in the queue or in a thread, and no thread begins a call that was
\* given up (_run_agent in app/ai/orchestrator.py over asyncio.to_thread).
THEOREM ThreadsAreNotWasted == Spec => []ThreadsServeTheWaiting
<1>1. AgentsInv => ThreadsServeTheWaiting
  BY DEF AgentsInv, OnlyLiveCallsCount, CallsAreServed, ThreadsServeTheWaiting, Queued
<1> QED
  BY InitAgents, NextAgents, <1>1, PTL DEF Spec
============================================================================
