------------------------ MODULE DocumentStore_proofs ------------------------
(***************************************************************************)
(* Any documents, requests and versions: two live documents of a group     *)
(* share a number only if one of them was overtaken while it was numbered, *)
(* and a row has its file.  A number is read before it is written, so the  *)
(* invariant follows it in the request that carries it: while nobody       *)
(* overtakes the request its number is still free in its group (FreshInv), *)
(* and what the session will not write because it saw no change is still   *)
(* unchanged (CarryInv).                                                   *)
(***************************************************************************)
EXTENDS DocumentStore, TLAPS, WellFoundedInduction

Row == [row : {"live", "purged"}, group : Docs, version : 1..MaxVersion]
Both == {"group", "version"}
Carries(q) == q \in Numbering

\* Only the founder of a group has number one.
FounderInv == \A d \in Docs : (doc[d] # NoDoc /\ doc[d].version = 1) => doc[d].group = d

CarryInv ==
    \A r \in DocRequests : Carries(request[r]) =>
        LET q == request[r]
        IN  /\ q.version = 1 => q.op \in {"store", "insert"} /\ q.group = q.doc
            /\ q.op \in {"store", "insert"} =>
                   /\ doc[q.doc] = NoDoc /\ q.writes = Both
                   /\ \A s \in DocRequests \ {r} : ~Free(s) => request[s].doc # q.doc
            /\ (q.op \in {"link", "accept"} /\ doc[q.doc] # NoDoc) =>
                   /\ "version" \notin q.writes => doc[q.doc].version # 1
                   /\ ~q.overtaken =>
                        /\ "group" \notin q.writes => doc[q.doc].group = q.group
                        /\ "version" \notin q.writes => doc[q.doc].version = q.version

FreshInv ==
    \A r \in DocRequests : (Carries(request[r]) /\ ~request[r].overtaken) =>
        \A e \in Docs \ {request[r].doc} :
            (Live(e) /\ doc[e].group = request[r].group /\ e \notin contested) =>
                doc[e].version # request[r].version

\* The bytes of a row that is about to be inserted are in the store.
FileInv == \A r \in DocRequests : request[r].op = "insert" => request[r].doc \in file

NumberInv == FounderInv /\ CarryInv /\ FreshInv /\ VersionsCollideOnlyByOverlap
DocInv == DocTypeOK /\ NumberInv /\ FileInv /\ RowsHaveWhatTheyName

----------------------------------------------------------------------------
\* A set of numbers below a bound has a greatest one.
LEMMA HasGreatest ==
    ASSUME NEW n \in Nat, NEW S \in SUBSET (1..n), S # {}
    PROVE  \E m \in S : \A w \in S : w <= m
<1> DEFINE T == {k \in Nat : \E w \in S : k = n - w}
<1>1. T \subseteq Nat /\ T # {}
  <2>1. PICK w \in S : TRUE
    OBVIOUS
  <2>2. w \in 1..n /\ n - w \in Nat
    OBVIOUS
  <2> QED
    BY <2>2
<1>2. PICK k \in T : \A j \in T : <<j, k>> \notin OpToRel(<, Nat)
  <2> HIDE DEF T
  <2> QED
    BY <1>1, WFMin, NatLessThanWellFounded, Zenon
<1>3. \A j \in T : ~(j < k)
  BY <1>2, Zenon DEF OpToRel
<1>4. PICK m \in S : k = n - m
  OBVIOUS
<1>5. ASSUME NEW w \in S PROVE w <= m
  <2>1. w \in 1..n /\ m \in 1..n
    OBVIOUS
  <2>2. n - w \in T
    BY <2>1
  <2> QED
    BY <1>3, <1>4, <2>1, <2>2
<1> QED
  BY <1>5

\* max(version) + 1 is a number no live document of the group has.
LEMMA NextIsFree ==
    ASSUME DocTypeOK, NEW g \in Docs
    PROVE  /\ NextVersion(g) \in 1..(MaxVersion + 1)
           /\ \A w \in Numbers(g) : w < NextVersion(g)
           /\ InGroup(g) # {} => NextVersion(g) # 1
<1> USE DocAssumption
<1>1. \A d \in InGroup(g) : doc[d].version \in 1..MaxVersion
  BY DEF DocTypeOK, InGroup, Live, NoDoc
<1>2. Numbers(g) \in SUBSET (1..MaxVersion)
  BY <1>1 DEF Numbers
<1>3. \E v \in 1..(MaxVersion + 1) :
         (v = 1 \/ v - 1 \in Numbers(g)) /\ \A w \in Numbers(g) : w < v
  <2>1. CASE Numbers(g) = {}
    BY <2>1
  <2>2. CASE Numbers(g) # {}
    <3>1. PICK m \in Numbers(g) : \A w \in Numbers(g) : w <= m
      BY <1>2, <2>2, HasGreatest
    <3>2. m \in 1..MaxVersion /\ \A w \in Numbers(g) : w \in 1..MaxVersion
      BY <1>2
    <3>3. m + 1 \in 1..(MaxVersion + 1) /\ (m + 1) - 1 = m
          /\ \A w \in Numbers(g) : w < m + 1
      BY <3>1, <3>2
    <3> QED
      BY <3>3
  <2> QED
    BY <2>1, <2>2
<1>4. /\ NextVersion(g) \in 1..(MaxVersion + 1)
      /\ \A w \in Numbers(g) : w < NextVersion(g)
  BY <1>3 DEF NextVersion
<1>5. InGroup(g) # {} => NextVersion(g) # 1
  <2> SUFFICES ASSUME NEW d \in InGroup(g) PROVE NextVersion(g) # 1
    OBVIOUS
  <2>1. doc[d].version \in Numbers(g) /\ doc[d].version \in 1..MaxVersion
    BY <1>1 DEF Numbers
  <2> QED
    BY <1>4, <2>1
<1> QED
  BY <1>4, <1>5

LEMMA RowType ==
    ASSUME DocTypeOK, NEW d \in Docs, doc[d] # NoDoc
    PROVE  /\ doc[d] \in Row /\ doc[d].group \in Docs /\ doc[d].version \in 1..MaxVersion
           /\ doc[d].row \in {"live", "purged"}
  BY DEF DocTypeOK, Row

LEMMA RequestType ==
    ASSUME DocTypeOK, NEW r \in DocRequests, ~Free(r)
    PROVE  /\ request[r].doc \in Docs
           /\ request[r].op \in {"store", "insert", "link", "accept"} <=> Carries(request[r])
           /\ ~Carries(request[r]) => request[r] \in [op : {"suggest", "remove"}, doc : Docs]
  BY DEF DocTypeOK, Free, Idle, Numbering, Carries

LEMMA InitDocuments == DocInit => DocInv
<1> SUFFICES ASSUME DocInit PROVE DocInv
  OBVIOUS
<1>1. DocTypeOK
  BY DEF DocInit, DocTypeOK
<1>2. NumberInv
  BY DEF DocInit, NumberInv, FounderInv, CarryInv, FreshInv, Carries, Idle, Numbering,
         VersionsCollideOnlyByOverlap, Live, NoDoc
<1>3. FileInv /\ RowsHaveWhatTheyName
  BY DEF DocInit, FileInv, RowsHaveWhatTheyName, Idle
<1> QED
  BY <1>1, <1>2, <1>3 DEF DocInv

----------------------------------------------------------------------------
\* What a request may carry after a step that commits no number: what it carried
\* before, the file stored meanwhile; and it names no document of another's.
OnlyMovesOn ==
    \A r \in DocRequests :
        /\ Carries(request'[r]) =>
               /\ Carries(request[r])
               /\ \A f \in {"doc", "group", "version", "writes", "overtaken"} :
                      request'[r][f] = request[r][f]
               /\ \/ request'[r].op = request[r].op
                  \/ request'[r].op = "insert" /\ request[r].op = "store"
        /\ request'[r] # Idle =>
               \/ request[r] # Idle /\ request'[r].doc = request[r].doc
               \/ doc[request'[r].doc] # NoDoc

\* Rows disappear, or are purged, and lose no excuse while they are there.
OnlyShrinks ==
    /\ \A d \in Docs :
          \/ doc'[d] = doc[d]
          \/ doc'[d] = NoDoc
          \/ /\ doc[d] # NoDoc /\ doc'[d].row # "live"
             /\ doc'[d].group = doc[d].group /\ doc'[d].version = doc[d].version
    /\ \A d \in Docs : d \in contested' => d \in contested
    /\ \A d \in Docs : d \in contested /\ d \notin contested' => doc'[d] = NoDoc

LEMMA ShrinkKeepsNumbers ==
    ASSUME DocTypeOK, DocTypeOK', NumberInv, OnlyMovesOn, OnlyShrinks
    PROVE  NumberInv'
<1>1. \A d \in Docs : Live(d)' => Live(d) /\ doc'[d] = doc[d] /\ (d \in contested => d \in contested')
  BY DEF OnlyShrinks, Live, NoDoc
<1>2. \A d \in Docs : doc'[d] # NoDoc =>
          doc[d] # NoDoc /\ doc'[d].group = doc[d].group /\ doc'[d].version = doc[d].version
  BY DEF OnlyShrinks
<1>3. FounderInv'
  BY <1>2 DEF NumberInv, FounderInv
<1>4. ASSUME NEW r \in DocRequests, Carries(request'[r])
      PROVE  /\ Carries(request[r]) /\ request[r].doc \in Docs
             /\ request'[r].doc = request[r].doc /\ request'[r].group = request[r].group
             /\ request'[r].version = request[r].version
             /\ request'[r].writes = request[r].writes
             /\ request'[r].overtaken = request[r].overtaken
             /\ \/ request'[r].op = request[r].op
                \/ request'[r].op = "insert" /\ request[r].op = "store"
  BY <1>4 DEF OnlyMovesOn, Carries, Numbering
<1>5. CarryInv'
  <2> SUFFICES ASSUME NEW r \in DocRequests, Carries(request'[r])
               PROVE  LET q == request'[r]
                      IN  /\ q.version = 1 => q.op \in {"store", "insert"} /\ q.group = q.doc
                          /\ q.op \in {"store", "insert"} =>
                                 /\ doc'[q.doc] = NoDoc /\ q.writes = Both
                                 /\ \A s \in DocRequests \ {r} :
                                        request'[s] # Idle => request'[s].doc # q.doc
                          /\ (q.op \in {"link", "accept"} /\ doc'[q.doc] # NoDoc) =>
                                 /\ "version" \notin q.writes => doc'[q.doc].version # 1
                                 /\ ~q.overtaken =>
                                      /\ "group" \notin q.writes => doc'[q.doc].group = q.group
                                      /\ "version" \notin q.writes =>
                                             doc'[q.doc].version = q.version
    BY DEF CarryInv, Free, Carries, Both
  <2> DEFINE p == request[r]
  <2>1. /\ p.version = 1 => p.op \in {"store", "insert"} /\ p.group = p.doc
        /\ p.op \in {"store", "insert"} =>
               /\ doc[p.doc] = NoDoc /\ p.writes = Both
               /\ \A s \in DocRequests \ {r} : request[s] # Idle => request[s].doc # p.doc
        /\ (p.op \in {"link", "accept"} /\ doc[p.doc] # NoDoc) =>
               /\ "version" \notin p.writes => doc[p.doc].version # 1
               /\ ~p.overtaken => /\ "group" \notin p.writes => doc[p.doc].group = p.group
                                  /\ "version" \notin p.writes => doc[p.doc].version = p.version
    BY <1>4 DEF NumberInv, CarryInv, Free
  <2>2. p.op \in {"store", "insert"} =>
            \A s \in DocRequests \ {r} : request'[s] # Idle => request'[s].doc # p.doc
    BY <2>1 DEF OnlyMovesOn
  <2>3. p.op \in {"store", "insert"} => doc'[p.doc] = NoDoc
    BY <2>1, <1>2, <1>4
  <2> QED
    BY <1>2, <1>4, <2>1, <2>2, <2>3
<1>6. FreshInv'
  <2> SUFFICES ASSUME NEW r \in DocRequests, Carries(request'[r]), ~request'[r].overtaken,
                      NEW e \in Docs \ {request'[r].doc}, Live(e)',
                      doc'[e].group = request'[r].group, e \notin contested'
               PROVE  doc'[e].version # request'[r].version
    BY DEF FreshInv, Carries
  <2> QED
    BY <1>1, <1>4 DEF NumberInv, FreshInv
<1>7. VersionsCollideOnlyByOverlap'
  BY <1>1 DEF NumberInv, VersionsCollideOnlyByOverlap
<1> QED
  BY <1>3, <1>5, <1>6, <1>7 DEF NumberInv

\* A request reads a number of its own, or takes one that is free.
LEMMA StartKeepsNumbers ==
    ASSUME DocTypeOK, NumberInv, NEW r \in DocRequests, Free(r), NEW q \in Numbering,
           request' = [request EXCEPT ![r] = q], UNCHANGED <<doc, contested>>,
           q.version = 1 => q.op \in {"store", "insert"} /\ q.group = q.doc,
           q.op \in {"store", "insert"} =>
               /\ doc[q.doc] = NoDoc /\ q.writes = Both
               /\ \A s \in DocRequests : ~Free(s) => request[s].doc # q.doc,
           q.op \in {"link", "accept"} =>
               /\ doc[q.doc] # NoDoc
               /\ "version" \notin q.writes => doc[q.doc].version # 1
               /\ "group" \notin q.writes => doc[q.doc].group = q.group
               /\ "version" \notin q.writes => doc[q.doc].version = q.version,
           \A e \in Docs \ {q.doc} :
               (Live(e) /\ doc[e].group = q.group) => doc[e].version # q.version
    PROVE  NumberInv'
<1>1. request'[r] = q /\ \A s \in DocRequests \ {r} : request'[s] = request[s]
  BY DEF DocTypeOK
<1>2. FounderInv' /\ VersionsCollideOnlyByOverlap'
  BY DEF NumberInv, FounderInv, VersionsCollideOnlyByOverlap, Live
<1>3. q.op \in {"store", "insert", "link", "accept"}
  BY DEF Numbering
<1>4. CarryInv'
  <2> SUFFICES ASSUME NEW s \in DocRequests, Carries(request'[s])
               PROVE  LET p == request'[s]
                      IN  /\ p.version = 1 => p.op \in {"store", "insert"} /\ p.group = p.doc
                          /\ p.op \in {"store", "insert"} =>
                                 /\ doc[p.doc] = NoDoc /\ p.writes = Both
                                 /\ \A t \in DocRequests \ {s} :
                                        request'[t] # Idle => request'[t].doc # p.doc
                          /\ (p.op \in {"link", "accept"} /\ doc[p.doc] # NoDoc) =>
                                 /\ "version" \notin p.writes => doc[p.doc].version # 1
                                 /\ ~p.overtaken =>
                                      /\ "group" \notin p.writes => doc[p.doc].group = p.group
                                      /\ "version" \notin p.writes =>
                                             doc[p.doc].version = p.version
    BY DEF CarryInv, Free, Carries, Both
  <2>1. CASE s = r
    BY <2>1, <1>1 DEF Free
  <2>2. CASE s # r
    <3>1. Carries(request[s]) /\ request[s] # Idle
      BY <2>2, <1>1 DEF Carries, Numbering, Idle
    <3>2. request[s].op \in {"store", "insert"} => q.doc # request[s].doc
      BY <1>3, <3>1 DEF NumberInv, CarryInv, Free
    <3> QED
      BY <2>2, <1>1, <3>1, <3>2 DEF NumberInv, CarryInv, Free
  <2> QED
    BY <2>1, <2>2
<1>5. FreshInv'
  <2> SUFFICES ASSUME NEW s \in DocRequests, Carries(request'[s]), ~request'[s].overtaken,
                      NEW e \in Docs \ {request'[s].doc}, Live(e),
                      doc[e].group = request'[s].group, e \notin contested
               PROVE  doc[e].version # request'[s].version
    BY DEF FreshInv, Carries, Live
  <2> QED
    BY <1>1 DEF NumberInv, FreshInv
<1> QED
  BY <1>2, <1>4, <1>5 DEF NumberInv

\* A request commits its number.
LEMMA CommitKeepsNumbers ==
    ASSUME DocTypeOK, NumberInv, NEW r \in DocRequests, Carries(request[r]),
           NEW row \in Row, doc' = [doc EXCEPT ![request[r].doc] = row],
           ~request[r].overtaken =>
               row.group = request[r].group /\ row.version = request[r].version,
           row.version = 1 => row.group = request[r].doc,
           request[r].op \in {"link", "accept"} => row.version # 1,
           Mark(request[r]),
           NEW next \in {Idle} \cup [op : {"suggest", "remove"}, doc : {request[r].doc}],
           Overtake(r, next)
    PROVE  NumberInv'
<1> DEFINE q == request[r]
           d == request[r].doc
<1>0. d \in Docs /\ request[r] # Idle /\ ~Carries(next) /\ (next # Idle => next.doc = d)
      /\ q.op \in {"store", "insert", "link", "accept"} /\ row # NoDoc
  BY DEF Carries, Numbering, Idle, Row, NoDoc
<1>1. doc'[d] = row /\ \A e \in Docs \ {d} : doc'[e] = doc[e]
  BY <1>0 DEF DocTypeOK
<1>2. contested' = IF q.overtaken THEN contested \cup {d} ELSE contested \ {d}
  BY DEF Mark
<1>3. request'[r] = next
  BY DEF Overtake
<1>4. ASSUME NEW s \in DocRequests, s # r
      PROVE  /\ request'[s] # Idle => request[s] # Idle /\ request'[s].doc = request[s].doc
             /\ Carries(request'[s]) =>
                  /\ Carries(request[s])
                  /\ request'[s].op = request[s].op /\ request'[s].doc = request[s].doc
                  /\ request'[s].group = request[s].group
                  /\ request'[s].version = request[s].version
                  /\ request'[s].writes = request[s].writes
                  /\ ~request'[s].overtaken =>
                         ~request[s].overtaken /\ request[s].group # q.group
                         /\ request[s].doc # d
  <2>1. CASE request[s] \in Numbering /\ (request[s].group = q.group \/ request[s].doc = d)
    <3>1. request'[s] = [request[s] EXCEPT !.overtaken = TRUE]
      BY <1>4, <2>1 DEF Overtake
    <3> QED
      BY <3>1, <2>1 DEF Carries, Numbering, Idle
  <2>2. CASE ~(request[s] \in Numbering /\ (request[s].group = q.group \/ request[s].doc = d))
    <3>1. request'[s] = request[s]
      BY <1>4, <2>2 DEF Overtake
    <3> QED
      BY <3>1, <2>2 DEF Carries
  <2> QED
    BY <2>1, <2>2
<1>5. FounderInv'
  BY <1>1 DEF NumberInv, FounderInv
<1>6. CarryInv'
  <2> SUFFICES ASSUME NEW s \in DocRequests, Carries(request'[s])
               PROVE  LET p == request'[s]
                      IN  /\ p.version = 1 => p.op \in {"store", "insert"} /\ p.group = p.doc
                          /\ p.op \in {"store", "insert"} =>
                                 /\ doc'[p.doc] = NoDoc /\ p.writes = Both
                                 /\ \A t \in DocRequests \ {s} :
                                        request'[t] # Idle => request'[t].doc # p.doc
                          /\ (p.op \in {"link", "accept"} /\ doc'[p.doc] # NoDoc) =>
                                 /\ "version" \notin p.writes => doc'[p.doc].version # 1
                                 /\ ~p.overtaken =>
                                      /\ "group" \notin p.writes => doc'[p.doc].group = p.group
                                      /\ "version" \notin p.writes =>
                                             doc'[p.doc].version = p.version
    BY DEF CarryInv, Free, Carries, Both
  <2>1. s # r
    BY <1>0, <1>3
  <2>2. Carries(request[s]) /\ request[s].doc \in Docs
        /\ request[s].op \in {"store", "insert", "link", "accept"}
    BY <2>1, <1>4 DEF Carries, Numbering
  <2>3. CASE request[s].op \in {"store", "insert"}
    <3>1. /\ doc[request[s].doc] = NoDoc /\ request[s].writes = Both
          /\ \A t \in DocRequests \ {s} : request[t] # Idle => request[t].doc # request[s].doc
          /\ request[s].version = 1 => request[s].group = request[s].doc
      BY <2>2, <2>3 DEF NumberInv, CarryInv, Free
    <3>2. d # request[s].doc
      BY <3>1, <2>1, <1>0
    <3>3. doc'[request[s].doc] = NoDoc
      BY <3>1, <3>2, <1>1, <2>2
    <3>4. \A t \in DocRequests \ {s} : request'[t] # Idle => request'[t].doc # request[s].doc
      BY <3>1, <3>2, <1>0, <1>3, <1>4
    <3> QED
      BY <1>4, <2>1, <2>3, <3>1, <3>3, <3>4
  <2>4. CASE request[s].op \in {"link", "accept"}
    <3>1. /\ request[s].version # 1
          /\ doc[request[s].doc] # NoDoc =>
               /\ "version" \notin request[s].writes => doc[request[s].doc].version # 1
               /\ ~request[s].overtaken =>
                    /\ "group" \notin request[s].writes =>
                           doc[request[s].doc].group = request[s].group
                    /\ "version" \notin request[s].writes =>
                           doc[request[s].doc].version = request[s].version
      BY <2>2, <2>4 DEF NumberInv, CarryInv
    <3>2. CASE request[s].doc # d
      BY <1>1, <1>4, <2>1, <2>2, <2>4, <3>1, <3>2
    <3>3. CASE request[s].doc = d
      <4>1. q.op \notin {"store", "insert"}
        <5>1. request[s] # Idle
          BY <2>2 DEF Carries, Numbering, Idle
        <5> QED
          BY <5>1, <2>1, <3>3 DEF NumberInv, CarryInv, Free
      <4>2. row.version # 1
        BY <4>1, <1>0
      <4> QED
        BY <1>1, <1>4, <2>1, <2>4, <3>1, <3>3, <4>2
    <3> QED
      BY <3>2, <3>3
  <2> QED
    BY <2>2, <2>3, <2>4
<1>7. FreshInv'
  <2> SUFFICES ASSUME NEW s \in DocRequests, Carries(request'[s]), ~request'[s].overtaken,
                      NEW e \in Docs \ {request'[s].doc}, Live(e)',
                      doc'[e].group = request'[s].group, e \notin contested'
               PROVE  doc'[e].version # request'[s].version
    BY DEF FreshInv, Carries
  <2>1. s # r
    BY <1>0, <1>3
  <2>2. CASE e = d
    BY <2>1, <2>2, <1>1, <1>2, <1>4
  <2>3. CASE e # d
    <3>1. doc'[e] = doc[e] /\ e \notin contested
      BY <2>3, <1>1, <1>2
    <3> QED
      BY <2>1, <3>1, <1>4 DEF NumberInv, FreshInv, Live
  <2> QED
    BY <2>2, <2>3
<1>8. VersionsCollideOnlyByOverlap'
  <2>1. ASSUME NEW e \in Docs \ {d}, Live(e), doc[e].group = row.group,
               d \notin contested', e \notin contested'
        PROVE  doc[e].version # row.version
    <3>1. ~q.overtaken /\ e \notin contested
      BY <2>1, <1>2
    <3> QED
      BY <2>1, <3>1 DEF NumberInv, FreshInv
  <2> SUFFICES ASSUME NEW x \in Docs, NEW y \in Docs, Live(x)', Live(y)', x # y,
                      doc'[x].group = doc'[y].group, doc'[x].version = doc'[y].version
               PROVE  x \in contested' \/ y \in contested'
    BY DEF VersionsCollideOnlyByOverlap
  <2>2. CASE x # d /\ y # d
    BY <2>2, <1>1, <1>2 DEF NumberInv, VersionsCollideOnlyByOverlap, Live
  <2>3. CASE x = d
    BY <2>1, <2>3, <1>1 DEF Live
  <2>4. CASE y = d
    BY <2>1, <2>4, <1>1 DEF Live
  <2> QED
    BY <2>2, <2>3, <2>4
<1> QED
  BY <1>5, <1>6, <1>7, <1>8 DEF NumberInv

----------------------------------------------------------------------------
\* What Number leaves in the request, if it may take it.
NumberRequest(op, d, g) ==
    [op |-> op, doc |-> d, group |-> g, version |-> NextVersion(g),
     writes |-> Changed(d, g), overtaken |-> FALSE]

LEMMA NumberType ==
    ASSUME DocTypeOK, NEW op \in {"store", "link", "accept"}, NEW d \in Docs, NEW g \in Docs,
           NextVersion(g) <= MaxVersion
    PROVE  NumberRequest(op, d, g) \in Numbering
<1>1. NextVersion(g) \in 1..MaxVersion
  BY NextIsFree, DocAssumption
<1>2. Changed(d, g) \in SUBSET {"group", "version"}
  BY DEF Changed
<1> QED
  BY <1>1, <1>2 DEF NumberRequest, Numbering

\* Upload's request.
NewRequest(d) == [op |-> "store", doc |-> d, group |-> d, version |-> 1,
                  writes |-> Both, overtaken |-> FALSE]

LEMMA NewType == ASSUME NEW d \in Docs PROVE NewRequest(d) \in Numbering
  BY DocAssumption DEF NewRequest, Numbering, Both

LEMMA OvertakeType ==
    ASSUME DocTypeOK, NEW r \in DocRequests,
           NEW next \in {Idle} \cup [op : {"suggest", "remove"}, doc : Docs], Overtake(r, next)
    PROVE  request' \in [DocRequests -> {Idle} \cup Numbering
                                        \cup [op : {"suggest", "remove"}, doc : Docs]]
<1> SUFFICES ASSUME NEW s \in DocRequests
             PROVE  request'[s] \in {Idle} \cup Numbering
                                    \cup [op : {"suggest", "remove"}, doc : Docs]
  BY DEF Overtake
<1>1. CASE s = r
  BY <1>1 DEF Overtake
<1>2. CASE s # r /\ request[s] \in Numbering /\ (request[s].group = request[r].group
                                               \/ request[s].doc = request[r].doc)
  <2>1. request'[s] = [request[s] EXCEPT !.overtaken = TRUE]
    BY <1>2 DEF Overtake
  <2> QED
    BY <1>2, <2>1 DEF Numbering
<1>3. CASE s # r /\ ~(request[s] \in Numbering /\ (request[s].group = request[r].group
                                                 \/ request[s].doc = request[r].doc))
  BY <1>3 DEF Overtake, DocTypeOK
<1> QED
  BY <1>1, <1>2, <1>3

LEMMA WriteLinkWrites ==
    ASSUME DocTypeOK, NEW r \in DocRequests, WriteLink(r)
    PROVE  /\ Carries(request[r]) /\ request[r].doc \in Docs /\ doc[request[r].doc] # NoDoc
           /\ Linked(request[r]) \in Row
           /\ doc' = [doc EXCEPT ![request[r].doc] = Linked(request[r])]
<1> DEFINE q == request[r]
<1>1. Carries(q) /\ q \in Numbering /\ q.doc \in Docs /\ doc[q.doc] # NoDoc
  BY DEF WriteLink, DocTypeOK, Carries, Numbering, Idle
<1>2. doc[q.doc] \in Row
  BY <1>1, RowType
<1>3. Linked(q) \in Row
  BY <1>1, <1>2 DEF Linked, Row, Numbering
<1>4. doc' = [doc EXCEPT ![q.doc] = Linked(q)]
  BY DEF WriteLink
<1> QED
  BY <1>1, <1>3, <1>4

LEMMA NextDocType == DocTypeOK /\ [DocNext]_docvars => DocTypeOK'
<1> SUFFICES ASSUME DocTypeOK, [DocNext]_docvars PROVE DocTypeOK'
  OBVIOUS
<1>1. ASSUME NEW r \in DocRequests, NEW d \in Docs, Upload(r, d) PROVE DocTypeOK'
  <2>1. request' = [request EXCEPT ![r] = NewRequest(d)]
    BY <1>1 DEF Upload, Become, NewRequest, Both
  <2> QED
    BY <1>1, <2>1, NewType DEF Upload, DocTypeOK
<1>2. ASSUME NEW r \in DocRequests, NEW op \in {"store", "link", "accept"},
             NEW d \in Docs, NEW g \in Docs, Number(r, op, d, g)
      PROVE  DocTypeOK'
  <2>1. NextVersion(g) <= MaxVersion
        /\ request' = [request EXCEPT ![r] = NumberRequest(op, d, g)]
    BY <1>2 DEF Number, Become, NumberRequest
  <2> QED
    BY <1>2, <2>1, NumberType DEF Number, DocTypeOK
<1>3. ASSUME NEW r \in DocRequests, NEW d \in Docs, NEW other \in Docs,
             UploadNewVersion(r, d, other) \/ Link(r, d, other)
      PROVE  DocTypeOK'
  <2>1. doc[other].group \in Docs
    BY <1>3, RowType DEF UploadNewVersion, Link, Live, NoDoc
  <2> QED
    BY <1>2, <1>3, <2>1 DEF UploadNewVersion, Link
<1>4. ASSUME NEW r \in DocRequests, NEW d \in Docs, Accept(r, d) PROVE DocTypeOK'
  <2>1. suggestion[d].target \in Docs
    BY <1>4 DEF Accept, DocTypeOK
  <2>2. doc[suggestion[d].target].group \in Docs
    BY <1>4, <2>1, RowType DEF Accept, Live, NoDoc
  <2> QED
    BY <1>2, <1>4, <2>2 DEF Accept
<1>5. ASSUME NEW r \in DocRequests, NEW d \in Docs, DeleteFile(r, d) PROVE DocTypeOK'
  BY <1>5 DEF DeleteFile, Become, DocTypeOK
<1>6. ASSUME NEW r \in DocRequests, StoreFile(r) PROVE DocTypeOK'
  <2>1. request[r] \in Numbering
    BY <1>6 DEF StoreFile, DocTypeOK, Idle
  <2>2. [request[r] EXCEPT !.op = "insert"] \in Numbering
    BY <2>1 DEF Numbering
  <2> QED
    BY <1>6, <2>1, <2>2 DEF StoreFile, Become, DocTypeOK, Numbering
<1>7. ASSUME NEW r \in DocRequests, InsertRow(r) PROVE DocTypeOK'
  <2>1. request[r] \in Numbering
    BY <1>7 DEF InsertRow, Stored, DocTypeOK, Idle
  <2>2. doc' \in [Docs -> {NoDoc} \cup Row]
    BY <1>7, <2>1 DEF InsertRow, DocTypeOK, Numbering, Row
  <2>3. contested' \subseteq Docs
    BY <1>7, <2>1 DEF InsertRow, Mark, DocTypeOK, Numbering
  <2>4. [op |-> "suggest", doc |-> request[r].doc] \in [op : {"suggest", "remove"}, doc : Docs]
    BY <2>1 DEF Numbering
  <2> QED
    BY <1>7, <2>2, <2>3, <2>4, OvertakeType DEF InsertRow, DocTypeOK, Row
<1>8. ASSUME NEW r \in DocRequests, Suggest(r) PROVE DocTypeOK'
  <2>1. request[r].doc \in Docs
    BY <1>8, RequestType DEF Suggest, Free, Idle
  <2>2. suggestion' \in [Docs -> {NoSuggestion} \cup
            [status : {"pending", "accepted", "dismissed"}, target : Docs]]
    <3>1. CASE UNCHANGED suggestion
      BY <3>1 DEF DocTypeOK
    <3>2. ASSUME NEW t \in Docs,
                 suggestion' = [suggestion EXCEPT ![request[r].doc] =
                                    [status |-> "pending", target |-> t]]
          PROVE  suggestion' \in [Docs -> {NoSuggestion} \cup
                     [status : {"pending", "accepted", "dismissed"}, target : Docs]]
      BY <2>1, <3>2 DEF DocTypeOK
    <3> QED
      BY <1>8, <3>1, <3>2 DEF Suggest
  <2> QED
    BY <1>8, <2>2 DEF Suggest, Become, DocTypeOK
<1>9. ASSUME NEW r \in DocRequests, WriteLink(r) PROVE DocTypeOK'
  <2>1. /\ request[r].doc \in Docs /\ Linked(request[r]) \in Row
        /\ doc' = [doc EXCEPT ![request[r].doc] = Linked(request[r])]
    BY <1>9, WriteLinkWrites
  <2>2. doc' \in [Docs -> {NoDoc} \cup Row]
    BY <2>1 DEF DocTypeOK, Row
  <2>3. contested' \subseteq Docs
    BY <1>9, <2>1 DEF WriteLink, Mark, DocTypeOK
  <2>4. suggestion' \in [Docs -> {NoSuggestion} \cup
            [status : {"pending", "accepted", "dismissed"}, target : Docs]]
    <3>1. CASE request[r].op = "link"
      BY <1>9, <3>1 DEF WriteLink, DocTypeOK
    <3>2. CASE request[r].op # "link"
      BY <1>9, <2>1, <3>2 DEF WriteLink, DocTypeOK
    <3> QED
      BY <3>1, <3>2
  <2> QED
    BY <1>9, <2>2, <2>3, <2>4, OvertakeType DEF WriteLink, DocTypeOK, Row
<1>10. ASSUME NEW r \in DocRequests, DeleteRow(r) PROVE DocTypeOK'
  <2>1. suggestion' \in [Docs -> {NoSuggestion} \cup
            [status : {"pending", "accepted", "dismissed"}, target : Docs]]
    BY <1>10 DEF DeleteRow, DocTypeOK
  <2> QED
    BY <1>10, <2>1 DEF DeleteRow, Become, DocTypeOK
<1>11. ASSUME NEW r \in DocRequests, Die(r) PROVE DocTypeOK'
  <2>1. request[r].doc \in Docs
    BY <1>11, RequestType DEF Die
  <2> QED
    BY <1>11, <2>1 DEF Die, Become, DocTypeOK
<1>12. ASSUME NEW d \in Docs, Dismiss(d) PROVE DocTypeOK'
  BY <1>12 DEF Dismiss, DocTypeOK
<1>13. ASSUME NEW d \in Docs, Purge(d) PROVE DocTypeOK'
  <2>1. doc[d] \in Row
    BY <1>13, RowType DEF Purge, Live, NoDoc
  <2>2. [doc[d] EXCEPT !.row = "purged"] \in Row
    BY <2>1 DEF Row
  <2> QED
    BY <1>13, <2>2 DEF Purge, DocTypeOK, Row
<1>14. CASE UNCHANGED docvars
  BY <1>14 DEF docvars, DocTypeOK
<1> QED
  BY <1>1, <1>3, <1>4, <1>5, <1>6, <1>7, <1>8, <1>9, <1>10, <1>11, <1>12, <1>13, <1>14
     DEF DocNext

----------------------------------------------------------------------------
LEMMA NumberKeepsNumbers ==
    ASSUME DocTypeOK, NumberInv, NEW r \in DocRequests, Free(r),
           NEW op \in {"store", "link", "accept"}, NEW d \in Docs, NEW g \in Docs,
           InGroup(g) # {}, Number(r, op, d, g),
           op = "store" => Unused(d), op # "store" => Live(d)
    PROVE  NumberInv'
<1> DEFINE q == NumberRequest(op, d, g)
<1>1. /\ q.op = op /\ q.doc = d /\ q.group = g /\ q.version = NextVersion(g)
      /\ q.writes = Changed(d, g) /\ ~q.overtaken
  BY DEF NumberRequest
<1>2. q \in Numbering
  BY NumberType DEF Number
<1>3. request' = [request EXCEPT ![r] = q] /\ UNCHANGED <<doc, contested>>
  BY DEF Number, Become, NumberRequest
<1>4. NextVersion(g) # 1 /\ \A w \in Numbers(g) : w # NextVersion(g)
  <2>1. NextVersion(g) \in Nat /\ \A w \in Numbers(g) : w < NextVersion(g)
    BY NextIsFree, DocAssumption
  <2> QED
    BY <2>1, NextIsFree
<1>5. op = "store" =>
          /\ doc[d] = NoDoc /\ Changed(d, g) = Both
          /\ \A s \in DocRequests : ~Free(s) => request[s].doc # d
  BY DEF Unused, Changed, Both
<1>6. op # "store" =>
          /\ doc[d] # NoDoc
          /\ "group" \notin Changed(d, g) => doc[d].group = g
          /\ "version" \notin Changed(d, g) => doc[d].version = NextVersion(g)
  BY DEF Changed, Live, NoDoc
<1>7. \A e \in Docs : (Live(e) /\ doc[e].group = g) => doc[e].version # NextVersion(g)
  BY <1>4 DEF Numbers, InGroup
<1> HIDE DEF q
<1> QED
  BY <1>1, <1>2, <1>3, <1>4, <1>5, <1>6, <1>7, StartKeepsNumbers

LEMMA UploadKeepsNumbers ==
    ASSUME DocTypeOK, NumberInv, NEW r \in DocRequests, NEW d \in Docs, Upload(r, d)
    PROVE  NumberInv'
<1> DEFINE q == NewRequest(d)
<1>1. /\ q \in Numbering /\ q.op = "store" /\ q.doc = d /\ q.group = d /\ q.version = 1
      /\ q.writes = Both /\ ~q.overtaken
  BY NewType DEF NewRequest
<1>2. /\ request' = [request EXCEPT ![r] = q] /\ UNCHANGED <<doc, contested>> /\ Free(r)
      /\ doc[d] = NoDoc /\ \A s \in DocRequests : ~Free(s) => request[s].doc # d
  BY DEF Upload, Become, NewRequest, Both, Unused
<1>3. \A e \in Docs \ {d} : (Live(e) /\ doc[e].group = d) => doc[e].version # 1
  BY DEF NumberInv, FounderInv, Live, NoDoc
<1> HIDE DEF q
<1> QED
  BY <1>1, <1>2, <1>3, StartKeepsNumbers

\* A step that leaves the rows alone and only moves requests on.
LEMMA MoveKeepsNumbers ==
    ASSUME DocTypeOK, DocTypeOK', NumberInv, UNCHANGED <<doc, contested>>, OnlyMovesOn
    PROVE  NumberInv'
<1>1. OnlyShrinks
  BY DEF OnlyShrinks
<1> QED
  BY <1>1, ShrinkKeepsNumbers

\* One request goes on, with a document it knew, or one that is there.
LEMMA BecomeMovesOn ==
    ASSUME DocTypeOK, NEW r \in DocRequests,
           NEW next \in {Idle} \cup [op : {"suggest", "remove"}, doc : Docs],
           Become(r, next),
           next # Idle => (request[r] # Idle /\ next.doc = request[r].doc)
                          \/ doc[next.doc] # NoDoc
    PROVE  OnlyMovesOn
<1>1. request'[r] = next /\ \A s \in DocRequests \ {r} : request'[s] = request[s]
  BY DEF Become, DocTypeOK
<1>2. ~Carries(next)
  BY DEF Carries, Numbering, Idle
<1> SUFFICES ASSUME NEW s \in DocRequests
             PROVE  /\ Carries(request'[s]) =>
                         /\ Carries(request[s])
                         /\ \A f \in {"doc", "group", "version", "writes", "overtaken"} :
                                request'[s][f] = request[s][f]
                         /\ \/ request'[s].op = request[s].op
                            \/ request'[s].op = "insert" /\ request[s].op = "store"
                    /\ request'[s] # Idle =>
                         \/ request[s] # Idle /\ request'[s].doc = request[s].doc
                         \/ doc[request'[s].doc] # NoDoc
  BY DEF OnlyMovesOn
<1>3. CASE s = r
  BY <1>1, <1>2, <1>3
<1>4. CASE s # r
  BY <1>1, <1>4
<1> QED
  BY <1>3, <1>4

LEMMA StoreMovesOn ==
    ASSUME DocTypeOK, NEW r \in DocRequests, StoreFile(r) PROVE OnlyMovesOn
<1>1. request[r] \in Numbering
  BY DEF StoreFile, DocTypeOK, Idle
<1>2. /\ request'[r] = [request[r] EXCEPT !.op = "insert"] /\ request[r].op = "store"
      /\ \A s \in DocRequests \ {r} : request'[s] = request[s]
  BY DEF StoreFile, Become, DocTypeOK
<1>3. /\ request'[r].op = "insert" /\ request[r] # Idle
      /\ \A f \in {"doc", "group", "version", "writes", "overtaken"} :
             request'[r][f] = request[r][f]
  BY <1>1, <1>2 DEF Numbering, Idle
<1> SUFFICES ASSUME NEW s \in DocRequests
             PROVE  /\ Carries(request'[s]) =>
                         /\ Carries(request[s])
                         /\ \A f \in {"doc", "group", "version", "writes", "overtaken"} :
                                request'[s][f] = request[s][f]
                         /\ \/ request'[s].op = request[s].op
                            \/ request'[s].op = "insert" /\ request[s].op = "store"
                    /\ request'[s] # Idle =>
                         \/ request[s] # Idle /\ request'[s].doc = request[s].doc
                         \/ doc[request'[s].doc] # NoDoc
  BY DEF OnlyMovesOn
<1>4. CASE s = r
  BY <1>1, <1>2, <1>3, <1>4 DEF Carries
<1>5. CASE s # r
  BY <1>2, <1>5 DEF Carries
<1> QED
  BY <1>4, <1>5

LEMMA NextNumbers ==
    DocTypeOK /\ DocTypeOK' /\ NumberInv /\ [DocNext]_docvars => NumberInv'
<1> SUFFICES ASSUME DocTypeOK, DocTypeOK', NumberInv, [DocNext]_docvars PROVE NumberInv'
  OBVIOUS
<1>1. ASSUME NEW r \in DocRequests, NEW d \in Docs, Upload(r, d) PROVE NumberInv'
  BY <1>1, UploadKeepsNumbers
<1>2. ASSUME NEW d \in Docs, Live(d) PROVE doc[d].group \in Docs /\ InGroup(doc[d].group) # {}
  BY <1>2, RowType DEF Live, InGroup, NoDoc
<1>3. ASSUME NEW r \in DocRequests, NEW d \in Docs, NEW other \in Docs,
             UploadNewVersion(r, d, other)
      PROVE  NumberInv'
  BY <1>2, <1>3, NumberKeepsNumbers DEF UploadNewVersion
<1>4. ASSUME NEW r \in DocRequests, NEW d \in Docs, NEW other \in Docs, Link(r, d, other)
      PROVE  NumberInv'
  BY <1>2, <1>4, NumberKeepsNumbers DEF Link
<1>5. ASSUME NEW r \in DocRequests, NEW d \in Docs, Accept(r, d) PROVE NumberInv'
  <2>1. suggestion[d].target \in Docs
    BY <1>5 DEF Accept, DocTypeOK
  <2> QED
    BY <1>2, <1>5, <2>1, NumberKeepsNumbers DEF Accept
<1>6. ASSUME NEW r \in DocRequests, StoreFile(r) PROVE NumberInv'
  BY <1>6, StoreMovesOn, MoveKeepsNumbers DEF StoreFile
<1>7. ASSUME NEW r \in DocRequests, InsertRow(r) PROVE NumberInv'
  <2> DEFINE q == request[r]
             row == [row |-> "live", group |-> q.group, version |-> q.version]
             next == [op |-> "suggest", doc |-> q.doc]
  <2>1. q \in Numbering /\ Carries(q) /\ q.op = "insert"
    BY <1>7 DEF InsertRow, Stored, DocTypeOK, Idle, Carries
  <2>2. row \in Row /\ row.group = q.group /\ row.version = q.version
    BY <2>1 DEF Row, Numbering
  <2>3. row.version = 1 => row.group = q.doc
    BY <2>1, <2>2 DEF NumberInv, CarryInv
  <2>4. /\ doc' = [doc EXCEPT ![q.doc] = row] /\ Mark(q) /\ Overtake(r, next)
    BY <1>7 DEF InsertRow
  <2>5. next \in [op : {"suggest", "remove"}, doc : {q.doc}]
    OBVIOUS
  <2> HIDE DEF row, next
  <2> QED
    BY <2>1, <2>2, <2>3, <2>4, <2>5, CommitKeepsNumbers
<1>8. ASSUME NEW r \in DocRequests, WriteLink(r) PROVE NumberInv'
  <2> DEFINE q == request[r]
             row == Linked(q)
  <2>1. /\ Carries(q) /\ q.doc \in Docs /\ doc[q.doc] # NoDoc /\ row \in Row
        /\ doc' = [doc EXCEPT ![q.doc] = row]
    BY <1>8, WriteLinkWrites
  <2>2. q.op \in {"link", "accept"} /\ Mark(q) /\ Overtake(r, Idle)
    BY <1>8 DEF WriteLink
  <2>3. /\ row.group = (IF "group" \in q.writes THEN q.group ELSE doc[q.doc].group)
        /\ row.version = (IF "version" \in q.writes THEN q.version ELSE doc[q.doc].version)
    BY DEF Linked
  <2>4. /\ q.version # 1
        /\ "version" \notin q.writes => doc[q.doc].version # 1
        /\ ~q.overtaken =>
               /\ "group" \notin q.writes => doc[q.doc].group = q.group
               /\ "version" \notin q.writes => doc[q.doc].version = q.version
    BY <2>1, <2>2 DEF NumberInv, CarryInv
  <2>5. row.version # 1 /\ (~q.overtaken => row.group = q.group /\ row.version = q.version)
    BY <2>3, <2>4
  <2> HIDE DEF row
  <2> QED
    BY <2>1, <2>2, <2>5, CommitKeepsNumbers
<1>9. ASSUME NEW r \in DocRequests, Suggest(r) PROVE NumberInv'
  BY <1>9, BecomeMovesOn, MoveKeepsNumbers DEF Suggest
<1>10. ASSUME NEW r \in DocRequests, NEW d \in Docs, DeleteFile(r, d) PROVE NumberInv'
  <2>1. Become(r, [op |-> "remove", doc |-> d]) /\ doc[d] # NoDoc /\ UNCHANGED <<doc, contested>>
    BY <1>10 DEF DeleteFile, Live, NoDoc
  <2>2. OnlyMovesOn
    <3> DEFINE next == [op |-> "remove", doc |-> d]
    <3>1. next \in [op : {"suggest", "remove"}, doc : Docs] /\ next.doc = d
      OBVIOUS
    <3>2. Become(r, next)
      BY <2>1
    <3> HIDE DEF next
    <3> QED
      BY <2>1, <3>1, <3>2, BecomeMovesOn
  <2> QED
    BY <2>1, <2>2, MoveKeepsNumbers
<1>11. ASSUME NEW r \in DocRequests, DeleteRow(r) PROVE NumberInv'
  <2> DEFINE d == request[r].doc
  <2>1. d \in Docs
    BY <1>11, RequestType DEF DeleteRow, Free, Idle
  <2>2. /\ doc' = [doc EXCEPT ![d] = NoDoc] /\ contested' = contested \ {d}
        /\ Become(r, Idle)
    BY <1>11 DEF DeleteRow
  <2>3. OnlyShrinks
    BY <2>1, <2>2 DEF OnlyShrinks, DocTypeOK
  <2>4. OnlyMovesOn
    BY <2>2, BecomeMovesOn
  <2> QED
    BY <2>3, <2>4, ShrinkKeepsNumbers
<1>12. ASSUME NEW r \in DocRequests, Die(r) PROVE NumberInv'
  BY <1>12, BecomeMovesOn, MoveKeepsNumbers DEF Die
<1>13. ASSUME NEW d \in Docs, Dismiss(d) PROVE NumberInv'
  BY <1>13, MoveKeepsNumbers DEF Dismiss, OnlyMovesOn
<1>14. ASSUME NEW d \in Docs, Purge(d) PROVE NumberInv'
  <2>1. doc[d] \in Row /\ doc[d] # NoDoc
    BY <1>14, RowType DEF Purge, Live, NoDoc
  <2>2. doc' = [doc EXCEPT ![d] = [doc[d] EXCEPT !.row = "purged"]]
        /\ UNCHANGED <<request, contested>>
    BY <1>14 DEF Purge
  <2>3. /\ doc'[d].row # "live" /\ doc'[d].group = doc[d].group
        /\ doc'[d].version = doc[d].version
        /\ \A e \in Docs \ {d} : doc'[e] = doc[e]
    BY <2>1, <2>2 DEF DocTypeOK, Row
  <2>4. OnlyShrinks
    BY <2>1, <2>2, <2>3 DEF OnlyShrinks
  <2>5. OnlyMovesOn
    BY <2>2 DEF OnlyMovesOn
  <2> QED
    BY <2>4, <2>5, ShrinkKeepsNumbers
<1>15. CASE UNCHANGED docvars
  BY <1>15, MoveKeepsNumbers DEF docvars, OnlyMovesOn
<1> QED
  BY <1>1, <1>3, <1>4, <1>5, <1>6, <1>7, <1>8, <1>9, <1>10, <1>11, <1>12, <1>13, <1>14, <1>15
     DEF DocNext

----------------------------------------------------------------------------
Remove(d) == [op |-> "remove", doc |-> d]
RowsHaveFiles ==
    \A d \in Docs : (doc[d] # NoDoc /\ d \notin file) =>
        d \in torn \/ \E r \in DocRequests : request[r] = Remove(d)
SuggestionsHaveRows ==
    \A d \in Docs : suggestion[d] # NoSuggestion =>
        doc[d] # NoDoc /\ doc[suggestion[d].target] # NoDoc

\* No row loses its file, and whoever removes one goes on or is known to have died.
LEMMA FilesKept ==
    ASSUME RowsHaveFiles,
           \A d \in Docs : (doc'[d] # NoDoc /\ d \notin file') => doc[d] # NoDoc /\ d \notin file,
           torn \subseteq torn',
           \A d \in Docs, r \in DocRequests :
               (request[r] = Remove(d) /\ doc'[d] # NoDoc) =>
                   request'[r] = Remove(d) \/ d \in torn'
    PROVE  RowsHaveFiles'
  BY DEF RowsHaveFiles, Remove

LEMMA NextFiles ==
    DocTypeOK /\ NumberInv /\ FileInv /\ RowsHaveFiles /\ [DocNext]_docvars
        => FileInv' /\ RowsHaveFiles'
<1> SUFFICES ASSUME DocTypeOK, NumberInv, FileInv, RowsHaveFiles, [DocNext]_docvars
             PROVE  FileInv' /\ RowsHaveFiles'
  OBVIOUS
<1> DEFINE Goal == FileInv' /\ RowsHaveFiles'
<1> USE DEF DocTypeOK
<1>1. ASSUME NEW r \in DocRequests, Free(r), NEW q \in Numbering, q.op # "insert",
             Become(r, q), UNCHANGED <<doc, file, torn>>
      PROVE  Goal
  <2>1. request'[r] = q /\ \A s \in DocRequests \ {r} : request'[s] = request[s]
    BY <1>1 DEF Become
  <2>2. \A d \in Docs : request[r] # Remove(d)
    BY <1>1 DEF Free, Idle, Remove
  <2> QED
    BY <1>1, <2>1, <2>2, FilesKept DEF FileInv
<1>2. ASSUME NEW r \in DocRequests, Free(r), NEW op \in {"store", "link", "accept"},
             NEW d \in Docs, NEW g \in Docs, Number(r, op, d, g)
      PROVE  Goal
  <2> DEFINE q == NumberRequest(op, d, g)
  <2>1. q \in Numbering /\ q.op # "insert"
    BY <1>2, NumberType DEF Number, NumberRequest
  <2>2. Become(r, q) /\ UNCHANGED <<doc, file, torn>>
    BY <1>2 DEF Number, NumberRequest
  <2> HIDE DEF q
  <2> QED
    BY <1>1, <1>2, <2>1, <2>2
<1>3. ASSUME NEW r \in DocRequests, NEW d \in Docs, Upload(r, d) PROVE Goal
  <2> DEFINE q == NewRequest(d)
  <2>1. q \in Numbering /\ q.op # "insert"
    BY NewType DEF NewRequest
  <2>2. Free(r) /\ Become(r, q) /\ UNCHANGED <<doc, file, torn>>
    BY <1>3 DEF Upload, NewRequest, Both
  <2> HIDE DEF q
  <2> QED
    BY <1>1, <2>1, <2>2
<1>4. ASSUME NEW r \in DocRequests, NEW d \in Docs, NEW other \in Docs,
             UploadNewVersion(r, d, other) \/ Link(r, d, other)
      PROVE  Goal
  <2>1. doc[other].group \in Docs
    BY <1>4, RowType DEF UploadNewVersion, Link, Live, NoDoc
  <2> QED
    BY <1>2, <1>4, <2>1 DEF UploadNewVersion, Link
<1>5. ASSUME NEW r \in DocRequests, NEW d \in Docs, Accept(r, d) PROVE Goal
  <2>1. suggestion[d].target \in Docs
    BY <1>5 DEF Accept
  <2>2. doc[suggestion[d].target].group \in Docs
    BY <1>5, <2>1, RowType DEF Accept, Live, NoDoc
  <2> QED
    BY <1>2, <1>5, <2>2 DEF Accept
<1>6. ASSUME NEW r \in DocRequests, StoreFile(r) PROVE Goal
  <2>1. request[r] \in Numbering /\ request[r].op = "store"
    BY <1>6 DEF StoreFile, Idle
  <2>2. /\ request'[r] = [request[r] EXCEPT !.op = "insert"]
        /\ \A s \in DocRequests \ {r} : request'[s] = request[s]
        /\ file' = file \cup {request[r].doc} /\ UNCHANGED <<doc, torn>>
    BY <1>6 DEF StoreFile, Become
  <2>3. request'[r].doc = request[r].doc
    BY <2>1, <2>2 DEF Numbering
  <2>4. FileInv'
    BY <2>2, <2>3 DEF FileInv
  <2>5. \A d \in Docs : request[r] # Remove(d)
    BY <2>1 DEF Remove
  <2> QED
    BY <2>2, <2>4, <2>5, FilesKept
<1>7. ASSUME NEW r \in DocRequests, NEW next, Overtake(r, next),
             next.op # "insert", request[r].op # "remove", UNCHANGED <<file, torn>>,
             \A d \in Docs : (doc'[d] # NoDoc /\ d \notin file) => doc[d] # NoDoc
      PROVE  Goal
  <2>1. request'[r] = next
    BY <1>7 DEF Overtake
  <2>2. ASSUME NEW s \in DocRequests \ {r}
        PROVE  /\ request[s] \notin Numbering => request'[s] = request[s]
               /\ request[s] \in Numbering =>
                      request'[s].op = request[s].op /\ request'[s].doc = request[s].doc
    <3>1. CASE request[s] \notin Numbering
      BY <3>1, <1>7 DEF Overtake
    <3>2. CASE request[s] \in Numbering
      <4>1. request'[s] = request[s] \/ request'[s] = [request[s] EXCEPT !.overtaken = TRUE]
        BY <1>7, <3>2 DEF Overtake
      <4> QED
        BY <3>2, <4>1 DEF Numbering
    <3> QED
      BY <3>1, <3>2
  <2>3. FileInv'
    BY <1>7, <2>1, <2>2 DEF FileInv
  <2>4. \A d \in Docs, s \in DocRequests :
           request[s] = Remove(d) => request'[s] = Remove(d)
    <3>1. \A d \in Docs : Remove(d) \notin Numbering /\ Remove(d).op = "remove"
      BY DEF Remove, Numbering
    <3> QED
      BY <3>1, <1>7, <2>2
  <2> QED
    BY <1>7, <2>3, <2>4, FilesKept
<1>8. ASSUME NEW r \in DocRequests, InsertRow(r) PROVE Goal
  <2>1. request[r].doc \in file /\ request[r].op = "insert"
    BY <1>8 DEF InsertRow, Stored, FileInv
  <2>2. \A d \in Docs : (doc'[d] # NoDoc /\ d \notin file) => doc[d] # NoDoc
    BY <1>8, <2>1 DEF InsertRow
  <2>3. Overtake(r, [op |-> "suggest", doc |-> request[r].doc]) /\ UNCHANGED <<file, torn>>
    BY <1>8 DEF InsertRow
  <2> QED
    BY <1>7, <2>1, <2>2, <2>3
<1>9. ASSUME NEW r \in DocRequests, WriteLink(r) PROVE Goal
  <2>1. doc' = [doc EXCEPT ![request[r].doc] = Linked(request[r])]
        /\ doc[request[r].doc] # NoDoc
    BY <1>9, WriteLinkWrites
  <2>2. \A d \in Docs : (doc'[d] # NoDoc /\ d \notin file) => doc[d] # NoDoc
    BY <2>1
  <2>3. Overtake(r, Idle) /\ UNCHANGED <<file, torn>> /\ request[r].op # "remove"
    BY <1>9 DEF WriteLink
  <2> QED
    BY <1>7, <2>2, <2>3 DEF Idle
<1>10. ASSUME NEW r \in DocRequests, Suggest(r) PROVE Goal
  <2>1. /\ request'[r] = Idle /\ \A s \in DocRequests \ {r} : request'[s] = request[s]
        /\ UNCHANGED <<doc, file, torn>> /\ request[r].op = "suggest"
    BY <1>10 DEF Suggest, Become
  <2>2. FileInv'
    BY <2>1 DEF FileInv, Idle
  <2>3. \A d \in Docs : request[r] # Remove(d)
    BY <2>1 DEF Remove
  <2> QED
    BY <2>1, <2>2, <2>3, FilesKept
<1>11. ASSUME NEW r \in DocRequests, NEW d \in Docs, DeleteFile(r, d) PROVE Goal
  <2>1. /\ request'[r] = Remove(d) /\ \A s \in DocRequests \ {r} : request'[s] = request[s]
        /\ UNCHANGED <<doc, torn>> /\ file' = file \ {d} /\ request[r] = Idle
        /\ doc[d] # NoDoc
    BY <1>11 DEF DeleteFile, Become, Remove, Free, Live, NoDoc
  <2>2. FileInv'
    <3> SUFFICES ASSUME NEW s \in DocRequests, request'[s].op = "insert"
                 PROVE  request'[s].doc \in file'
      BY DEF FileInv
    <3>1. s # r /\ request'[s] = request[s]
      BY <2>1 DEF Remove
    <3>2. Carries(request[s]) /\ doc[request[s].doc] = NoDoc
      BY <3>1 DEF Carries, Idle, NumberInv, CarryInv
    <3> QED
      BY <2>1, <3>1, <3>2 DEF FileInv
  <2>3. RowsHaveFiles'
    <3> SUFFICES ASSUME NEW e \in Docs, doc[e] # NoDoc, e \notin file'
                 PROVE  e \in torn \/ \E s \in DocRequests : request'[s] = Remove(e)
      BY <2>1 DEF RowsHaveFiles, Remove
    <3>1. CASE e = d
      BY <2>1, <3>1
    <3>2. CASE e # d
      <4>1. e \in torn \/ \E s \in DocRequests : request[s] = Remove(e)
        BY <2>1, <3>2 DEF RowsHaveFiles
      <4>2. request[r] # Remove(e)
        BY <2>1 DEF Idle, Remove
      <4> QED
        BY <2>1, <4>1, <4>2
    <3> QED
      BY <3>1, <3>2
  <2> QED
    BY <2>2, <2>3
<1>12. ASSUME NEW r \in DocRequests, DeleteRow(r) PROVE Goal
  <2>1. /\ request'[r] = Idle /\ \A s \in DocRequests \ {r} : request'[s] = request[s]
        /\ doc' = [doc EXCEPT ![request[r].doc] = NoDoc] /\ UNCHANGED <<file, torn>>
    BY <1>12 DEF DeleteRow, Become
  <2>2. FileInv'
    BY <2>1 DEF FileInv, Idle
  <2>3. \A d \in Docs : request[r] = Remove(d) => doc'[d] = NoDoc
    BY <2>1 DEF Remove
  <2>4. \A d \in Docs : doc'[d] # NoDoc => doc[d] # NoDoc
    BY <2>1
  <2> QED
    BY <2>1, <2>2, <2>3, <2>4, FilesKept
<1>13. ASSUME NEW r \in DocRequests, Die(r) PROVE Goal
  <2>1. /\ request'[r] = Idle /\ \A s \in DocRequests \ {r} : request'[s] = request[s]
        /\ UNCHANGED <<doc, file>>
        /\ torn' = IF request[r].op = "remove" THEN torn \cup {request[r].doc} ELSE torn
    BY <1>13 DEF Die, Become
  <2>2. FileInv'
    BY <2>1 DEF FileInv, Idle
  <2>3. \A d \in Docs : request[r] = Remove(d) => d \in torn'
    BY <2>1 DEF Remove
  <2>4. torn \subseteq torn'
    BY <2>1
  <2> QED
    BY <2>1, <2>2, <2>3, <2>4, FilesKept
<1>14. ASSUME UNCHANGED <<file, torn, request>>,
              \A d \in Docs : doc'[d] # NoDoc => doc[d] # NoDoc
       PROVE  Goal
  BY <1>14, FilesKept DEF FileInv
<1>15. ASSUME NEW d \in Docs, Dismiss(d) PROVE Goal
  BY <1>14, <1>15 DEF Dismiss
<1>16. ASSUME NEW d \in Docs, Purge(d) PROVE Goal
  BY <1>14, <1>16 DEF Purge, Live, NoDoc
<1>17. CASE UNCHANGED docvars
  BY <1>14, <1>17 DEF docvars
<1> QED
  BY <1>3, <1>4, <1>5, <1>6, <1>8, <1>9, <1>10, <1>11, <1>12, <1>13, <1>15, <1>16, <1>17
     DEF DocNext

\* Rows stay while suggestions do.
LEMMA NextSuggestions ==
    DocTypeOK /\ SuggestionsHaveRows /\ [DocNext]_docvars => SuggestionsHaveRows'
<1> SUFFICES ASSUME DocTypeOK, SuggestionsHaveRows, [DocNext]_docvars
             PROVE  SuggestionsHaveRows'
  OBVIOUS
<1> USE DEF DocTypeOK
<1>1. ASSUME UNCHANGED suggestion, \A d \in Docs : doc[d] # NoDoc => doc'[d] # NoDoc
      PROVE  SuggestionsHaveRows'
  BY <1>1 DEF SuggestionsHaveRows, NoSuggestion
<1>2. ASSUME NEW r \in DocRequests, NEW d \in Docs,
             \/ Upload(r, d) \/ Accept(r, d) \/ DeleteFile(r, d)
             \/ \E other \in Docs : UploadNewVersion(r, d, other) \/ Link(r, d, other)
      PROVE  SuggestionsHaveRows'
  BY <1>1, <1>2 DEF Upload, Accept, DeleteFile, UploadNewVersion, Link, Number
<1>3. ASSUME NEW r \in DocRequests, StoreFile(r) \/ Die(r) PROVE SuggestionsHaveRows'
  BY <1>1, <1>3 DEF StoreFile, Die
<1>4. ASSUME NEW r \in DocRequests, InsertRow(r) PROVE SuggestionsHaveRows'
  BY <1>1, <1>4 DEF InsertRow, NoDoc
<1>5. ASSUME NEW r \in DocRequests, Suggest(r) PROVE SuggestionsHaveRows'
  <2>1. CASE UNCHANGED suggestion
    BY <1>1, <1>5, <2>1 DEF Suggest
  <2>2. ASSUME NEW t \in Docs, Live(t), Live(request[r].doc),
               suggestion' = [suggestion EXCEPT ![request[r].doc] =
                                  [status |-> "pending", target |-> t]]
        PROVE  SuggestionsHaveRows'
    BY <1>5, <2>2 DEF Suggest, SuggestionsHaveRows, Live, NoDoc
  <2> QED
    BY <1>5, <2>1, <2>2 DEF Suggest
<1>6. ASSUME NEW d \in Docs, suggestion[d] # NoSuggestion,
             NEW status \in {"accepted", "dismissed"},
             suggestion' = [suggestion EXCEPT ![d].status = status],
             \A e \in Docs : doc[e] # NoDoc => doc'[e] # NoDoc
      PROVE  SuggestionsHaveRows'
  <2>1. suggestion'[d].target = suggestion[d].target
        /\ \A e \in Docs \ {d} : suggestion'[e] = suggestion[e]
    BY <1>6
  <2>2. \A e \in Docs : suggestion[e] # NoSuggestion => suggestion[e].target \in Docs
    OBVIOUS
  <2> QED
    BY <1>6, <2>1, <2>2 DEF SuggestionsHaveRows
<1>7. ASSUME NEW r \in DocRequests, WriteLink(r) PROVE SuggestionsHaveRows'
  <2>1. /\ request[r].doc \in Docs /\ Linked(request[r]) \in Row
        /\ doc' = [doc EXCEPT ![request[r].doc] = Linked(request[r])]
    BY <1>7, WriteLinkWrites
  <2>2. \A e \in Docs : doc[e] # NoDoc => doc'[e] # NoDoc
    BY <2>1 DEF Row, NoDoc
  <2>3. CASE request[r].op = "link"
    BY <1>1, <1>7, <2>2, <2>3 DEF WriteLink
  <2>4. CASE request[r].op # "link"
    BY <1>6, <1>7, <2>1, <2>2, <2>4 DEF WriteLink
  <2> QED
    BY <2>3, <2>4
<1>8. ASSUME NEW r \in DocRequests, DeleteRow(r) PROVE SuggestionsHaveRows'
  <2>1. suggestion' = [s \in Docs |-> IF Dangling(s, request[r].doc) THEN NoSuggestion
                                      ELSE suggestion[s]]
        /\ doc' = [doc EXCEPT ![request[r].doc] = NoDoc]
    BY <1>8 DEF DeleteRow
  <2> SUFFICES ASSUME NEW s \in Docs, suggestion'[s] # NoSuggestion
               PROVE  doc'[s] # NoDoc /\ doc'[suggestion'[s].target] # NoDoc
    BY DEF SuggestionsHaveRows
  <2>2. suggestion'[s] = suggestion[s] /\ ~Dangling(s, request[r].doc)
    BY <2>1
  <2>3. s # request[r].doc /\ suggestion[s].target # request[r].doc
    BY <2>2 DEF Dangling
  <2>4. suggestion[s].target \in Docs
    BY <2>2
  <2> QED
    BY <2>1, <2>2, <2>3, <2>4 DEF SuggestionsHaveRows
<1>9. ASSUME NEW d \in Docs, Dismiss(d) PROVE SuggestionsHaveRows'
  BY <1>6, <1>9 DEF Dismiss
<1>10. ASSUME NEW d \in Docs, Purge(d) PROVE SuggestionsHaveRows'
  <2>1. [doc[d] EXCEPT !.row = "purged"] # NoDoc
    <3>1. doc[d] \in Row
      BY <1>10, RowType DEF Purge, Live, NoDoc
    <3> QED
      BY <3>1 DEF Row, NoDoc
  <2> QED
    BY <1>1, <1>10, <2>1 DEF Purge
<1>11. CASE UNCHANGED docvars
  BY <1>1, <1>11 DEF docvars
<1> QED
  BY <1>2, <1>3, <1>4, <1>5, <1>7, <1>8, <1>9, <1>10, <1>11 DEF DocNext

----------------------------------------------------------------------------
LEMMA DocumentsStayRight == DocInv /\ [DocNext]_docvars => DocInv'
<1>1. RowsHaveWhatTheyName <=> RowsHaveFiles /\ SuggestionsHaveRows
  BY DEF RowsHaveWhatTheyName, RowsHaveFiles, SuggestionsHaveRows, Remove
<1>2. RowsHaveWhatTheyName' <=> RowsHaveFiles' /\ SuggestionsHaveRows'
  BY DEF RowsHaveWhatTheyName, RowsHaveFiles, SuggestionsHaveRows, Remove
<1> QED
  BY <1>1, <1>2, NextDocType, NextNumbers, NextFiles, NextSuggestions DEF DocInv

\* Two live versions of a group share a number only if one of them was overtaken
\* while it was numbered (upload_new_version, link_document and
\* resolve_link_suggestion in app/routers/documents_extra.py).
THEOREM CollisionsNeedOverlap == DocSpec => [](DocTypeOK /\ VersionsCollideOnlyByOverlap)
<1>1. DocInit => DocInv
  BY InitDocuments
<1>2. DocInv /\ [DocNext]_docvars => DocInv'
  BY DocumentsStayRight
<1>3. DocInv => DocTypeOK /\ VersionsCollideOnlyByOverlap
  BY DEF DocInv, NumberInv
<1> QED
  BY <1>1, <1>2, <1>3, PTL DEF DocSpec

\* A row has its file unless its deletion is under way or died half-way, and a
\* suggestion its two documents (delete_document in app/routers/documents.py).
THEOREM NamesResolve == DocSpec => []RowsHaveWhatTheyName
<1>1. DocInit => DocInv
  BY InitDocuments
<1>2. DocInv /\ [DocNext]_docvars => DocInv'
  BY DocumentsStayRight
<1>3. DocInv => RowsHaveWhatTheyName
  BY DEF DocInv
<1> QED
  BY <1>1, <1>2, <1>3, PTL DEF DocSpec
============================================================================
