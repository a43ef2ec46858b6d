---------------------------- MODULE RoutingProofs ----------------------------
(***************************************************************************)
(* The safety properties of Routing, for any providers, catalogs, orders,  *)
(* limits and any number of messages.                                      *)
(***************************************************************************)
EXTENDS Routing, FiniteSetTheorems, SequenceTheorems, WellFoundedInduction, TLAPS

-----------------------------------------------------------------------------
(* Sequences by their places.                                              *)

\* Counting what comes before it gives each member of a finite set that is in a strict
\* total order a number of its own, and every number below the size of the set to one.
LEMMA PlaceOfEach ==
  ASSUME NEW set, IsFiniteSet(set), NEW before,
         \A i, j \in set : i # j => <<i, j>> \in before \/ <<j, i>> \in before,
         \A i \in set : <<i, i>> \notin before,
         \A i, j, k \in set : <<i, j>> \in before /\ <<j, k>> \in before => <<i, k>> \in before
  PROVE  /\ Cardinality(set) \in Nat
         /\ \A n \in 1..Cardinality(set) :
              \E i \in set : Cardinality(Ahead(i, set, before)) = n - 1
<1> DEFINE C == Cardinality(set)
           Below(i) == Ahead(i, set, before)
           f == [i \in set |-> Cardinality(Below(i))]
<1>1. C \in Nat
  BY FS_CardinalityType
<1>2. ASSUME NEW i \in set PROVE IsFiniteSet(Below(i)) /\ Cardinality(Below(i)) \in 0..(C - 1)
  <2>1. Below(i) \in SUBSET set /\ Below(i) # set
    BY DEF Ahead
  <2>2. /\ IsFiniteSet(Below(i)) /\ Cardinality(Below(i)) <= C /\ (C = Cardinality(Below(i)) => set = Below(i))
    BY <2>1, FS_Subset
  <2>3. Cardinality(Below(i)) \in Nat
    BY <2>2, FS_CardinalityType
  <2> QED
    BY <1>1, <2>1, <2>2, <2>3
<1>3. ASSUME NEW i \in set, NEW j \in set, <<i, j>> \in before PROVE f[i] # f[j]
  <2>1. Below(i) \subseteq Below(j) /\ i \in Below(j) /\ i \notin Below(i)
    BY <1>3 DEF Ahead
  <2>2. Below(i) \in SUBSET Below(j) /\ Below(i) # Below(j) /\ IsFiniteSet(Below(j))
    BY <2>1, <1>2
  <2>3. Cardinality(Below(j)) = Cardinality(Below(i)) => Below(j) = Below(i)
    BY <2>2, FS_Subset
  <2> QED
    BY <2>2, <2>3
<1>4. f \in Injection(set, 0..(C - 1))
  <2>1. f \in [set -> 0..(C - 1)]
    BY <1>2
  <2>2. ASSUME NEW i \in set, NEW j \in set, f[i] = f[j] PROVE i = j
    <3>1. CASE i # j
      <4>1. <<i, j>> \in before \/ <<j, i>> \in before
        BY <3>1
      <4> QED
        BY <4>1, <1>3, <2>2
    <3> QED
      BY <3>1
  <2> QED
    BY <2>1, <2>2 DEF Injection, IsInjective
<1>5. IsFiniteSet(0..(C - 1)) /\ Cardinality(0..(C - 1)) = C
  <2>1. C - 1 \in Int /\ 0 \in Int
    BY <1>1
  <2>2. IsFiniteSet(0..(C - 1)) /\ Cardinality(0..(C - 1)) = IF 0 > C - 1 THEN 0 ELSE C - 1 - 0 + 1
    BY <2>1, FS_Interval
  <2> QED
    BY <1>1, <2>2
<1>6. f \in Surjection(set, 0..(C - 1))
  BY <1>4, <1>5, FS_Injection
<1>7. ASSUME NEW n \in 1..C PROVE \E i \in set : Cardinality(Below(i)) = n - 1
  <2>1. n - 1 \in 0..(C - 1)
    BY <1>1
  <2>2. PICK i \in set : f[i] = n - 1
    BY <2>1, <1>6 DEF Surjection
  <2> QED
    BY <2>2
<1> QED
  BY <1>1, <1>7

\* What is arranged is what stood at the places.
LEMMA ArrangedIsOfThem ==
  ASSUME NEW S, NEW s, NEW places, IsFiniteSet(places), \A i \in places : s[i] \in S, NEW before,
         \A i, j \in places : i # j => <<i, j>> \in before \/ <<j, i>> \in before,
         \A i \in places : <<i, i>> \notin before,
         \A i, j, k \in places : <<i, j>> \in before /\ <<j, k>> \in before => <<i, k>> \in before
  PROVE  Arranged(s, places, before) \in Seq(S)
<1>1. /\ Cardinality(places) \in Nat
      /\ \A n \in 1..Cardinality(places) :
           \E i \in places : Cardinality(Ahead(i, places, before)) = n - 1
  BY PlaceOfEach
<1> DEFINE C == Cardinality(places)
           At1(n) == CHOOSE i \in places : Cardinality(Ahead(i, places, before)) = n - 1
           all == [n \in 1..C |-> s[At1(n)]]
<1>2. ASSUME NEW n \in 1..C PROVE s[At1(n)] \in S
  <2>1. At1(n) \in places
    BY <1>1
  <2> QED
    BY <2>1
<1>3. all \in [1..C -> S]
  BY <1>2
<1>4. all \in Seq(S)
  <2> HIDE DEF all, C
  <2>1. C \in Nat
    BY <1>1 DEF C
  <2> QED
    BY <2>1, <1>3
<1>5. <<>> \o all \in Seq(S)
  BY <1>4, ConcatEmptySeq
<1>6. Arranged(s, places, before) = <<>> \o all
  BY DEF Arranged
<1> QED
  BY <1>5, <1>6

LEMMA PlacesAreFinite ==
  ASSUME NEW S, NEW s \in Seq(S), NEW places \in SUBSET DOMAIN s
  PROVE  IsFiniteSet(places) /\ places \subseteq Nat /\ \A i \in places : s[i] \in S
<1>1. DOMAIN s = 1..Len(s) /\ Len(s) \in Nat /\ \A i \in 1..Len(s) : s[i] \in S
  OBVIOUS
<1>2. IsFiniteSet(1..Len(s))
  BY <1>1, FS_Interval
<1> QED
  BY <1>1, <1>2, FS_Subset

LEMMA AtIsOfThem ==
  ASSUME NEW S, NEW T, NEW s \in Seq(S), NEW places \in SUBSET DOMAIN s, \A i \in places : s[i] \in T
  PROVE  At(s, places) \in Seq(T)
<1> DEFINE before == {p \in places \X places : p[1] < p[2]}
<1>1. IsFiniteSet(places) /\ places \subseteq Nat
  BY PlacesAreFinite
<1>2. \A i, j \in places : <<i, j>> \in before <=> i < j
  OBVIOUS
<1> HIDE DEF before
<1>3. \A i, j \in places : i # j => <<i, j>> \in before \/ <<j, i>> \in before
  BY <1>1, <1>2
<1>4. \A i \in places : <<i, i>> \notin before
  BY <1>1, <1>2
<1>5. \A i, j, k \in places : <<i, j>> \in before /\ <<j, k>> \in before => <<i, k>> \in before
  BY <1>1, <1>2
<1>6. Arranged(s, places, before) \in Seq(T)
  BY <1>1, <1>3, <1>4, <1>5, ArrangedIsOfThem
<1> QED
  BY <1>6 DEF At, before

-----------------------------------------------------------------------------
(* What the operators make of the catalog, the pool and the candidates.    *)

Entries == [id : DOMAIN Rank, provider : Clouds]
Models == DOMAIN Rank \cup LocalIds
Candidates ==
  {c \in [id : Models, provider : Clouds \cup {Unknown, "ollama"}, rank : Nat, free : BOOLEAN,
          local : BOOLEAN] : c.local <=> c.provider = "ollama"}
Rows == [is : BOOLEAN, connected : BOOLEAN, rejected : BOOLEAN,
         presence : {"unknown", "present", "absent"}]

RoutesInv ==
  /\ pool \in Seq(Entries) /\ catalog \in Seq(Entries)
  /\ rows \in [Clouds -> Rows]
  /\ custom \in Seq(Models)

\* What a turn may ask: the models of this computer and those of the pool.
Askable(entries) == {c \in Candidates : c.local \/ c.id \in Ids(entries)}

LEMMA FromIsEntries ==
  ASSUME NEW p \in Clouds, NEW list \in Seq(DOMAIN Rank)
  PROVE  From(p, list) \in Seq(Entries) /\ DOMAIN From(p, list) = 1..Len(list)
<1>1. DOMAIN list = 1..Len(list) /\ Len(list) \in Nat /\ \A i \in DOMAIN list : list[i] \in DOMAIN Rank
  OBVIOUS
<1>2. From(p, list) \in [1..Len(list) -> Entries]
  BY <1>1 DEF From, Entries
<1> QED
  BY <1>1, <1>2

LEMMA MergedIsEntries ==
  ASSUME NEW one \in Seq(Entries), NEW other \in Seq(Entries)
  PROVE  MergeCatalogs(one, other) \in Seq(Entries)
<1> DEFINE places == {i \in DOMAIN other : other[i].id \notin Ids(one)}
<1>1. places \in SUBSET DOMAIN other /\ \A i \in places : other[i] \in Entries
  OBVIOUS
<1>2. At(other, places) \in Seq(Entries)
  BY <1>1, AtIsOfThem
<1> QED
  BY <1>2 DEF MergeCatalogs

LEMMA WithoutIsEntries ==
  ASSUME catalog \in Seq(Entries), NEW p PROVE Without(p) \in Seq(Entries)
<1> DEFINE places == {i \in DOMAIN catalog : catalog[i].provider # p}
<1>1. places \in SUBSET DOMAIN catalog /\ \A i \in places : catalog[i] \in Entries
  OBVIOUS
<1>2. At(catalog, places) \in Seq(Entries)
  BY <1>1, AtIsOfThem
<1> QED
  BY <1>2 DEF Without

LEMMA RegisteredIsEntries ==
  ASSUME NEW s \in Seq(Entries), NEW p \in Clouds, NEW list \in Seq(DOMAIN Rank)
  PROVE  Registered(s, p, list) \in Seq(Entries)
<1> DEFINE again == [i \in DOMAIN s |-> IF s[i].id \in Range(list) THEN [s[i] EXCEPT !.provider = p] ELSE s[i]]
<1>1. ASSUME NEW e \in Entries PROVE [e EXCEPT !.provider = p] \in Entries
  BY DEF Entries
<1>2. again \in Seq(Entries)
  <2>1. DOMAIN s = 1..Len(s) /\ Len(s) \in Nat /\ \A i \in DOMAIN s : s[i] \in Entries
    OBVIOUS
  <2>2. again \in [1..Len(s) -> Entries]
    BY <1>1, <2>1
  <2> QED
    BY <2>1, <2>2
<1> HIDE DEF again
<1>3. MergeCatalogs(again, From(p, list)) \in Seq(Entries)
  BY <1>2, FromIsEntries, MergedIsEntries
<1> QED
  BY <1>3 DEF Registered, again

\* A catalog entry names a provider, and a model without one is nobody's.
LEMMA ProviderOfAModel ==
  ASSUME catalog \in Seq(Entries), NEW m PROVE FindCloudModel(m) \in Clouds \cup {Unknown}
<1>1. CASE m \in Ids(catalog)
  <2>1. PICK i \in DOMAIN catalog : catalog[i].id = m
    BY <1>1 DEF Ids
  <2>2. catalog[i] \in Range(catalog)
    BY DEF Range
  <2>3. PICK e : e = (CHOOSE x \in Range(catalog) : x.id = m)
    OBVIOUS
  <2>4. e \in Range(catalog)
    BY <2>1, <2>2, <2>3
  <2>5. e \in Entries
    BY <2>4 DEF Range
  <2> QED
    BY <1>1, <2>3, <2>5 DEF FindCloudModel, Entries
<1>2. CASE m \notin Ids(catalog)
  BY <1>2 DEF FindCloudModel
<1> QED
  BY <1>1, <1>2

LEMMA PoolCandidate ==
  ASSUME RoutesInv, NEW i \in DOMAIN pool
  PROVE  Cloud(pool[i]) \in Askable(pool)
<1>1. pool[i] \in Entries /\ pool[i].id \in Ids(pool)
  BY DEF RoutesInv, Ids
<1>2. FindCloudModel(pool[i].id) \in Clouds \cup {Unknown}
  BY ProviderOfAModel DEF RoutesInv
<1>3. pool[i].id \in DOMAIN Rank /\ Rank[pool[i].id] \in Nat
  BY <1>1, ModelsAssumption DEF Entries
<1>4. FindCloudModel(pool[i].id) # "ollama"
  BY <1>2, ModelsAssumption DEF Unknown
<1> QED
  BY <1>1, <1>2, <1>3, <1>4 DEF Cloud, Askable, Candidates, Models

LEMMA CandidatesAreAskable ==
  ASSUME RoutesInv PROVE RoutingCandidates \in Seq(Askable(pool))
<1> DEFINE clouds == [i \in DOMAIN pool |-> Cloud(pool[i])]
           locals == [i \in DOMAIN Locals |-> Local(Locals[i])]
<1>1. clouds \in Seq(Askable(pool))
  <2>1. DOMAIN pool = 1..Len(pool) /\ Len(pool) \in Nat
    BY DEF RoutesInv
  <2>2. clouds \in [1..Len(pool) -> Askable(pool)]
    BY <2>1, PoolCandidate
  <2> QED
    BY <2>1, <2>2
<1>2. locals \in Seq(Askable(pool))
  <2>1. DOMAIN Locals = 1..Len(Locals) /\ Len(Locals) \in Nat
    BY ModelsAssumption
  <2>2. ASSUME NEW i \in DOMAIN Locals PROVE Local(Locals[i]) \in Askable(pool)
    <3>1. Locals[i] \in LocalIds
      BY DEF LocalIds, Range
    <3> QED
      BY <3>1 DEF Local, Askable, Candidates, Models
  <2>3. locals \in [1..Len(Locals) -> Askable(pool)]
    BY <2>1, <2>2
  <2> QED
    BY <2>1, <2>3
<1> HIDE DEF clouds, locals
<1>3. clouds \o locals \in Seq(Askable(pool))
  BY <1>1, <1>2
<1> QED
  BY <1>3 DEF RoutingCandidates, clouds, locals

-----------------------------------------------------------------------------
(* A chain is made of the candidates it was made from, whatever orders it. *)

LEMMA HeadedAndRest ==
  ASSUME NEW S, NEW cs \in Seq(S), NEW head
  PROVE  Headed(head, cs) \in Seq(S) /\ Rest(head, cs) \in Seq(S)
<1> DEFINE one == {i \in DOMAIN cs : cs[i].id = head}
           others == {i \in DOMAIN cs : cs[i].id # head}
<1>1. /\ one \in SUBSET DOMAIN cs /\ \A i \in one : cs[i] \in S
      /\ others \in SUBSET DOMAIN cs /\ \A i \in others : cs[i] \in S
  OBVIOUS
<1>2. At(cs, one) \in Seq(S)
  BY <1>1, AtIsOfThem
<1>3. At(cs, others) \in Seq(S)
  BY <1>1, AtIsOfThem
<1> QED
  BY <1>2, <1>3 DEF Headed, Rest

LEMMA OnlyLocalIsLocal ==
  ASSUME NEW S, NEW cs \in Seq(S)
  PROVE  OnlyLocal(cs) \in Seq({c \in S : c.local}) /\ OnlyCloud(cs) \in Seq(S)
<1> DEFINE locals == {i \in DOMAIN cs : cs[i].local}
           clouds == {i \in DOMAIN cs : ~cs[i].local}
<1>1. /\ locals \in SUBSET DOMAIN cs /\ \A i \in locals : cs[i] \in {c \in S : c.local}
      /\ clouds \in SUBSET DOMAIN cs /\ \A i \in clouds : cs[i] \in S
  OBVIOUS
<1>2. At(cs, locals) \in Seq({c \in S : c.local})
  BY <1>1, AtIsOfThem
<1>3. At(cs, clouds) \in Seq(S)
  BY <1>1, AtIsOfThem
<1> QED
  BY <1>2, <1>3 DEF OnlyLocal, OnlyCloud

\* Stronger is a strict weak order: the order of the places breaks its ties.
LEMMA StrongerIsAnOrder ==
  ASSUME NEW b \in Candidates, NEW c \in Candidates, NEW d \in Candidates
  PROVE  /\ ~(Stronger(b, c) /\ Stronger(c, b))
         /\ Stronger(b, c) /\ ~Stronger(d, c) => Stronger(b, d)
         /\ ~Stronger(c, b) /\ Stronger(c, d) => Stronger(b, d)
         /\ ~Stronger(b, c) /\ ~Stronger(c, d) => ~Stronger(b, d)
<1>1. /\ b.rank \in Nat /\ c.rank \in Nat /\ d.rank \in Nat
      /\ b.local \in BOOLEAN /\ c.local \in BOOLEAN /\ d.local \in BOOLEAN
  BY DEF Candidates
<1> QED
  BY <1>1 DEF Stronger

LEMMA QualityOrderIsOfThem ==
  ASSUME NEW S \in SUBSET Candidates, NEW cs \in Seq(S)
  PROVE  QualityOrder(cs) \in Seq(S)
<1> DEFINE places == DOMAIN cs
           before == {p \in places \X places :
                        \/ Stronger(cs[p[1]], cs[p[2]])
                        \/ p[1] < p[2] /\ ~Stronger(cs[p[2]], cs[p[1]])}
<1>1. IsFiniteSet(places) /\ places \subseteq Nat /\ \A i \in places : cs[i] \in S
  BY PlacesAreFinite
<1>2. \A i \in places : cs[i] \in Candidates
  BY <1>1
<1>3. \A i, j \in places :
        <<i, j>> \in before <=> Stronger(cs[i], cs[j]) \/ (i < j /\ ~Stronger(cs[j], cs[i]))
  OBVIOUS
<1> HIDE DEF before, places
<1>4. ASSUME NEW i \in places, NEW j \in places, i # j PROVE <<i, j>> \in before \/ <<j, i>> \in before
  <2>1. i < j \/ j < i
    BY <1>1, <1>4
  <2> QED
    BY <1>3, <2>1
<1>5. ASSUME NEW i \in places PROVE <<i, i>> \notin before
  <2>1. cs[i] \in Candidates /\ ~(i < i)
    BY <1>1, <1>2
  <2>2. ~Stronger(cs[i], cs[i])
    BY <2>1, StrongerIsAnOrder
  <2> QED
    BY <1>3, <2>1, <2>2
<1>6. ASSUME NEW i \in places, NEW j \in places, NEW k \in places,
             <<i, j>> \in before, <<j, k>> \in before
      PROVE  <<i, k>> \in before
  <2> DEFINE St(x, y) == Stronger(cs[x], cs[y])
  <2>1. /\ cs[i] \in Candidates /\ cs[j] \in Candidates /\ cs[k] \in Candidates
        /\ i \in Nat /\ j \in Nat /\ k \in Nat
    BY <1>1, <1>2
  <2>2. /\ St(i, j) \/ (i < j /\ ~St(j, i))
        /\ St(j, k) \/ (j < k /\ ~St(k, j))
    BY <1>3, <1>6
  <2>3. CASE St(i, j) /\ St(j, k)
    <3>1. ~St(k, j)
      BY <2>1, <2>3, StrongerIsAnOrder
    <3>2. St(i, k)
      BY <2>1, <2>3, <3>1, StrongerIsAnOrder
    <3> QED
      BY <1>3, <3>2
  <2>4. CASE St(i, j) /\ ~St(k, j)
    <3>1. St(i, k)
      BY <2>1, <2>4, StrongerIsAnOrder
    <3> QED
      BY <1>3, <3>1
  <2>5. CASE ~St(j, i) /\ St(j, k)
    <3>1. St(i, k)
      BY <2>1, <2>5, StrongerIsAnOrder
    <3> QED
      BY <1>3, <3>1
  <2>6. CASE i < j /\ ~St(j, i) /\ j < k /\ ~St(k, j)
    <3>1. ~St(k, i)
      BY <2>1, <2>6, StrongerIsAnOrder
    <3>2. i < k
      BY <2>1, <2>6
    <3> QED
      BY <1>3, <3>1, <3>2
  <2> QED
    BY <2>2, <2>3, <2>4, <2>5, <2>6
<1>7. Arranged(cs, places, before) \in Seq(S)
  <2>1. \A i, j \in places : i # j => <<i, j>> \in before \/ <<j, i>> \in before
    BY <1>4
  <2>2. \A i \in places : <<i, i>> \notin before
    BY <1>5
  <2>3. \A i, j, k \in places : <<i, j>> \in before /\ <<j, k>> \in before => <<i, k>> \in before
    BY <1>6
  <2> QED
    BY <1>1, <2>1, <2>2, <2>3, ArrangedIsOfThem
<1> QED
  BY <1>7 DEF QualityOrder, before, places

LEMMA QualityFirstIsOfThem ==
  ASSUME NEW S \in SUBSET Candidates, NEW cs \in Seq(S), NEW head
  PROVE  QualityFirst(cs, head) \in Seq(S)
<1>1. Headed(head, cs) \in Seq(S) /\ Rest(head, cs) \in Seq(S)
  BY HeadedAndRest
<1>2. QualityOrder(Rest(head, cs)) \in Seq(S)
  BY <1>1, QualityOrderIsOfThem
<1>3. Headed(head, cs) \o QualityOrder(Rest(head, cs)) \in Seq(S)
  BY <1>1, <1>2, ConcatProperties
<1> QED
  BY <1>3 DEF QualityFirst

LEMMA CostFirstIsOfThem ==
  ASSUME NEW S \in SUBSET Candidates, NEW cs \in Seq(S), NEW head
  PROVE  CostFirst(cs, head) \in Seq(S)
<1> DEFINE nothing == {i \in DOMAIN cs : cs[i].free}
           something == {i \in DOMAIN cs : ~cs[i].free}
           free == At(cs, nothing)
           paid == At(cs, something)
<1>1. /\ nothing \in SUBSET DOMAIN cs /\ \A i \in nothing : cs[i] \in S
      /\ something \in SUBSET DOMAIN cs /\ \A i \in something : cs[i] \in S
  OBVIOUS
<1> HIDE DEF nothing, something
<1>2. free \in Seq(S)
  BY <1>1, AtIsOfThem
<1>3. paid \in Seq(S)
  BY <1>1, AtIsOfThem
<1> HIDE DEF free, paid
<1>4. Headed(head, paid) \in Seq(S) /\ Rest(head, paid) \in Seq(S)
  BY <1>3, HeadedAndRest
<1>5. QualityOrder(Rest(head, paid)) \in Seq(S)
  BY <1>4, QualityOrderIsOfThem
<1>6. free \o Headed(head, paid) \in Seq(S)
  BY <1>2, <1>4, ConcatProperties
<1>7. free \o Headed(head, paid) \o QualityOrder(Rest(head, paid)) \in Seq(S)
  BY <1>5, <1>6, ConcatProperties
<1> QED
  BY <1>7 DEF CostFirst, free, paid, nothing, something

LEMMA LocalOnlyIsLocal ==
  ASSUME NEW S, NEW cs \in Seq(S), NEW head
  PROVE  LocalOnly(cs, head) \in Seq({c \in S : c.local})
<1> DEFINE T == {c \in S : c.local}
<1>1. OnlyLocal(cs) \in Seq(T)
  BY OnlyLocalIsLocal
<1> HIDE DEF T
<1>2. Headed(head, OnlyLocal(cs)) \in Seq(T) /\ Rest(head, OnlyLocal(cs)) \in Seq(T)
  BY <1>1, HeadedAndRest
<1>3. Headed(head, OnlyLocal(cs)) \o Rest(head, OnlyLocal(cs)) \in Seq(T)
  BY <1>2, ConcatProperties
<1> QED
  BY <1>3 DEF LocalOnly, T

LEMMA CustomChainIsOfThem ==
  ASSUME RoutesInv, NEW S \in SUBSET Candidates, NEW cs \in Seq(S), NEW head
  PROVE  CustomChain(cs, head) \in Seq(S)
<1> DEFINE there == {i \in DOMAIN custom : custom[i] \in Ids(cs)}
           still == At(custom, there)
           chain == [i \in DOMAIN still |-> CHOOSE c \in Range(cs) : c.id = still[i]]
<1>1. still \in Seq(Ids(cs))
  <2>1. custom \in Seq(Models) /\ there \in SUBSET DOMAIN custom /\ \A i \in there : custom[i] \in Ids(cs)
    BY DEF RoutesInv
  <2> QED
    BY <2>1, AtIsOfThem
<1> HIDE DEF still
<1>2. DOMAIN still = 1..Len(still) /\ Len(still) \in Nat /\ \A i \in DOMAIN still : still[i] \in Ids(cs)
  BY <1>1
<1>3. ASSUME NEW i \in DOMAIN still PROVE (CHOOSE c \in Range(cs) : c.id = still[i]) \in S
  <2>1. PICK j \in DOMAIN cs : cs[j].id = still[i]
    BY <1>2 DEF Ids
  <2>2. cs[j] \in Range(cs)
    BY DEF Range
  <2>3. PICK c : c = (CHOOSE x \in Range(cs) : x.id = still[i])
    OBVIOUS
  <2>4. c \in Range(cs)
    BY <2>1, <2>2, <2>3
  <2>5. c \in S
    BY <2>4 DEF Range
  <2> QED
    BY <2>3, <2>5
<1>4. chain \in Seq(S)
  <2>1. chain \in [1..Len(still) -> S]
    BY <1>2, <1>3
  <2> HIDE DEF chain
  <2> QED
    BY <1>2, <2>1
<1>5. QualityFirst(cs, head) \in Seq(S)
  BY QualityFirstIsOfThem
<1>6. CustomChain(cs, head) = IF still = <<>> THEN QualityFirst(cs, head) ELSE chain
  BY DEF CustomChain, still, there
<1> QED
  BY <1>4, <1>5, <1>6

LEMMA ResolveChainIsOfThem ==
  ASSUME RoutesInv, NEW S \in SUBSET Candidates, NEW cs \in Seq(S), NEW how, NEW head
  PROVE  ResolveChain(how, cs, head) \in Seq(S)
<1>1. LocalOnly(cs, head) \in Seq(S)
  <2>1. LocalOnly(cs, head) \in Seq({c \in S : c.local})
    BY LocalOnlyIsLocal
  <2> QED
    BY <2>1
<1>2. CustomChain(cs, head) \in Seq(S)
  BY CustomChainIsOfThem
<1>3. CostFirst(cs, head) \in Seq(S)
  BY CostFirstIsOfThem
<1>4. QualityFirst(cs, head) \in Seq(S)
  BY QualityFirstIsOfThem
<1> QED
  BY <1>1, <1>2, <1>3, <1>4 DEF ResolveChain

\* The chain of a turn is made of what may be asked, and that of a local turn of this
\* computer's models alone.
LEMMA ChainIsAskable ==
  ASSUME RoutesInv, NEW role, NEW pick
  PROVE  /\ RoutingChain(role, pick) \in Seq(Askable(pool))
         /\ role = "local" => RoutingChain(role, pick) \in Seq({c \in Askable(pool) : c.local})
<1> DEFINE S == Askable(pool)
           T == {c \in S : c.local}
           all == RoutingCandidates
           local == IF pick # None THEN pick ELSE IF Locals = <<>> THEN None ELSE Head(Locals)
<1>1. S \in SUBSET Candidates /\ T \in SUBSET Candidates /\ T \subseteq S
  BY DEF Askable
<1>2. all \in Seq(S)
  BY CandidatesAreAskable
<1> HIDE DEF S, local
<1>3. LocalOnly(all, local) \in Seq(T)
  BY <1>2, LocalOnlyIsLocal
<1>4. OnlyLocal(all) \in Seq(T) /\ OnlyCloud(all) \in Seq(S)
  BY <1>2, OnlyLocalIsLocal
<1> HIDE DEF T, all
<1>5. QualityFirst(OnlyLocal(all), pick) \in Seq(T)
  BY <1>1, <1>4, QualityFirstIsOfThem
<1>6. QualityFirst(OnlyCloud(all), pick) \in Seq(S)
  BY <1>1, <1>4, QualityFirstIsOfThem
<1>7. ResolveChain(strategy, all, selected) \in Seq(S)
  BY <1>1, <1>2, ResolveChainIsOfThem
<1>8. LocalOnly(all, local) \in Seq(S) /\ QualityFirst(OnlyLocal(all), pick) \in Seq(S)
  BY <1>1, <1>3, <1>5, SeqMonotonic
<1> QED
  BY <1>3, <1>6, <1>7, <1>8 DEF RoutingChain, S, T, all, local

-----------------------------------------------------------------------------
(* What is kept of the catalog, the pool and the rows.                     *)

LEMMA RowsAfter ==
  ASSUME rows \in [Clouds -> Rows]
  PROVE  /\ \A p, connected, rejected : p \in Clouds /\ connected \in BOOLEAN /\ rejected \in BOOLEAN =>
              UpsertProviderConfig(p, connected, rejected) \in [Clouds -> Rows]
         /\ \A p \in Clouds : RecordSecretPresence(p) \in [Clouds -> Rows]
         /\ \A p : RecordKeyRejected(p) \in [Clouds -> Rows]
         /\ NoRow \in Rows
<1>1. \A p : PresenceNow(p) \in {"unknown", "present", "absent"}
  BY DEF PresenceNow
<1>2. NoRow \in Rows
  BY DEF NoRow, Rows
<1>3. ASSUME NEW p \in Clouds, NEW connected \in BOOLEAN, NEW rejected \in BOOLEAN
      PROVE  UpsertProviderConfig(p, connected, rejected) \in [Clouds -> Rows]
  BY <1>1 DEF UpsertProviderConfig, Rows
<1>4. ASSUME NEW p \in Clouds PROVE RecordSecretPresence(p) \in [Clouds -> Rows]
  <2> DEFINE known == [rows[p] EXCEPT !.presence = PresenceNow(p)]
             new == [NoRow EXCEPT !.is = TRUE, !.connected = (PresenceNow(p) = "present"),
                                  !.presence = PresenceNow(p)]
  <2>1. known \in Rows
    BY <1>1 DEF Rows
  <2>2. new \in Rows
    BY <1>1, <1>2 DEF Rows
  <2>3. RecordSecretPresence(p) = [rows EXCEPT ![p] = IF rows[p].is THEN known ELSE new]
    BY DEF RecordSecretPresence
  <2> HIDE DEF known, new
  <2> QED
    BY <2>1, <2>2, <2>3
<1>5. ASSUME NEW p PROVE RecordKeyRejected(p) \in [Clouds -> Rows]
  <2>1. CASE p \notin Clouds
    BY <2>1 DEF RecordKeyRejected
  <2>2. CASE p \in Clouds
    <3> DEFINE known == [rows[p] EXCEPT !.rejected = TRUE]
               new == [NoRow EXCEPT !.is = TRUE, !.rejected = TRUE, !.presence = "unknown"]
    <3>1. known \in Rows
      BY <2>2 DEF Rows
    <3>2. new \in Rows
      BY <1>2 DEF Rows
    <3>3. RecordKeyRejected(p) = [rows EXCEPT ![p] = IF rows[p].is THEN known ELSE new]
      BY <2>2 DEF RecordKeyRejected
    <3> HIDE DEF known, new
    <3> QED
      BY <3>1, <3>2, <3>3
  <2> QED
    BY <2>1, <2>2
<1> QED
  BY <1>2, <1>3, <1>4, <1>5

\* A rejection that was recorded stays, and one more is recorded for a cloud provider.
LEMMA RejectionsStay ==
  ASSUME rows \in [Clouds -> Rows], NEW p
  PROVE  \A q \in Clouds : rows[q].rejected \/ q = p => RecordKeyRejected(p)[q].rejected
<1>1. CASE p \notin Clouds
  BY <1>1 DEF RecordKeyRejected
<1>2. CASE p \in Clouds
  <2> DEFINE known == [rows[p] EXCEPT !.rejected = TRUE]
             new == [NoRow EXCEPT !.is = TRUE, !.rejected = TRUE, !.presence = "unknown"]
  <2>1. known.rejected = TRUE /\ new.rejected = TRUE
    BY <1>2 DEF Rows, NoRow
  <2>2. RecordKeyRejected(p) = [rows EXCEPT ![p] = IF rows[p].is THEN known ELSE new]
    BY <1>2 DEF RecordKeyRejected
  <2> HIDE DEF known, new
  <2> QED
    BY <1>2, <2>1, <2>2
<1> QED
  BY <1>1, <1>2

LEMMA ListsAreModels ==
  ASSUME NEW p \in Clouds, NEW list \in Lists[p] PROVE list \in Seq(DOMAIN Rank)
BY ModelsAssumption

LEMMA RegisterKeepsEntries ==
  ASSUME RoutesInv, NEW p \in Clouds, NEW list \in Seq(DOMAIN Rank)
  PROVE  /\ RegisterPrimaryModels(p, list) => pool' \in Seq(Entries)
         /\ SetProviderModels(p, list) => catalog' \in Seq(Entries)
<1>1. Registered(pool, p, list) \in Seq(Entries)
  BY RegisteredIsEntries DEF RoutesInv
<1>2. MergeCatalogs(Without(p), From(p, list)) \in Seq(Entries)
  <2>1. Without(p) \in Seq(Entries)
    BY WithoutIsEntries DEF RoutesInv
  <2>2. From(p, list) \in Seq(Entries)
    BY FromIsEntries
  <2> QED
    BY <2>1, <2>2, MergedIsEntries
<1> QED
  BY <1>1, <1>2 DEF RegisterPrimaryModels, SetProviderModels

LEMMA UnregisterKeepsEntries ==
  ASSUME RoutesInv, NEW ms, UnregisterPrimaryModels(ms) PROVE pool' \in Seq(Entries)
<1> DEFINE places == {i \in DOMAIN pool : pool[i].id \notin ms}
<1>1. pool \in Seq(Entries) /\ places \in SUBSET DOMAIN pool /\ \A i \in places : pool[i] \in Entries
  BY DEF RoutesInv
<1>2. At(pool, places) \in Seq(Entries)
  BY <1>1, AtIsOfThem
<1> QED
  BY <1>2 DEF UnregisterPrimaryModels

LEMMA ReconnectedIsEntries ==
  ASSUME NEW got \in SUBSET Clouds, NEW lists, DOMAIN lists = got,
         \A p \in got : lists[p] \in Lists[p], NEW more \in OneAfterAnother(lists)
  PROVE  more \in Seq(Entries)
<1> DEFINE of(p) == Range(From(p, lists[p]))
           each == [p \in got |-> of(p)]
           entries == UNION {of(p) : p \in DOMAIN lists}
<1>1. ASSUME NEW p \in got PROVE IsFiniteSet(of(p)) /\ of(p) \subseteq Entries
  <2>1. lists[p] \in Seq(DOMAIN Rank)
    BY ListsAreModels
  <2>2. From(p, lists[p]) \in Seq(Entries)
    BY <2>1, FromIsEntries
  <2> DEFINE s == From(p, lists[p])
  <2>3. s \in [1..Len(s) -> Entries] /\ Len(s) \in Nat /\ Range(s) \subseteq Entries
    BY <2>2 DEF Range
  <2> HIDE DEF s
  <2>4. s \in Surjection(1..Len(s), Range(s))
    BY <2>3 DEF Surjection, Range
  <2>5. IsFiniteSet(1..Len(s))
    BY <2>3, FS_Interval
  <2>6. IsFiniteSet(Range(s))
    BY <2>4, <2>5, FS_Surjection
  <2> QED
    BY <2>3, <2>6 DEF s
<1>2. IsFiniteSet({of(p) : p \in DOMAIN lists})
  <2>1. IsFiniteSet(got)
    BY ModelsAssumption, FS_Subset
  <2>2. each \in Surjection(got, {of(p) : p \in got})
    BY DEF Surjection
  <2>3. IsFiniteSet({of(p) : p \in got})
    BY <2>1, <2>2, FS_Surjection
  <2> QED
    BY <2>3
<1>3. IsFiniteSet(entries)
  <2>1. \A T \in {of(p) : p \in DOMAIN lists} : IsFiniteSet(T)
    BY <1>1
  <2> HIDE DEF of
  <2> QED
    BY <1>2, <2>1, FS_UNION
<1>4. Cardinality(entries) \in Nat
  BY <1>3, FS_CardinalityType
<1>5. entries \subseteq Entries
  BY <1>1
<1>6. more \in [1..Cardinality(entries) -> entries]
  BY DEF OneAfterAnother
<1> HIDE DEF entries
<1> QED
  BY <1>4, <1>5, <1>6

-----------------------------------------------------------------------------
(* The turn.                                                               *)

Turns ==
  [is : {"idle", "walk", "single", "answered", "over_budget", "failed", "no_model"},
   role : {None, "primary", "local", "setup"},
   chain : Seq(Candidates), active : Seq(Candidates), at : Nat \ {0},
   committed : {None, Unknown, "ollama"} \cup Clouds,
   noted : BOOLEAN, preferredRejected : BOOLEAN, failed : BOOLEAN,
   rounds : Nat, calls : Nat,
   answered : {None} \cup Models, voices : SUBSET Models,
   asked : SUBSET (Clouds \cup {"ollama", "relay"}), keyed : BOOLEAN]

\* The first candidate that may be asked, or 0.
First(t) == IF Eligible(t) = {} THEN 0 ELSE CHOOSE i \in Eligible(t) : \A j \in Eligible(t) : i <= j

\* A walk asks what this computer and the pool have, a local one this computer alone;
\* text on the screen is that of the candidate it is at; and a cloud choice that
\* refused its key has that on record.
WalkInv ==
  turn.is = "walk" =>
    /\ turn.role # "setup"
    /\ turn.active \in Seq(Askable(pool))
    /\ turn.role = "local" => \A i \in DOMAIN turn.active : turn.active[i].local
    /\ turn.voices # {} => Candidate # 0 /\ turn.voices = {turn.active[Candidate].id}
    /\ turn.preferredRejected => LET p == turn.chain[1].provider IN p \in Clouds => rows[p].rejected

SingleInv ==
  turn.is = "single" => turn.role # "local" /\ turn.voices = {} /\ (turn.role = "setup" => ~turn.keyed)

TurnInv ==
  /\ RoutesInv /\ turn \in Turns
  /\ WalkInv /\ SingleInv
  /\ LocalTurnsStayLocal /\ RelayOnlyWithoutAKey /\ OneVoice

LEMMA NatHasLeast ==
  ASSUME NEW S \in SUBSET Nat, S # {}
  PROVE  \E n \in S : \A m \in S : n <= m
<1> DEFINE R == OpToRel(<, Nat)
<1>1. IsWellFoundedOn(R, Nat)
  BY NatLessThanWellFounded
<1>2. \E n \in S : \A m \in S : <<m, n>> \notin R
  BY <1>1, WFMin
<1>3. ASSUME NEW m \in S, NEW n \in S, <<m, n>> \notin R PROVE n <= m
  BY <1>3 DEF OpToRel
<1> QED
  BY <1>2, <1>3

LEMMA FirstFacts ==
  ASSUME NEW t \in Turns
  PROVE  /\ Eligible(t) = {} => First(t) = 0
         /\ Eligible(t) # {} => /\ First(t) \in Eligible(t) /\ \A j \in Eligible(t) : First(t) <= j
                                /\ First(t) # 0
         /\ Eligible(t) \subseteq DOMAIN t.active /\ Eligible(t) \subseteq Nat \ {0}
<1>1. /\ t.at \in Nat \ {0} /\ t.active \in Seq(Candidates)
  BY DEF Turns
<1>2. Eligible(t) \subseteq DOMAIN t.active /\ Eligible(t) \subseteq Nat \ {0}
  BY <1>1 DEF Eligible
<1>3. CASE Eligible(t) # {}
  <2>1. \E n \in Eligible(t) : \A m \in Eligible(t) : n <= m
    BY <1>2, <1>3, NatHasLeast
  <2>2. First(t) = CHOOSE i \in Eligible(t) : \A j \in Eligible(t) : i <= j
    BY <1>3 DEF First
  <2>3. First(t) \in Eligible(t) /\ \A j \in Eligible(t) : First(t) <= j
    BY <2>1, <2>2
  <2> QED
    BY <1>2, <1>3, <2>3
<1> QED
  BY <1>2, <1>3 DEF First

LEMMA CandidateIsFirst == Candidate = First(turn) /\ Candidate' = First(turn')
BY DEF Candidate, First, Eligible

\* Who is asked goes on being asked: the place and the provider are its own.
LEMMA TheSameAgain ==
  ASSUME NEW t \in Turns, First(t) # 0, NEW u \in Turns,
         u.at = First(t), u.active = t.active, u.committed = t.active[First(t)].provider
  PROVE  First(u) = First(t)
<1>1. First(t) \in Eligible(t) /\ First(t) \in DOMAIN t.active /\ First(t) \in Nat
  BY FirstFacts
<1>2. First(t) \in Eligible(u)
  BY <1>1 DEF Eligible, Turns
<1>3. \A i \in Eligible(u) : First(t) <= i
  BY <1>1 DEF Eligible, Turns
<1>4. First(u) \in Eligible(u) /\ First(u) <= First(t) /\ First(u) \in Nat
  BY <1>2, FirstFacts
<1> QED
  BY <1>1, <1>3, <1>4

\* The server behind what may be asked: this computer's, or a provider's.
LEMMA ServerFacts ==
  ASSUME RoutesInv, NEW c \in Askable(pool)
  PROVE  /\ Server(c) \in Clouds \cup {"ollama"}
         /\ c.local => Server(c) = "ollama"
<1>1. CASE c.local
  BY <1>1 DEF Server
<1>2. CASE ~c.local
  <2>1. PICK i \in DOMAIN pool : pool[i].id = c.id
    BY <1>2 DEF Askable, Ids
  <2>2. pool[i] \in Range(pool)
    BY DEF Range
  <2>3. PICK e : e = (CHOOSE x \in Range(pool) : x.id = c.id)
    OBVIOUS
  <2>4. e \in Range(pool)
    BY <2>1, <2>2, <2>3
  <2>5. e \in Entries
    BY <2>4 DEF Range, RoutesInv
  <2> QED
    BY <1>2, <2>3, <2>5 DEF Server, Entries
<1> QED
  BY <1>1, <1>2

LEMMA IdleIsATurn == Idle \in Turns /\ Idle.is = "idle" /\ Idle.role = None
                     /\ Idle.asked = {} /\ Idle.voices = {}
<1>1. <<>> \in Seq(Candidates)
  BY EmptySeq
<1> QED
  BY <1>1 DEF Idle, Turns

\* What is left of a turn.
LEMMA EndsFacts ==
  ASSUME NEW t \in Turns, NEW how \in {"answered", "over_budget", "failed", "no_model"}
  PROVE  /\ Ends(t, how) \in Turns /\ Ends(t, how).is = how
         /\ Ends(t, how).role = t.role /\ Ends(t, how).asked = t.asked /\ Ends(t, how).keyed = t.keyed
         /\ Ends(t, how).voices = t.voices /\ Ends(t, how).answered = t.answered
         /\ Ends(t, how).noted = t.noted
<1>1. <<>> \in Seq(Candidates)
  BY EmptySeq
<1>2. /\ t.role \in {None, "primary", "local", "setup"} /\ t.asked \in SUBSET (Clouds \cup {"ollama", "relay"})
      /\ t.keyed \in BOOLEAN /\ t.voices \in SUBSET Models /\ t.answered \in {None} \cup Models
      /\ t.noted \in BOOLEAN
  BY DEF Turns
<1>3. Ends(t, how) =
        [is |-> how, role |-> t.role, chain |-> <<>>, active |-> <<>>, at |-> 1, committed |-> None,
         noted |-> t.noted, preferredRejected |-> FALSE, failed |-> FALSE, rounds |-> 0, calls |-> 0,
         answered |-> t.answered, voices |-> t.voices, asked |-> t.asked, keyed |-> t.keyed]
  <2>1. PICK i : i = [is |-> "idle", role |-> None, chain |-> <<>>, active |-> <<>>, at |-> 1,
             committed |-> None, noted |-> FALSE, preferredRejected |-> FALSE, failed |-> FALSE,
             rounds |-> 0, calls |-> 0, answered |-> None, voices |-> {}, asked |-> {}, keyed |-> FALSE]
    OBVIOUS
  <2>2. i = Idle
    BY <2>1 DEF Idle
  <2>3. Ends(t, how) = [i EXCEPT !.is = how, !.role = t.role, !.asked = t.asked, !.keyed = t.keyed,
                                 !.voices = t.voices, !.answered = t.answered, !.noted = t.noted]
    BY <2>2 DEF Ends
  <2> QED
    BY <2>1, <2>3
<1> QED
  BY <1>1, <1>2, <1>3 DEF Turns

LEMMA AfterToolsFacts ==
  ASSUME NEW t \in Turns, NEW n \in Nat, NEW p \in {None, Unknown, "ollama"} \cup Clouds,
         NEW u, u = AfterTools(t, n, p)
  PROVE  /\ u \in Turns /\ u.is \in {"over_budget", t.is}
         /\ u.role = t.role /\ u.asked = t.asked /\ u.keyed = t.keyed /\ u.voices = t.voices
         /\ u.is = "over_budget"
              \/ (u.is = t.is /\ u.at = t.at /\ u.active = t.active /\ u.chain = t.chain /\ u.committed = p
                  /\ u.preferredRejected = t.preferredRejected)
<1> DEFINE over == t.calls + n > MaxCalls \/ t.rounds + 1 >= MaxRounds
<1>1. CASE over
  <2>1. u = Ends(t, "over_budget")
    BY <1>1 DEF AfterTools
  <2> QED
    BY <2>1, EndsFacts
<1>2. CASE ~over
  <2>1. u = [t EXCEPT !.calls = @ + n, !.rounds = @ + 1, !.committed = p]
    BY <1>2 DEF AfterTools
  <2>2. u = [is |-> t.is, role |-> t.role, chain |-> t.chain, active |-> t.active, at |-> t.at,
             committed |-> p, noted |-> t.noted, preferredRejected |-> t.preferredRejected,
             failed |-> t.failed, rounds |-> t.rounds + 1, calls |-> t.calls + n,
             answered |-> t.answered, voices |-> t.voices, asked |-> t.asked, keyed |-> t.keyed]
    BY <2>1 DEF Turns
  <2>3. u.is = t.is /\ u.role = t.role /\ u.asked = t.asked /\ u.keyed = t.keyed /\ u.voices = t.voices
    BY <2>2
  <2>4. /\ u.at = t.at /\ u.active = t.active /\ u.chain = t.chain /\ u.committed = p
        /\ u.preferredRejected = t.preferredRejected
    BY <2>2
  <2>5. t.rounds + 1 \in Nat /\ t.calls + n \in Nat
    BY DEF Turns
  <2>6. u \in Turns
    BY <2>2, <2>5 DEF Turns
  <2> QED
    BY <2>3, <2>4, <2>6
<1> QED
  BY <1>1, <1>2

-----------------------------------------------------------------------------
(* How a turn begins and ends.                                             *)

LEMMA FewVoices ==
  ASSUME NEW voices PROVE (voices = {} \/ \E m : voices = {m}) => Cardinality(voices) <= 1
<1>1. CASE voices = {}
  BY <1>1, FS_EmptySet
<1>2. ASSUME NEW m, voices = {m} PROVE Cardinality(voices) <= 1
  <2>1. Cardinality({m}) = 1
    BY FS_Singleton
  <2> QED
    BY <1>2, <2>1
<1> QED
  BY <1>1, <1>2

\* A turn that is over, with nothing new in it.
LEMMA OverIsFine ==
  ASSUME RoutesInv', turn' \in Turns, turn'.is \notin {"walk", "single"},
         LocalTurnsStayLocal', RelayOnlyWithoutAKey', OneVoice'
  PROVE  TurnInv'
BY DEF TurnInv, WalkInv, SingleInv

LEMMA IdleIsFine == ASSUME RoutesInv', turn' = Idle PROVE TurnInv'
<1>1. turn' \in Turns /\ turn'.is = "idle" /\ turn'.role # "local" /\ turn'.asked = {} /\ turn'.voices = {}
  BY IdleIsATurn DEF None
<1>2. OneVoice'
  BY <1>1, FewVoices DEF OneVoice
<1> QED
  BY <1>1, <1>2, OverIsFine DEF LocalTurnsStayLocal, RelayOnlyWithoutAKey

LEMMA KeptIsFine == ASSUME TurnInv, RoutesInv', turn' = turn, BetweenTurns PROVE TurnInv'
<1>1. turn' \in Turns /\ turn'.is \notin {"walk", "single"}
  BY DEF TurnInv, BetweenTurns
<1>2. LocalTurnsStayLocal' /\ RelayOnlyWithoutAKey' /\ OneVoice'
  BY DEF TurnInv, LocalTurnsStayLocal, RelayOnlyWithoutAKey, OneVoice
<1> QED
  BY <1>1, <1>2, OverIsFine

\* A turn begins: nothing is asked and nothing shown yet, and what it will walk along
\* is a part of its chain.
LEMMA TurnBegins ==
  ASSUME TurnInv, RoutesInv', pool' = pool, NEW role \in {"primary", "local", "setup"}, NEW pick,
         RunTurn(role, pick), role = "setup" => Home \notin keys
  PROVE  TurnInv'
<1> DEFINE S == Askable(pool)
           T == {c \in S : c.local}
           chain == IF role = "setup" THEN <<>> ELSE RoutingChain(role, pick)
           there == {i \in DOMAIN chain : chain[i].provider \notin cooled /\ chain[i].id \notin cooledModels}
           warm == At(chain, there)
           active == IF warm = <<>> THEN chain ELSE warm
           is == IF role = "setup" \/ (chain = <<>> /\ role # "local" /\ pick \notin LocalIds)
                 THEN "single" ELSE "walk"
<1>1. RoutesInv
  BY DEF TurnInv
<1>2. chain \in Seq(S) /\ (role = "local" => chain \in Seq(T))
  <2>1. RoutingChain(role, pick) \in Seq(S) /\ (role = "local" => RoutingChain(role, pick) \in Seq(T))
    BY <1>1, ChainIsAskable
  <2>2. <<>> \in Seq(S)
    BY EmptySeq
  <2> QED
    BY <2>1, <2>2
<1>3. turn' = [Idle EXCEPT !.is = is, !.role = role, !.chain = chain, !.active = active,
                           !.keyed = Home \in keys]
  BY DEF RunTurn
<1>4. role = "setup" => is = "single"
  OBVIOUS
<1>5. role = "local" => is = "walk"
  OBVIOUS
<1>6. is \in {"single", "walk"}
  OBVIOUS
<1> HIDE DEF S, chain, is
<1>7. there \in SUBSET DOMAIN chain /\ \A i \in there : chain[i] \in S
  BY <1>2
<1>8. warm \in Seq(S)
  BY <1>2, <1>7, AtIsOfThem
<1>9. role = "local" => warm \in Seq(T)
  <2>1. CASE role = "local"
    <3>1. chain \in Seq(T) /\ \A i \in there : chain[i] \in T
      BY <1>2, <2>1
    <3> QED
      BY <1>7, <3>1, AtIsOfThem
  <2> QED
    BY <2>1
<1> HIDE DEF T, there, warm
<1>10. active \in Seq(S) /\ (role = "local" => active \in Seq(T))
  BY <1>2, <1>8, <1>9
<1> HIDE DEF active
<1>11. S \subseteq Candidates
  BY DEF S, Askable
<1>12. chain \in Seq(Candidates) /\ active \in Seq(Candidates)
  BY <1>2, <1>10, <1>11, SeqMonotonic
<1>13. PICK i : i = [is |-> "idle", role |-> None, chain |-> <<>>, active |-> <<>>, at |-> 1,
             committed |-> None, noted |-> FALSE, preferredRejected |-> FALSE, failed |-> FALSE,
             rounds |-> 0, calls |-> 0, answered |-> None, voices |-> {}, asked |-> {}, keyed |-> FALSE]
  OBVIOUS
<1>14. i = Idle
  BY <1>13 DEF Idle
<1>15. turn' = [is |-> is, role |-> role, chain |-> chain, active |-> active, at |-> 1,
             committed |-> None, noted |-> FALSE, preferredRejected |-> FALSE, failed |-> FALSE,
             rounds |-> 0, calls |-> 0, answered |-> None, voices |-> {}, asked |-> {},
             keyed |-> Home \in keys]
  <2>1. turn' = [i EXCEPT !.is = is, !.role = role, !.chain = chain, !.active = active,
                          !.keyed = Home \in keys]
    BY <1>3, <1>14
  <2> QED
    BY <1>13, <2>1
<1>16. turn' \in Turns
  BY <1>6, <1>12, <1>15 DEF Turns
<1>17. /\ turn'.is = is /\ turn'.role = role /\ turn'.active = active /\ turn'.voices = {}
       /\ turn'.asked = {} /\ turn'.preferredRejected = FALSE /\ (turn'.keyed <=> Home \in keys)
  BY <1>15
<1>18. WalkInv'
  <2>1. active \in Seq(Askable(pool'))
    BY <1>10 DEF S
  <2>2. role = "local" => \A n \in DOMAIN active : active[n].local
    BY <1>10 DEF T
  <2> QED
    BY <1>4, <1>17, <2>1, <2>2 DEF WalkInv
<1>19. SingleInv'
  BY <1>5, <1>17 DEF SingleInv
<1>20. OneVoice'
  BY <1>17, FewVoices DEF OneVoice
<1> QED
  BY <1>16, <1>17, <1>18, <1>19, <1>20 DEF TurnInv, LocalTurnsStayLocal, RelayOnlyWithoutAKey

LEMMA SendMessageIsFine ==
  ASSUME TurnInv, NEW asked, NEW pick, SendMessage(asked, pick) PROVE TurnInv'
<1>1. rows' \in [Clouds -> Rows] /\ pool' = pool /\ catalog' = catalog /\ custom' = custom
  <2>1. rows \in [Clouds -> Rows]
    BY DEF TurnInv, RoutesInv
  <2>2. RecordSecretPresence(Home) \in [Clouds -> Rows]
    BY <2>1, RowsAfter, RoutingAssumption
  <2> QED
    BY <2>1, <2>2 DEF SendMessage, settings
<1>2. RoutesInv'
  BY <1>1 DEF TurnInv, RoutesInv
<1> DEFINE role == IF strategy = "local_only" \/ asked = "local" THEN "local" ELSE "primary"
<1>3. \/ turn' = Idle
      \/ MayReachSetupRelay /\ RunTurn("setup", pick)
      \/ RunTurn(role, pick)
  BY DEF SendMessage
<1>4. MayReachSetupRelay => Home \notin keys
  BY DEF MayReachSetupRelay, PresenceNow
<1>5. role \in {"primary", "local"}
  OBVIOUS
<1> HIDE DEF role
<1>6. CASE turn' = Idle
  BY <1>2, <1>6, IdleIsFine
<1>7. CASE MayReachSetupRelay /\ RunTurn("setup", pick)
  BY <1>1, <1>2, <1>4, <1>7, TurnBegins
<1>8. CASE RunTurn(role, pick)
  <2>1. role \in {"primary", "local", "setup"} /\ role # "setup"
    BY <1>5
  <2> QED
    BY <1>1, <1>2, <1>8, <2>1, TurnBegins
<1> QED
  BY <1>3, <1>6, <1>7, <1>8

LEMMA GivesUpIsFine == ASSUME TurnInv, GivesUp PROVE TurnInv'
<1>1. RoutesInv'
  BY DEF TurnInv, RoutesInv, GivesUp, connections, settings
<1> DEFINE how == IF turn.failed THEN "failed" ELSE "no_model"
<1>2. turn \in Turns /\ turn' = Ends(turn, how) /\ how \in {"answered", "over_budget", "failed", "no_model"}
  BY DEF TurnInv, GivesUp
<1> HIDE DEF how
<1>3. turn' \in Turns /\ turn'.is = how /\ turn'.role = turn.role /\ turn'.asked = turn.asked
      /\ turn'.keyed = turn.keyed /\ turn'.voices = turn.voices
  BY <1>2, EndsFacts
<1>4. turn'.is \notin {"walk", "single"}
  BY <1>2, <1>3
<1>5. LocalTurnsStayLocal' /\ RelayOnlyWithoutAKey' /\ OneVoice'
  BY <1>3 DEF TurnInv, LocalTurnsStayLocal, RelayOnlyWithoutAKey, OneVoice
<1> QED
  BY <1>1, <1>3, <1>4, <1>5, OverIsFine

LEMMA SingleSendIsFine == ASSUME TurnInv, SingleSend PROVE TurnInv'
<1>1. RoutesInv'
  BY DEF TurnInv, RoutesInv, SingleSend, connections, settings
<1> DEFINE at == IF turn.role = "setup" THEN "relay" ELSE Home
<1>2. PICK t : t = [turn EXCEPT !.asked = @ \cup {at}]
  OBVIOUS
<1>3. /\ turn.is = "single" /\ turn \in Turns /\ SingleInv /\ RelayOnlyWithoutAKey
      /\ turn.role # "local" /\ turn.voices = {}
  BY DEF TurnInv, SingleSend, SingleInv
<1>4. at \in Clouds \cup {"ollama", "relay"} /\ (at = "relay" => turn.role = "setup")
  BY RoutingAssumption, ModelsAssumption
<1> HIDE DEF at
<1>5. t = [is |-> turn.is, role |-> turn.role, chain |-> turn.chain, active |-> turn.active, at |-> turn.at,
           committed |-> turn.committed, noted |-> turn.noted,
           preferredRejected |-> turn.preferredRejected, failed |-> turn.failed,
           rounds |-> turn.rounds, calls |-> turn.calls, answered |-> turn.answered,
           voices |-> turn.voices, asked |-> turn.asked \cup {at}, keyed |-> turn.keyed]
  BY <1>2, <1>3 DEF Turns
<1>6. t \in Turns
  BY <1>3, <1>4, <1>5 DEF Turns
<1>7. t.is = "single" /\ t.role = turn.role /\ t.voices = {} /\ t.asked = turn.asked \cup {at} /\ t.keyed = turn.keyed
  BY <1>3, <1>5
<1>8. "relay" \in t.asked => ~t.keyed
  BY <1>3, <1>4, <1>7 DEF SingleInv, RelayOnlyWithoutAKey
<1>9. \/ turn' = Ends(t, "answered")
      \/ turn' = Ends(t, "failed")
      \/ \E n \in 1..MaxCalls + 1 : turn' = AfterTools(t, n, None)
  BY <1>2 DEF SingleSend, at
<1>10. /\ turn' \in Turns /\ turn'.is \in {"answered", "failed", "over_budget", "single"}
       /\ turn'.role = t.role /\ turn'.voices = t.voices /\ turn'.asked = t.asked /\ turn'.keyed = t.keyed
  <2>1. CASE turn' = Ends(t, "answered")
    BY <1>6, <2>1, EndsFacts
  <2>2. CASE turn' = Ends(t, "failed")
    BY <1>6, <2>2, EndsFacts
  <2>3. CASE \E n \in 1..MaxCalls + 1 : turn' = AfterTools(t, n, None)
    <3>1. PICK n \in 1..MaxCalls + 1 : turn' = AfterTools(t, n, None)
      BY <2>3
    <3>2. n \in Nat /\ None \in {None, Unknown, "ollama"} \cup Clouds
      BY RoutingAssumption
    <3> QED
      BY <1>6, <1>7, <3>1, <3>2, AfterToolsFacts
  <2> QED
    BY <1>9, <2>1, <2>2, <2>3
<1>11. OneVoice'
  BY <1>7, <1>10, FewVoices DEF OneVoice
<1>12. LocalTurnsStayLocal' /\ RelayOnlyWithoutAKey'
  BY <1>3, <1>7, <1>8, <1>10 DEF LocalTurnsStayLocal, RelayOnlyWithoutAKey
<1>13. SingleInv' /\ WalkInv'
  BY <1>3, <1>7, <1>10 DEF SingleInv, WalkInv
<1> QED
  BY <1>1, <1>10, <1>11, <1>12, <1>13 DEF TurnInv

-----------------------------------------------------------------------------
(* One send of a walk.                                                     *)

\* What a candidate's text, its server and the note leave as they were.
SameWalk(t, u) ==
  /\ u.is = t.is /\ u.role = t.role /\ u.chain = t.chain /\ u.active = t.active /\ u.at = t.at
  /\ u.committed = t.committed /\ u.preferredRejected = t.preferredRejected
  /\ u.failed = t.failed /\ u.rounds = t.rounds /\ u.calls = t.calls /\ u.answered = t.answered
  /\ u.keyed = t.keyed

LEMMA AskedIsATurn ==
  ASSUME NEW t \in Turns, NEW v \in SUBSET Models, NEW a \in SUBSET (Clouds \cup {"ollama", "relay"})
  PROVE  [is |-> t.is, role |-> t.role, chain |-> t.chain, active |-> t.active, at |-> t.at,
          committed |-> t.committed, noted |-> t.noted, preferredRejected |-> t.preferredRejected,
          failed |-> t.failed, rounds |-> t.rounds, calls |-> t.calls, answered |-> t.answered,
          voices |-> v, asked |-> a, keyed |-> t.keyed] \in Turns
BY DEF Turns

LEMMA RelayedFacts ==
  ASSUME RoutesInv, turn \in Turns, NEW c \in Askable(pool), NEW text \in BOOLEAN,
         NEW t, t = Relayed([turn EXCEPT !.asked = @ \cup {Server(c)}], text, c.id)
  PROVE  /\ t \in Turns /\ SameWalk(turn, t) /\ t.noted = turn.noted
         /\ t.asked = turn.asked \cup {Server(c)}
         /\ t.voices \in {turn.voices, turn.voices \cup {c.id}}
<1>1. Server(c) \in Clouds \cup {"ollama", "relay"} /\ c.id \in Models
  BY ServerFacts DEF Askable, Candidates
<1> DEFINE voices == IF text THEN turn.voices \cup {c.id} ELSE turn.voices
<1>2. PICK u : u = [turn EXCEPT !.asked = @ \cup {Server(c)}]
  OBVIOUS
<1>3. u = [is |-> turn.is, role |-> turn.role, chain |-> turn.chain, active |-> turn.active, at |-> turn.at,
           committed |-> turn.committed, noted |-> turn.noted,
           preferredRejected |-> turn.preferredRejected, failed |-> turn.failed,
           rounds |-> turn.rounds, calls |-> turn.calls, answered |-> turn.answered,
           voices |-> turn.voices, asked |-> turn.asked \cup {Server(c)}, keyed |-> turn.keyed]
  BY <1>2 DEF Turns
<1>4. t = IF text THEN [u EXCEPT !.voices = @ \cup {c.id}] ELSE u
  BY <1>2 DEF Relayed
<1>5. t = [is |-> turn.is, role |-> turn.role, chain |-> turn.chain, active |-> turn.active, at |-> turn.at,
           committed |-> turn.committed, noted |-> turn.noted,
           preferredRejected |-> turn.preferredRejected, failed |-> turn.failed,
           rounds |-> turn.rounds, calls |-> turn.calls, answered |-> turn.answered,
           voices |-> voices, asked |-> turn.asked \cup {Server(c)}, keyed |-> turn.keyed]
  BY <1>3, <1>4
<1>6. t \in Turns
  <2>1. voices \in SUBSET Models /\ turn.asked \cup {Server(c)} \in SUBSET (Clouds \cup {"ollama", "relay"})
    BY <1>1 DEF Turns
  <2> HIDE DEF voices
  <2> QED
    BY <1>5, <2>1, AskedIsATurn
<1>7. SameWalk(turn, t)
  BY <1>5 DEF SameWalk
<1> QED
  BY <1>5, <1>6, <1>7

LEMMA NotedFacts ==
  ASSUME NEW t \in Turns, NEW c, NEW u, u = Noted(t, c)
  PROVE  /\ u \in Turns /\ SameWalk(t, u) /\ u.asked = t.asked /\ u.voices = t.voices
         /\ ~t.preferredRejected /\ c.id # t.chain[1].id => u.noted
<1> DEFINE noted == t.noted \/ (~t.preferredRejected /\ c.id # t.chain[1].id)
<1>1. u = [is |-> t.is, role |-> t.role, chain |-> t.chain, active |-> t.active, at |-> t.at,
           committed |-> t.committed, noted |-> noted, preferredRejected |-> t.preferredRejected,
           failed |-> t.failed, rounds |-> t.rounds, calls |-> t.calls, answered |-> t.answered,
           voices |-> t.voices, asked |-> t.asked, keyed |-> t.keyed]
  BY DEF Noted, Turns
<1>2. noted \in BOOLEAN
  BY DEF Turns
<1>3. ~t.preferredRejected /\ c.id # t.chain[1].id => noted
  OBVIOUS
<1> HIDE DEF noted
<1>4. u \in Turns
  BY <1>1, <1>2 DEF Turns
<1>5. SameWalk(t, u)
  BY <1>1 DEF SameWalk
<1> QED
  BY <1>1, <1>3, <1>4, <1>5

\* Who is asked in a walk.
LEMMA TheCandidate ==
  ASSUME TurnInv, turn.is = "walk", Candidate # 0, NEW c, c = turn.active[Candidate]
  PROVE  /\ c \in Askable(pool) /\ c.id \in Models /\ c.provider \in {Unknown, "ollama"} \cup Clouds
         /\ Candidate \in Nat \ {0} /\ Candidate = First(turn)
         /\ turn.voices \in {{}, {c.id}}
         /\ turn.role = "local" => c.local
         /\ Server(c) # "relay" /\ (turn.role = "local" => Server(c) = "ollama")
<1>1. turn \in Turns /\ WalkInv /\ RoutesInv
  BY DEF TurnInv
<1>2. Candidate = First(turn) /\ First(turn) \in Eligible(turn) /\ First(turn) \in DOMAIN turn.active
      /\ First(turn) \in Nat \ {0}
  BY <1>1, CandidateIsFirst, FirstFacts
<1>3. turn.active \in Seq(Askable(pool))
  BY <1>1 DEF WalkInv
<1>4. c \in Askable(pool)
  BY <1>2, <1>3
<1>5. Server(c) \in Clouds \cup {"ollama"} /\ (c.local => Server(c) = "ollama")
  BY <1>1, <1>4, ServerFacts
<1>6. Server(c) # "relay"
  BY <1>5, ModelsAssumption
<1>7. c.id \in Models /\ c.provider \in {Unknown, "ollama"} \cup Clouds
  BY <1>4 DEF Askable, Candidates
<1>8. turn.voices \in {{}, {c.id}} /\ (turn.role = "local" => c.local)
  BY <1>1, <1>2 DEF WalkInv
<1> QED
  BY <1>2, <1>4, <1>5, <1>6, <1>7, <1>8

\* What a send may add to a turn, and what it leaves true however it ends.
LEMMA SendKeeps ==
  ASSUME TurnInv, turn.is = "walk", Candidate # 0, NEW c, c = turn.active[Candidate],
         NEW t \in Turns, t.role = turn.role, t.keyed = turn.keyed,
         t.asked = turn.asked \cup {Server(c)}, t.voices \in {turn.voices, turn.voices \cup {c.id}}
  PROVE  /\ t.role = "local" => t.asked \subseteq {"ollama"}
         /\ "relay" \in t.asked => ~t.keyed
         /\ t.voices \in {{}, {c.id}} /\ Cardinality(t.voices) <= 1
<1>1. /\ turn.voices \in {{}, {c.id}}
      /\ Server(c) # "relay" /\ (turn.role = "local" => Server(c) = "ollama")
  BY TheCandidate
<1>2. t.voices \in {{}, {c.id}}
  BY <1>1
<1>3. Cardinality(t.voices) <= 1
  BY <1>2, FewVoices
<1> QED
  BY <1>1, <1>2, <1>3 DEF TurnInv, LocalTurnsStayLocal, RelayOnlyWithoutAKey

LEMMA AnsweredIsFine ==
  ASSUME TurnInv, RoutesInv', turn.is = "walk", Candidate # 0, NEW c, c = turn.active[Candidate],
         NEW text \in BOOLEAN, Answered(c, text)
  PROVE  TurnInv' /\ turn'.answered = c.id
         /\ (~turn.preferredRejected /\ c.id # turn.chain[1].id => turn'.noted)
<1>1. RoutesInv /\ turn \in Turns
  BY DEF TurnInv
<1>2. c \in Askable(pool) /\ c.id \in Models
  BY TheCandidate
<1>3. PICK r : r = Relayed([turn EXCEPT !.asked = @ \cup {Server(c)}], text, c.id)
  OBVIOUS
<1>4. /\ r \in Turns /\ SameWalk(turn, r) /\ r.asked = turn.asked \cup {Server(c)}
      /\ r.voices \in {turn.voices, turn.voices \cup {c.id}}
  BY <1>1, <1>2, <1>3, RelayedFacts
<1>5. PICK t : t = Noted(r, c)
  OBVIOUS
<1>6. /\ t \in Turns /\ SameWalk(r, t) /\ t.asked = r.asked /\ t.voices = r.voices
      /\ ~r.preferredRejected /\ c.id # r.chain[1].id => t.noted
  BY <1>4, <1>5, NotedFacts
<1>7. PICK u : u = [t EXCEPT !.answered = c.id]
  OBVIOUS
<1>8. u = [is |-> t.is, role |-> t.role, chain |-> t.chain, active |-> t.active, at |-> t.at,
           committed |-> t.committed, noted |-> t.noted, preferredRejected |-> t.preferredRejected,
           failed |-> t.failed, rounds |-> t.rounds, calls |-> t.calls, answered |-> c.id,
           voices |-> t.voices, asked |-> t.asked, keyed |-> t.keyed]
  BY <1>6, <1>7 DEF Turns
<1>9. u \in Turns
  BY <1>2, <1>6, <1>8 DEF Turns
<1>10. /\ u.role = turn.role /\ u.keyed = turn.keyed /\ u.asked = turn.asked \cup {Server(c)}
       /\ u.voices \in {turn.voices, turn.voices \cup {c.id}} /\ u.answered = c.id
       /\ (~turn.preferredRejected /\ c.id # turn.chain[1].id => u.noted)
  BY <1>4, <1>6, <1>8 DEF SameWalk
<1>11. turn' = Ends(u, "answered")
  BY <1>3, <1>5, <1>7 DEF Answered
<1>12. /\ turn' \in Turns /\ turn'.is = "answered" /\ turn'.role = u.role /\ turn'.asked = u.asked
       /\ turn'.keyed = u.keyed /\ turn'.voices = u.voices /\ turn'.answered = u.answered
       /\ turn'.noted = u.noted
  BY <1>9, <1>11, EndsFacts
<1>13. /\ u.role = "local" => u.asked \subseteq {"ollama"}
       /\ "relay" \in u.asked => ~u.keyed
       /\ Cardinality(u.voices) <= 1
  BY <1>9, <1>10, SendKeeps
<1>14. LocalTurnsStayLocal' /\ RelayOnlyWithoutAKey' /\ OneVoice'
  BY <1>12, <1>13 DEF LocalTurnsStayLocal, RelayOnlyWithoutAKey, OneVoice
<1>15. TurnInv'
  BY <1>12, <1>14, OverIsFine
<1> QED
  BY <1>10, <1>12, <1>15

\* A candidate that called tools is asked again, and its text goes on.
LEMMA CallsToolsIsFine ==
  ASSUME TurnInv, RoutesInv', pool' = pool, turn.is = "walk", Candidate # 0,
         NEW c, c = turn.active[Candidate],
         NEW text \in BOOLEAN, NEW n \in Nat, CallsTools(c, text, n)
  PROVE  TurnInv' /\ turn'.is # "answered"
<1>1. RoutesInv /\ turn \in Turns /\ WalkInv
  BY DEF TurnInv
<1>2. /\ c \in Askable(pool) /\ c.id \in Models /\ c.provider \in {None, Unknown, "ollama"} \cup Clouds
      /\ Candidate \in Nat \ {0} /\ Candidate = First(turn)
  BY TheCandidate
<1>3. PICK r : r = Relayed([turn EXCEPT !.asked = @ \cup {Server(c)}], text, c.id)
  OBVIOUS
<1>4. /\ r \in Turns /\ SameWalk(turn, r) /\ r.asked = turn.asked \cup {Server(c)}
      /\ r.voices \in {turn.voices, turn.voices \cup {c.id}}
  BY <1>1, <1>2, <1>3, RelayedFacts
<1>5. PICK t : t = Noted(r, c)
  OBVIOUS
<1>6. t \in Turns /\ SameWalk(r, t) /\ t.asked = r.asked /\ t.voices = r.voices
  BY <1>4, <1>5, NotedFacts
<1>7. PICK u : u = [t EXCEPT !.at = Candidate]
  OBVIOUS
<1>8. u = [is |-> t.is, role |-> t.role, chain |-> t.chain, active |-> t.active, at |-> Candidate,
           committed |-> t.committed, noted |-> t.noted, preferredRejected |-> t.preferredRejected,
           failed |-> t.failed, rounds |-> t.rounds, calls |-> t.calls, answered |-> t.answered,
           voices |-> t.voices, asked |-> t.asked, keyed |-> t.keyed]
  BY <1>6, <1>7 DEF Turns
<1>9. u \in Turns
  BY <1>2, <1>6, <1>8 DEF Turns
<1>10. /\ u.is = "walk" /\ u.role = turn.role /\ u.keyed = turn.keyed /\ u.asked = turn.asked \cup {Server(c)}
       /\ u.voices \in {turn.voices, turn.voices \cup {c.id}} /\ u.at = First(turn)
       /\ u.active = turn.active /\ u.chain = turn.chain /\ u.preferredRejected = turn.preferredRejected
  BY <1>2, <1>4, <1>6, <1>8 DEF SameWalk
<1>11. turn' = AfterTools(u, n, c.provider) /\ rows' = rows
  BY <1>3, <1>5, <1>7 DEF CallsTools
<1>12. /\ turn' \in Turns /\ turn'.is \in {"over_budget", u.is}
       /\ turn'.role = u.role /\ turn'.asked = u.asked /\ turn'.keyed = u.keyed /\ turn'.voices = u.voices
       /\ turn'.is = "over_budget"
            \/ (turn'.is = u.is /\ turn'.at = u.at /\ turn'.active = u.active /\ turn'.chain = u.chain
                /\ turn'.committed = c.provider /\ turn'.preferredRejected = u.preferredRejected)
  BY <1>2, <1>9, <1>11, AfterToolsFacts
<1>13. /\ u.role = "local" => u.asked \subseteq {"ollama"}
       /\ "relay" \in u.asked => ~u.keyed
       /\ u.voices \in {{}, {c.id}} /\ Cardinality(u.voices) <= 1
  BY <1>9, <1>10, SendKeeps
<1>14. LocalTurnsStayLocal' /\ RelayOnlyWithoutAKey' /\ OneVoice'
  BY <1>12, <1>13 DEF LocalTurnsStayLocal, RelayOnlyWithoutAKey, OneVoice
<1>15. SingleInv'
  BY <1>10, <1>12 DEF SingleInv
<1>16. WalkInv'
  <2>1. CASE turn'.is = "over_budget"
    BY <2>1 DEF WalkInv
  <2>2. CASE turn'.is # "over_budget"
    <3>1. /\ turn'.role = turn.role /\ turn'.active = turn.active /\ turn'.chain = turn.chain
          /\ turn'.preferredRejected = turn.preferredRejected /\ turn'.voices \in {{}, {c.id}}
          /\ turn'.at = First(turn) /\ turn'.committed = turn.active[First(turn)].provider
      BY <1>2, <1>10, <1>12, <1>13, <2>2
    <3>2. First(turn') = First(turn) /\ First(turn) # 0
      BY <1>1, <1>2, <1>12, <3>1, TheSameAgain
    <3>3. Candidate' = Candidate /\ Candidate # 0
      BY <1>2, <3>2, CandidateIsFirst
    <3>4. turn'.voices # {} => Candidate' # 0 /\ turn'.voices = {turn'.active[Candidate'].id}
      BY <3>1, <3>3
    <3> QED
      BY <1>1, <1>11, <3>1, <3>4 DEF WalkInv, Askable
  <2> QED
    BY <2>1, <2>2
<1>17. turn'.is # "answered"
  BY <1>10, <1>12
<1> QED
  BY <1>12, <1>14, <1>15, <1>16, <1>17 DEF TurnInv

\* A candidate that failed gives way only while nothing is on the screen, and a key
\* that was refused is on record.
LEMMA FailsIsFine ==
  ASSUME TurnInv, RoutesInv', pool' = pool, turn.is = "walk", Candidate # 0,
         NEW c, c = turn.active[Candidate],
         NEW text \in BOOLEAN, NEW how \in Failures, Fails(c, text, how)
  PROVE  TurnInv' /\ turn'.is # "answered"
<1>1. RoutesInv /\ turn \in Turns /\ WalkInv
  BY DEF TurnInv
<1>2. /\ c \in Askable(pool) /\ c.id \in Models /\ Candidate \in Nat \ {0}
  BY TheCandidate
<1>3. PICK r : r = Relayed([turn EXCEPT !.asked = @ \cup {Server(c)}], text, c.id)
  OBVIOUS
<1>4. /\ r \in Turns /\ SameWalk(turn, r) /\ r.asked = turn.asked \cup {Server(c)}
      /\ r.voices \in {turn.voices, turn.voices \cup {c.id}}
  BY <1>1, <1>2, <1>3, RelayedFacts
<1> DEFINE refused == turn.preferredRejected \/ (how = "key_rejected" /\ c.provider = turn.chain[1].provider)
           p == turn.chain[1].provider
<1>5. PICK t : t = [r EXCEPT !.preferredRejected =
                      @ \/ (how = "key_rejected" /\ c.provider = turn.chain[1].provider)]
  OBVIOUS
<1>6. t = [is |-> r.is, role |-> r.role, chain |-> r.chain, active |-> r.active, at |-> r.at,
           committed |-> r.committed, noted |-> r.noted, preferredRejected |-> refused,
           failed |-> r.failed, rounds |-> r.rounds, calls |-> r.calls, answered |-> r.answered,
           voices |-> r.voices, asked |-> r.asked, keyed |-> r.keyed]
  BY <1>4, <1>5 DEF Turns, SameWalk
<1>7. t \in Turns
  <2>1. refused \in BOOLEAN
    BY <1>1 DEF Turns
  <2> QED
    BY <1>4, <1>6, <2>1 DEF Turns
<1>8. /\ t.is = "walk" /\ t.role = turn.role /\ t.keyed = turn.keyed /\ t.asked = turn.asked \cup {Server(c)}
      /\ t.voices \in {turn.voices, turn.voices \cup {c.id}}
      /\ t.active = turn.active /\ t.chain = turn.chain /\ (t.preferredRejected <=> refused)
  BY <1>4, <1>6 DEF SameWalk
<1>9. refused => (p \in Clouds => rows'[p].rejected)
  <2>1. CASE turn.preferredRejected
    <3>1. p \in Clouds => rows[p].rejected
      BY <1>1, <2>1 DEF WalkInv
    <3>2. rows' = rows \/ rows' = RecordKeyRejected(c.provider)
      BY DEF Fails
    <3>3. rows \in [Clouds -> Rows]
      BY <1>1 DEF RoutesInv
    <3> QED
      BY <3>1, <3>2, <3>3, RejectionsStay
  <2>2. CASE how = "key_rejected" /\ c.provider = p
    <3>1. rows' = RecordKeyRejected(c.provider)
      BY <2>2 DEF Fails
    <3>2. rows \in [Clouds -> Rows]
      BY <1>1 DEF RoutesInv
    <3> QED
      BY <2>2, <3>1, <3>2, RejectionsStay
  <2> QED
    BY <2>1, <2>2
<1> HIDE DEF refused
<1>10. /\ t.role = "local" => t.asked \subseteq {"ollama"}
       /\ "relay" \in t.asked => ~t.keyed
       /\ Cardinality(t.voices) <= 1
  BY <1>7, <1>8, SendKeeps
<1>11. CASE MayMoveOn(t, how)
  <2>1. turn' = [t EXCEPT !.at = Candidate + 1, !.failed = TRUE]
    BY <1>3, <1>5, <1>11 DEF Fails, MovesOn
  <2>2. turn' = [is |-> t.is, role |-> t.role, chain |-> t.chain, active |-> t.active, at |-> Candidate + 1,
           committed |-> t.committed, noted |-> t.noted, preferredRejected |-> t.preferredRejected,
           failed |-> TRUE, rounds |-> t.rounds, calls |-> t.calls, answered |-> t.answered,
           voices |-> t.voices, asked |-> t.asked, keyed |-> t.keyed]
    BY <1>7, <2>1 DEF Turns
  <2>3. turn' \in Turns
    <3>1. Candidate + 1 \in Nat \ {0}
      BY <1>2
    <3> QED
      BY <1>7, <2>2, <3>1 DEF Turns
  <2>4. /\ turn'.is = "walk" /\ turn'.role = t.role /\ turn'.keyed = t.keyed /\ turn'.asked = t.asked
        /\ turn'.voices = t.voices /\ turn'.active = turn.active /\ turn'.chain = turn.chain
        /\ turn'.preferredRejected = t.preferredRejected
    BY <1>8, <2>2
  <2>5. t.voices = {}
    BY <1>11 DEF MayMoveOn, Shown
  <2>6. WalkInv'
    <3>1. turn'.preferredRejected => (p \in Clouds => rows'[p].rejected)
      BY <1>8, <1>9, <2>4
    <3> QED
      BY <1>1, <1>8, <2>4, <2>5, <3>1 DEF WalkInv, Askable
  <2>7. SingleInv'
    BY <2>4 DEF SingleInv
  <2>8. LocalTurnsStayLocal' /\ RelayOnlyWithoutAKey' /\ OneVoice'
    BY <1>10, <2>4 DEF LocalTurnsStayLocal, RelayOnlyWithoutAKey, OneVoice
  <2> QED
    BY <2>3, <2>4, <2>6, <2>7, <2>8 DEF TurnInv
<1>12. CASE ~MayMoveOn(t, how)
  <2>1. turn' = Ends(t, "failed")
    BY <1>3, <1>5, <1>12 DEF Fails
  <2>2. /\ turn' \in Turns /\ turn'.is = "failed" /\ turn'.role = t.role /\ turn'.asked = t.asked
        /\ turn'.keyed = t.keyed /\ turn'.voices = t.voices
    BY <1>7, <2>1, EndsFacts
  <2>3. LocalTurnsStayLocal' /\ RelayOnlyWithoutAKey' /\ OneVoice'
    BY <1>10, <2>2 DEF LocalTurnsStayLocal, RelayOnlyWithoutAKey, OneVoice
  <2> QED
    BY <2>2, <2>3, OverIsFine
<1> QED
  BY <1>11, <1>12

-----------------------------------------------------------------------------
(* Every step.                                                             *)

\* What a person sets and what a launch reads back.
LEMMA SettingsAreFine ==
  ASSUME TurnInv,
         \/ RoutingSet \/ LoadLiveCatalog \/ KeychainChanges \/ CooldownEnds
         \/ \E p \in Clouds : ProviderConnect(p) \/ ProviderDisconnect(p)
  PROVE  TurnInv'
<1> SUFFICES RoutesInv' /\ turn' = turn /\ BetweenTurns
  BY KeptIsFine
<1>1. RoutesInv
  BY DEF TurnInv
<1>2. CASE RoutingSet
  <2>1. custom' \in Seq(Models)
    <3>1. custom' \in CustomLists \/ custom' = custom
      BY <1>2 DEF RoutingSet
    <3> QED
      BY <1>1, <3>1, ModelsAssumption DEF RoutesInv, Models, LocalIds
  <2> QED
    BY <1>1, <1>2, <2>1 DEF RoutingSet, Configure, connections, RoutesInv
<1>3. CASE LoadLiveCatalog
  <2>1. PICK list \in Lists[Home] : SetProviderModels(Home, list) /\ RegisterPrimaryModels(Home, list)
    BY <1>3 DEF LoadLiveCatalog
  <2>2. Home \in Clouds /\ list \in Seq(DOMAIN Rank)
    BY RoutingAssumption, ListsAreModels
  <2>3. pool' \in Seq(Entries) /\ catalog' \in Seq(Entries)
    BY <1>1, <2>1, <2>2, RegisterKeepsEntries
  <2> QED
    BY <1>1, <1>3, <2>3 DEF LoadLiveCatalog, RoutesInv, settings
<1>4. CASE KeychainChanges
  BY <1>1, <1>4 DEF KeychainChanges, RoutesInv, connections, settings
<1>5. CASE CooldownEnds
  BY <1>1, <1>5 DEF CooldownEnds, RoutesInv, connections, settings
<1>6. ASSUME NEW p \in Clouds, ProviderConnect(p) PROVE RoutesInv' /\ turn' = turn /\ BetweenTurns
  <2>1. rows \in [Clouds -> Rows] /\ rows[p].rejected \in BOOLEAN
    BY <1>1 DEF RoutesInv, Rows
  <2>2. turn' = turn /\ BetweenTurns /\ custom' = custom
    BY <1>6 DEF ProviderConnect, Configure, settings
  <2>3. \/ /\ \E list \in Lists[p] : RegisterPrimaryModels(p, list) /\ SetProviderModels(p, list)
           /\ rows' = UpsertProviderConfig(p, TRUE, FALSE)
        \/ /\ rows' = UpsertProviderConfig(p, FALSE, rows[p].rejected)
           /\ UNCHANGED <<pool, selected, catalog>>
    BY <1>6 DEF ProviderConnect
  <2>4. rows' \in [Clouds -> Rows]
    <3>1. /\ UpsertProviderConfig(p, TRUE, FALSE) \in [Clouds -> Rows]
          /\ UpsertProviderConfig(p, FALSE, rows[p].rejected) \in [Clouds -> Rows]
      <4>1. \A q, connected, rejected :
              q \in Clouds /\ connected \in BOOLEAN /\ rejected \in BOOLEAN =>
                UpsertProviderConfig(q, connected, rejected) \in [Clouds -> Rows]
        BY <2>1, RowsAfter
      <4> QED
        BY <2>1, <4>1
    <3> QED
      BY <2>3, <3>1
  <2>5. pool' \in Seq(Entries) /\ catalog' \in Seq(Entries)
    <3>1. CASE UNCHANGED <<pool, selected, catalog>>
      BY <1>1, <3>1 DEF RoutesInv
    <3>2. ASSUME NEW list \in Lists[p], RegisterPrimaryModels(p, list), SetProviderModels(p, list)
          PROVE  pool' \in Seq(Entries) /\ catalog' \in Seq(Entries)
      <4>1. list \in Seq(DOMAIN Rank)
        BY ListsAreModels
      <4> QED
        BY <1>1, <3>2, <4>1, RegisterKeepsEntries
    <3> QED
      BY <2>3, <3>1, <3>2
  <2> QED
    BY <1>1, <2>2, <2>4, <2>5 DEF RoutesInv
<1>7. ASSUME NEW p \in Clouds, ProviderDisconnect(p) PROVE RoutesInv' /\ turn' = turn /\ BetweenTurns
  <2>1. turn' = turn /\ BetweenTurns /\ custom' = custom
    BY <1>7 DEF ProviderDisconnect, Configure, settings
  <2>2. pool' \in Seq(Entries)
    BY <1>1, <1>7, UnregisterKeepsEntries DEF ProviderDisconnect
  <2>3. catalog' \in Seq(Entries)
    <3>1. Without(p) \in Seq(Entries)
      BY <1>1, WithoutIsEntries DEF RoutesInv
    <3> QED
      BY <1>7, <3>1 DEF ProviderDisconnect
  <2>4. rows' \in [Clouds -> Rows]
    <3>1. rows \in [Clouds -> Rows] /\ NoRow \in Rows
      BY <1>1, RowsAfter DEF RoutesInv
    <3> QED
      BY <1>7, <3>1 DEF ProviderDisconnect
  <2> QED
    BY <1>1, <2>1, <2>2, <2>3, <2>4 DEF RoutesInv
<1> QED
  BY <1>2, <1>3, <1>4, <1>5, <1>6, <1>7

LEMMA BuiltinIsEntries == From(Home, Builtin) \in Seq(Entries)
<1>1. Home \in Clouds /\ Builtin \in Seq(DOMAIN Rank)
  BY RoutingAssumption, ModelsAssumption
<1> QED
  BY <1>1, FromIsEntries

LEMMA RelaunchIsFine == ASSUME TurnInv, Relaunch PROVE TurnInv'
<1>1. turn' = Idle /\ rows' = rows /\ custom' = custom
  BY DEF Relaunch, settings
<1>2. PICK got \in SUBSET {p \in Clouds \ {Home} : rows[p].connected} :
        \E lists \in {f \in [got -> UNION {Lists[p] : p \in got}] : \A p \in got : f[p] \in Lists[p]} :
        \E more \in OneAfterAnother(lists) :
          /\ pool' = MergeCatalogs(From(Home, Builtin), more)
          /\ catalog' = MergeCatalogs(From(Home, Builtin), more)
  BY DEF Relaunch
<1>3. PICK lists \in {f \in [got -> UNION {Lists[p] : p \in got}] : \A p \in got : f[p] \in Lists[p]} :
        \E more \in OneAfterAnother(lists) :
          /\ pool' = MergeCatalogs(From(Home, Builtin), more)
          /\ catalog' = MergeCatalogs(From(Home, Builtin), more)
  BY <1>2
<1>4. PICK more \in OneAfterAnother(lists) :
          /\ pool' = MergeCatalogs(From(Home, Builtin), more)
          /\ catalog' = MergeCatalogs(From(Home, Builtin), more)
  BY <1>3
<1>5. got \in SUBSET Clouds /\ DOMAIN lists = got /\ \A p \in got : lists[p] \in Lists[p]
  OBVIOUS
<1>6. more \in Seq(Entries)
  BY <1>5, ReconnectedIsEntries
<1>7. MergeCatalogs(From(Home, Builtin), more) \in Seq(Entries)
  BY <1>6, BuiltinIsEntries, MergedIsEntries
<1>8. RoutesInv'
  BY <1>1, <1>4, <1>7 DEF TurnInv, RoutesInv
<1> QED
  BY <1>1, <1>8, IdleIsFine

\* What a send leaves of the catalog, the pool and the rows.
LEMMA SendKeepsTheRoutes ==
  ASSUME TurnInv, Attempt PROVE RoutesInv' /\ pool' = pool
<1>1. /\ pool' = pool /\ catalog' = catalog /\ custom' = custom
      /\ rows' = rows \/ \E p : rows' = RecordKeyRejected(p)
  BY DEF Attempt, settings, Answered, CallsTools, Fails
<1>2. rows \in [Clouds -> Rows]
  BY DEF TurnInv, RoutesInv
<1>3. rows' \in [Clouds -> Rows]
  BY <1>1, <1>2, RowsAfter
<1> QED
  BY <1>1, <1>3 DEF TurnInv, RoutesInv

\* A send answers with the candidate's name; when that is not the person's own choice,
\* it is noted, unless that choice's key was refused.
LEMMA AttemptIsFine ==
  ASSUME TurnInv, Attempt
  PROVE  /\ TurnInv'
         /\ turn'.is = "answered" =>
              turn'.answered = turn.chain[1].id \/ turn'.noted \/ turn.preferredRejected
<1>1. RoutesInv' /\ pool' = pool
  BY SendKeepsTheRoutes
<1>2. turn.is = "walk" /\ Candidate # 0
  BY DEF Attempt
<1>3. PICK c : c = turn.active[Candidate]
  OBVIOUS
<1>4. \/ \E text \in BOOLEAN : Answered(c, text)
      \/ \E text \in BOOLEAN, n \in 1..MaxCalls + 1 : CallsTools(c, text, n)
      \/ \E text \in BOOLEAN, how \in Failures : Fails(c, text, how)
  BY <1>3 DEF Attempt
<1>5. ASSUME NEW text \in BOOLEAN, Answered(c, text)
      PROVE  TurnInv' /\ (turn'.answered = turn.chain[1].id \/ turn'.noted \/ turn.preferredRejected)
  <2>1. TurnInv' /\ turn'.answered = c.id /\ (~turn.preferredRejected /\ c.id # turn.chain[1].id => turn'.noted)
    BY <1>1, <1>2, <1>3, <1>5, AnsweredIsFine
  <2> QED
    BY <2>1
<1>6. ASSUME NEW text \in BOOLEAN, NEW n \in 1..MaxCalls + 1, CallsTools(c, text, n)
      PROVE  TurnInv' /\ turn'.is # "answered"
  <2>1. n \in Nat
    BY RoutingAssumption
  <2> QED
    BY <1>1, <1>2, <1>3, <1>6, <2>1, CallsToolsIsFine
<1>7. ASSUME NEW text \in BOOLEAN, NEW how \in Failures, Fails(c, text, how)
      PROVE  TurnInv' /\ turn'.is # "answered"
  BY <1>1, <1>2, <1>3, <1>7, FailsIsFine
<1> QED
  BY <1>4, <1>5, <1>6, <1>7

LEMMA StepIsFine == TurnInv /\ [Next]_vars => TurnInv'
<1> SUFFICES ASSUME TurnInv, [Next]_vars PROVE TurnInv'
  OBVIOUS
<1>1. CASE RoutingSet \/ LoadLiveCatalog \/ KeychainChanges \/ CooldownEnds
            \/ \E p \in Clouds : ProviderConnect(p) \/ ProviderDisconnect(p)
  BY <1>1, SettingsAreFine
<1>2. CASE Relaunch
  BY <1>2, RelaunchIsFine
<1>3. ASSUME NEW role, NEW pick, SendMessage(role, pick) PROVE TurnInv'
  BY <1>3, SendMessageIsFine
<1>4. CASE Attempt
  BY <1>4, AttemptIsFine
<1>5. CASE Exhausted \/ TimesOut
  BY <1>5, GivesUpIsFine DEF Exhausted, TimesOut
<1>6. CASE SingleSend
  BY <1>6, SingleSendIsFine
<1>7. CASE UNCHANGED vars
  <2>1. turn' = turn /\ pool' = pool /\ catalog' = catalog /\ rows' = rows /\ custom' = custom
    BY <1>7 DEF vars, connections, settings
  <2>2. Candidate' = Candidate
    BY <2>1 DEF Candidate, Eligible
  <2> QED
    BY <2>1, <2>2 DEF TurnInv, RoutesInv, WalkInv, SingleInv, Askable, LocalTurnsStayLocal,
                      RelayOnlyWithoutAKey, OneVoice
<1> QED
  BY <1>1, <1>2, <1>3, <1>4, <1>5, <1>6, <1>7 DEF Next, TurnStep

LEMMA AtFirst == Init => TurnInv
<1> SUFFICES ASSUME Init PROVE TurnInv
  OBVIOUS
<1>1. pool \in Seq(Entries) /\ catalog \in Seq(Entries)
  BY BuiltinIsEntries DEF Init
<1>2. rows \in [Clouds -> Rows]
  <2>1. NoRow \in Rows
    BY DEF NoRow, Rows
  <2> QED
    BY <2>1 DEF Init
<1>3. custom \in Seq(Models)
  BY EmptySeq DEF Init
<1>4. turn = Idle
  BY DEF Init
<1>5. turn \in Turns /\ turn.is = "idle" /\ turn.role # "local" /\ turn.asked = {} /\ turn.voices = {}
  BY <1>4, IdleIsATurn DEF None
<1>6. OneVoice
  BY <1>5, FewVoices DEF OneVoice
<1> QED
  BY <1>1, <1>2, <1>3, <1>5, <1>6 DEF TurnInv, RoutesInv, WalkInv, SingleInv, LocalTurnsStayLocal,
                                      RelayOnlyWithoutAKey

\* Answered by another than the person's own choice: told, or on record.
LEMMA SubstitutionStep ==
  ASSUME TurnInv, [Next]_vars
  PROVE  turn'.is = "answered" /\ turn.is = "walk" /\ turn.chain[1].provider \in Clouds \cup {"ollama"} =>
           \/ turn'.answered = turn.chain[1].id
           \/ turn'.noted
           \/ IF turn.chain[1].provider = "ollama" THEN turn.preferredRejected
              ELSE rows[turn.chain[1].provider].rejected
<1> SUFFICES ASSUME turn'.is = "answered", turn.is = "walk",
                    turn.chain[1].provider \in Clouds \cup {"ollama"}
             PROVE  \/ turn'.answered = turn.chain[1].id
                    \/ turn'.noted
                    \/ IF turn.chain[1].provider = "ollama" THEN turn.preferredRejected
                       ELSE rows[turn.chain[1].provider].rejected
  OBVIOUS
<1>1. CASE Attempt
  <2>1. turn'.answered = turn.chain[1].id \/ turn'.noted \/ turn.preferredRejected
    BY <1>1, AttemptIsFine
  <2>2. /\ turn.preferredRejected
        /\ turn.chain[1].provider # "ollama"
        => rows[turn.chain[1].provider].rejected
    BY DEF TurnInv, WalkInv
  <2> QED
    BY <2>1, <2>2
<1>2. CASE Relaunch
  BY <1>2, IdleIsATurn DEF Relaunch
<1>3. CASE Exhausted \/ TimesOut
  <2> DEFINE how == IF turn.failed THEN "failed" ELSE "no_model"
  <2>1. turn \in Turns /\ turn' = Ends(turn, how) /\ how \in {"answered", "over_budget", "failed", "no_model"}
        /\ how # "answered"
    BY <1>3 DEF TurnInv, Exhausted, TimesOut, GivesUp
  <2> HIDE DEF how
  <2>2. turn'.is = how
    BY <2>1, EndsFacts
  <2> QED
    BY <2>1, <2>2
<1>4. ASSUME NEW role, NEW pick, SendMessage(role, pick) PROVE FALSE
  BY <1>4 DEF SendMessage, BetweenTurns
<1>5. CASE SingleSend
  BY <1>5 DEF SingleSend
<1>6. CASE turn' = turn
  BY <1>6
<1>7. ASSUME RoutingSet \/ LoadLiveCatalog \/ KeychainChanges \/ CooldownEnds
             \/ \E p \in Clouds : ProviderConnect(p) \/ ProviderDisconnect(p)
      PROVE  FALSE
  BY <1>7 DEF RoutingSet, LoadLiveCatalog, KeychainChanges, CooldownEnds, ProviderConnect,
              ProviderDisconnect, Configure, BetweenTurns
<1>8. CASE UNCHANGED vars
  BY <1>6, <1>8 DEF vars
<1> QED
  BY <1>1, <1>2, <1>3, <1>4, <1>5, <1>7, <1>8 DEF Next, TurnStep

-----------------------------------------------------------------------------
LEMMA Always == Spec => []TurnInv
BY AtFirst, StepIsFine, PTL DEF Spec

\* A turn that is to stay on this computer asks nobody else (rpc/routing.py
\* _routing_chain), for any providers, catalogs, orders and settings.
THEOREM LocalStaysLocal == Spec => []LocalTurnsStayLocal
<1>1. TurnInv => LocalTurnsStayLocal
  BY DEF TurnInv
<1> QED
  BY <1>1, Always, PTL

\* The setup relay is asked only by a turn that began without a key
\* (secret_presence.py may_reach_setup_relay).
THEOREM RelayIsForNoKey == Spec => []RelayOnlyWithoutAKey
<1>1. TurnInv => RelayOnlyWithoutAKey
  BY DEF TurnInv
<1> QED
  BY <1>1, Always, PTL

\* What is on the screen of one message is one model's (orchestrator.py
\* _run_with_fallback, _DeltaRelay), through any tool rounds and failures.
THEOREM OneVoiceOnly == Spec => []OneVoice
<1>1. TurnInv => OneVoice
  BY DEF TurnInv
<1> QED
  BY <1>1, Always, PTL

\* Another model than the person's own choice does not answer in silence
\* (orchestrator.py "the exact quiet substitution the note exists to surface"), but
\* for the one silence rpc/providers.py _record_key_rejected means: a server of this
\* computer that refused the call as if for a key.
THEOREM NoQuietSubstitution == Spec => SubstitutionIsTold
<1>1. TurnInv /\ [Next]_vars =>
        [turn'.is = "answered" /\ turn.is = "walk" /\ turn.chain[1].provider \in Clouds \cup {"ollama"} =>
           \/ turn'.answered = turn.chain[1].id
           \/ turn'.noted
           \/ IF turn.chain[1].provider = "ollama" THEN turn.preferredRejected
              ELSE rows[turn.chain[1].provider].rejected]_vars
  BY SubstitutionStep
<1> QED
  BY <1>1, Always, PTL DEF Spec, SubstitutionIsTold
===============================================================================
