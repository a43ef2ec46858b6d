--------------------------- MODULE TranscriptProofs ---------------------------
(***************************************************************************)
(* The three accounts of a conversation agree, for any number of messages, *)
(* conversations, rounds and tool calls.                                   *)
(***************************************************************************)
EXTENDS Transcript, Integers, FiniteSetTheorems, SequenceTheorems, WellFoundedInduction, TLAPS

-----------------------------------------------------------------------------
Message == [kind : {"system", "user", "ask", "say", "past", "answer", "tool"},
            calls : Nat, id : Nat]

TypeInv ==
  /\ pc \in {"idle", "model", "tools", "persist", "budget"}
  /\ active \in Conversations /\ made \subseteq Conversations
  /\ mem \in Seq(Message) /\ ids \in Seq(Nat) /\ shown \in Seq(Nat)
  /\ store \in [Conversations -> Seq(Message)]
  /\ fresh \in Nat /\ preTurn \in Nat /\ owed \in Nat /\ rounds \in Nat /\ saved \in Nat
  /\ slipped \in BOOLEAN

\* While a turn runs, the system prompt stands in front of everything.
InTurn == pc \in {"model", "tools", "persist"}
Prompt == IF InTurn THEN 1 ELSE 0

\* Whatever has slipped: where the turn began, and how much of it is written.
TurnInv ==
  /\ InTurn => /\ preTurn \in 2..Len(mem)
               /\ mem[1].kind = "system" /\ mem[preTurn].kind = "user"
  /\ pc \in {"model", "tools"} => saved = 0
  /\ pc = "tools" => owed > 0
  /\ pc # "idle" => active \in made
  /\ pc = "persist" => preTurn + saved <= Len(mem)
  /\ pc = "budget" => FromUser(mem) # {}

\* Rows have ids in the order they were written in, and nothing has an id to come.
RowsInv ==
  /\ \A c \in Conversations :
       /\ \A i \in 1..Len(store[c]) : store[c][i].id \in 1..fresh
       /\ \A i, j \in 1..Len(store[c]) : i < j => store[c][i].id < store[c][j].id
  /\ \A c \in Unused : store[c] = <<>>
FreshInv ==
  /\ \A i \in 1..Len(mem) : mem[i].id <= fresh
  /\ \A i \in 1..Len(shown) : shown[i] <= fresh

\* Calls and results fit, but for the results still owed to the call at place a.
PairedBut(s, a) ==
  \A i \in 1..Len(s) :
    /\ Asks(s[i]) /\ i # a => Answered(s, i)
    /\ s[i].kind = "tool" => \E j \in 1..(i - 1) : Asks(s[j]) /\ i <= j + s[j].calls

OpenAsk(a) ==
  /\ a \in (preTurn + 1)..Len(mem) /\ Asks(mem[a])
  /\ owed > 0 /\ Len(mem) + owed = a + mem[a].calls
  /\ \A j \in (a + 1)..Len(mem) : mem[j].kind = "tool"

PairInv ==
  ~slipped => IF pc = "tools" THEN \E a \in Nat : OpenAsk(a) /\ PairedBut(mem, a)
                              ELSE PairedBut(mem, 0)

\* The ids are those of the messages behind the prompt that are on disk.
IdsInv ==
  ~slipped => /\ Len(ids) = (IF InTurn THEN preTurn + saved - 1 ELSE Len(mem))
              /\ \A i \in 1..Len(ids) : ids[i] = mem[i + Prompt].id

HasRow(rows, n) == \E k \in 1..Len(rows) : rows[k].id = n

\* Ids grow, each is that of a row, and a row the window may rewind to has its place in
\* memory, where a person's message stands.
DiskInv ==
  ~slipped => /\ \A i \in 1..Len(ids) : HasRow(store[active], ids[i])
              /\ \A i, j \in 1..Len(ids) : i < j => ids[i] < ids[j]
              /\ \A i \in 1..Len(shown) :
                   HasRow(store[active], shown[i]) =>
                     \E j \in 1..Len(ids) : ids[j] = shown[i] /\ mem[j + Prompt].kind = "user"

Inv == TypeInv /\ TurnInv /\ RowsInv /\ FreshInv /\ PairInv /\ IdsInv /\ DiskInv
-----------------------------------------------------------------------------
(* Sequences.                                                              *)

LEMMA FunctionIsSeq ==
  ASSUME NEW S, NEW n \in Nat, NEW f \in [1..n -> S]
  PROVE  f \in Seq(S) /\ Len(f) = n
BY SeqDef

LEMMA RangeOf ==
  ASSUME NEW S, NEW s \in Seq(S)
  PROVE  \A x : x \in Range(s) <=> \E i \in 1..Len(s) : s[i] = x
BY DEF Range

LEMMA PositionIs ==
  ASSUME NEW S, NEW s \in Seq(S), NEW x, x \in Range(s)
  PROVE  Position(x, s) \in 1..Len(s) /\ s[Position(x, s)] = x
BY RangeOf DEF Position

LEMMA IdsAre ==
  ASSUME NEW s \in Seq(Message)
  PROVE  /\ IdsOf(s) \in Seq(Nat) /\ Len(IdsOf(s)) = Len(s)
         /\ \A i \in 1..Len(s) : IdsOf(s)[i] = s[i].id
<1>1. \A i \in 1..Len(s) : s[i] \in Message
  BY ElementOfSeq
<1>2. IdsOf(s) \in [1..Len(s) -> Nat]
  BY <1>1 DEF IdsOf, Message
<1> QED
  BY <1>2, FunctionIsSeq DEF IdsOf

LEMMA MessageAt ==
  ASSUME NEW s \in Seq(Message)
  PROVE  \A j \in 1..Len(s) : s[j] \in Message /\ s[j].calls \in Nat /\ s[j].id \in Nat
<1>1. \A i \in 1..Len(s) : s[i] \in Message
  BY ElementOfSeq
<1> QED
  BY <1>1 DEF Message

\* The first n elements, and all but the first of them.
LEMMA PrefixIs ==
  ASSUME NEW S, NEW s \in Seq(S), NEW n \in 0..Len(s)
  PROVE  /\ SubSeq(s, 1, n) \in Seq(S) /\ Len(SubSeq(s, 1, n)) = n
         /\ \A i \in 1..n : SubSeq(s, 1, n)[i] = s[i]
<1>1. \A i \in 1..n : s[i] \in S
  BY ElementOfSeq
<1> QED
  BY <1>1, SubSeqProperties

LEMMA SuffixIs ==
  ASSUME NEW S, NEW s \in Seq(S), NEW p \in 1..Len(s)
  PROVE  /\ SubSeq(s, p, Len(s)) \in Seq(S) /\ Len(SubSeq(s, p, Len(s))) = Len(s) - p + 1
         /\ \A i \in 1..(Len(s) - p + 1) : SubSeq(s, p, Len(s))[i] = s[i + (p - 1)]
<1>1. p \in Int /\ Len(s) \in Int /\ p <= Len(s) /\ \A i \in p..Len(s) : s[i] \in S
  <2>1. Len(s) \in Nat /\ \A i \in p..Len(s) : i \in 1..Len(s)
    OBVIOUS
  <2> QED
    BY <2>1, ElementOfSeq
<1>2. /\ SubSeq(s, p, Len(s)) \in Seq(S) /\ Len(SubSeq(s, p, Len(s))) = Len(s) - p + 1
      /\ \A i \in 1..(Len(s) - p + 1) : SubSeq(s, p, Len(s))[i] = s[p + i - 1]
  BY <1>1, SubSeqProperties
<1>3. \A i \in 1..(Len(s) - p + 1) : p + i - 1 = i + (p - 1)
  BY <1>1
<1> QED
  BY <1>2, <1>3

LEMMA BehindTheFirst ==
  ASSUME NEW S, NEW s \in Seq(S), NEW n \in 1..Len(s)
  PROVE  /\ Tail(SubSeq(s, 1, n)) \in Seq(S) /\ Len(Tail(SubSeq(s, 1, n))) = n - 1
         /\ \A i \in 1..(n - 1) : Tail(SubSeq(s, 1, n))[i] = s[i + 1]
<1> DEFINE t == SubSeq(s, 1, n)
<1>1. t \in Seq(S) /\ Len(t) = n /\ \A i \in 1..n : t[i] = s[i]
  BY PrefixIs
<1>2. t # <<>>
  BY <1>1
<1> HIDE DEF t
<1>3. Tail(t) \in Seq(S) /\ Len(Tail(t)) = n - 1 /\ \A i \in 1..Len(Tail(t)) : Tail(t)[i] = t[i + 1]
  BY <1>1, <1>2, HeadTailProperties
<1> QED
  BY <1>1, <1>3 DEF t

LEMMA NatHasLeast ==
  ASSUME NEW S, S \subseteq Nat, S # {}
  PROVE  \E m \in S : \A n \in S : m <= n
<1> DEFINE R == OpToRel(<, Nat)
<1>1. IsWellFoundedOn(R, Nat)
  BY NatLessThanWellFounded
<1>2. \A x, y \in Nat : x < y => <<x, y>> \in R
  BY DEF OpToRel
<1> HIDE DEF R
<1>3. PICK m \in S : \A n \in S : <<n, m>> \notin R
  BY <1>1, WFMin
<1>4. \A n \in S : ~(n < m)
  BY <1>2, <1>3
<1> QED
  BY <1>4

LEMMA MaxIs ==
  ASSUME NEW b \in Nat, NEW S, S \subseteq 1..b, S # {}
  PROVE  Max(S) \in S /\ \A n \in S : n <= Max(S)
<1> DEFINE T == {b - n : n \in S}
<1>1. T # {}
  OBVIOUS
<1>2. T \subseteq Nat
  <2>1. \A n \in S : b - n \in Nat
    OBVIOUS
  <2> QED
    BY <2>1
<1>3. \A n \in S : b - n \in T
  OBVIOUS
<1>4. \A d \in T : \E n \in S : d = b - n
  OBVIOUS
<1> HIDE DEF T
<1>5. PICK d \in T : \A e \in T : d <= e
  BY <1>1, <1>2, NatHasLeast
<1>6. PICK m \in S : d = b - m
  BY <1>4
<1>7. \A n \in S : m >= n
  BY <1>3, <1>5, <1>6
<1> QED
  BY <1>7 DEF Max

(* The k-th of some places: it is one of them, they grow, and each is met.  *)
LEMMA PlacesInOrder ==
  ASSUME NEW b \in Nat, NEW P, P \subseteq 1..b
  PROVE  /\ Cardinality(P) \in Nat
         /\ \A k \in 1..Cardinality(P) : Nth(P, k) \in P
         /\ \A k, l \in 1..Cardinality(P) : k < l => Nth(P, k) < Nth(P, l)
         /\ \A p \in P : \E k \in 1..Cardinality(P) : Nth(P, k) = p
<1> DEFINE Upto(i) == {j \in P : j <= i}
<1>0. \A p \in P : p \in Nat /\ 1 <= p /\ p <= b
  OBVIOUS
<1>1. IsFiniteSet(P)
  <2>1. IsFiniteSet(1..b)
    BY FS_Interval
  <2>2. P \in SUBSET (1..b)
    OBVIOUS
  <2> QED
    BY <2>1, <2>2, FS_Subset
<1>2. Cardinality(P) \in Nat
  BY <1>1, FS_CardinalityType
<1>3. \A i \in 0..b : /\ IsFiniteSet(Upto(i)) /\ Cardinality(Upto(i)) \in Nat
                      /\ Cardinality(Upto(i)) <= Cardinality(P)
  <2> SUFFICES ASSUME NEW i \in 0..b
               PROVE  /\ IsFiniteSet(Upto(i)) /\ Cardinality(Upto(i)) \in Nat
                      /\ Cardinality(Upto(i)) <= Cardinality(P)
    OBVIOUS
  <2>1. Upto(i) \in SUBSET P
    OBVIOUS
  <2> QED
    BY <1>1, <2>1, FS_Subset, FS_CardinalityType
<1>4. ASSUME NEW i \in 1..b
      PROVE  Cardinality(Upto(i)) = IF i \in P THEN Cardinality(Upto(i - 1)) + 1
                                    ELSE Cardinality(Upto(i - 1))
  <2>1. i - 1 \in 0..b /\ i \notin Upto(i - 1)
    OBVIOUS
  <2>2. Upto(i) = IF i \in P THEN Upto(i - 1) \cup {i} ELSE Upto(i - 1)
    <3>1. \A j \in P : j <= i <=> j <= i - 1 \/ j = i
      BY <1>0
    <3> QED
      BY <3>1
  <2>3. IsFiniteSet(Upto(i - 1))
    BY <1>3, <2>1
  <2> HIDE DEF Upto
  <2> QED
    BY <2>1, <2>2, <2>3, FS_AddElement
<1>5. Upto(0) = {} /\ Upto(b) = P
  <2>1. Upto(0) = {}
    <3>1. \A j \in P : ~(j <= 0)
      BY <1>0
    <3> QED
      BY <3>1
  <2>2. \A j \in P : j <= b
    BY <1>0
  <2> QED
    BY <2>1, <2>2
<1>6. \A i, j \in 0..b : i <= j => Cardinality(Upto(i)) <= Cardinality(Upto(j))
  <2> SUFFICES ASSUME NEW i \in 0..b, NEW j \in 0..b, i <= j
               PROVE  Cardinality(Upto(i)) <= Cardinality(Upto(j))
    OBVIOUS
  <2>1. Upto(i) \in SUBSET Upto(j)
    <3>1. \A k \in P : k <= i => k <= j
      BY <1>0
    <3> QED
      BY <3>1
  <2> QED
    BY <1>3, <2>1, FS_Subset
<1>7. ASSUME NEW k \in 1..Cardinality(P)
      PROVE  \E i \in P : Cardinality(Upto(i)) = k
  <2> DEFINE T == {i \in 0..b : Cardinality(Upto(i)) >= k}
  <2>1. b \in T
    BY <1>5
  <2>2. T \subseteq Nat
    OBVIOUS
  <2>3. PICK m \in T : \A n \in T : m <= n
    BY <2>1, <2>2, NatHasLeast
  <2>4. Cardinality(Upto(0)) = 0
    BY <1>5, FS_EmptySet
  <2>5. m \in 1..b
    BY <2>4
  <2>6. m - 1 \in 0..b /\ ~(m <= m - 1)
    BY <2>5
  <2>6a. m - 1 \notin T
    BY <2>3, <2>6
  <2>7. Cardinality(Upto(m - 1)) \in Nat /\ Cardinality(Upto(m)) \in Nat
    BY <1>3, <2>5, <2>6
  <2>8. Cardinality(Upto(m - 1)) < k /\ Cardinality(Upto(m)) >= k
    BY <2>3, <2>6, <2>6a, <2>7
  <2>9. Cardinality(Upto(m)) = IF m \in P THEN Cardinality(Upto(m - 1)) + 1
                               ELSE Cardinality(Upto(m - 1))
    BY <1>4, <2>5
  <2> HIDE DEF Upto
  <2> QED
    BY <2>7, <2>8, <2>9, <1>2
<1>8. \A k \in 1..Cardinality(P) : Nth(P, k) \in P /\ Cardinality(Upto(Nth(P, k))) = k
  BY <1>7 DEF Nth
<1>9. \A k, l \in 1..Cardinality(P) : k < l => Nth(P, k) < Nth(P, l)
  <2> SUFFICES ASSUME NEW k \in 1..Cardinality(P), NEW l \in 1..Cardinality(P), k < l,
                      ~(Nth(P, k) < Nth(P, l))
               PROVE  FALSE
    OBVIOUS
  <2>1. Nth(P, k) \in 0..b /\ Nth(P, l) \in 0..b /\ Nth(P, l) <= Nth(P, k)
    <3>1. Nth(P, k) \in P /\ Nth(P, l) \in P
      BY <1>8
    <3> HIDE DEF Upto
    <3>2. /\ Nth(P, k) \in Nat /\ 1 <= Nth(P, k) /\ Nth(P, k) <= b
          /\ Nth(P, l) \in Nat /\ 1 <= Nth(P, l) /\ Nth(P, l) <= b
      BY <1>0, <3>1
    <3> QED
      BY <3>2
  <2>2. Cardinality(Upto(Nth(P, l))) <= Cardinality(Upto(Nth(P, k)))
    BY <1>6, <2>1
  <2> HIDE DEF Upto
  <2> QED
    BY <1>2, <1>8, <2>2
<1>10. ASSUME NEW p \in P
       PROVE  \E k \in 1..Cardinality(P) : Nth(P, k) = p
  <2> DEFINE k == Cardinality(Upto(p))
  <2>1. p \in 1..b /\ p \in 0..b /\ p - 1 \in 0..b
    OBVIOUS
  <2>2. k \in 1..Cardinality(P)
    <3>1. k \in Nat /\ k <= Cardinality(P) /\ Cardinality(Upto(p - 1)) \in Nat
      BY <1>3, <2>1
    <3>2. k = Cardinality(Upto(p - 1)) + 1
      BY <1>4, <2>1
    <3> HIDE DEF k, Upto
    <3> QED
      BY <1>2, <3>1, <3>2
  <2>3. Nth(P, k) \in P /\ Cardinality(Upto(Nth(P, k))) = Cardinality(Upto(p))
    BY <1>8, <2>2
  <2>4. ASSUME NEW i \in P, NEW j \in P, i < j PROVE Cardinality(Upto(i)) < Cardinality(Upto(j))
    <3>1. j \in 1..b /\ i \in 0..b /\ j - 1 \in 0..b /\ i <= j - 1 /\ j \in 0..b
      BY <1>0, <2>4
    <3>2. Cardinality(Upto(i)) <= Cardinality(Upto(j - 1))
      BY <1>6, <3>1
    <3>3. Cardinality(Upto(j)) = Cardinality(Upto(j - 1)) + 1
      BY <1>4, <3>1
    <3>4. Cardinality(Upto(i)) \in Nat /\ Cardinality(Upto(j - 1)) \in Nat
      BY <1>3, <3>1
    <3> HIDE DEF Upto
    <3> QED
      BY <3>2, <3>3, <3>4
  <2>5. Nth(P, k) \in Nat /\ p \in Nat
    BY <1>0, <2>3
  <2>6. Cardinality(Upto(p)) \in Nat
    BY <1>3, <2>1
  <2> HIDE DEF Upto
  <2>7. Nth(P, k) = p
    BY <2>3, <2>4, <2>5, <2>6
  <2> QED
    BY <2>2, <2>7
<1> QED
  BY <1>2, <1>8, <1>9, <1>10

LEMMA AtIs ==
  ASSUME NEW S, NEW s \in Seq(S), NEW P, P \subseteq 1..Len(s)
  PROVE  /\ At(s, P) \in Seq(S) /\ Len(At(s, P)) = Cardinality(P)
         /\ \A k \in 1..Cardinality(P) : At(s, P)[k] = s[Nth(P, k)]
<1>0. Len(s) \in Nat
  OBVIOUS
<1>1. Cardinality(P) \in Nat /\ \A k \in 1..Cardinality(P) : Nth(P, k) \in 1..Len(s)
  BY <1>0, PlacesInOrder
<1>2. At(s, P) \in [1..Cardinality(P) -> S]
  BY <1>1, ElementOfSeq DEF At
<1> QED
  BY <1>1, <1>2, FunctionIsSeq DEF At

-----------------------------------------------------------------------------
(* Calls and results.                                                      *)

Plain(m) == ~Asks(m) /\ m.kind # "tool"

(* A stretch of paired messages is paired when no call before it reaches into it and   *)
(* none of its own reaches beyond it.                                                   *)
LEMMA StretchIsPaired ==
  ASSUME NEW s \in Seq(Message), NEW t \in Seq(Message), NEW d \in Nat, NEW a \in Nat,
         PairedBut(s, a), a = 0 \/ a > d + Len(t),
         d + Len(t) <= Len(s),
         \A i \in 1..Len(t) : t[i].kind = s[i + d].kind /\ t[i].calls = s[i + d].calls,
         \A j \in 1..d : Asks(s[j]) => j + s[j].calls <= d,
         d + Len(t) < Len(s) => s[d + Len(t) + 1].kind # "tool"
  PROVE  PairedBut(t, 0)
<1>0. Len(s) \in Nat /\ Len(t) \in Nat
  OBVIOUS
<1> SUFFICES ASSUME NEW i \in 1..Len(t)
             PROVE  /\ Asks(t[i]) => Answered(t, i)
                    /\ t[i].kind = "tool" => \E j \in 1..(i - 1) : Asks(t[j]) /\ i <= j + t[j].calls
  BY DEF PairedBut
<1>1. i + d \in 1..Len(s) /\ i + d # a
  BY <1>0
<1>2. \A j \in 1..Len(s) : s[j].calls \in Nat
  BY MessageAt
<1>3. ASSUME Asks(t[i]) PROVE Answered(t, i)
  <2>1. Answered(s, i + d)
    BY <1>1, <1>3 DEF Asks, PairedBut
  <2>2. i + d + s[i + d].calls <= Len(s)
    BY <2>1 DEF Answered
  <2>3. i + s[i + d].calls <= Len(t)
    <3> SUFFICES ASSUME i + s[i + d].calls > Len(t) PROVE FALSE
      BY <1>0, <1>1, <1>2
    <3>1. d + Len(t) < Len(s) /\ d + Len(t) + 1 \in (i + d + 1)..(i + d + s[i + d].calls)
      BY <1>0, <1>1, <1>2, <2>2
    <3>2. s[d + Len(t) + 1].kind = "tool"
      BY <2>1, <3>1 DEF Answered
    <3> QED
      BY <3>1, <3>2
  <2>4. ASSUME NEW j \in (i + 1)..(i + t[i].calls) PROVE t[j].kind = "tool"
    <3>1. t[i].calls = s[i + d].calls
      OBVIOUS
    <3>2. j \in 1..Len(t) /\ j + d \in (i + d + 1)..(i + d + s[i + d].calls)
      BY <1>0, <1>1, <1>2, <2>3, <2>4, <3>1
    <3>3. s[j + d].kind = "tool"
      BY <2>1, <3>2 DEF Answered
    <3> QED
      BY <3>2, <3>3
  <2> QED
    BY <2>3, <2>4 DEF Answered
<1>4. ASSUME t[i].kind = "tool"
      PROVE  \E j \in 1..(i - 1) : Asks(t[j]) /\ i <= j + t[j].calls
  <2>0. s[i + d].kind = "tool"
    BY <1>4
  <2>1. PICK j \in 1..(i + d - 1) : Asks(s[j]) /\ i + d <= j + s[j].calls
    <3>1. \A k \in 1..Len(s) :
            s[k].kind = "tool" => \E j \in 1..(k - 1) : Asks(s[j]) /\ k <= j + s[j].calls
      BY DEF PairedBut
    <3> QED
      BY <1>1, <2>0, <3>1
  <2>2. j \in 1..Len(s) /\ s[j].calls \in Nat
    BY <1>0, <1>1, <1>2
  <2>3. ~(j <= d)
    BY <2>1, <2>2
  <2>4. j - d \in 1..(i - 1) /\ (j - d) + d = j /\ j - d \in 1..Len(t)
    BY <1>0, <2>3
  <2>5. t[j - d].kind = s[j].kind /\ t[j - d].calls = s[j].calls
    BY <2>4
  <2>6. Asks(t[j - d]) /\ i <= (j - d) + t[j - d].calls
    BY <2>1, <2>2, <2>5 DEF Asks
  <2> QED
    BY <2>4, <2>6
<1> QED
  BY <1>3, <1>4

(* Plain messages may be put in front of paired ones and behind them.                   *)
LEMMA PlainAroundPaired ==
  ASSUME NEW s \in Seq(Message), NEW t \in Seq(Message), NEW d \in Nat,
         PairedBut(s, 0), d + Len(s) <= Len(t),
         \A i \in 1..Len(s) : t[i + d].kind = s[i].kind /\ t[i + d].calls = s[i].calls,
         \A i \in 1..Len(t) : i <= d \/ i > d + Len(s) => Plain(t[i])
  PROVE  PairedBut(t, 0)
<1>0. Len(s) \in Nat /\ Len(t) \in Nat
  OBVIOUS
<1> SUFFICES ASSUME NEW i \in 1..Len(t), ~Plain(t[i])
             PROVE  /\ Asks(t[i]) => Answered(t, i)
                    /\ t[i].kind = "tool" => \E j \in 1..(i - 1) : Asks(t[j]) /\ i <= j + t[j].calls
  BY DEF PairedBut, Plain
<1>1. i - d \in 1..Len(s) /\ (i - d) + d = i
  BY <1>0
<1>2. \A j \in 1..Len(s) : s[j].calls \in Nat
  BY MessageAt
<1>3. t[i].kind = s[i - d].kind /\ t[i].calls = s[i - d].calls
  BY <1>1
<1>4. ASSUME Asks(t[i]) PROVE Answered(t, i)
  <2>1. Answered(s, i - d)
    BY <1>0, <1>1, <1>3, <1>4 DEF Asks, PairedBut
  <2>2. (i - d) + s[i - d].calls <= Len(s)
    BY <2>1 DEF Answered
  <2>3. ASSUME NEW j \in (i + 1)..(i + t[i].calls) PROVE t[j].kind = "tool"
    <3>1. j - d \in (i - d + 1)..(i - d + s[i - d].calls) /\ j - d \in 1..Len(s) /\ (j - d) + d = j
      BY <1>0, <1>1, <1>2, <1>3, <2>2, <2>3
    <3>2. s[j - d].kind = "tool"
      BY <2>1, <3>1 DEF Answered
    <3>3. t[(j - d) + d].kind = s[j - d].kind
      BY <3>1
    <3> QED
      BY <3>1, <3>2, <3>3
  <2>4. i + t[i].calls <= Len(t)
    BY <1>0, <1>1, <1>2, <1>3, <2>2
  <2> QED
    BY <2>3, <2>4 DEF Answered
<1>5. ASSUME t[i].kind = "tool"
      PROVE  \E j \in 1..(i - 1) : Asks(t[j]) /\ i <= j + t[j].calls
  <2>1. PICK j \in 1..(i - d - 1) : Asks(s[j]) /\ i - d <= j + s[j].calls
    BY <1>1, <1>3, <1>5 DEF PairedBut
  <2>2. j \in 1..Len(s) /\ s[j].calls \in Nat /\ j + d \in 1..(i - 1)
    BY <1>0, <1>1, <1>2
  <2>3. t[j + d].kind = s[j].kind /\ t[j + d].calls = s[j].calls
    BY <2>2
  <2>4. Asks(t[j + d]) /\ i <= (j + d) + t[j + d].calls
    BY <1>1, <2>1, <2>2, <2>3 DEF Asks
  <2> QED
    BY <2>2, <2>4
<1> QED
  BY <1>4, <1>5

LEMMA PlainIsPaired ==
  ASSUME NEW t \in Seq(Message), \A i \in 1..Len(t) : Plain(t[i])
  PROVE  PairedBut(t, 0)
BY DEF PairedBut, Plain

\* A message that is not a result stops every call before it.
LEMMA NoCallReachesPast ==
  ASSUME NEW s \in Seq(Message), NEW a \in Nat, PairedBut(s, a),
         NEW n \in 1..Len(s), s[n].kind # "tool", a = 0 \/ a >= n,
         NEW j \in 1..(n - 1), Asks(s[j])
  PROVE  j + s[j].calls <= n - 1
<1>1. j \in 1..Len(s) /\ s[j].calls \in Nat /\ j # a
  <2>1. Len(s) \in Nat /\ j \in 1..Len(s) /\ j # a
    OBVIOUS
  <2> QED
    BY <2>1, MessageAt
<1>2. Answered(s, j)
  BY <1>1 DEF PairedBut
<1>3. ~(n \in (j + 1)..(j + s[j].calls))
  BY <1>2 DEF Answered
<1> QED
  BY <1>1, <1>3

-----------------------------------------------------------------------------
(* What several actions do.                                                *)

LEMMA MsgIs ==
  ASSUME NEW k \in {"system", "user", "ask", "say", "past", "answer", "tool"},
         NEW n \in Nat, NEW id \in Nat
  PROVE  /\ Msg(k, n, id) \in Message
         /\ Msg(k, n, id).kind = k /\ Msg(k, n, id).calls = n /\ Msg(k, n, id).id = id
BY DEF Msg, Message

LEMMA RowIs ==
  ASSUME NEW m \in Message, NEW id \in Nat
  PROVE  Row(m, id) \in Message /\ Row(m, id).id = id
BY DEF Row, Msg, Message

LEMMA Appended ==
  ASSUME NEW S, NEW s \in Seq(S), NEW x \in S
  PROVE  /\ Append(s, x) \in Seq(S) /\ Len(Append(s, x)) = Len(s) + 1
         /\ \A i \in 1..Len(s) : Append(s, x)[i] = s[i]
         /\ Append(s, x)[Len(s) + 1] = x
BY AppendProperties

LEMMA PutInFront ==
  ASSUME NEW S, NEW s \in Seq(S), NEW x \in S
  PROVE  /\ <<x>> \o s \in Seq(S) /\ Len(<<x>> \o s) = Len(s) + 1
         /\ (<<x>> \o s)[1] = x
         /\ \A i \in 1..Len(s) : (<<x>> \o s)[i + 1] = s[i]
<1>1. <<x>> \in Seq(S) /\ Len(<<x>>) = 1 /\ <<x>>[1] = x
  OBVIOUS
<1>2. /\ <<x>> \o s \in Seq(S) /\ Len(<<x>> \o s) = 1 + Len(s)
      /\ \A i \in 1..(1 + Len(s)) : (<<x>> \o s)[i] = IF i <= 1 THEN <<x>>[i] ELSE s[i - 1]
  BY <1>1, ConcatProperties
<1>3. Len(s) \in Nat
  OBVIOUS
<1>4. \A i \in 1..Len(s) : i + 1 \in 1..(1 + Len(s)) /\ ~(i + 1 <= 1) /\ (i + 1) - 1 = i
  BY <1>3
<1> QED
  BY <1>1, <1>2, <1>3, <1>4

(* A row with a new id at the end of the open conversation.                 *)
RowAdded(m) ==
  /\ store' = [store EXCEPT ![active] = Append(store[active], m)]
  /\ fresh' = fresh + 1 /\ m.id = fresh + 1 /\ m \in Message
  /\ active' = active /\ active \in made' /\ made \subseteq made'

LEMMA RowAddedKeeps ==
  ASSUME TypeInv, RowsInv, NEW m, RowAdded(m)
  PROVE  /\ store' \in [Conversations -> Seq(Message)] /\ fresh' \in Nat
         /\ RowsInv'
         /\ \A n \in Nat : HasRow(store'[active'], n) <=> HasRow(store[active], n) \/ n = fresh + 1
<1>1. /\ store[active] \in Seq(Message) /\ active \in Conversations /\ Len(store[active]) \in Nat
      /\ fresh \in Nat
  BY DEF TypeInv
<1> DEFINE old == store[active]
           new == Append(store[active], m)
<1>2. /\ new \in Seq(Message) /\ Len(new) = Len(old) + 1
      /\ \A i \in 1..Len(old) : new[i] = old[i]
      /\ new[Len(old) + 1] = m
  BY <1>1, Appended DEF RowAdded
<1>3. /\ store'[active] = new
      /\ \A c \in Conversations : c # active => store'[c] = store[c]
      /\ store' \in [Conversations -> Seq(Message)]
  BY <1>1, <1>2 DEF TypeInv, RowAdded
<1>4. \A i \in 1..Len(old) : old[i].id \in 1..fresh
  BY <1>1 DEF RowsInv
<1>5. \A i, j \in 1..Len(old) : i < j => old[i].id < old[j].id
  BY <1>1 DEF RowsInv
<1>6. \A i \in 1..Len(new) : i \in 1..Len(old) \/ i = Len(old) + 1
  BY <1>1, <1>2
<1> HIDE DEF old, new
<1>7. \A i \in 1..Len(new) : new[i].id \in 1..fresh'
  BY <1>1, <1>2, <1>4, <1>6 DEF RowAdded
<1>8. \A i, j \in 1..Len(new) : i < j => new[i].id < new[j].id
  <2> SUFFICES ASSUME NEW i \in 1..Len(new), NEW j \in 1..Len(new), i < j
               PROVE  new[i].id < new[j].id
    OBVIOUS
  <2>1. i \in 1..Len(old)
    BY <1>1, <1>2
  <2>2. CASE j \in 1..Len(old)
    BY <1>2, <1>5, <2>1, <2>2
  <2>3. CASE j = Len(old) + 1
    <3>1. new[i].id \in 1..fresh /\ new[j].id = fresh + 1
      BY <1>2, <1>4, <2>1, <2>3 DEF RowAdded
    <3> QED
      BY <1>1, <3>1
  <2> QED
    BY <1>6, <2>2, <2>3
<1>9. RowsInv'
  <2>1. ASSUME NEW c \in Conversations
        PROVE  /\ \A i \in 1..Len(store'[c]) : store'[c][i].id \in 1..fresh'
               /\ \A i, j \in 1..Len(store'[c]) : i < j => store'[c][i].id < store'[c][j].id
    <3>1. CASE c = active
      BY <1>3, <1>7, <1>8, <3>1
    <3>2. CASE c # active
      <4>1. store'[c] = store[c] /\ \A i \in 1..Len(store[c]) : store[c][i].id \in 1..fresh
        BY <1>3, <2>1, <3>2 DEF RowsInv
      <4> QED
        BY <1>1, <2>1, <4>1 DEF RowsInv, RowAdded
    <3> QED
      BY <3>1, <3>2
  <2>2. ASSUME NEW c \in Unused' PROVE store'[c] = <<>>
    <3>1. c \in Unused /\ c # active /\ c \in Conversations
      BY <2>2 DEF Unused, RowAdded, Conversations
    <3> QED
      BY <1>3, <3>1 DEF RowsInv
  <2> QED
    BY <2>1, <2>2 DEF RowsInv, Conversations
<1>10. ASSUME NEW n \in Nat
       PROVE  HasRow(store'[active'], n) <=> HasRow(store[active], n) \/ n = fresh + 1
  <2>1. HasRow(store'[active'], n) <=> \E k \in 1..Len(new) : new[k].id = n
    BY <1>3 DEF HasRow, RowAdded
  <2>2. HasRow(store[active], n) <=> \E k \in 1..Len(old) : old[k].id = n
    BY DEF HasRow, old
  <2>3. 1..Len(old) \subseteq 1..Len(new) /\ Len(old) + 1 \in 1..Len(new)
    BY <1>1, <1>2 DEF old
  <2> QED
    BY <1>2, <1>6, <2>1, <2>2, <2>3 DEF RowAdded
<1> QED
  BY <1>1, <1>3, <1>9, <1>10 DEF RowAdded

LEMMA SameRows ==
  ASSUME RowsInv, UNCHANGED <<store, made, fresh, active>>
  PROVE  RowsInv'
BY DEF RowsInv, Unused, Conversations

(* A message the turn adds in memory alone.                                 *)
TurnAppends(m) ==
  /\ pc \in {"model", "tools"} /\ pc' \in {"model", "tools", "persist"}
  /\ pc' = "tools" => owed' > 0
  /\ mem' = Append(mem, m) /\ m \in Message /\ m.id = 0
  /\ UNCHANGED <<active, ids, made, store, fresh, preTurn, saved, shown, slipped>>

LEMMA TurnAppendsKeeps ==
  ASSUME TypeInv, TurnInv, RowsInv, FreshInv, IdsInv, DiskInv, NEW m, TurnAppends(m)
  PROVE  /\ mem' \in Seq(Message) /\ Len(mem') = Len(mem) + 1
         /\ \A i \in 1..Len(mem) : mem'[i] = mem[i]
         /\ mem'[Len(mem) + 1] = m
         /\ TurnInv' /\ RowsInv' /\ FreshInv' /\ IdsInv' /\ DiskInv'
<1>0. /\ mem \in Seq(Message) /\ Len(mem) \in Nat /\ Len(ids) \in Nat /\ ids \in Seq(Nat)
      /\ shown \in Seq(Nat) /\ fresh \in Nat /\ preTurn \in Nat
  BY DEF TypeInv
<1>1. /\ mem' \in Seq(Message) /\ Len(mem') = Len(mem) + 1
      /\ \A i \in 1..Len(mem) : mem'[i] = mem[i]
      /\ mem'[Len(mem) + 1] = m
  BY <1>0, Appended DEF TurnAppends
<1>2. InTurn /\ InTurn' /\ Prompt = 1 /\ Prompt' = 1 /\ saved = 0 /\ saved' = 0
  BY DEF TurnAppends, InTurn, Prompt, TurnInv
<1>3. /\ preTurn \in 2..Len(mem) /\ mem[1].kind = "system" /\ mem[preTurn].kind = "user"
      /\ preTurn' = preTurn
  BY <1>2 DEF TurnInv, TurnAppends
<1>4. TurnInv'
  <2>1. /\ preTurn' \in 2..Len(mem') /\ mem'[1].kind = "system" /\ mem'[preTurn'].kind = "user"
    BY <1>0, <1>1, <1>3
  <2>2. preTurn' + saved' <= Len(mem') /\ pc' # "budget"
        /\ (pc' = "tools" => owed' > 0) /\ active' \in made'
    BY <1>0, <1>1, <1>2, <1>3 DEF TurnAppends, TurnInv
  <2> QED
    BY <1>2, <2>1, <2>2 DEF TurnInv
<1>5. RowsInv' /\ store'[active'] = store[active]
  BY SameRows DEF TurnAppends
<1>6. FreshInv'
  <2>1. \A i \in 1..Len(mem') : i \in 1..Len(mem) \/ i = Len(mem) + 1
    BY <1>0, <1>1
  <2>2. \A i \in 1..Len(mem') : mem'[i].id <= fresh
    BY <1>0, <1>1, <2>1 DEF FreshInv, TurnAppends
  <2> QED
    BY <2>2 DEF FreshInv, TurnAppends
<1>7. ASSUME ~slipped
      PROVE  /\ Len(ids) = preTurn - 1
             /\ \A i \in 1..Len(ids) : /\ i + 1 \in 1..Len(mem)
                                        /\ ids[i] = mem[i + 1].id /\ mem'[i + 1] = mem[i + 1]
  <2>1. Len(ids) = preTurn - 1 /\ \A i \in 1..Len(ids) : ids[i] = mem[i + 1].id
    BY <1>0, <1>2, <1>7 DEF IdsInv
  <2>2. \A i \in 1..Len(ids) : i + 1 \in 1..Len(mem)
    BY <1>0, <1>3, <2>1
  <2> QED
    BY <1>1, <2>1, <2>2
<1>8. IdsInv'
  BY <1>0, <1>2, <1>3, <1>7 DEF IdsInv, TurnAppends
<1>9. DiskInv'
  <2>1. UNCHANGED <<ids, shown, slipped>>
    BY DEF TurnAppends
  <2> SUFFICES ASSUME ~slipped PROVE DiskInv'
    BY <2>1 DEF DiskInv
  <2>2. \A i \in 1..Len(shown) :
          HasRow(store[active], shown[i]) =>
            \E j \in 1..Len(ids) : ids[j] = shown[i] /\ mem[j + 1].kind = "user"
    BY <1>2 DEF DiskInv
  <2>3. \A i \in 1..Len(shown) :
          HasRow(store[active], shown[i]) =>
            \E j \in 1..Len(ids) : ids[j] = shown[i] /\ mem'[j + 1].kind = "user"
    <3>1. \A j \in 1..Len(ids) : mem'[j + 1].kind = mem[j + 1].kind
      BY <1>7
    <3> QED
      BY <2>2, <3>1
  <2>4. \A i \in 1..Len(ids) : HasRow(store[active], ids[i])
    BY <2>1 DEF DiskInv
  <2> QED
    BY <1>2, <1>5, <2>1, <2>3, <2>4 DEF DiskInv
<1> QED
  BY <1>1, <1>4, <1>5, <1>6, <1>8, <1>9

-----------------------------------------------------------------------------
(* A send.                                                                 *)

LEMMA InitInv == Init => Inv
<1> SUFFICES ASSUME Init PROVE Inv
  OBVIOUS
<1>1. TypeInv
  <2>1. active \in Conversations
    BY TranscriptAssumption DEF Init, Conversations
  <2>2. <<>> \in Seq(Message) /\ <<>> \in Seq(Nat)
    BY EmptySeq
  <2>3. store \in [Conversations -> Seq(Message)]
    BY <2>2 DEF Init
  <2> QED
    BY <2>1, <2>2, <2>3 DEF Init, TypeInv
<1>2. TurnInv /\ RowsInv /\ FreshInv
  BY DEF Init, TurnInv, RowsInv, FreshInv, InTurn, Unused
<1>3. PairInv /\ IdsInv /\ DiskInv
  BY DEF Init, PairInv, PairedBut, IdsInv, DiskInv, InTurn
<1> QED
  BY <1>1, <1>2, <1>3 DEF Inv

LEMMA AskKeeps ==
  ASSUME Inv, NEW kind \in {"ask", "say"}, NEW calls \in 1..MaxToolCalls, AskForTools(kind, calls)
  PROVE  Inv'
<1> DEFINE m == Msg(kind, calls, 0)
<1>0. /\ TypeInv /\ TurnInv /\ RowsInv /\ FreshInv /\ PairInv /\ IdsInv /\ DiskInv
      /\ Len(mem) \in Nat /\ pc = "model" /\ pc' = "tools"
      /\ calls \in Nat /\ calls > 0 /\ owed' = calls /\ preTurn' = preTurn /\ slipped' = slipped
  BY TranscriptAssumption DEF Inv, AskForTools, TypeInv
<1>1. m \in Message /\ m.kind = kind /\ m.calls = calls /\ m.id = 0
  BY <1>0, MsgIs
<1> HIDE DEF m
<1>2. TurnAppends(m)
  BY <1>0, <1>1 DEF TurnAppends, AskForTools, m
<1>3. /\ mem' \in Seq(Message) /\ Len(mem') = Len(mem) + 1
      /\ \A i \in 1..Len(mem) : mem'[i] = mem[i]
      /\ mem'[Len(mem) + 1] = m
      /\ TurnInv' /\ RowsInv' /\ FreshInv' /\ IdsInv' /\ DiskInv'
  BY <1>0, <1>2, TurnAppendsKeeps
<1>4. TypeInv'
  BY <1>0, <1>3 DEF TypeInv, AskForTools
<1>5. ASSUME ~slipped PROVE \E a \in Nat : OpenAsk(a)' /\ PairedBut(mem', a)
  <2>0. PICK a \in Nat : a = Len(mem) + 1
    BY <1>0
  <2>1. preTurn \in 2..Len(mem)
    BY <1>0 DEF TurnInv, InTurn
  <2>2. OpenAsk(a)'
    BY <1>0, <1>1, <1>3, <2>0, <2>1 DEF OpenAsk, Asks
  <2>3. PairedBut(mem, 0)
    BY <1>0, <1>5 DEF PairInv
  <2>4. \A i \in 1..Len(mem') : i \in 1..Len(mem) \/ i = a
    BY <1>0, <1>3, <2>0
  <2>5. ASSUME NEW i \in 1..Len(mem), Asks(mem[i]) PROVE Answered(mem', i)
    <3>1. i # 0 /\ mem[i].calls \in Nat /\ mem'[i] = mem[i]
      BY <1>0, <1>3, MessageAt DEF TypeInv
    <3>2. Answered(mem, i)
      BY <2>3, <2>5, <3>1 DEF PairedBut
    <3>3. \A j \in (i + 1)..(i + mem[i].calls) : j \in 1..Len(mem)
      BY <1>0, <3>1, <3>2 DEF Answered
    <3> QED
      BY <1>0, <1>3, <3>1, <3>2, <3>3 DEF Answered
  <2>6. ASSUME NEW i \in 1..Len(mem), mem[i].kind = "tool"
        PROVE  \E j \in 1..(i - 1) : Asks(mem'[j]) /\ i <= j + mem'[j].calls
    <3>1. PICK j \in 1..(i - 1) : Asks(mem[j]) /\ i <= j + mem[j].calls
      BY <2>3, <2>6 DEF PairedBut
    <3>2. mem'[j] = mem[j]
      BY <1>0, <1>3
    <3> QED
      BY <3>1, <3>2
  <2>7. mem'[a].kind # "tool"
    BY <1>1, <1>3, <2>0
  <2>8. PairedBut(mem', a)
    BY <1>3, <2>4, <2>5, <2>6, <2>7 DEF PairedBut
  <2> QED
    BY <2>2, <2>8
<1>6. PairInv'
  BY <1>0, <1>5 DEF PairInv
<1> QED
  BY <1>3, <1>4, <1>6 DEF Inv

LEMMA ToolResultKeeps ==
  ASSUME Inv, ToolResult
  PROVE  Inv'
<1> DEFINE m == Msg("tool", 0, 0)
<1>0. /\ TypeInv /\ TurnInv /\ RowsInv /\ FreshInv /\ PairInv /\ IdsInv /\ DiskInv
      /\ Len(mem) \in Nat /\ pc = "tools" /\ owed \in Nat /\ owed > 0
      /\ owed' = owed - 1 /\ pc' = IF owed = 1 THEN "model" ELSE "tools"
      /\ preTurn' = preTurn /\ slipped' = slipped
  BY DEF Inv, ToolResult, TypeInv, TurnInv
<1>1. m \in Message /\ m.kind = "tool" /\ m.id = 0
  BY MsgIs
<1> HIDE DEF m
<1>2. TurnAppends(m)
  BY <1>0, <1>1 DEF TurnAppends, ToolResult, m
<1>3. /\ mem' \in Seq(Message) /\ Len(mem') = Len(mem) + 1
      /\ \A i \in 1..Len(mem) : mem'[i] = mem[i]
      /\ mem'[Len(mem) + 1] = m
      /\ TurnInv' /\ RowsInv' /\ FreshInv' /\ IdsInv' /\ DiskInv'
  BY <1>0, <1>2, TurnAppendsKeeps
<1>4. ASSUME NEW a \in Nat, OpenAsk(a), PairedBut(mem, a)
      PROVE  /\ owed > 0
             /\ PairedBut(mem', a)
             /\ owed = 1 => PairedBut(mem', 0)
             /\ owed # 1 => OpenAsk(a)'
  <2>1. /\ a \in (preTurn + 1)..Len(mem) /\ Asks(mem[a])
        /\ owed > 0 /\ Len(mem) + owed = a + mem[a].calls
        /\ \A j \in (a + 1)..Len(mem) : mem[j].kind = "tool"
    BY <1>4 DEF OpenAsk
  <2>2. a \in 1..Len(mem) /\ mem'[a] = mem[a] /\ mem[a].calls \in Nat /\ preTurn \in Nat
    <3>1. preTurn \in Nat /\ a \in 1..Len(mem)
      BY <1>0, <2>1 DEF TypeInv
    <3> QED
      BY <1>0, <1>3, <3>1, MessageAt DEF TypeInv
  <2>3. \A i \in 1..Len(mem') : i \in 1..Len(mem) \/ i = Len(mem) + 1
    BY <1>0, <1>3
  <2>4. ASSUME NEW i \in 1..Len(mem), Asks(mem[i]), i # a PROVE Answered(mem', i)
    <3>1. mem[i].calls \in Nat /\ mem'[i] = mem[i]
      BY <1>0, <1>3, MessageAt DEF TypeInv
    <3>2. Answered(mem, i)
      BY <1>4, <2>4 DEF PairedBut
    <3>3. \A j \in (i + 1)..(i + mem[i].calls) : j \in 1..Len(mem)
      BY <1>0, <3>1, <3>2 DEF Answered
    <3> QED
      BY <1>0, <1>3, <3>1, <3>2, <3>3 DEF Answered
  <2>5. ASSUME NEW i \in 1..Len(mem), mem[i].kind = "tool"
        PROVE  \E j \in 1..(i - 1) : Asks(mem'[j]) /\ i <= j + mem'[j].calls
    <3>1. PICK j \in 1..(i - 1) : Asks(mem[j]) /\ i <= j + mem[j].calls
      BY <1>4, <2>5 DEF PairedBut
    <3>2. mem'[j] = mem[j]
      BY <1>0, <1>3
    <3> QED
      BY <3>1, <3>2
  <2>6. /\ a \in 1..(Len(mem) + 1 - 1) /\ Asks(mem'[a]) /\ Len(mem) + 1 <= a + mem'[a].calls
    BY <1>0, <2>1, <2>2
  <2>7. ~Asks(mem'[Len(mem) + 1])
    BY <1>1, <1>3 DEF Asks
  <2>8. PairedBut(mem', a)
    <3> SUFFICES ASSUME NEW i \in 1..Len(mem')
                 PROVE  /\ Asks(mem'[i]) /\ i # a => Answered(mem', i)
                        /\ mem'[i].kind = "tool" =>
                             \E j \in 1..(i - 1) : Asks(mem'[j]) /\ i <= j + mem'[j].calls
      BY DEF PairedBut
    <3>1. CASE i \in 1..Len(mem)
      BY <1>3, <2>4, <2>5, <3>1
    <3>2. CASE i = Len(mem) + 1
      BY <2>6, <2>7, <3>2
    <3> QED
      BY <2>3, <3>1, <3>2
  <2>9. ASSUME NEW j \in (a + 1)..(Len(mem) + 1) PROVE mem'[j].kind = "tool"
    <3>1. (j \in (a + 1)..Len(mem) /\ j \in 1..Len(mem)) \/ j = Len(mem) + 1
      BY <1>0, <2>2
    <3> QED
      BY <1>1, <1>3, <2>1, <3>1
  <2>10. ASSUME owed = 1 PROVE PairedBut(mem', 0)
    <3>1. a + mem'[a].calls = Len(mem) + 1
      BY <2>1, <2>2, <2>10
    <3>2. Answered(mem', a)
      BY <1>3, <2>9, <3>1 DEF Answered
    <3> QED
      BY <2>8, <3>2 DEF PairedBut
  <2>11. ASSUME owed # 1 PROVE OpenAsk(a)'
    <3>1. a \in (preTurn' + 1)..Len(mem')
      BY <1>0, <1>3, <2>1, <2>2
    <3>2. owed' > 0 /\ Len(mem') + owed' = a + mem'[a].calls
      BY <1>0, <1>3, <2>1, <2>2, <2>11
    <3>3. \A j \in (a + 1)..Len(mem') : mem'[j].kind = "tool"
      BY <1>3, <2>9
    <3> QED
      BY <2>6, <3>1, <3>2, <3>3 DEF OpenAsk
  <2> QED
    BY <2>1, <2>8, <2>10, <2>11
<1>5. PairInv'
  BY <1>0, <1>4 DEF PairInv
<1>6. TypeInv'
  <2>1. owed' \in Nat
    BY <1>0
  <2> QED
    BY <1>0, <1>3, <2>1 DEF TypeInv, ToolResult
<1> QED
  BY <1>3, <1>5, <1>6 DEF Inv

LEMMA AnswerKeeps ==
  ASSUME Inv, Answer
  PROVE  Inv'
<1> DEFINE m == Msg("answer", 0, 0)
<1>0. /\ TypeInv /\ TurnInv /\ RowsInv /\ FreshInv /\ PairInv /\ IdsInv /\ DiskInv
      /\ Len(mem) \in Nat /\ mem \in Seq(Message) /\ pc = "model" /\ pc' = "persist" /\ slipped' = slipped
  BY DEF Inv, Answer, TypeInv
<1>1. m \in Message /\ m.kind = "answer" /\ m.id = 0
  BY MsgIs
<1> HIDE DEF m
<1>2. TurnAppends(m)
  BY <1>0, <1>1 DEF TurnAppends, Answer, turnVars, m
<1>3. /\ mem' \in Seq(Message) /\ Len(mem') = Len(mem) + 1
      /\ \A i \in 1..Len(mem) : mem'[i] = mem[i]
      /\ mem'[Len(mem) + 1] = m
      /\ TurnInv' /\ RowsInv' /\ FreshInv' /\ IdsInv' /\ DiskInv'
  BY <1>0, <1>2, TurnAppendsKeeps
<1>4. TypeInv'
  BY <1>0, <1>3 DEF TypeInv, Answer, turnVars
<1>5. ASSUME ~slipped PROVE PairedBut(mem', 0)
  <2>1. PairedBut(mem, 0)
    BY <1>0, <1>5 DEF PairInv
  <2>2. \A i \in 1..Len(mem') : i <= 0 \/ i > 0 + Len(mem) => Plain(mem'[i])
    BY <1>0, <1>1, <1>3 DEF Plain, Asks
  <2>3. \A i \in 1..Len(mem) : mem'[i + 0].kind = mem[i].kind /\ mem'[i + 0].calls = mem[i].calls
    BY <1>0, <1>3
  <2>4. 0 + Len(mem) <= Len(mem') /\ 0 \in Nat
    BY <1>0, <1>3
  <2> QED
    BY <1>0, <1>3, <2>1, <2>2, <2>3, <2>4, PlainAroundPaired
<1>6. PairInv'
  BY <1>0, <1>5 DEF PairInv
<1> QED
  BY <1>3, <1>4, <1>6 DEF Inv

LEMMA SendKeeps ==
  ASSUME Inv, Send
  PROVE  Inv'
<1>0. /\ TypeInv /\ TurnInv /\ RowsInv /\ FreshInv /\ PairInv /\ IdsInv /\ DiskInv
      /\ Len(mem) \in Nat /\ mem \in Seq(Message) /\ Len(ids) \in Nat /\ ids \in Seq(Nat)
      /\ shown \in Seq(Nat) /\ Len(shown) \in Nat /\ fresh \in Nat
      /\ pc = "idle" /\ pc' = "model" /\ slipped' = slipped /\ shown' = shown
      /\ active' = active /\ active \in Conversations
  BY DEF Inv, Send, TypeInv
<1> DEFINE p == Msg("system", 0, 0)
           u == Msg("user", 0, fresh + 1)
<1>1. /\ p \in Message /\ p.kind = "system" /\ p.id = 0
      /\ u \in Message /\ u.kind = "user" /\ u.id = fresh + 1
  BY <1>0, MsgIs
<1>2. mem' = <<p>> \o Append(mem, u) /\ ids' = Append(ids, fresh + 1)
  BY DEF Send
<1>3. RowAdded(u)
  BY <1>0, <1>1 DEF RowAdded, Send
<1> HIDE DEF p, u
<1>4. /\ mem' \in Seq(Message) /\ Len(mem') = Len(mem) + 2
      /\ mem'[1] = p /\ mem'[Len(mem) + 2] = u
      /\ \A i \in 1..Len(mem) : mem'[i + 1] = mem[i]
  <2>1. /\ Append(mem, u) \in Seq(Message) /\ Len(Append(mem, u)) = Len(mem) + 1
        /\ \A i \in 1..Len(mem) : Append(mem, u)[i] = mem[i]
        /\ Append(mem, u)[Len(mem) + 1] = u
    BY <1>0, <1>1, Appended
  <2>2. /\ mem' \in Seq(Message) /\ Len(mem') = Len(mem) + 1 + 1
        /\ mem'[1] = p
        /\ \A i \in 1..(Len(mem) + 1) : mem'[i + 1] = Append(mem, u)[i]
    BY <1>1, <1>2, <2>1, PutInFront
  <2>3. Len(mem) + 1 \in 1..(Len(mem) + 1) /\ (Len(mem) + 1) + 1 = Len(mem) + 2
        /\ \A i \in 1..Len(mem) : i \in 1..(Len(mem) + 1)
    BY <1>0
  <2> QED
    BY <2>1, <2>2, <2>3, <1>0
<1>5. /\ ids' \in Seq(Nat) /\ Len(ids') = Len(ids) + 1
      /\ \A i \in 1..Len(ids) : ids'[i] = ids[i]
      /\ ids'[Len(ids) + 1] = fresh + 1
  <2>1. fresh + 1 \in Nat
    BY <1>0
  <2> QED
    BY <1>0, <1>2, <2>1, Appended
<1>6. /\ store' \in [Conversations -> Seq(Message)] /\ fresh' \in Nat /\ fresh' = fresh + 1
      /\ RowsInv'
      /\ \A n \in Nat : HasRow(store'[active'], n) <=> HasRow(store[active], n) \/ n = fresh + 1
  BY <1>0, <1>3, RowAddedKeeps DEF RowAdded
<1>7. TypeInv'
  BY <1>0, <1>4, <1>5, <1>6 DEF TypeInv, Send
<1>8. InTurn' /\ Prompt' = 1 /\ Prompt = 0 /\ ~InTurn /\ preTurn' = Len(mem) + 2 /\ saved' = 0
  BY <1>0 DEF InTurn, Prompt, Send
<1>9. TurnInv'
  <2>1. active' \in made'
    BY <1>0 DEF Send
  <2> QED
    BY <1>0, <1>1, <1>4, <1>8, <2>1 DEF TurnInv
<1>10. \A i \in 1..Len(mem') : i = 1 \/ i = Len(mem) + 2 \/ (i - 1 \in 1..Len(mem) /\ (i - 1) + 1 = i)
  BY <1>0, <1>4
<1>11. FreshInv'
  <2>1. \A i \in 1..Len(mem) : mem[i].id \in Nat /\ mem[i].id <= fresh
    BY <1>0, MessageAt DEF FreshInv
  <2>2. ASSUME NEW i \in 1..Len(mem') PROVE mem'[i].id <= fresh'
    <3>1. CASE i = 1 \/ i = Len(mem) + 2
      BY <1>0, <1>1, <1>4, <1>6, <3>1
    <3>2. CASE i - 1 \in 1..Len(mem) /\ (i - 1) + 1 = i
      <4>1. mem'[i] = mem[i - 1]
        BY <1>4, <3>2
      <4> QED
        <5>1. mem[i - 1].id \in Nat /\ mem[i - 1].id <= fresh
          BY <2>1, <3>2
        <5> QED
          BY <1>0, <1>6, <4>1, <5>1
    <3> QED
      BY <1>10, <3>1, <3>2
  <2>3. \A i \in 1..Len(shown) : shown[i] <= fresh /\ shown[i] \in Nat
    BY <1>0, ElementOfSeq DEF FreshInv
  <2> QED
    BY <1>0, <1>6, <2>2, <2>3 DEF FreshInv
<1>12. PairInv'
  <2> SUFFICES ASSUME ~slipped PROVE PairedBut(mem', 0)
    BY <1>0 DEF PairInv
  <2>1. PairedBut(mem, 0)
    BY <1>0 DEF PairInv
  <2>2. \A i \in 1..Len(mem') : i <= 1 \/ i > 1 + Len(mem) => Plain(mem'[i])
    BY <1>0, <1>1, <1>4, <1>10 DEF Plain, Asks
  <2>3. \A i \in 1..Len(mem) : mem'[i + 1].kind = mem[i].kind /\ mem'[i + 1].calls = mem[i].calls
    BY <1>4
  <2>4. 1 + Len(mem) <= Len(mem') /\ 1 \in Nat
    BY <1>0, <1>4
  <2> QED
    BY <1>0, <1>4, <2>1, <2>2, <2>3, <2>4, PlainAroundPaired
<1>13. \A i \in 1..Len(ids') : i \in 1..Len(ids) \/ i = Len(ids) + 1
  BY <1>0, <1>5
<1>14. ASSUME ~slipped
       PROVE  /\ Len(ids) = Len(mem)
              /\ \A i \in 1..Len(ids) : ids[i] = mem[i].id /\ ids[i] <= fresh /\ ids[i] \in Nat
              /\ \A i \in 1..Len(ids) : mem'[i + 1] = mem[i]
  <2>1. Len(ids) = Len(mem) /\ \A i \in 1..Len(ids) : ids[i] = mem[i + 0].id
    BY <1>0, <1>8, <1>14 DEF IdsInv
  <2>2. \A i \in 1..Len(ids) : i + 0 = i
    BY <1>0
  <2>3. \A i \in 1..Len(mem) : mem[i].id \in Nat /\ mem[i].id <= fresh
    BY <1>0, MessageAt DEF FreshInv
  <2> QED
    BY <1>4, <2>1, <2>2, <2>3
<1>15. IdsInv'
  <2> SUFFICES ASSUME ~slipped
               PROVE  /\ Len(ids') = preTurn' + saved' - 1
                      /\ \A i \in 1..Len(ids') : ids'[i] = mem'[i + 1].id
    BY <1>0, <1>8 DEF IdsInv
  <2>1. Len(ids') = preTurn' + saved' - 1
    BY <1>0, <1>5, <1>8, <1>14
  <2>2. \A i \in 1..Len(ids) : ids'[i] = mem'[i + 1].id
    BY <1>5, <1>14
  <2>3. ids'[Len(ids) + 1] = mem'[(Len(ids) + 1) + 1].id
    BY <1>0, <1>1, <1>4, <1>5, <1>14
  <2> QED
    BY <1>13, <2>1, <2>2, <2>3
<1>16. DiskInv'
  <2> SUFFICES ASSUME ~slipped PROVE DiskInv'
    BY <1>0 DEF DiskInv
  <2>1. \A i \in 1..Len(ids') : HasRow(store'[active'], ids'[i])
    <3>1. \A i \in 1..Len(ids) : HasRow(store[active], ids[i]) /\ ids[i] \in Nat
      BY <1>0, <1>14 DEF DiskInv
    <3>2. \A i \in 1..Len(ids) : HasRow(store'[active'], ids'[i])
      BY <1>5, <1>6, <3>1
    <3>3. HasRow(store'[active'], ids'[Len(ids) + 1])
      BY <1>0, <1>5, <1>6
    <3> QED
      BY <1>13, <3>2, <3>3
  <2>2. \A i, j \in 1..Len(ids') : i < j => ids'[i] < ids'[j]
    <3>1. \A i, j \in 1..Len(ids) : i < j => ids[i] < ids[j]
      BY <1>0 DEF DiskInv
    <3>2. \A i \in 1..Len(ids) : ids'[i] < ids'[Len(ids) + 1]
      <4> SUFFICES ASSUME NEW i \in 1..Len(ids) PROVE ids'[i] < ids'[Len(ids) + 1]
        OBVIOUS
      <4>1. ids'[i] = ids[i] /\ ids[i] <= fresh /\ ids[i] \in Nat
        BY <1>5, <1>14
      <4> QED
        BY <1>0, <1>5, <4>1
    <3>3. \A i, j \in 1..Len(ids') : i < j => i \in 1..Len(ids)
      BY <1>0, <1>5
    <3> QED
      BY <1>5, <1>13, <3>1, <3>2, <3>3
  <2>3. ASSUME NEW i \in 1..Len(shown), HasRow(store'[active'], shown[i])
        PROVE  \E j \in 1..Len(ids') : ids'[j] = shown[i] /\ mem'[j + 1].kind = "user"
    <3>1. shown[i] \in Nat /\ shown[i] <= fresh
      BY <1>0, ElementOfSeq DEF FreshInv
    <3>2. HasRow(store[active], shown[i])
      BY <1>0, <1>6, <2>3, <3>1
    <3>3. PICK j \in 1..Len(ids) : ids[j] = shown[i] /\ mem[j + 0].kind = "user"
      BY <1>0, <1>8, <3>2 DEF DiskInv
    <3>4. j \in 1..Len(ids') /\ j + 0 = j
      BY <1>0, <1>5
    <3> QED
      BY <1>5, <1>14, <3>3, <3>4
  <2> QED
    BY <1>0, <1>8, <2>1, <2>2, <2>3 DEF DiskInv
<1> QED
  BY <1>6, <1>7, <1>9, <1>11, <1>12, <1>15, <1>16 DEF Inv

LEMMA SendUnsavedKeeps ==
  ASSUME Inv, SendUnsaved
  PROVE  Inv'
<1>0. /\ TypeInv /\ TurnInv /\ RowsInv /\ FreshInv
      /\ Len(mem) \in Nat /\ mem \in Seq(Message) /\ fresh \in Nat
      /\ pc = "idle" /\ pc' = "idle" /\ slipped' = TRUE
      /\ UNCHANGED <<active, ids, store, fresh, preTurn, owed, rounds, saved, shown>>
      /\ made' = made \cup {active}
  BY DEF Inv, SendUnsaved, TypeInv, turnVars
<1> DEFINE u == Msg("user", 0, 0)
<1>1. u \in Message /\ u.id = 0
  BY MsgIs
<1> HIDE DEF u
<1>2. mem' = Append(mem, u)
  BY DEF SendUnsaved, u
<1>3. /\ mem' \in Seq(Message) /\ Len(mem') = Len(mem) + 1
      /\ \A i \in 1..Len(mem) : mem'[i] = mem[i]
      /\ mem'[Len(mem) + 1] = u
  BY <1>0, <1>1, <1>2, Appended
<1>4. TypeInv'
  BY <1>0, <1>3 DEF TypeInv
<1>5. TurnInv' /\ PairInv' /\ IdsInv' /\ DiskInv'
  BY <1>0 DEF TurnInv, PairInv, IdsInv, DiskInv, InTurn
<1>6. RowsInv'
  BY <1>0 DEF RowsInv, Unused, Conversations
<1>7. FreshInv'
  <2>1. \A i \in 1..Len(mem') : i \in 1..Len(mem) \/ i = Len(mem) + 1
    BY <1>0, <1>3
  <2>2. \A i \in 1..Len(mem') : mem'[i].id <= fresh
    BY <1>0, <1>1, <1>3, <2>1 DEF FreshInv
  <2> QED
    BY <1>0, <2>2 DEF FreshInv
<1> QED
  BY <1>4, <1>5, <1>6, <1>7 DEF Inv

LEMMA RollBackKeeps ==
  ASSUME Inv, InTurn, RollBack, Done, UNCHANGED <<active, ids, made, store, fresh, shown>>,
         slipped' = TRUE \/ (slipped' = slipped /\ pc \in {"model", "tools"})
  PROVE  Inv'
<1>0. /\ TypeInv /\ TurnInv /\ RowsInv /\ FreshInv /\ PairInv /\ IdsInv /\ DiskInv
      /\ Len(mem) \in Nat /\ mem \in Seq(Message) /\ Len(ids) \in Nat /\ preTurn \in Nat
      /\ preTurn \in 2..Len(mem) /\ mem[1].kind = "system" /\ mem[preTurn].kind = "user"
      /\ pc' = "idle" /\ saved' = 0 /\ Prompt = 1 /\ Prompt' = 0
      /\ UNCHANGED <<active, ids, made, store, fresh, shown>>
  BY DEF Inv, TypeInv, TurnInv, Done, Prompt, InTurn
<1>1. /\ mem' \in Seq(Message) /\ Len(mem') = preTurn - 1
      /\ \A i \in 1..Len(mem') : mem'[i] = mem[i + 1] /\ i + 1 \in 1..Len(mem)
  <2>1. preTurn \in 1..Len(mem)
    BY <1>0
  <2>2. /\ mem' \in Seq(Message) /\ Len(mem') = preTurn - 1
        /\ \A i \in 1..(preTurn - 1) : mem'[i] = mem[i + 1]
    BY <1>0, <2>1, BehindTheFirst DEF RollBack
  <2> QED
    BY <1>0, <2>2
<1>2. TypeInv'
  <2>1. slipped' \in BOOLEAN
    BY <1>0 DEF TypeInv
  <2>2. owed' = 0 /\ rounds' = 0 /\ preTurn' = 0
    BY DEF Done
  <2> QED
    BY <1>0, <1>1, <2>1, <2>2 DEF TypeInv
<1>3. TurnInv' /\ RowsInv'
  BY <1>0 DEF TurnInv, InTurn, RowsInv, Unused, Conversations
<1>4. FreshInv'
  BY <1>0, <1>1 DEF FreshInv
<1>5. CASE slipped' = TRUE
  BY <1>2, <1>3, <1>4, <1>5 DEF Inv, PairInv, IdsInv, DiskInv
<1>6. ASSUME ~slipped', slipped' = slipped, pc \in {"model", "tools"}
      PROVE  PairedBut(mem', 0)
  <2>1. PICK a \in Nat : PairedBut(mem, a) /\ (a = 0 \/ a > preTurn)
    <3>1. CASE pc = "tools"
      BY <1>0, <1>6, <3>1 DEF PairInv, OpenAsk
    <3>2. CASE pc = "model"
      BY <1>0, <1>6, <3>2 DEF PairInv
    <3> QED
      BY <1>6, <3>1, <3>2
  <2>2. ASSUME preTurn < Len(mem) PROVE mem[preTurn + 1].kind # "tool"
    <3> SUFFICES ASSUME mem[preTurn + 1].kind = "tool" PROVE FALSE
      OBVIOUS
    <3>1. preTurn + 1 \in 1..Len(mem) /\ (preTurn + 1) - 1 = preTurn
      BY <1>0, <2>2
    <3>2. \A k \in 1..Len(mem) :
            mem[k].kind = "tool" => \E j \in 1..(k - 1) : Asks(mem[j]) /\ k <= j + mem[j].calls
      BY <2>1 DEF PairedBut
    <3>3. PICK j \in 1..preTurn : Asks(mem[j]) /\ preTurn + 1 <= j + mem[j].calls
      BY <3>1, <3>2
    <3>4. j # preTurn
      BY <1>0, <3>3 DEF Asks
    <3>5. j \in 1..(preTurn - 1) /\ preTurn \in 1..Len(mem) /\ j \in 1..Len(mem)
      BY <1>0, <3>4
    <3>6. j + mem[j].calls <= preTurn - 1
      BY <1>0, <2>1, <3>3, <3>5, NoCallReachesPast
    <3>7. mem[j].calls \in Nat
      BY <1>0, <3>5, MessageAt
    <3> QED
      BY <1>0, <3>3, <3>5, <3>6, <3>7
  <2>3. /\ 1 + Len(mem') = preTurn /\ 1 + Len(mem') <= Len(mem) /\ 1 \in Nat
        /\ 1 + Len(mem') + 1 = preTurn + 1
    BY <1>0, <1>1
  <2>4. \A j \in 1..1 : Asks(mem[j]) => j + mem[j].calls <= 1
    BY <1>0 DEF Asks
  <2>5. \A i \in 1..Len(mem') : mem'[i].kind = mem[i + 1].kind /\ mem'[i].calls = mem[i + 1].calls
    BY <1>1
  <2>6. a = 0 \/ a > 1 + Len(mem')
    BY <2>1, <2>3
  <2>7. 1 + Len(mem') < Len(mem) => mem[1 + Len(mem') + 1].kind # "tool"
    BY <2>2, <2>3
  <2> QED
    BY <1>0, <1>1, <2>1, <2>3, <2>4, <2>5, <2>6, <2>7, StretchIsPaired
<1>7. ASSUME ~slipped', slipped' = slipped, pc \in {"model", "tools"}
      PROVE  IdsInv' /\ DiskInv'
  <2>1. Len(ids) = preTurn - 1 /\ \A i \in 1..Len(ids) : ids[i] = mem[i + 1].id
    BY <1>0, <1>7 DEF IdsInv, TurnInv, InTurn
  <2>2. \A i \in 1..Len(ids) : mem'[i] = mem[i + 1] /\ mem'[i + 0] = mem[i + 1]
    BY <1>0, <1>1, <2>1
  <2>3. IdsInv'
    BY <1>0, <1>1, <2>1, <2>2 DEF IdsInv, InTurn
  <2>4. \A i \in 1..Len(shown) :
          HasRow(store[active], shown[i]) =>
            \E j \in 1..Len(ids) : ids[j] = shown[i] /\ mem[j + 1].kind = "user"
    BY <1>0, <1>7 DEF DiskInv
  <2>5. \A i \in 1..Len(shown) :
          HasRow(store[active], shown[i]) =>
            \E j \in 1..Len(ids) : ids[j] = shown[i] /\ mem'[j + 0].kind = "user"
    <3>1. \A j \in 1..Len(ids) : mem'[j + 0].kind = mem[j + 1].kind
      BY <2>2
    <3> QED
      BY <2>4, <3>1
  <2>6. store'[active'] = store[active] /\ ids' = ids /\ shown' = shown
    BY <1>0
  <2>7. /\ \A i \in 1..Len(ids) : HasRow(store[active], ids[i])
        /\ \A i, j \in 1..Len(ids) : i < j => ids[i] < ids[j]
    BY <1>0, <1>7 DEF DiskInv
  <2>8. DiskInv'
    BY <1>0, <2>5, <2>6, <2>7 DEF DiskInv
  <2> QED
    BY <2>3, <2>8
<1>8. CASE slipped' # TRUE
  <2>1. ~slipped' /\ slipped' = slipped /\ pc \in {"model", "tools"}
    BY <1>0, <1>8 DEF TypeInv
  <2>2. PairInv'
    BY <1>0, <1>6, <2>1 DEF PairInv
  <2> QED
    BY <1>2, <1>3, <1>4, <1>7, <2>1, <2>2 DEF Inv
<1> QED
  BY <1>5, <1>8

(* Rows of the turn.                                                        *)
LEMMA PersistMessageKeeps ==
  ASSUME Inv, PersistMessage
  PROVE  Inv'
<1>0. /\ TypeInv /\ TurnInv /\ RowsInv /\ FreshInv /\ PairInv /\ IdsInv /\ DiskInv
      /\ Len(mem) \in Nat /\ mem \in Seq(Message) /\ Len(ids) \in Nat /\ ids \in Seq(Nat)
      /\ shown \in Seq(Nat) /\ Len(shown) \in Nat /\ fresh \in Nat
      /\ preTurn \in Nat /\ saved \in Nat
      /\ pc = "persist" /\ active \in Conversations /\ active \in made
      /\ preTurn \in 2..Len(mem) /\ mem[1].kind = "system" /\ mem[preTurn].kind = "user"
      /\ InTurn /\ Prompt = 1
      /\ UNCHANGED <<pc, active, made, preTurn, owed, rounds, shown, slipped>>
      /\ saved' = saved + 1
  <2>1. TypeInv /\ TurnInv /\ RowsInv /\ FreshInv /\ PairInv /\ IdsInv /\ DiskInv
    BY DEF Inv
  <2>2. /\ pc = "persist" /\ InTurn /\ Prompt = 1 /\ saved' = saved + 1
        /\ UNCHANGED <<pc, active, made, preTurn, owed, rounds, shown, slipped>>
    BY DEF PersistMessage, InTurn, Prompt
  <2> QED
    BY <2>1, <2>2 DEF TypeInv, TurnInv
<1>1. PICK k \in 1..Len(mem) : k = preTurn + saved + 1 /\ k = NextUnsaved
  <2>1. NextUnsaved <= Len(mem) /\ NextUnsaved = preTurn + saved + 1
    BY DEF PersistMessage, NextUnsaved
  <2> QED
    BY <1>0, <2>1
<1> DEFINE w == Row(mem[k], fresh + 1)
<1>2. w \in Message /\ w.id = fresh + 1 /\ mem[k] \in Message
  <2>1. fresh + 1 \in Nat /\ mem[k] \in Message
    BY <1>0, MessageAt
  <2> QED
    BY <2>1, RowIs
<1>3. RowAdded(w)
  BY <1>0, <1>1, <1>2 DEF RowAdded, PersistMessage
<1> HIDE DEF w
<1>4. /\ store' \in [Conversations -> Seq(Message)] /\ fresh' \in Nat /\ fresh' = fresh + 1
      /\ RowsInv'
      /\ \A n \in Nat : HasRow(store'[active'], n) <=> HasRow(store[active], n) \/ n = fresh + 1
  BY <1>0, <1>3, RowAddedKeeps DEF RowAdded
<1>5. /\ mem' \in Seq(Message) /\ Len(mem') = Len(mem)
      /\ \A i \in 1..Len(mem) : /\ mem'[i].kind = mem[i].kind /\ mem'[i].calls = mem[i].calls
                                 /\ mem'[i].id = IF i = k THEN fresh + 1 ELSE mem[i].id
  <2> DEFINE e == [mem[k] EXCEPT !.id = fresh + 1]
  <2>1. e \in Message /\ e.kind = mem[k].kind /\ e.calls = mem[k].calls /\ e.id = fresh + 1
    BY <1>0, <1>2 DEF Message
  <2>2. mem' = [mem EXCEPT ![k] = e]
    BY <1>1 DEF PersistMessage
  <2> HIDE DEF e
  <2>3. /\ mem' \in Seq(Message) /\ Len(mem') = Len(mem)
        /\ \A i \in 1..Len(mem) : mem'[i] = IF i = k THEN e ELSE mem[i]
    BY <1>0, <2>1, <2>2, ExceptSeq
  <2> QED
    BY <2>1, <2>3
<1>6. /\ ids' \in Seq(Nat) /\ Len(ids') = Len(ids) + 1
      /\ \A i \in 1..Len(ids) : ids'[i] = ids[i]
      /\ ids'[Len(ids) + 1] = fresh + 1
  <2>1. fresh + 1 \in Nat /\ ids' = Append(ids, fresh + 1)
    BY <1>0 DEF PersistMessage
  <2> QED
    BY <1>0, <2>1, Appended
<1>7. TypeInv'
  BY <1>0, <1>4, <1>5, <1>6 DEF TypeInv
<1>8. TurnInv'
  <2>1. preTurn \in 1..Len(mem) /\ 1 \in 1..Len(mem) /\ preTurn + (saved + 1) <= Len(mem)
    BY <1>0, <1>1
  <2> QED
    BY <1>0, <1>5, <2>1 DEF TurnInv, InTurn
<1>9. FreshInv'
  <2>1. \A i \in 1..Len(mem) : mem[i].id \in Nat /\ mem[i].id <= fresh
    BY <1>0, MessageAt DEF FreshInv
  <2>2. ASSUME NEW i \in 1..Len(mem) PROVE mem'[i].id <= fresh'
    <3>1. mem[i].id \in Nat /\ mem[i].id <= fresh
      BY <2>1
    <3>2. mem'[i].id = fresh + 1 \/ mem'[i].id = mem[i].id
      BY <1>5
    <3> QED
      BY <1>0, <1>4, <3>1, <3>2
  <2>3. \A i \in 1..Len(shown) : shown[i] <= fresh /\ shown[i] \in Nat
    BY <1>0, ElementOfSeq DEF FreshInv
  <2> QED
    BY <1>0, <1>4, <1>5, <2>2, <2>3 DEF FreshInv
<1>10. PairInv'
  <2> SUFFICES ASSUME ~slipped PROVE PairedBut(mem', 0)
    BY <1>0 DEF PairInv
  <2>1. PairedBut(mem, 0)
    BY <1>0 DEF PairInv
  <2>2. /\ 0 \in Nat /\ 0 + Len(mem') <= Len(mem) /\ ~(0 + Len(mem') < Len(mem))
        /\ \A j \in 1..0 : Asks(mem[j]) => j + mem[j].calls <= 0
    BY <1>0, <1>5
  <2>3. \A i \in 1..Len(mem') : mem'[i].kind = mem[i + 0].kind /\ mem'[i].calls = mem[i + 0].calls
    <3>1. \A i \in 1..Len(mem') : i + 0 = i /\ i \in 1..Len(mem)
      BY <1>0, <1>5
    <3> QED
      BY <1>5, <3>1
  <2> QED
    BY <1>0, <1>5, <2>1, <2>2, <2>3, StretchIsPaired
<1>11. \A i \in 1..Len(ids') : i \in 1..Len(ids) \/ i = Len(ids) + 1
  BY <1>0, <1>6
<1>12. ASSUME ~slipped
       PROVE  /\ Len(ids) = preTurn + saved - 1
              /\ \A i \in 1..Len(ids) : /\ ids[i] = mem[i + 1].id /\ ids[i] <= fresh /\ ids[i] \in Nat
                                         /\ mem'[i + 1].id = mem[i + 1].id
                                         /\ mem'[i + 1].kind = mem[i + 1].kind
  <2>1. Len(ids) = preTurn + saved - 1 /\ \A i \in 1..Len(ids) : ids[i] = mem[i + 1].id
    BY <1>0, <1>12 DEF IdsInv
  <2>2. \A i \in 1..Len(ids) : i + 1 \in 1..Len(mem) /\ i + 1 # k
    BY <1>0, <1>1, <2>1
  <2>3. \A i \in 1..Len(mem) : mem[i].id \in Nat /\ mem[i].id <= fresh
    BY <1>0, MessageAt DEF FreshInv
  <2> QED
    BY <1>5, <2>1, <2>2, <2>3
<1>13. IdsInv'
  <2> SUFFICES ASSUME ~slipped
               PROVE  /\ Len(ids') = preTurn' + saved' - 1
                      /\ \A i \in 1..Len(ids') : ids'[i] = mem'[i + 1].id
    BY <1>0 DEF IdsInv, InTurn, Prompt
  <2>0. Len(ids) = preTurn + saved - 1
    BY <1>12
  <2>1. Len(ids') = preTurn' + saved' - 1 /\ (Len(ids) + 1) + 1 = k
    BY <1>0, <1>1, <1>6, <2>0
  <2>2. \A i \in 1..Len(ids) : ids'[i] = mem'[i + 1].id
    BY <1>6, <1>12
  <2>3. ids'[Len(ids) + 1] = mem'[(Len(ids) + 1) + 1].id
    BY <1>5, <1>6, <2>1
  <2> QED
    BY <1>11, <2>1, <2>2, <2>3
<1>14. DiskInv'
  <2> SUFFICES ASSUME ~slipped PROVE DiskInv'
    BY <1>0 DEF DiskInv
  <2>1. \A i \in 1..Len(ids') : HasRow(store'[active'], ids'[i])
    <3>1. \A i \in 1..Len(ids) : HasRow(store[active], ids[i]) /\ ids[i] \in Nat
      BY <1>0, <1>12 DEF DiskInv
    <3>2. \A i \in 1..Len(ids) : HasRow(store'[active'], ids'[i])
      BY <1>4, <1>6, <3>1
    <3>3. HasRow(store'[active'], ids'[Len(ids) + 1])
      BY <1>0, <1>4, <1>6
    <3> QED
      BY <1>11, <3>2, <3>3
  <2>2. \A i, j \in 1..Len(ids') : i < j => ids'[i] < ids'[j]
    <3>1. \A i, j \in 1..Len(ids) : i < j => ids[i] < ids[j]
      BY <1>0 DEF DiskInv
    <3>2. ASSUME NEW i \in 1..Len(ids) PROVE ids'[i] < ids'[Len(ids) + 1]
      <4>1. ids'[i] = ids[i] /\ ids[i] <= fresh /\ ids[i] \in Nat
        BY <1>6, <1>12
      <4> QED
        BY <1>0, <1>6, <4>1
    <3>3. \A i, j \in 1..Len(ids') : i < j => i \in 1..Len(ids)
      BY <1>0, <1>6
    <3> QED
      BY <1>6, <1>11, <3>1, <3>2, <3>3
  <2>3. ASSUME NEW i \in 1..Len(shown), HasRow(store'[active'], shown[i])
        PROVE  \E j \in 1..Len(ids') : ids'[j] = shown[i] /\ mem'[j + 1].kind = "user"
    <3>1. shown[i] \in Nat /\ shown[i] <= fresh
      BY <1>0, ElementOfSeq DEF FreshInv
    <3>2. HasRow(store[active], shown[i])
      BY <1>0, <1>4, <2>3, <3>1
    <3>3. PICK j \in 1..Len(ids) : ids[j] = shown[i] /\ mem[j + 1].kind = "user"
      BY <1>0, <3>2 DEF DiskInv
    <3>4. j \in 1..Len(ids')
      BY <1>0, <1>6
    <3> QED
      BY <1>6, <1>12, <3>3, <3>4
  <2>4. Prompt' = 1 /\ shown' = shown
    BY <1>0 DEF Prompt, InTurn
  <2> QED
    BY <2>1, <2>2, <2>3, <2>4 DEF DiskInv
<1> QED
  BY <1>4, <1>7, <1>8, <1>9, <1>10, <1>13, <1>14 DEF Inv

LEMMA TurnSavedKeeps ==
  ASSUME Inv, TurnSaved
  PROVE  Inv'
<1>0. /\ TypeInv /\ TurnInv /\ RowsInv /\ FreshInv /\ PairInv /\ IdsInv /\ DiskInv
      /\ Len(mem) \in Nat /\ mem \in Seq(Message) /\ Len(ids) \in Nat
      /\ preTurn \in Nat /\ saved \in Nat /\ pc = "persist" /\ pc' = "budget"
      /\ preTurn \in 2..Len(mem) /\ mem[1].kind = "system" /\ mem[preTurn].kind = "user"
      /\ preTurn + saved = Len(mem)
      /\ Prompt = 1 /\ Prompt' = 0 /\ InTurn /\ ~InTurn'
      /\ active \in made
      /\ UNCHANGED <<active, ids, made, store, fresh, preTurn, owed, rounds, saved, shown, slipped>>
  <2>1. TypeInv /\ TurnInv /\ RowsInv /\ FreshInv /\ PairInv /\ IdsInv /\ DiskInv
    BY DEF Inv
  <2>2. /\ pc = "persist" /\ pc' = "budget" /\ Prompt = 1 /\ Prompt' = 0 /\ InTurn /\ ~InTurn'
        /\ UNCHANGED <<active, ids, made, store, fresh, preTurn, owed, rounds, saved, shown, slipped>>
    BY DEF TurnSaved, InTurn, Prompt, turnVars
  <2>3. /\ Len(mem) \in Nat /\ preTurn \in Nat /\ saved \in Nat /\ preTurn + saved <= Len(mem)
        /\ preTurn + saved + 1 > Len(mem)
    BY <2>1, <2>2 DEF TypeInv, TurnInv, TurnSaved, NextUnsaved
  <2>4. preTurn + saved = Len(mem)
    BY <2>3
  <2> QED
    BY <2>1, <2>2, <2>4 DEF TypeInv, TurnInv
<1>1. /\ mem' \in Seq(Message) /\ Len(mem') = Len(mem) - 1
      /\ \A i \in 1..Len(mem') : mem'[i] = mem[i + 1] /\ i + 1 \in 1..Len(mem)
  <2>1. mem # <<>> /\ mem' = Tail(mem)
    BY <1>0 DEF TurnSaved
  <2>2. /\ Tail(mem) \in Seq(Message) /\ Len(Tail(mem)) = Len(mem) - 1
        /\ \A i \in 1..Len(Tail(mem)) : Tail(mem)[i] = mem[i + 1]
    BY <1>0, <2>1, HeadTailProperties
  <2> QED
    BY <1>0, <2>1, <2>2
<1>2. TypeInv'
  BY <1>0, <1>1 DEF TypeInv
<1>3. TurnInv'
  <2>1. preTurn - 1 \in 1..Len(mem') /\ (preTurn - 1) + 1 = preTurn
    BY <1>0, <1>1
  <2>2. mem'[preTurn - 1].kind = "user"
    <3>1. mem'[preTurn - 1] = mem[(preTurn - 1) + 1]
      BY <1>1, <2>1
    <3> QED
      BY <1>0, <2>1, <3>1
  <2>3. FromUser(mem') # {}
    BY <1>1, <2>1, <2>2 DEF FromUser
  <2> QED
    BY <1>0, <2>3 DEF TurnInv
<1>4. RowsInv'
  BY <1>0, SameRows
<1>5. FreshInv'
  BY <1>0, <1>1 DEF FreshInv
<1>6. PairInv'
  <2> SUFFICES ASSUME ~slipped PROVE PairedBut(mem', 0)
    BY <1>0 DEF PairInv
  <2>1. PairedBut(mem, 0)
    BY <1>0 DEF PairInv
  <2>2. 1 + Len(mem') <= Len(mem) /\ ~(1 + Len(mem') < Len(mem)) /\ 1 \in Nat
    BY <1>0, <1>1
  <2>3. \A j \in 1..1 : Asks(mem[j]) => j + mem[j].calls <= 1
    BY <1>0 DEF Asks
  <2>4. \A i \in 1..Len(mem') : mem'[i].kind = mem[i + 1].kind /\ mem'[i].calls = mem[i + 1].calls
    BY <1>1
  <2> QED
    BY <1>0, <1>1, <2>1, <2>2, <2>3, <2>4, StretchIsPaired
<1>7. ASSUME ~slipped
      PROVE  Len(ids) = Len(mem') /\ \A i \in 1..Len(ids) : ids[i] = mem[i + 1].id /\ i + 0 = i
  BY <1>0, <1>1, <1>7 DEF IdsInv
<1>8. IdsInv'
  BY <1>0, <1>1, <1>7 DEF IdsInv
<1>9. DiskInv'
  <2> SUFFICES ASSUME ~slipped PROVE DiskInv'
    BY <1>0 DEF DiskInv
  <2>1. /\ \A i \in 1..Len(ids) : HasRow(store[active], ids[i])
        /\ \A i, j \in 1..Len(ids) : i < j => ids[i] < ids[j]
        /\ \A i \in 1..Len(shown) :
             HasRow(store[active], shown[i]) =>
               \E j \in 1..Len(ids) : ids[j] = shown[i] /\ mem[j + 1].kind = "user"
    BY <1>0 DEF DiskInv
  <2>2. \A j \in 1..Len(ids) : mem'[j + 0].kind = mem[j + 1].kind
    BY <1>1, <1>7
  <2>3. \A i \in 1..Len(shown) :
          HasRow(store[active], shown[i]) =>
            \E j \in 1..Len(ids) : ids[j] = shown[i] /\ mem'[j + 0].kind = "user"
    BY <2>1, <2>2
  <2>4. store'[active'] = store[active] /\ ids' = ids /\ shown' = shown
    BY <1>0
  <2> QED
    BY <1>0, <2>1, <2>3, <2>4 DEF DiskInv
<1> QED
  BY <1>2, <1>3, <1>4, <1>5, <1>6, <1>8, <1>9 DEF Inv

-----------------------------------------------------------------------------
(* The answer to a send, with a continuation or without.                    *)

\* The id the window is told is that of the last message of the person.
LEMMA RespondIs ==
  ASSUME Inv, pc = "budget", Respond
  PROVE  \E u \in 1..Len(mem) :
           /\ mem[u].kind = "user" /\ mem[u].id \in Nat /\ mem[u].id <= fresh
           /\ shown' \in Seq(Nat) /\ Len(shown') = Len(shown) + 1
           /\ \A i \in 1..Len(shown) : shown'[i] = shown[i] /\ shown[i] <= fresh
           /\ shown'[Len(shown) + 1] = mem[u].id
<1>0. mem \in Seq(Message) /\ Len(mem) \in Nat /\ shown \in Seq(Nat) /\ FromUser(mem) # {}
      /\ FreshInv
  BY DEF Inv, TypeInv, TurnInv
<1>1. FromUser(mem) \subseteq 1..Len(mem) /\ \A i \in FromUser(mem) : mem[i].kind = "user"
  BY <1>0 DEF FromUser
<1>2. PICK u \in 1..Len(mem) : u = Max(UserAt) /\ mem[u].kind = "user"
  BY <1>0, <1>1, MaxIs DEF UserAt
<1>3. mem[u].id \in Nat /\ mem[u].id <= fresh
  BY <1>0, MessageAt DEF FreshInv
<1>4. shown' = Append(shown, mem[u].id)
  BY <1>2 DEF Respond
<1>5. /\ shown' \in Seq(Nat) /\ Len(shown') = Len(shown) + 1
      /\ \A i \in 1..Len(shown) : shown'[i] = shown[i]
      /\ shown'[Len(shown) + 1] = mem[u].id
  BY <1>0, <1>3, <1>4, Appended
<1> QED
  BY <1>0, <1>2, <1>3, <1>5 DEF FreshInv

LEMMA CarryOnKeeps ==
  ASSUME Inv, CarryOn
  PROVE  Inv'
<1>0. /\ TypeInv /\ TurnInv /\ RowsInv /\ FreshInv /\ PairInv /\ IdsInv /\ DiskInv
      /\ Len(mem) \in Nat /\ Len(ids) \in Nat /\ Len(shown) \in Nat
      /\ pc = "budget" /\ pc' = "idle" /\ Respond
      /\ preTurn' = 0 /\ owed' = 0 /\ rounds' = 0 /\ saved' = 0
      /\ Prompt = 0 /\ Prompt' = 0 /\ ~InTurn /\ ~InTurn'
      /\ UNCHANGED <<active, mem, ids, made, store, fresh, slipped>>
  BY DEF Inv, TypeInv, CarryOn, Done, InTurn, Prompt
<1>1. PICK u \in 1..Len(mem) :
        /\ mem[u].kind = "user" /\ mem[u].id \in Nat /\ mem[u].id <= fresh
        /\ shown' \in Seq(Nat) /\ Len(shown') = Len(shown) + 1
        /\ \A i \in 1..Len(shown) : shown'[i] = shown[i] /\ shown[i] <= fresh
        /\ shown'[Len(shown) + 1] = mem[u].id
  BY <1>0, RespondIs
<1>2. \A i \in 1..Len(shown') : i \in 1..Len(shown) \/ i = Len(shown) + 1
  BY <1>0, <1>1
<1>3. TypeInv' /\ TurnInv'
  BY <1>0, <1>1 DEF TypeInv, TurnInv, InTurn
<1>4. RowsInv'
  BY <1>0, SameRows
<1>5. FreshInv'
  <2>1. \A i \in 1..Len(shown') : shown'[i] <= fresh
    BY <1>1, <1>2
  <2> QED
    BY <1>0, <2>1 DEF FreshInv
<1>6. PairInv' /\ IdsInv'
  BY <1>0 DEF PairInv, IdsInv
<1>7. DiskInv'
  <2> SUFFICES ASSUME ~slipped PROVE DiskInv'
    BY <1>0 DEF DiskInv
  <2>1. u \in 1..Len(ids) /\ ids[u] = mem[u + 0].id /\ u + 0 = u
    BY <1>0 DEF IdsInv
  <2>2. /\ \A i \in 1..Len(ids) : HasRow(store[active], ids[i])
        /\ \A i, j \in 1..Len(ids) : i < j => ids[i] < ids[j]
        /\ \A i \in 1..Len(shown) :
             HasRow(store[active], shown[i]) =>
               \E j \in 1..Len(ids) : ids[j] = shown[i] /\ mem[j + 0].kind = "user"
    BY <1>0 DEF DiskInv
  <2>3. ASSUME NEW i \in 1..Len(shown'), HasRow(store[active], shown'[i])
        PROVE  \E j \in 1..Len(ids) : ids[j] = shown'[i] /\ mem[j + 0].kind = "user"
    <3>1. CASE i \in 1..Len(shown)
      <4>1. shown'[i] = shown[i] /\ HasRow(store[active], shown[i])
        BY <1>1, <2>3, <3>1
      <4> QED
        BY <2>2, <3>1, <4>1
    <3>2. CASE i = Len(shown) + 1
      <4>1. shown'[i] = mem[u].id /\ mem[u].kind = "user" /\ mem[u + 0] = mem[u]
        BY <1>1, <2>1, <3>2
      <4> QED
        BY <2>1, <4>1
    <3> QED
      BY <1>2, <3>1, <3>2
  <2>4. store'[active'] = store[active] /\ ids' = ids /\ mem' = mem
    BY <1>0
  <2> QED
    BY <1>0, <2>2, <2>3, <2>4 DEF DiskInv
<1> QED
  BY <1>3, <1>4, <1>5, <1>6, <1>7 DEF Inv

\* Rows with the next ids in a conversation that had none.
RowsMade(c, rows) ==
  /\ store' = [store EXCEPT ![c] = rows]
  /\ fresh' = fresh + Len(rows)
  /\ made' = made \cup {c}
  /\ c \in Unused /\ rows \in Seq(Message)
  /\ \A i \in 1..Len(rows) : rows[i].id = fresh + i

LEMMA RowsMadeKeeps ==
  ASSUME TypeInv, RowsInv, NEW c, NEW rows, RowsMade(c, rows)
  PROVE  /\ store' \in [Conversations -> Seq(Message)] /\ fresh' \in Nat /\ fresh <= fresh'
         /\ made' \subseteq Conversations
         /\ RowsInv'
         /\ \A n \in Nat : HasRow(store'[c], n) <=> n \in (fresh + 1)..(fresh + Len(rows))
<1>0. /\ c \in Conversations /\ fresh \in Nat /\ Len(rows) \in Nat
      /\ store \in [Conversations -> Seq(Message)] /\ made \subseteq Conversations
      /\ rows \in Seq(Message)
  BY DEF RowsMade, TypeInv, Unused
<1>1. /\ store'[c] = rows
      /\ \A d \in Conversations : d # c => store'[d] = store[d]
      /\ store' \in [Conversations -> Seq(Message)]
  BY <1>0 DEF RowsMade
<1>2. fresh' \in Nat /\ fresh <= fresh' /\ fresh' = fresh + Len(rows)
  BY <1>0 DEF RowsMade
<1>3. RowsInv'
  <2>1. ASSUME NEW d \in Conversations
        PROVE  /\ \A i \in 1..Len(store'[d]) : store'[d][i].id \in 1..fresh'
               /\ \A i, j \in 1..Len(store'[d]) : i < j => store'[d][i].id < store'[d][j].id
    <3>1. CASE d = c
      BY <1>0, <1>1, <1>2, <3>1 DEF RowsMade
    <3>2. CASE d # c
      <4>1. store'[d] = store[d] /\ \A i \in 1..Len(store[d]) : store[d][i].id \in 1..fresh
        BY <1>1, <2>1, <3>2 DEF RowsInv
      <4> QED
        BY <1>0, <1>2, <2>1, <4>1 DEF RowsInv
    <3> QED
      BY <3>1, <3>2
  <2>2. ASSUME NEW d \in Unused' PROVE store'[d] = <<>>
    <3>1. d \in Unused /\ d # c /\ d \in Conversations
      BY <2>2 DEF Unused, RowsMade, Conversations
    <3> QED
      BY <1>1, <3>1 DEF RowsInv
  <2> QED
    BY <2>1, <2>2 DEF RowsInv, Conversations
<1>4. ASSUME NEW n \in Nat
      PROVE  HasRow(store'[c], n) <=> n \in (fresh + 1)..(fresh + Len(rows))
  <2>1. HasRow(store'[c], n) <=> \E k \in 1..Len(rows) : rows[k].id = n
    BY <1>1 DEF HasRow
  <2>2. \A k \in 1..Len(rows) : rows[k].id = fresh + k
    BY DEF RowsMade
  <2>3. ASSUME n \in (fresh + 1)..(fresh + Len(rows)) PROVE HasRow(store'[c], n)
    <3>1. n - fresh \in 1..Len(rows) /\ fresh + (n - fresh) = n
      BY <1>0, <2>3
    <3> QED
      BY <2>1, <2>2, <3>1
  <2>4. ASSUME HasRow(store'[c], n) PROVE n \in (fresh + 1)..(fresh + Len(rows))
    BY <1>0, <2>1, <2>2, <2>4
  <2> QED
    BY <2>3, <2>4
<1> QED
  BY <1>0, <1>1, <1>2, <1>3, <1>4 DEF RowsMade

\* What a continuation is seeded with: a summary, and memory from a message of the
\* person on.
LEMMA SeedIs ==
  ASSUME TypeInv, CutPoints # {}
  PROVE  \E p \in 1..Len(mem) :
           /\ mem[p].kind = "user"
           /\ Seed \in Seq(Message) /\ Len(Seed) = Len(mem) - p + 2 /\ Seed[1].kind = "user"
           /\ SubSeq(mem, p, Len(mem)) \in Seq(Message)
           /\ Len(SubSeq(mem, p, Len(mem))) = Len(mem) - p + 1
           /\ \A i \in 1..(Len(mem) - p + 1) :
                /\ SubSeq(mem, p, Len(mem))[i] = mem[i + (p - 1)]
                /\ Seed[i + 1] = mem[i + (p - 1)]
<1>0. mem \in Seq(Message) /\ Len(mem) \in Nat
  BY DEF TypeInv
<1>1. CutPoints \subseteq 1..Len(mem) /\ \A i \in CutPoints : mem[i].kind = "user"
  BY <1>0 DEF CutPoints, UserAt, FromUser
<1>2. PICK p \in 1..Len(mem) : p = Max(CutPoints) /\ mem[p].kind = "user"
  BY <1>0, <1>1, MaxIs
<1>3. /\ SubSeq(mem, p, Len(mem)) \in Seq(Message)
      /\ Len(SubSeq(mem, p, Len(mem))) = Len(mem) - p + 1
      /\ \A i \in 1..(Len(mem) - p + 1) : SubSeq(mem, p, Len(mem))[i] = mem[i + (p - 1)]
  BY <1>0, SuffixIs
<1>4. PICK t \in Seq(Message) : t = SubSeq(mem, p, Len(mem)) /\ Len(t) = Len(mem) - p + 1
  BY <1>3
<1>5. Seed = <<Msg("user", 0, 0)>> \o t
  BY <1>2, <1>4 DEF Seed
<1>6. Msg("user", 0, 0) \in Message /\ Msg("user", 0, 0).kind = "user"
  BY MsgIs
<1>7. PICK u \in Message : u = Msg("user", 0, 0) /\ u.kind = "user"
  BY <1>6
<1>8. /\ <<u>> \o t \in Seq(Message) /\ Len(<<u>> \o t) = Len(t) + 1
      /\ (<<u>> \o t)[1] = u
      /\ \A i \in 1..Len(t) : (<<u>> \o t)[i + 1] = t[i]
  BY PutInFront
<1>9. Seed \in Seq(Message) /\ Len(Seed) = Len(t) + 1 /\ Seed[1].kind = "user"
      /\ \A i \in 1..Len(t) : Seed[i + 1] = t[i]
  BY <1>5, <1>7, <1>8
<1>10. Len(Seed) = Len(mem) - p + 2
  BY <1>0, <1>4, <1>9
<1>11. \A i \in 1..(Len(mem) - p + 1) : Seed[i + 1] = mem[i + (p - 1)]
  BY <1>3, <1>4, <1>9
<1> QED
  BY <1>2, <1>3, <1>9, <1>10, <1>11

LEMMA SeedRowsAre ==
  ASSUME NEW s \in Seq(Message), fresh \in Nat
  PROVE  /\ SeedRows(s) \in Seq(Message) /\ Len(SeedRows(s)) = Len(s)
         /\ \A i \in 1..Len(s) : SeedRows(s)[i].id = fresh + i
<1>1. \A i \in 1..Len(s) : s[i] \in Message /\ fresh + i \in Nat
  BY MessageAt
<1>2. \A i \in 1..Len(s) : Row(s[i], fresh + i) \in Message /\ Row(s[i], fresh + i).id = fresh + i
  BY <1>1, RowIs
<1>3. SeedRows(s) \in [1..Len(s) -> Message]
  BY <1>2 DEF SeedRows
<1>4. Len(s) \in Nat
  OBVIOUS
<1> QED
  BY <1>2, <1>3, <1>4, FunctionIsSeq DEF SeedRows

LEMMA ContinueFailsKeeps ==
  ASSUME Inv, NEW c \in Unused, NEW n \in Nat, ContinueFails(c, n)
  PROVE  Inv'
<1>0. /\ TypeInv /\ TurnInv /\ RowsInv /\ FreshInv
      /\ Len(mem) \in Nat /\ mem \in Seq(Message) /\ Len(shown) \in Nat /\ fresh \in Nat
      /\ pc = "budget" /\ pc' = "idle" /\ Respond /\ CutPoints # {} /\ slipped' = TRUE
      /\ preTurn' = 0 /\ owed' = 0 /\ rounds' = 0 /\ saved' = 0
      /\ ~InTurn' /\ active \in Conversations
      /\ UNCHANGED <<active, mem, ids>>
  BY DEF Inv, TypeInv, ContinueFails, Done, InTurn
<1>1. PICK u \in 1..Len(mem) :
        /\ mem[u].kind = "user" /\ mem[u].id \in Nat /\ mem[u].id <= fresh
        /\ shown' \in Seq(Nat) /\ Len(shown') = Len(shown) + 1
        /\ \A i \in 1..Len(shown) : shown'[i] = shown[i] /\ shown[i] <= fresh
        /\ shown'[Len(shown) + 1] = mem[u].id
  BY <1>0, RespondIs
<1>2. PICK rows : rows = SubSeq(SeedRows(Seed), 1, n)
  OBVIOUS
<1>3. rows \in Seq(Message) /\ Len(rows) = n /\ \A i \in 1..n : rows[i].id = fresh + i
  <2>1. Seed \in Seq(Message) /\ Len(Seed) \in Nat
    <3>1. Seed \in Seq(Message)
      BY <1>0, SeedIs
    <3> QED
      BY <3>1
  <2>2. /\ SeedRows(Seed) \in Seq(Message) /\ Len(SeedRows(Seed)) = Len(Seed)
        /\ \A i \in 1..Len(Seed) : SeedRows(Seed)[i].id = fresh + i
    BY <1>0, <2>1, SeedRowsAre
  <2>3. n \in 0..Len(SeedRows(Seed))
    BY <2>1, <2>2 DEF ContinueFails
  <2>4. /\ SubSeq(SeedRows(Seed), 1, n) \in Seq(Message) /\ Len(SubSeq(SeedRows(Seed), 1, n)) = n
        /\ \A i \in 1..n : SubSeq(SeedRows(Seed), 1, n)[i] = SeedRows(Seed)[i]
    BY <2>2, <2>3, PrefixIs
  <2>5. \A i \in 1..n : i \in 1..Len(Seed)
    BY <2>1, <2>2, <2>3
  <2> QED
    BY <1>2, <2>2, <2>4, <2>5
<1>4. RowsMade(c, rows)
  BY <1>2, <1>3 DEF RowsMade, ContinueFails
<1>5. /\ store' \in [Conversations -> Seq(Message)] /\ fresh' \in Nat /\ fresh <= fresh'
      /\ made' \subseteq Conversations /\ RowsInv'
  BY <1>0, <1>4, RowsMadeKeeps
<1>6. TypeInv' /\ TurnInv'
  BY <1>0, <1>1, <1>5 DEF TypeInv, TurnInv, InTurn
<1>7. FreshInv'
  <2>1. \A i \in 1..Len(mem) : mem[i].id \in Nat /\ mem[i].id <= fresh
    BY <1>0, MessageAt DEF FreshInv
  <2>2. \A i \in 1..Len(mem) : mem[i].id <= fresh'
    BY <1>0, <1>5, <2>1
  <2>3. \A i \in 1..Len(shown') : shown'[i] \in Nat
    BY <1>1, ElementOfSeq
  <2>4. \A i \in 1..Len(shown') : i \in 1..Len(shown) \/ i = Len(shown) + 1
    BY <1>0, <1>1
  <2>5. \A i \in 1..Len(shown') : shown'[i] <= fresh
    BY <1>1, <2>4
  <2>6. \A i \in 1..Len(shown') : shown'[i] <= fresh'
    BY <1>0, <1>5, <2>3, <2>5
  <2> QED
    BY <1>0, <2>2, <2>6 DEF FreshInv
<1>8. PairInv' /\ IdsInv' /\ DiskInv'
  BY <1>0 DEF PairInv, IdsInv, DiskInv
<1> QED
  BY <1>5, <1>6, <1>7, <1>8 DEF Inv

LEMMA ContinueKeeps ==
  ASSUME Inv, NEW c \in Unused, Continue(c)
  PROVE  Inv'
<1>0. /\ TypeInv /\ TurnInv /\ RowsInv /\ FreshInv /\ PairInv
      /\ Len(mem) \in Nat /\ mem \in Seq(Message) /\ Len(shown) \in Nat /\ fresh \in Nat
      /\ pc = "budget" /\ pc' = "idle" /\ Respond /\ CutPoints # {} /\ slipped' = slipped
      /\ preTurn' = 0 /\ owed' = 0 /\ rounds' = 0 /\ saved' = 0
      /\ ~InTurn' /\ Prompt' = 0 /\ active' = c /\ c \in Conversations /\ ids' = IdsOf(mem')
  BY DEF Inv, TypeInv, Continue, Done, InTurn, Prompt, Unused
<1>1. PICK u \in 1..Len(mem) :
        /\ mem[u].kind = "user" /\ mem[u].id \in Nat /\ mem[u].id <= fresh
        /\ shown' \in Seq(Nat) /\ Len(shown') = Len(shown) + 1
        /\ \A i \in 1..Len(shown) : shown'[i] = shown[i] /\ shown[i] <= fresh
        /\ shown'[Len(shown) + 1] = mem[u].id
  BY <1>0, RespondIs
<1>2. PICK p \in 1..Len(mem) :
        /\ mem[p].kind = "user"
        /\ Seed \in Seq(Message) /\ Len(Seed) = Len(mem) - p + 2 /\ Seed[1].kind = "user"
        /\ SubSeq(mem, p, Len(mem)) \in Seq(Message)
        /\ Len(SubSeq(mem, p, Len(mem))) = Len(mem) - p + 1
        /\ \A i \in 1..(Len(mem) - p + 1) :
             /\ SubSeq(mem, p, Len(mem))[i] = mem[i + (p - 1)]
             /\ Seed[i + 1] = mem[i + (p - 1)]
  BY <1>0, SeedIs
<1>3. Len(Seed) \in Nat /\ \A i \in 1..Len(Seed) : Seed[i] \in Message
  BY <1>2, MessageAt
<1>4. /\ mem' \in Seq(Message) /\ Len(mem') = Len(Seed)
      /\ \A i \in 1..Len(Seed) : /\ mem'[i].kind = Seed[i].kind /\ mem'[i].calls = Seed[i].calls
                                  /\ mem'[i].id = fresh + i
  <2>1. mem' = [i \in 1..Len(Seed) |-> [Seed[i] EXCEPT !.id = fresh + i]]
    BY <1>2 DEF Continue
  <2>2. \A i \in 1..Len(Seed) : fresh + i \in Nat
    BY <1>0, <1>3
  <2>3. \A i \in 1..Len(Seed) :
          /\ [Seed[i] EXCEPT !.id = fresh + i] \in Message
          /\ [Seed[i] EXCEPT !.id = fresh + i].kind = Seed[i].kind
          /\ [Seed[i] EXCEPT !.id = fresh + i].calls = Seed[i].calls
          /\ [Seed[i] EXCEPT !.id = fresh + i].id = fresh + i
    BY <1>3, <2>2 DEF Message
  <2>4. mem' \in [1..Len(Seed) -> Message]
    BY <2>1, <2>3
  <2>5. mem' \in Seq(Message) /\ Len(mem') = Len(Seed)
    BY <1>3, <2>4, FunctionIsSeq
  <2> QED
    BY <2>1, <2>3, <2>5
<1>5. RowsMade(c, SeedRows(Seed)) /\ Len(SeedRows(Seed)) = Len(Seed)
  <2>1. /\ SeedRows(Seed) \in Seq(Message) /\ Len(SeedRows(Seed)) = Len(Seed)
        /\ \A i \in 1..Len(Seed) : SeedRows(Seed)[i].id = fresh + i
    BY <1>0, <1>2, SeedRowsAre
  <2> QED
    BY <2>1 DEF RowsMade, Continue
<1>6. /\ store' \in [Conversations -> Seq(Message)] /\ fresh' \in Nat /\ fresh <= fresh'
      /\ fresh' = fresh + Len(Seed)
      /\ made' \subseteq Conversations /\ RowsInv'
      /\ \A n \in Nat : HasRow(store'[c], n) <=> n \in (fresh + 1)..(fresh + Len(Seed))
  BY <1>0, <1>5, RowsMadeKeeps DEF RowsMade
<1>7. /\ ids' \in Seq(Nat) /\ Len(ids') = Len(Seed)
      /\ \A i \in 1..Len(Seed) : ids'[i] = fresh + i /\ ids'[i] = mem'[i].id /\ fresh + i \in Nat
  <2>1. IdsOf(mem') \in Seq(Nat) /\ Len(IdsOf(mem')) = Len(mem')
        /\ \A i \in 1..Len(mem') : IdsOf(mem')[i] = mem'[i].id
    BY <1>4, IdsAre
  <2> QED
    BY <1>0, <1>3, <1>4, <2>1
<1>8. TypeInv' /\ TurnInv'
  BY <1>0, <1>1, <1>4, <1>6, <1>7 DEF TypeInv, TurnInv, InTurn
<1>9. \A i \in 1..Len(shown') : shown'[i] \in Nat /\ shown'[i] <= fresh
  <2>1. \A i \in 1..Len(shown') : shown'[i] \in Nat
    BY <1>1, ElementOfSeq
  <2>2. \A i \in 1..Len(shown') : i \in 1..Len(shown) \/ i = Len(shown) + 1
    BY <1>0, <1>1
  <2> QED
    BY <1>1, <2>1, <2>2
<1>10. FreshInv'
  <2>1. \A i \in 1..Len(mem') : mem'[i].id <= fresh'
    BY <1>0, <1>3, <1>4, <1>6
  <2>2. \A i \in 1..Len(shown') : shown'[i] <= fresh'
    BY <1>0, <1>6, <1>9
  <2> QED
    BY <2>1, <2>2 DEF FreshInv
<1>11. PairInv'
  <2> SUFFICES ASSUME ~slipped PROVE PairedBut(mem', 0)
    BY <1>0 DEF PairInv
  <2>1. PairedBut(mem, 0)
    BY <1>0 DEF PairInv
  <2>2. PICK t \in Seq(Message) :
          /\ Len(t) = Len(mem) - p + 1
          /\ \A i \in 1..Len(t) : t[i] = mem[i + (p - 1)] /\ Seed[i + 1] = t[i]
    BY <1>2
  <2>3. PairedBut(t, 0)
    <3>1. /\ p - 1 \in Nat /\ (p - 1) + Len(t) <= Len(mem) /\ ~((p - 1) + Len(t) < Len(mem))
      BY <1>0, <2>2
    <3>2. ASSUME NEW j \in 1..(p - 1), Asks(mem[j]) PROVE j + mem[j].calls <= p - 1
      <4>1. mem[p].kind # "tool"
        BY <1>2
      <4> QED
        BY <1>0, <2>1, <3>2, <4>1, NoCallReachesPast
    <3>3. \A i \in 1..Len(t) : t[i].kind = mem[i + (p - 1)].kind /\ t[i].calls = mem[i + (p - 1)].calls
      BY <2>2
    <3> QED
      BY <1>0, <2>1, <3>1, <3>2, <3>3, StretchIsPaired
  <2>4. Len(t) \in Nat /\ 1 + Len(t) = Len(mem') /\ 1 \in Nat
    BY <1>0, <1>2, <1>4, <2>2
  <2>5. \A i \in 1..Len(t) : mem'[i + 1].kind = t[i].kind /\ mem'[i + 1].calls = t[i].calls
    <3>1. \A i \in 1..Len(t) : i + 1 \in 1..Len(Seed)
      BY <1>4, <2>4
    <3> QED
      BY <1>4, <2>2, <3>1
  <2>6. \A i \in 1..Len(mem') : i <= 1 \/ i > 1 + Len(t) => Plain(mem'[i])
    <3>1. \A i \in 1..Len(mem') : i <= 1 \/ i > 1 + Len(t) => i = 1
      BY <2>4
    <3>2. 1 \in 1..Len(Seed)
      BY <1>4, <2>4
    <3>3. Plain(mem'[1])
      BY <1>2, <1>4, <3>2 DEF Plain, Asks
    <3> QED
      BY <3>1, <3>3
  <2>7. 1 + Len(t) <= Len(mem') /\ mem' \in Seq(Message)
    BY <1>4, <2>4
  <2> QED
    BY <2>3, <2>4, <2>5, <2>6, <2>7, PlainAroundPaired
<1>12. IdsInv'
  <2>1. \A i \in 1..Len(Seed) : i + 0 = i
    BY <1>3
  <2> QED
    BY <1>0, <1>4, <1>7, <2>1 DEF IdsInv
<1>13. DiskInv'
  <2>1. ASSUME NEW i \in 1..Len(ids') PROVE HasRow(store'[c], ids'[i])
    <3>1. ids'[i] \in Nat /\ ids'[i] = fresh + i /\ i \in 1..Len(Seed)
      BY <1>7
    <3>2. ids'[i] \in (fresh + 1)..(fresh + Len(Seed))
      BY <1>0, <1>3, <3>1
    <3> QED
      BY <1>6, <3>1, <3>2
  <2>2. \A i, j \in 1..Len(ids') : i < j => ids'[i] < ids'[j]
    <3>1. \A i \in 1..Len(ids') : ids'[i] = fresh + i
      BY <1>7
    <3>2. \A i, j \in 1..Len(ids') : i < j => fresh + i < fresh + j
      BY <1>0
    <3> QED
      BY <3>1, <3>2
  <2>3. ASSUME NEW i \in 1..Len(shown') PROVE ~HasRow(store'[c], shown'[i])
    <3>1. shown'[i] \in Nat /\ shown'[i] <= fresh
      BY <1>9
    <3>2. ~(shown'[i] \in (fresh + 1)..(fresh + Len(Seed)))
      BY <1>0, <1>3, <3>1
    <3> QED
      BY <1>6, <3>1, <3>2
  <2> QED
    BY <1>0, <2>1, <2>2, <2>3 DEF DiskInv
<1> QED
  BY <1>6, <1>8, <1>10, <1>11, <1>12, <1>13 DEF Inv

-----------------------------------------------------------------------------
(* Going back.                                                              *)

LEMMA CutIs ==
  ASSUME NEW S, NEW s \in Seq(S), NEW n \in Nat
  PROVE  /\ Cut(s, n) \in Seq(S) /\ Len(Cut(s, n)) = (IF n < Len(s) THEN n ELSE Len(s))
         /\ \A i \in 1..Len(Cut(s, n)) : Cut(s, n)[i] = s[i] /\ i \in 1..Len(s)
<1>1. Len(s) \in Nat
  OBVIOUS
<1>2. CASE n < Len(s)
  <2>1. Cut(s, n) = SubSeq(s, 1, n) /\ n \in 0..Len(s)
    BY <1>1, <1>2 DEF Cut
  <2> QED
    BY <1>1, <1>2, <2>1, PrefixIs
<1>3. CASE ~(n < Len(s))
  <2>1. Cut(s, n) = SubSeq(s, 1, Len(s)) /\ Len(s) \in 0..Len(s)
    BY <1>1, <1>3 DEF Cut
  <2> QED
    BY <1>1, <1>3, <2>1, PrefixIs
<1> QED
  BY <1>2, <1>3

\* The rows of the open conversation that are older than one of them.
LEMMA RowsBefore ==
  ASSUME TypeInv, RowsInv, NEW to \in Nat, to \in Range(IdsOf(store[active])),
         store' = [store EXCEPT ![active] = SubSeq(@, 1, Position(to, IdsOf(@)) - 1)],
         UNCHANGED <<made, fresh, active>>
  PROVE  /\ store' \in [Conversations -> Seq(Message)] /\ RowsInv'
         /\ \A n \in Nat : HasRow(store'[active'], n) <=> HasRow(store[active], n) /\ n < to
<1>0. /\ active \in Conversations /\ store \in [Conversations -> Seq(Message)] /\ fresh \in Nat
      /\ store[active] \in Seq(Message)
  BY DEF TypeInv
<1>1. PICK old \in Seq(Message) : old = store[active]
  BY <1>0
<1>2. PICK p \in 1..Len(old) : p = Position(to, IdsOf(old)) /\ old[p].id = to
  <2>1. IdsOf(old) \in Seq(Nat) /\ Len(IdsOf(old)) = Len(old)
        /\ \A i \in 1..Len(old) : IdsOf(old)[i] = old[i].id
    BY IdsAre
  <2>2. to \in Range(IdsOf(old))
    BY <1>1
  <2>3. Position(to, IdsOf(old)) \in 1..Len(IdsOf(old)) /\ IdsOf(old)[Position(to, IdsOf(old))] = to
    BY <2>1, <2>2, PositionIs
  <2> QED
    BY <2>1, <2>3
<1>3. PICK new : new = SubSeq(old, 1, p - 1)
  OBVIOUS
<1>4. /\ new \in Seq(Message) /\ Len(new) = p - 1
      /\ \A i \in 1..(p - 1) : new[i] = old[i] /\ i \in 1..Len(old)
  <2>1. p - 1 \in 0..Len(old)
    BY <1>2
  <2>2. /\ SubSeq(old, 1, p - 1) \in Seq(Message) /\ Len(SubSeq(old, 1, p - 1)) = p - 1
        /\ \A i \in 1..(p - 1) : SubSeq(old, 1, p - 1)[i] = old[i]
    BY <2>1, PrefixIs
  <2>3. \A i \in 1..(p - 1) : i \in 1..Len(old)
    BY <1>2
  <2> QED
    BY <1>3, <2>2, <2>3
<1>5. store' = [store EXCEPT ![active] = new]
  BY <1>0, <1>1, <1>2, <1>3
<1>6. /\ store'[active] = new /\ store' \in [Conversations -> Seq(Message)]
      /\ \A c \in Conversations : c # active => store'[c] = store[c]
  BY <1>0, <1>4, <1>5
<1>7. /\ \A i \in 1..Len(old) : old[i].id \in 1..fresh
      /\ \A i, j \in 1..Len(old) : i < j => old[i].id < old[j].id
  BY <1>0, <1>1 DEF RowsInv
<1>8. RowsInv'
  <2>1. ASSUME NEW c \in Conversations
        PROVE  /\ \A i \in 1..Len(store'[c]) : store'[c][i].id \in 1..fresh'
               /\ \A i, j \in 1..Len(store'[c]) : i < j => store'[c][i].id < store'[c][j].id
    <3>1. CASE c = active
      <4>1. \A i \in 1..Len(new) : new[i] = old[i] /\ i \in 1..Len(old)
        BY <1>4
      <4>2. \A i \in 1..Len(new) : new[i].id \in 1..fresh'
        BY <1>7, <4>1
      <4>3. \A i, j \in 1..Len(new) : i < j => new[i].id < new[j].id
        BY <1>7, <4>1
      <4> QED
        BY <1>6, <3>1, <4>2, <4>3
    <3>2. CASE c # active
      BY <1>6, <2>1, <3>2 DEF RowsInv
    <3> QED
      BY <3>1, <3>2
  <2>2. ASSUME NEW c \in Unused' PROVE store'[c] = <<>>
    <3>1. c \in Unused /\ c \in Conversations /\ store[c] = <<>>
      BY <2>2 DEF Unused, Conversations, RowsInv
    <3>2. c # active
      BY <1>1, <1>2, <3>1
    <3> QED
      BY <1>6, <3>1, <3>2
  <2> QED
    BY <2>1, <2>2 DEF RowsInv, Conversations
<1>9. ASSUME NEW n \in Nat
      PROVE  HasRow(store'[active'], n) <=> HasRow(store[active], n) /\ n < to
  <2>1. HasRow(store'[active'], n) <=> \E k \in 1..(p - 1) : new[k].id = n
    BY <1>4, <1>6 DEF HasRow
  <2>2. HasRow(store[active], n) <=> \E k \in 1..Len(old) : old[k].id = n
    BY <1>1 DEF HasRow
  <2>3. ASSUME NEW k \in 1..Len(old), old[k].id < to PROVE k \in 1..(p - 1)
    <3>1. ~(k = p) /\ ~(p < k)
      <4>1. old[k].id \in Nat
        BY <1>7
      <4>2. ~(to < old[k].id) /\ old[k].id # to
        BY <2>3, <4>1
      <4> QED
        BY <1>2, <1>7, <4>2
    <3> QED
      BY <3>1
  <2>4. \A k \in 1..(p - 1) : k \in 1..Len(old) /\ k < p
    BY <1>2
  <2>5. \A k \in 1..(p - 1) : new[k].id = old[k].id /\ old[k].id < to
    BY <1>2, <1>4, <1>7, <2>4
  <2> QED
    BY <2>1, <2>2, <2>3, <2>4, <2>5
<1> QED
  BY <1>6, <1>8, <1>9

LEMMA RewindKeeps ==
  ASSUME Inv, NEW to \in Range(shown), Rewind(to)
  PROVE  Inv'
<1>0. /\ TypeInv /\ TurnInv /\ RowsInv /\ FreshInv /\ PairInv /\ IdsInv /\ DiskInv
      /\ Len(mem) \in Nat /\ mem \in Seq(Message) /\ Len(ids) \in Nat /\ ids \in Seq(Nat)
      /\ Len(shown) \in Nat /\ shown \in Seq(Nat) /\ active \in Conversations
      /\ pc = "idle" /\ pc' = "idle" /\ Prompt = 0 /\ Prompt' = 0 /\ ~InTurn /\ ~InTurn'
      /\ UNCHANGED <<active, made, fresh, preTurn, owed, rounds, saved, slipped>>
  BY DEF Inv, TypeInv, Rewind, InTurn, Prompt, turnVars
<1>1. PICK x \in 1..Len(shown) : x = Position(to, shown) /\ shown[x] = to /\ to \in Nat
  <2>1. Position(to, shown) \in 1..Len(shown) /\ shown[Position(to, shown)] = to
    BY <1>0, PositionIs
  <2> QED
    BY <1>0, <2>1, ElementOfSeq
<1>2. /\ store' \in [Conversations -> Seq(Message)] /\ RowsInv'
      /\ \A n \in Nat : HasRow(store'[active'], n) <=> HasRow(store[active], n) /\ n < to
  BY <1>0, <1>1, RowsBefore DEF Rewind
<1>3. /\ shown' \in Seq(Nat) /\ Len(shown') = x - 1
      /\ \A i \in 1..Len(shown') : shown'[i] = shown[i] /\ i \in 1..Len(shown) /\ shown[i] \in Nat
  <2>1. x - 1 \in 0..Len(shown) /\ shown' = SubSeq(shown, 1, x - 1)
    BY <1>0, <1>1 DEF Rewind
  <2>2. /\ shown' \in Seq(Nat) /\ Len(shown') = x - 1
        /\ \A i \in 1..(x - 1) : shown'[i] = shown[i]
    BY <1>0, <2>1, PrefixIs
  <2>3. \A i \in 1..(x - 1) : i \in 1..Len(shown)
    BY <1>0, <1>1
  <2> QED
    BY <1>0, <2>2, <2>3, ElementOfSeq
<1>4. CASE to \notin Range(ids)
  <2>1. mem' = mem /\ ids' = ids
    BY <1>4 DEF Rewind
  <2>2. slipped
    <3> SUFFICES ASSUME ~slipped PROVE FALSE
      OBVIOUS
    <3>1. HasRow(store[active], to)
      <4>1. store[active] \in Seq(Message)
        BY <1>0 DEF TypeInv
      <4>2. /\ IdsOf(store[active]) \in Seq(Nat) /\ Len(IdsOf(store[active])) = Len(store[active])
            /\ \A i \in 1..Len(store[active]) : IdsOf(store[active])[i] = store[active][i].id
        BY <4>1, IdsAre
      <4>3. to \in Range(IdsOf(store[active]))
        BY DEF Rewind
      <4>4. \E i \in 1..Len(IdsOf(store[active])) : IdsOf(store[active])[i] = to
        BY <4>2, <4>3, RangeOf
      <4> QED
        BY <4>2, <4>4 DEF HasRow
    <3>2. \E j \in 1..Len(ids) : ids[j] = to
      BY <1>0, <1>1, <3>1 DEF DiskInv
    <3> QED
      BY <1>0, <1>4, <3>2, RangeOf
  <2>3. TypeInv' /\ TurnInv'
    BY <1>0, <1>2, <1>3, <2>1 DEF TypeInv, TurnInv, InTurn
  <2>4. FreshInv'
    BY <1>0, <1>3, <2>1 DEF FreshInv
  <2>5. PairInv' /\ IdsInv' /\ DiskInv'
    BY <1>0, <2>2 DEF PairInv, IdsInv, DiskInv
  <2> QED
    BY <1>2, <2>3, <2>4, <2>5 DEF Inv
<1>5. CASE to \in Range(ids)
  <2>1. PICK at \in 1..Len(ids) :
          at = Position(to, ids) /\ ids[at] = to /\ mem' = Cut(mem, at - 1)
          /\ ids' = SubSeq(ids, 1, at - 1) /\ at - 1 \in Nat /\ at - 1 \in 0..Len(ids)
    <3>1. Position(to, ids) \in 1..Len(ids) /\ ids[Position(to, ids)] = to
      BY <1>0, <1>5, PositionIs
    <3>2. mem' = Cut(mem, Position(to, ids) - 1) /\ ids' = SubSeq(ids, 1, Position(to, ids) - 1)
      BY <1>5 DEF Rewind
    <3>3. Position(to, ids) - 1 \in Nat /\ Position(to, ids) - 1 \in 0..Len(ids)
      BY <1>0, <3>1
    <3> QED
      BY <3>1, <3>2, <3>3
  <2>2. /\ mem' \in Seq(Message) /\ Len(mem') = (IF at - 1 < Len(mem) THEN at - 1 ELSE Len(mem))
        /\ \A i \in 1..Len(mem') : mem'[i] = mem[i] /\ i \in 1..Len(mem)
    <3>1. /\ Cut(mem, at - 1) \in Seq(Message)
          /\ Len(Cut(mem, at - 1)) = (IF at - 1 < Len(mem) THEN at - 1 ELSE Len(mem))
          /\ \A i \in 1..Len(Cut(mem, at - 1)) : Cut(mem, at - 1)[i] = mem[i] /\ i \in 1..Len(mem)
      BY <1>0, <2>1, CutIs
    <3> QED
      BY <2>1, <3>1
  <2>3. /\ ids' \in Seq(Nat) /\ Len(ids') = at - 1
        /\ \A i \in 1..(at - 1) : ids'[i] = ids[i] /\ i \in 1..Len(ids) /\ ids[i] \in Nat
    <3>1. /\ ids' \in Seq(Nat) /\ Len(ids') = at - 1
          /\ \A i \in 1..(at - 1) : ids'[i] = ids[i]
      BY <1>0, <2>1, PrefixIs
    <3>2. \A i \in 1..(at - 1) : i \in 1..Len(ids)
      BY <1>0, <2>1
    <3> QED
      BY <1>0, <3>1, <3>2, ElementOfSeq
  <2>4. TypeInv' /\ TurnInv'
    BY <1>0, <1>2, <1>3, <2>2, <2>3 DEF TypeInv, TurnInv, InTurn
  <2>5. FreshInv'
    BY <1>0, <1>3, <2>2 DEF FreshInv
  <2>6. ASSUME ~slipped
        PROVE  /\ Len(ids) = Len(mem) /\ Len(mem') = at - 1 /\ at \in 1..Len(mem)
               /\ mem[at].kind = "user" /\ \A i \in 1..Len(ids) : ids[i] = mem[i].id
    <3>1. Len(ids) = Len(mem) /\ \A i \in 1..Len(ids) : ids[i] = mem[i + 0].id
      BY <1>0, <2>6 DEF IdsInv
    <3>2. \A i \in 1..Len(ids) : i + 0 = i
      BY <1>0
    <3>3. HasRow(store[active], to)
      BY <1>0, <2>1, <2>6 DEF DiskInv
    <3>4. PICK j \in 1..Len(ids) : ids[j] = to /\ mem[j + 0].kind = "user"
      BY <1>0, <1>1, <2>6, <3>3 DEF DiskInv
    <3>5. \A i \in 1..Len(ids), k \in 1..Len(ids) : i < k => ids[i] < ids[k]
      BY <1>0, <2>6 DEF DiskInv
    <3>6. ~(j < at) /\ ~(at < j)
      BY <1>1, <2>1, <3>4, <3>5
    <3>7. j = at
      BY <1>0, <3>6
    <3> QED
      BY <1>0, <2>1, <2>2, <3>1, <3>2, <3>4, <3>7
  <2>7. PairInv'
    <3> SUFFICES ASSUME ~slipped PROVE PairedBut(mem', 0)
      BY <1>0 DEF PairInv
    <3>1. PairedBut(mem, 0)
      BY <1>0 DEF PairInv
    <3>2. /\ 0 \in Nat /\ 0 + Len(mem') <= Len(mem) /\ 0 + Len(mem') + 1 = at
      BY <1>0, <2>1, <2>6
    <3>3. \A i \in 1..Len(mem') : mem'[i].kind = mem[i + 0].kind /\ mem'[i].calls = mem[i + 0].calls
      <4>1. \A i \in 1..Len(mem') : i + 0 = i
        BY <2>2
      <4> QED
        BY <2>2, <4>1
    <3>4. mem[0 + Len(mem') + 1].kind # "tool"
      BY <2>6, <3>2
    <3>5. \A j \in 1..0 : Asks(mem[j]) => j + mem[j].calls <= 0
      OBVIOUS
    <3> QED
      BY <1>0, <2>2, <3>1, <3>2, <3>3, <3>4, <3>5, StretchIsPaired
  <2>8. IdsInv'
    <3> SUFFICES ASSUME ~slipped
                 PROVE  Len(ids') = Len(mem') /\ \A i \in 1..Len(ids') : ids'[i] = mem'[i + 0].id
      BY <1>0 DEF IdsInv
    <3>1. \A i \in 1..Len(ids') : i + 0 = i
      BY <2>3
    <3> QED
      BY <2>2, <2>3, <2>6, <3>1
  <2>9. DiskInv'
    <3> SUFFICES ASSUME ~slipped PROVE DiskInv'
      BY <1>0 DEF DiskInv
    <3>0. /\ \A i \in 1..Len(ids) : HasRow(store[active], ids[i])
          /\ \A i, j \in 1..Len(ids) : i < j => ids[i] < ids[j]
          /\ \A i \in 1..Len(shown) :
               HasRow(store[active], shown[i]) =>
                 \E j \in 1..Len(ids) : ids[j] = shown[i] /\ mem[j + 0].kind = "user"
      BY <1>0 DEF DiskInv
    <3>1. \A i \in 1..Len(ids') : HasRow(store'[active'], ids'[i])
      <4>1. \A i \in 1..Len(ids') : ids'[i] = ids[i] /\ i < at /\ i \in 1..Len(ids) /\ ids[i] \in Nat
        BY <2>1, <2>3
      <4>2. \A i \in 1..Len(ids') : HasRow(store[active], ids[i]) /\ ids[i] < to
        BY <2>1, <3>0, <4>1
      <4> QED
        BY <1>2, <4>1, <4>2
    <3>2. \A i, j \in 1..Len(ids') : i < j => ids'[i] < ids'[j]
      BY <2>3, <3>0
    <3>3. ASSUME NEW i \in 1..Len(shown'), HasRow(store'[active'], shown'[i])
          PROVE  \E j \in 1..Len(ids') : ids'[j] = shown'[i] /\ mem'[j + 0].kind = "user"
      <4>1. shown'[i] = shown[i] /\ i \in 1..Len(shown) /\ shown[i] \in Nat
        BY <1>3
      <4>2. HasRow(store[active], shown[i]) /\ shown[i] < to
        BY <1>2, <3>3, <4>1
      <4>3. PICK j \in 1..Len(ids) : ids[j] = shown[i] /\ mem[j + 0].kind = "user"
        BY <3>0, <4>1, <4>2
      <4>4. ~(at < j) /\ at # j
        <5>1. ~(to < shown[i]) /\ shown[i] # to
          BY <1>1, <4>1, <4>2
        <5> QED
          BY <2>1, <3>0, <4>3, <5>1
      <4>5. j \in 1..(at - 1) /\ j + 0 = j
        BY <1>0, <2>1, <4>4
      <4>6. j \in 1..Len(ids') /\ j \in 1..Len(mem')
        BY <2>3, <2>6, <4>5
      <4> QED
        BY <2>2, <2>3, <4>1, <4>3, <4>5, <4>6
    <3> QED
      BY <1>0, <3>1, <3>2, <3>3 DEF DiskInv
  <2> QED
    BY <1>2, <2>4, <2>5, <2>7, <2>8, <2>9 DEF Inv
<1> QED
  BY <1>4, <1>5

-----------------------------------------------------------------------------
(* Another conversation.                                                    *)

LEMMA OpenEmptyKeeps ==
  ASSUME Inv, NEW c \in Conversations, OpenEmpty(c), pc' = "idle",
         preTurn' \in Nat, owed' \in Nat, rounds' \in Nat, saved' \in Nat,
         UNCHANGED <<made, store, fresh>>
  PROVE  Inv'
<1>0. /\ TypeInv /\ RowsInv
      /\ active' = c /\ mem' = <<>> /\ ids' = <<>> /\ shown' = <<>> /\ slipped' = FALSE
      /\ UNCHANGED <<made, store, fresh>>
      /\ ~InTurn' /\ Prompt' = 0
  BY DEF Inv, OpenEmpty, InTurn, Prompt
<1>1. /\ mem' \in Seq(Message) /\ ids' \in Seq(Nat) /\ shown' \in Seq(Nat)
      /\ Len(mem') = 0 /\ Len(ids') = 0 /\ Len(shown') = 0
  BY <1>0
<1>2. TypeInv'
  BY <1>0, <1>1 DEF TypeInv
<1>3. TurnInv'
  BY <1>0 DEF TurnInv
<1>4. RowsInv'
  BY <1>0 DEF RowsInv, Unused, Conversations
<1>5. FreshInv' /\ PairInv' /\ IdsInv' /\ DiskInv'
  BY <1>0, <1>1 DEF FreshInv, PairInv, PairedBut, IdsInv, DiskInv
<1> QED
  BY <1>2, <1>3, <1>4, <1>5 DEF Inv

\* What comes back from disk, place by place: words of either side, and their ids.
LEMMA ReloadedIs ==
  ASSUME NEW rows \in Seq(Message)
  PROVE  /\ Reloaded(rows) \in Seq(Message)
         /\ Len(Reloaded(rows)) = Cardinality(Kept(rows))
         /\ Cardinality(Kept(rows)) \in Nat
         /\ \A k \in 1..Cardinality(Kept(rows)) :
              /\ Nth(Kept(rows), k) \in 1..Len(rows)
              /\ Plain(Reloaded(rows)[k])
              /\ Reloaded(rows)[k].id = rows[Nth(Kept(rows), k)].id
              /\ rows[Nth(Kept(rows), k)].kind = "user" => Reloaded(rows)[k].kind = "user"
         /\ \A k, l \in 1..Cardinality(Kept(rows)) : k < l => Nth(Kept(rows), k) < Nth(Kept(rows), l)
         /\ \A i \in FromUser(rows) :
              \E k \in 1..Cardinality(Kept(rows)) : Nth(Kept(rows), k) = i
<1>0. Len(rows) \in Nat /\ \A i \in 1..Len(rows) : rows[i] \in Message /\ rows[i].id \in Nat
  BY MessageAt
<1>1. ASSUME NEW i \in 1..Len(rows)
      PROVE  /\ Marked(rows)[i] \in Message /\ Marked(rows)[i].id = rows[i].id
             /\ rows[i].kind = "user" => Marked(rows)[i].kind = "user"
             /\ i \in Kept(rows) => Plain(Marked(rows)[i])
  <2>1. Marked(rows)[i] = IF CarriesCalls(rows, i) THEN Msg("past", 0, rows[i].id) ELSE rows[i]
    BY DEF Marked
  <2>2. /\ Msg("past", 0, rows[i].id) \in Message /\ Msg("past", 0, rows[i].id).id = rows[i].id
        /\ Msg("past", 0, rows[i].id).kind = "past"
    BY <1>0, MsgIs
  <2>3. rows[i].kind = "user" => ~CarriesCalls(rows, i)
    BY DEF CarriesCalls, Words
  <2>4. i \in Kept(rows) /\ ~CarriesCalls(rows, i) => rows[i].kind \in {"user", "answer"}
    BY DEF Kept, CarriesCalls, Words
  <2> QED
    BY <1>0, <2>1, <2>2, <2>3, <2>4 DEF Plain, Asks
<1>2. Marked(rows) \in Seq(Message) /\ Len(Marked(rows)) = Len(rows)
  <2>1. \A i \in 1..Len(rows) : Marked(rows)[i] \in Message
    BY <1>1
  <2>2. Marked(rows) \in [1..Len(rows) -> Message]
    <3>1. Marked(rows) = [i \in 1..Len(rows) |-> Marked(rows)[i]]
      BY DEF Marked
    <3>2. [i \in 1..Len(rows) |-> Marked(rows)[i]] \in [1..Len(rows) -> Message]
      BY <2>1
    <3> QED
      BY <3>1, <3>2
  <2> QED
    BY <1>0, <2>2, FunctionIsSeq
<1>3. Kept(rows) \subseteq 1..Len(rows) /\ FromUser(rows) \subseteq Kept(rows)
  BY <1>0 DEF Kept, FromUser
<1>4. /\ Cardinality(Kept(rows)) \in Nat
      /\ \A k \in 1..Cardinality(Kept(rows)) : Nth(Kept(rows), k) \in Kept(rows)
      /\ \A k, l \in 1..Cardinality(Kept(rows)) : k < l => Nth(Kept(rows), k) < Nth(Kept(rows), l)
      /\ \A i \in Kept(rows) : \E k \in 1..Cardinality(Kept(rows)) : Nth(Kept(rows), k) = i
  BY <1>0, <1>3, PlacesInOrder
<1>5. /\ Reloaded(rows) \in Seq(Message) /\ Len(Reloaded(rows)) = Cardinality(Kept(rows))
      /\ \A k \in 1..Cardinality(Kept(rows)) : Reloaded(rows)[k] = Marked(rows)[Nth(Kept(rows), k)]
  <2>1. PICK m \in Seq(Message) : m = Marked(rows) /\ Len(m) = Len(rows)
    BY <1>2
  <2>2. Kept(rows) \subseteq 1..Len(m)
    BY <1>3, <2>1
  <2>3. /\ At(m, Kept(rows)) \in Seq(Message) /\ Len(At(m, Kept(rows))) = Cardinality(Kept(rows))
        /\ \A k \in 1..Cardinality(Kept(rows)) : At(m, Kept(rows))[k] = m[Nth(Kept(rows), k)]
    BY <2>2, AtIs
  <2> QED
    BY <2>1, <2>3 DEF Reloaded
<1>6. ASSUME NEW k \in 1..Cardinality(Kept(rows))
      PROVE  /\ Nth(Kept(rows), k) \in 1..Len(rows)
             /\ Plain(Reloaded(rows)[k])
             /\ Reloaded(rows)[k].id = rows[Nth(Kept(rows), k)].id
             /\ rows[Nth(Kept(rows), k)].kind = "user" => Reloaded(rows)[k].kind = "user"
  <2>1. PICK i \in 1..Len(rows) : i = Nth(Kept(rows), k) /\ i \in Kept(rows)
    BY <1>3, <1>4
  <2>2. Reloaded(rows)[k] = Marked(rows)[i]
    BY <1>5, <2>1
  <2> QED
    BY <1>1, <2>1, <2>2
<1> QED
  BY <1>3, <1>4, <1>5, <1>6

LEMMA LoadKeeps ==
  ASSUME Inv, NEW c \in made, Load(c)
  PROVE  Inv'
<1>0. /\ TypeInv /\ TurnInv /\ RowsInv /\ c \in Conversations /\ fresh \in Nat
      /\ store[c] \in Seq(Message) /\ pc' = "idle" /\ ~InTurn' /\ Prompt' = 0
      /\ active' = c /\ slipped' = FALSE
      /\ UNCHANGED <<made, store, fresh, preTurn, owed, rounds, saved>>
  BY DEF Inv, TypeInv, Load, InTurn, Prompt, turnVars
<1>1. PICK rows \in Seq(Message) : rows = store[c]
  BY <1>0
<1>2. /\ Len(rows) \in Nat
      /\ \A i \in 1..Len(rows) : rows[i].id \in 1..fresh
      /\ \A i, j \in 1..Len(rows) : i < j => rows[i].id < rows[j].id
  BY <1>0, <1>1 DEF RowsInv
<1>3. PICK n \in Nat : n = Cardinality(Kept(rows))
  BY ReloadedIs
<1>4. /\ mem' \in Seq(Message) /\ Len(mem') = n
      /\ \A k \in 1..n : /\ Nth(Kept(rows), k) \in 1..Len(rows)
                         /\ Plain(mem'[k])
                         /\ mem'[k].id = rows[Nth(Kept(rows), k)].id
                         /\ rows[Nth(Kept(rows), k)].kind = "user" => mem'[k].kind = "user"
      /\ \A k, l \in 1..n : k < l => Nth(Kept(rows), k) < Nth(Kept(rows), l)
      /\ \A i \in FromUser(rows) : \E k \in 1..n : Nth(Kept(rows), k) = i
  <2>1. mem' = Reloaded(rows)
    BY <1>1 DEF Load
  <2> QED
    BY <1>3, <2>1, ReloadedIs
<1>5. /\ ids' \in Seq(Nat) /\ Len(ids') = n
      /\ \A k \in 1..n : ids'[k] = mem'[k].id /\ ids'[k] = rows[Nth(Kept(rows), k)].id
  <2>1. ids' = IdsOf(mem')
    BY DEF Load
  <2>2. /\ IdsOf(mem') \in Seq(Nat) /\ Len(IdsOf(mem')) = Len(mem')
        /\ \A i \in 1..Len(mem') : IdsOf(mem')[i] = mem'[i].id
    BY <1>4, IdsAre
  <2> QED
    BY <1>4, <2>1, <2>2
<1>6. /\ shown' \in Seq(Nat)
      /\ \A i \in 1..Len(shown') : \E q \in FromUser(rows) :
           q \in 1..Len(rows) /\ rows[q].kind = "user" /\ shown'[i] = rows[q].id
  <2>1. FromUser(rows) \subseteq 1..Len(rows) /\ \A q \in FromUser(rows) : rows[q].kind = "user"
    BY <1>2 DEF FromUser
  <2>2. \A k \in 1..Cardinality(FromUser(rows)) : Nth(FromUser(rows), k) \in FromUser(rows)
    BY <1>2, <2>1, PlacesInOrder
  <2>3. PICK s \in Seq(Message) : s = At(rows, FromUser(rows))
                                  /\ Len(s) = Cardinality(FromUser(rows))
                                  /\ \A k \in 1..Cardinality(FromUser(rows)) :
                                       s[k] = rows[Nth(FromUser(rows), k)]
    BY <2>1, AtIs
  <2>4. shown' = IdsOf(s)
    BY <1>1, <2>3 DEF Load
  <2>5. IdsOf(s) \in Seq(Nat) /\ Len(IdsOf(s)) = Len(s) /\ \A i \in 1..Len(s) : IdsOf(s)[i] = s[i].id
    BY IdsAre
  <2>6. ASSUME NEW i \in 1..Len(shown')
        PROVE  \E q \in FromUser(rows) :
                 q \in 1..Len(rows) /\ rows[q].kind = "user" /\ shown'[i] = rows[q].id
    <3>1. i \in 1..Cardinality(FromUser(rows)) /\ i \in 1..Len(s)
      BY <2>3, <2>4, <2>5
    <3>2. PICK q \in FromUser(rows) : q = Nth(FromUser(rows), i)
      BY <2>2, <3>1
    <3>3. shown'[i] = rows[q].id
      BY <2>3, <2>4, <2>5, <3>1, <3>2
    <3> QED
      BY <2>1, <3>3
  <2> QED
    BY <2>4, <2>5, <2>6
<1>7. TypeInv' /\ TurnInv'
  BY <1>0, <1>4, <1>5, <1>6 DEF TypeInv, TurnInv
<1>8. RowsInv'
  BY <1>0 DEF RowsInv, Unused, Conversations
<1>9. FreshInv'
  <2>1. \A i \in 1..Len(mem') : mem'[i].id <= fresh
    BY <1>0, <1>2, <1>4
  <2>2. \A i \in 1..Len(shown') : shown'[i] <= fresh
    BY <1>0, <1>2, <1>6
  <2> QED
    BY <1>0, <2>1, <2>2 DEF FreshInv
<1>10. PairInv'
  <2>1. PairedBut(mem', 0)
    BY <1>4, PlainIsPaired
  <2> QED
    BY <1>0, <2>1 DEF PairInv
<1>11. IdsInv'
  <2>1. \A i \in 1..n : i + 0 = i
    OBVIOUS
  <2> QED
    BY <1>0, <1>4, <1>5, <2>1 DEF IdsInv
<1>12. DiskInv'
  <2>0. store'[active'] = rows
    BY <1>0, <1>1
  <2>1. \A i \in 1..Len(ids') : HasRow(rows, ids'[i])
    BY <1>4, <1>5 DEF HasRow
  <2>2. ASSUME NEW i \in 1..Len(ids'), NEW j \in 1..Len(ids'), i < j PROVE ids'[i] < ids'[j]
    <3>1. /\ ids'[i] = rows[Nth(Kept(rows), i)].id /\ ids'[j] = rows[Nth(Kept(rows), j)].id
          /\ Nth(Kept(rows), i) \in 1..Len(rows) /\ Nth(Kept(rows), j) \in 1..Len(rows)
          /\ Nth(Kept(rows), i) < Nth(Kept(rows), j)
      BY <1>4, <1>5, <2>2
    <3> QED
      BY <1>2, <3>1
  <2>3. ASSUME NEW i \in 1..Len(shown')
        PROVE  \E j \in 1..Len(ids') : ids'[j] = shown'[i] /\ mem'[j + 0].kind = "user"
    <3>1. PICK q \in FromUser(rows) :
            q \in 1..Len(rows) /\ rows[q].kind = "user" /\ shown'[i] = rows[q].id
      BY <1>6
    <3>2. PICK k \in 1..n : Nth(Kept(rows), k) = q
      BY <1>4, <3>1
    <3>3. ids'[k] = rows[q].id /\ k \in 1..Len(ids') /\ k + 0 = k
      BY <1>5, <3>2
    <3>4. rows[Nth(Kept(rows), k)].kind = "user"
      BY <3>1, <3>2
    <3>5. mem'[k].kind = "user"
      BY <1>4, <3>4
    <3> QED
      BY <3>1, <3>3, <3>5
  <2> QED
    BY <1>0, <2>0, <2>1, <2>2, <2>3 DEF DiskInv
<1> QED
  BY <1>7, <1>8, <1>9, <1>10, <1>11, <1>12 DEF Inv

-----------------------------------------------------------------------------
LEMMA NextKeeps ==
  ASSUME Inv, [Next]_vars
  PROVE  Inv'
<1>0. TypeInv
  BY DEF Inv
<1>1. CASE Send
  BY <1>1, SendKeeps
<1>2. CASE SendUnsaved
  BY <1>2, SendUnsavedKeeps
<1>3. CASE \E kind \in {"ask", "say"}, calls \in 1..MaxToolCalls : AskForTools(kind, calls)
  BY <1>3, AskKeeps
<1>4. CASE ToolResult
  BY <1>4, ToolResultKeeps
<1>5. CASE Answer
  BY <1>5, AnswerKeeps
<1>6. CASE TurnFails
  BY <1>6, RollBackKeeps DEF TurnFails, InTurn
<1>7. CASE PersistMessage
  BY <1>7, PersistMessageKeeps
<1>8. CASE PersistFails
  BY <1>8, RollBackKeeps DEF PersistFails, InTurn
<1>9. CASE TurnSaved
  BY <1>9, TurnSavedKeeps
<1>10. CASE CarryOn
  BY <1>10, CarryOnKeeps
<1>11. CASE \E c \in Unused : FreshId(c) /\ Continue(c)
  BY <1>11, ContinueKeeps
<1>12. CASE \E c \in Unused : FreshId(c) /\ \E n \in 0..MaxIds : ContinueFails(c, n)
  <2>1. PICK c \in Unused, n \in 0..MaxIds : ContinueFails(c, n)
    BY <1>12
  <2>2. n \in Nat
    BY TranscriptAssumption
  <2> QED
    BY <2>1, <2>2, ContinueFailsKeeps
<1>13. CASE \E to \in Range(shown) : Rewind(to)
  BY <1>13, RewindKeeps
<1>14. CASE \E c \in Unused : FreshId(c) /\ New(c)
  <2>1. PICK c \in Unused : New(c)
    BY <1>14
  <2>2. /\ c \in Conversations /\ OpenEmpty(c) /\ pc' = "idle" /\ UNCHANGED <<made, store, fresh>>
        /\ preTurn' \in Nat /\ owed' \in Nat /\ rounds' \in Nat /\ saved' \in Nat
    BY <1>0, <2>1 DEF New, Unused, TypeInv, turnVars
  <2> QED
    BY <2>2, OpenEmptyKeeps
<1>15. CASE \E c \in made : Load(c)
  BY <1>15, LoadKeeps
<1>16. CASE \E c \in Unused : FreshId(c) /\ Relaunch(c)
  <2>1. PICK c \in Unused : Relaunch(c)
    BY <1>16
  <2>2. /\ c \in Conversations /\ OpenEmpty(c) /\ pc' = "idle" /\ UNCHANGED <<made, store, fresh>>
        /\ preTurn' \in Nat /\ owed' \in Nat /\ rounds' \in Nat /\ saved' \in Nat
    BY <2>1 DEF Relaunch, Unused, Done
  <2> QED
    BY <2>2, OpenEmptyKeeps
<1>17. CASE UNCHANGED vars
  BY <1>17 DEF vars, turnVars, Inv, TypeInv, TurnInv, RowsInv, FreshInv, PairInv, IdsInv, DiskInv,
               InTurn, Prompt, OpenAsk, Unused, Conversations
<1> QED
  BY <1>1, <1>2, <1>3, <1>4, <1>5, <1>6, <1>7, <1>8, <1>9, <1>10, <1>11, <1>12, <1>13, <1>14,
     <1>15, <1>16, <1>17 DEF Next

LEMMA InvAlways == Spec => []Inv
<1>1. Inv /\ [Next]_vars => Inv'
  BY NextKeeps
<1> QED
  BY InitInv, <1>1, PTL DEF Spec

\* run_turn, the roll-back of _run_send_message, _handle_rewind, _handle_conversation_load
\* and _maybe_continue_for_budget: however many tools a response asks for and in whatever
\* order turns fail, rewinds and reloads come, the model is never shown a call without its
\* results or a result without its call.
THEOREM CallsCorrect == Spec => []CallsArePaired
<1>1. Inv => CallsArePaired
  <2> SUFFICES ASSUME Inv, pc # "tools", ~slipped PROVE Paired(mem)
    BY DEF CallsArePaired
  <2>1. PairedBut(mem, 0) /\ Len(mem) \in Nat /\ mem \in Seq(Message)
    BY DEF Inv, PairInv, TypeInv
  <2>2. \A i \in 1..Len(mem) : i # 0
    BY <2>1
  <2> QED
    BY <2>1, <2>2 DEF Paired, PairedBut
<1> QED
  BY InvAlways, <1>1, PTL

\* _persist_message, _handle_rewind and the two other writers of _message_ids: between
\* turns the n-th id is that of the n-th message, for any length of conversation.
THEOREM IdsCorrect == Spec => []IdsFollowMessages
<1>1. Inv => IdsFollowMessages
  <2> SUFFICES ASSUME Inv, pc = "idle", ~slipped PROVE ids = IdsOf(mem)
    BY DEF IdsFollowMessages
  <2>1. /\ mem \in Seq(Message) /\ ids \in Seq(Nat) /\ Len(ids) = Len(mem)
        /\ \A i \in 1..Len(ids) : ids[i] = mem[i + 0].id
    BY DEF Inv, TypeInv, IdsInv, InTurn, Prompt
  <2>2. \A i \in 1..Len(ids) : ids[i] = mem[i].id
    BY <2>1
  <2> QED
    BY <2>1, <2>2 DEF IdsOf
<1> QED
  BY InvAlways, <1>1, PTL

\* _handle_rewind and the roll-back of a failed turn: between turns every message the
\* model is shown has its row in the conversation on disk.
THEOREM MemoryCorrect == Spec => []MemoryIsOnDisk
<1>1. Inv => MemoryIsOnDisk
  <2> SUFFICES ASSUME Inv, pc = "idle", ~slipped
               PROVE  Range(IdsOf(mem)) \subseteq Range(IdsOf(store[active]))
    BY DEF MemoryIsOnDisk
  <2>1. /\ mem \in Seq(Message) /\ ids \in Seq(Nat) /\ Len(ids) = Len(mem)
        /\ \A i \in 1..Len(ids) : ids[i] = mem[i + 0].id
        /\ \A i \in 1..Len(ids) : HasRow(store[active], ids[i])
        /\ store[active] \in Seq(Message)
    BY DEF Inv, TypeInv, IdsInv, DiskInv, InTurn, Prompt
  <2>2. \A i \in 1..Len(mem) : HasRow(store[active], mem[i].id)
    BY <2>1
  <2>3. /\ IdsOf(mem) \in Seq(Nat) /\ Len(IdsOf(mem)) = Len(mem)
        /\ \A i \in 1..Len(mem) : IdsOf(mem)[i] = mem[i].id
    BY <2>1, IdsAre
  <2>4. /\ IdsOf(store[active]) \in Seq(Nat) /\ Len(IdsOf(store[active])) = Len(store[active])
        /\ \A i \in 1..Len(store[active]) : IdsOf(store[active])[i] = store[active][i].id
    BY <2>1, IdsAre
  <2>5. ASSUME NEW x \in Range(IdsOf(mem)) PROVE x \in Range(IdsOf(store[active]))
    <3>1. PICK i \in 1..Len(mem) : x = mem[i].id
      BY <2>3, RangeOf
    <3>2. PICK k \in 1..Len(store[active]) : store[active][k].id = x
      BY <2>2, <3>1 DEF HasRow
    <3> QED
      BY <2>4, <3>2, RangeOf
  <2> QED
    BY <2>5
<1> QED
  BY InvAlways, <1>1, PTL
=============================================================================
