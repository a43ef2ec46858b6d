-------------------------- MODULE ProjectFilesProofs --------------------------
(***************************************************************************)
(* The redo stack and the way back of ProjectFiles, for every set of       *)
(* names, every history of writes and every change a person makes.         *)
(***************************************************************************)
EXTENDS ProjectFiles, Integers, FiniteSetTheorems, SequenceTheorems, WellFoundedInduction, TLAPS

-----------------------------------------------------------------------------
\* The newest and the oldest of some rows are there.
LEMMA NatHasLeast ==
  ASSUME NEW S, S \subseteq Nat, S # {}
  PROVE  \E m \in S : \A n \in S : m <= n
<1> DEFINE R == OpToRel(<, Nat)
<1>1. IsWellFoundedOn(R, Nat)
  BY NatLessThanWellFounded
<1>2. \A x, y \in Nat : x < y => <<x, y>> \in R
  BY DEF OpToRel
<1> HIDE DEF R
<1>3. PICK m \in S : \A n \in S : <<n, m>> \notin R
  BY <1>1, WFMin
<1>4. \A n \in S : ~(n < m)
  BY <1>2, <1>3
<1> QED
  BY <1>4

LEMMA NatHasGreatest ==
  ASSUME NEW b \in Nat, NEW S, S \subseteq 1..b, S # {}
  PROVE  \E m \in S : \A n \in S : n <= m
<1> DEFINE T == {b - n : n \in S}
<1>1. T # {}
  OBVIOUS
<1>2. T \subseteq Nat
  <2>1. \A n \in S : b - n \in Nat
    OBVIOUS
  <2> QED
    BY <2>1
<1>3. \A n \in S : b - n \in T
  OBVIOUS
<1>4. \A d \in T : \E n \in S : d = b - n
  OBVIOUS
<1> HIDE DEF T
<1>5. PICK d \in T : \A e \in T : d <= e
  BY <1>1, <1>2, NatHasLeast
<1>6. PICK m \in S : d = b - m
  BY <1>4
<1> QED
  BY <1>3, <1>5, <1>6

-----------------------------------------------------------------------------
\* What the disk, the texts and the rows are.
Entry(e) ==
  /\ e.is \in {"none", "file", "link"}
  /\ e.is = "file" => e.file \in Files
  /\ e.is = "link" => e.to \in Names
DiskInv ==
  /\ disk = [n \in Names |-> disk[n]] /\ \A n \in Names : Entry(disk[n])
  /\ \E S : text \in Seq(S)

RowShape(r) ==
  r = [tool |-> r.tool, name |-> r.name, prior |-> r.prior, wrote |-> r.wrote,
       file |-> r.file, reverted |-> r.reverted]
LogInv ==
  /\ \E S : log \in Seq(S)
  /\ \A k \in Rows : RowShape(log[k]) /\ log[k].name \in Names

\* What may be done again was undone.
RedoInv ==
  /\ \E S : redo \in Seq(S)
  /\ \A i \in 1..Len(redo) : redo[i] \in Rows /\ log[redo[i]].reverted
  /\ RedoIsNewest

FilesInv == DiskInv /\ LogInv /\ RedoInv

LEMMA RecentIsNewest ==
  ASSUME LogInv, RecentUnreverted # 0
  PROVE  /\ RecentUnreverted \in Unreverted
         /\ \A j \in Unreverted : j <= RecentUnreverted
<1>1. Len(log) \in Nat /\ Unreverted \subseteq 1..Len(log)
  BY DEF LogInv, Unreverted, Rows
<1>2. Unreverted # {}
  BY DEF RecentUnreverted
<1>3. \E k \in Unreverted : \A j \in Unreverted : j <= k
  BY <1>1, <1>2, NatHasGreatest
<1> QED
  BY <1>2, <1>3 DEF RecentUnreverted

LEMMA OldestIsOne ==
  ASSUME NEW c, c \subseteq Rows, c # {}
  PROVE  Oldest(c) \in c
<1>1. c \subseteq Nat
  BY DEF Rows
<1>2. \E k \in c : \A j \in c : k <= j
  BY <1>1, NatHasLeast
<1> QED
  BY <1>2 DEF Oldest

-----------------------------------------------------------------------------
\* Putting a text at a name that is no link: what it gives, and what it touches.
LEMMA ResolvesToAName == DiskInv => \A n \in Names : Resolve(n) \in Names
BY DEF DiskInv, Entry, Resolve

LEMMA EntryStays ==
  ASSUME NEW e, Entry(e), Len(text') >= Len(text), Len(text) \in Nat, Len(text') \in Nat
  PROVE  Entry(e)'
BY DEF Entry, Files

LEMMA NewFile ==
  ASSUME DiskInv, NEW n \in Names, NEW t, text' = Append(text, t),
         disk' = [disk EXCEPT ![n] = File(Len(text) + 1)]
  PROVE  /\ DiskInv' /\ disk'[n] = File(Len(text) + 1) /\ text'[Len(text) + 1] = t
         /\ Len(text) \in Nat /\ Len(text') = Len(text) + 1
         /\ \A i \in Files : text'[i] = text[i]
<1>1. PICK S : text \in Seq(S)
  BY DEF DiskInv
<1>2. text \in Seq(S \cup {t})
  BY <1>1, SeqMonotonic, S \subseteq S \cup {t}
<1>3. /\ text' \in Seq(S \cup {t}) /\ text'[Len(text) + 1] = t
      /\ Len(text) \in Nat /\ Len(text') = Len(text) + 1
      /\ \A i \in Files : text'[i] = text[i]
  BY <1>2 DEF Files
<1>4. disk'[n] = File(Len(text) + 1) /\ \A m \in Names \ {n} : disk'[m] = disk[m]
  BY DEF DiskInv
<1>5. disk' = [m \in Names |-> disk'[m]]
  BY DEF DiskInv
<1>6. ASSUME NEW m \in Names PROVE Entry(disk[m])'
  <2>1. CASE m = n
    BY <1>3, <1>4, <2>1 DEF Entry, File, Files
  <2>2. CASE m # n
    <3>1. PICK e : e = disk[m]
      OBVIOUS
    <3>2. Entry(e)
      BY <3>1 DEF DiskInv
    <3>3. Entry(e)'
      BY <1>3, <3>2, EntryStays
    <3> QED
      BY <1>4, <2>2, <3>1, <3>3
  <2> QED
    BY <2>1, <2>2
<1> QED
  BY <1>3, <1>4, <1>5, <1>6 DEF DiskInv

LEMMA NewText ==
  ASSUME DiskInv, NEW i \in Files, NEW t, text' = [text EXCEPT ![i] = t], disk' = disk
  PROVE  /\ DiskInv' /\ text'[i] = t /\ Len(text') = Len(text)
         /\ \A j \in Files \ {i} : text'[j] = text[j]
<1>1. PICK S : text \in Seq(S)
  BY DEF DiskInv
<1>2. text \in Seq(S \cup {t})
  BY <1>1, SeqMonotonic, S \subseteq S \cup {t}
<1>3. /\ text' \in Seq(S \cup {t}) /\ text'[i] = t
      /\ Len(text) \in Nat /\ Len(text') = Len(text)
      /\ \A j \in Files \ {i} : text'[j] = text[j]
  BY <1>2 DEF Files
<1> QED
  BY <1>3 DEF DiskInv, Entry, Files

LEMMA EmptyName ==
  ASSUME DiskInv, NEW n \in Names, disk' = [disk EXCEPT ![n] = Nothing], text' = text
  PROVE  DiskInv' /\ disk'[n] = Nothing /\ \A m \in Names \ {n} : disk'[m] = disk[m]
BY DEF DiskInv, Entry, Files, Nothing

\* Put writes or removes; whatever it does, the disk is a disk.
LEMMA PutKeeps ==
  ASSUME DiskInv, NEW n \in Names, NEW t, Put(n, t)
  PROVE  DiskInv'
<1>1. Resolve(n) \in Names
  BY ResolvesToAName
<1>2. CASE t = NoText
  BY <1>2, EmptyName DEF Put
<1>3. CASE t # NoText /\ disk[Resolve(n)].is = "file"
  <2>1. disk[Resolve(n)].file \in Files
    BY <1>1, <1>3 DEF DiskInv, Entry
  <2> QED
    BY <1>3, <2>1, NewText DEF Put
<1>4. CASE t # NoText /\ disk[Resolve(n)].is # "file"
  BY <1>1, <1>4, NewFile DEF Put
<1> QED
  BY <1>2, <1>3, <1>4

LEMMA PutGives ==
  ASSUME DiskInv, NEW n \in Names, disk[n].is # "link", NEW t, Put(n, t)
  PROVE  /\ TextAt(n)' = t
         /\ Touched \subseteq IF disk[n].is = "file" THEN {disk[n].file} ELSE {}
<1>1. Resolve(n) = n /\ Entry(disk[n])
  BY DEF Resolve, DiskInv
<1>2. CASE t = NoText
  <2>1. disk'[n] = Nothing /\ text' = text /\ \A m \in Names \ {n} : disk'[m] = disk[m]
    BY <1>2, EmptyName DEF Put
  <2>2. TextAt(n)' = NoText
    BY <2>1 DEF TextAt, Resolve, Nothing
  <2>3. Touched \subseteq IF disk[n].is = "file" THEN {disk[n].file} ELSE {}
    BY <1>1, <2>1 DEF Touched, Stands, Entry
  <2> QED
    BY <1>2, <2>2, <2>3
<1>3. CASE t # NoText /\ disk[n].is = "file"
  <2>1. /\ disk[n].file \in Files /\ disk' = disk
        /\ text' = [text EXCEPT ![disk[n].file] = t]
    BY <1>1, <1>3 DEF Put, Entry
  <2>2. text'[disk[n].file] = t /\ \A j \in Files \ {disk[n].file} : text'[j] = text[j]
    BY <2>1, NewText
  <2>3. TextAt(n)' = t
    BY <1>1, <1>3, <2>1, <2>2 DEF TextAt, Resolve
  <2>4. Touched \subseteq {disk[n].file}
    BY <2>1, <2>2 DEF Touched
  <2> QED
    BY <1>3, <2>3, <2>4
<1>4. CASE t # NoText /\ disk[n].is = "none"
  <2>1. /\ disk' = [disk EXCEPT ![n] = File(Len(text) + 1)] /\ text' = Append(text, t)
    BY <1>1, <1>4 DEF Put
  <2>2. /\ disk'[n] = File(Len(text) + 1) /\ text'[Len(text) + 1] = t
        /\ \A i \in Files : text'[i] = text[i]
    BY <2>1, NewFile
  <2>3. TextAt(n)' = t
    BY <2>2 DEF TextAt, Resolve, File
  <2>4. \A m \in Names \ {n} : disk'[m] = disk[m]
    BY <2>1 DEF DiskInv
  <2>5. Touched = {}
    BY <1>4, <2>2, <2>4 DEF Touched, Stands
  <2> QED
    BY <2>3, <2>5
<1> QED
  BY <1>1, <1>2, <1>3, <1>4 DEF Entry

-----------------------------------------------------------------------------
\* The rows.
LEMMA WriteMark ==
  ASSUME NEW r, RowShape(r), NEW v
  PROVE  /\ RowShape([r EXCEPT !.reverted = v]) /\ [r EXCEPT !.reverted = v].reverted = v
         /\ [r EXCEPT !.reverted = v].name = r.name
BY DEF RowShape

LEMMA MarkedKeeps ==
  ASSUME LogInv, NEW ks, NEW flag, log' = Marked(ks, flag)
  PROVE  /\ LogInv' /\ Len(log') = Len(log)
         /\ \A k \in Rows : log'[k].reverted = IF k \in ks THEN flag ELSE log[k].reverted
<1>1. Len(log) \in Nat /\ \A k \in Rows : RowShape(log[k]) /\ log[k].name \in Names
  BY DEF LogInv
<1> DEFINE M(k) == [log[k] EXCEPT !.reverted = flag]
<1>2. log' = [k \in 1..Len(log) |-> IF k \in ks THEN M(k) ELSE log[k]]
  BY DEF Marked, Rows
<1>3. \A k \in Rows : RowShape(M(k)) /\ M(k).reverted = flag /\ M(k).name = log[k].name
  BY <1>1, WriteMark
<1> HIDE DEF M
<1> DEFINE S == {IF k \in ks THEN M(k) ELSE log[k] : k \in 1..Len(log)}
<1>4. log' \in [1..Len(log) -> S]
  BY <1>2
<1> HIDE DEF S
<1>5. log' \in Seq(S) /\ Len(log') = Len(log)
  BY <1>1, <1>4
<1>6. \A k \in Rows : log'[k] = IF k \in ks THEN M(k) ELSE log[k]
  BY <1>2 DEF Rows
<1> QED
  BY <1>1, <1>3, <1>5, <1>6 DEF LogInv, Rows

LEMMA RecordKeeps ==
  ASSUME LogInv, NEW r, RowShape(r), r.name \in Names, Record(r)
  PROVE  LogInv' /\ RedoInv'
<1>1. log' = Append(log, r) /\ redo' = <<>>
  BY DEF Record, InsertActionSnapshot
<1>2. PICK S : log \in Seq(S)
  BY DEF LogInv
<1>3. log \in Seq(S \cup {r})
  BY <1>2, SeqMonotonic, S \subseteq S \cup {r}
<1>4. LogInv'
  BY <1>1, <1>3 DEF LogInv, Rows
<1>5. redo' \in Seq({})
  BY <1>1
<1> QED
  BY <1>1, <1>4, <1>5 DEF RedoInv, RedoIsNewest

\* More rows are reverted, and the stack stays.
LEMMA MoreReverted ==
  ASSUME LogInv, RedoInv, NEW ks, log' = Marked(ks, TRUE), redo' = redo
  PROVE  RedoInv'
<1>1. /\ Len(log') = Len(log)
      /\ \A k \in Rows : log'[k].reverted = IF k \in ks THEN TRUE ELSE log[k].reverted
  BY MarkedKeeps
<1>2. Unreverted' \subseteq Unreverted /\ Rows' = Rows
  BY <1>1 DEF Unreverted, Rows
<1> QED
  BY <1>1, <1>2 DEF RedoInv, RedoIsNewest

LEMMA StackStays ==
  ASSUME RedoInv, redo' = redo, log' = log
  PROVE  RedoInv'
BY DEF RedoInv, RedoIsNewest, Unreverted, Rows

\* undo_last: the newest unreverted row goes on the stack, below all that is there.
LEMMA Pushes ==
  ASSUME LogInv, RedoInv, RecentUnreverted # 0, log' = Marked({RecentUnreverted}, TRUE),
         redo' = Append(redo, RecentUnreverted)
  PROVE  RedoInv'
<1>1. PICK k : k = RecentUnreverted
  OBVIOUS
<1>2. k \in Unreverted /\ \A j \in Unreverted : j <= k
  BY <1>1, RecentIsNewest
<1>3. /\ Len(log') = Len(log)
      /\ \A j \in Rows : log'[j].reverted = IF j = k THEN TRUE ELSE log[j].reverted
  BY <1>1, MarkedKeeps
<1>4. Rows' = Rows /\ Unreverted' \subseteq Unreverted \ {k} /\ Len(log) \in Nat
  <2>1. Rows' = Rows /\ Len(log) \in Nat
    <3>1. PICK S : log \in Seq(S)
      BY DEF LogInv
    <3>2. Len(log') = Len(log)
      BY <1>3
    <3>3. Len(log) \in Nat
      BY <3>1
    <3>4. Rows' = Rows
      BY <3>2 DEF Rows
    <3> QED
      BY <3>3, <3>4
  <2>2. ASSUME NEW j \in Unreverted' PROVE j \in Unreverted \ {k}
    <3>1. j \in Rows /\ ~log'[j].reverted
      BY <2>1 DEF Unreverted
    <3>2. j # k
      BY <1>3, <3>1
    <3> QED
      BY <1>3, <3>1, <3>2 DEF Unreverted
  <2> QED
    BY <2>1, <2>2
<1>5. PICK S : redo \in Seq(S)
  BY DEF RedoInv
<1>6. redo \in Seq(S \cup {k})
  BY <1>5, SeqMonotonic, S \subseteq S \cup {k}
<1>7. /\ redo' \in Seq(S \cup {k}) /\ Len(redo') = Len(redo) + 1 /\ Len(redo) \in Nat
      /\ redo'[Len(redo) + 1] = k /\ \A i \in 1..Len(redo) : redo'[i] = redo[i]
  BY <1>1, <1>6
<1>8. \A i \in 1..Len(redo) : redo[i] \in Rows /\ log[redo[i]].reverted
  BY DEF RedoInv
<1>9. \A i \in 1..Len(redo) : /\ \A j \in Unreverted : j < redo[i]
                              /\ \A j \in 1..(i - 1) : redo[i] < redo[j]
  BY <1>5 DEF RedoInv, RedoIsNewest
<1>10. k \in Rows
  BY <1>2 DEF Unreverted
<1>11. \A i \in 1..Len(redo') : redo'[i] \in Rows' /\ log'[redo'[i]].reverted
  <2> SUFFICES ASSUME NEW i \in 1..Len(redo')
               PROVE  redo'[i] \in Rows' /\ log'[redo'[i]].reverted
    OBVIOUS
  <2>1. redo'[i] = k \/ (redo'[i] \in Rows /\ log[redo'[i]].reverted)
    BY <1>7, <1>8
  <2>2. redo'[i] \in Rows
    BY <1>10, <2>1
  <2>3. CASE redo'[i] = k
    BY <1>3, <1>4, <2>2, <2>3
  <2>4. CASE redo'[i] # k
    BY <1>3, <1>4, <2>1, <2>2, <2>4
  <2> QED
    BY <2>3, <2>4
<1>12. ASSUME NEW i \in 1..Len(redo')
       PROVE  /\ \A j \in Unreverted' : j < redo'[i]
              /\ \A j \in 1..(i - 1) : redo'[i] < redo'[j]
  <2>1. CASE i \in 1..Len(redo)
    BY <1>4, <1>7, <1>9, <2>1
  <2>2. CASE i = Len(redo) + 1
    <3>1. \A j \in Unreverted' : j \in Unreverted /\ j # k /\ j \in Nat
      <4>1. Unreverted \subseteq Nat
        BY <1>4 DEF Unreverted, Rows
      <4> QED
        BY <1>4, <4>1
    <3>2. \A j \in Unreverted' : j < redo'[i]
      BY <1>2, <1>7, <1>10, <2>2, <3>1 DEF Rows
    <3> QED
      BY <1>2, <1>7, <1>9, <2>2, <3>2
  <2> QED
    BY <1>7, <1>12, <2>1, <2>2
<1>13. RedoIsNewest'
  BY <1>7, <1>12 DEF RedoIsNewest
<1> QED
  BY <1>7, <1>11, <1>13 DEF RedoInv

\* The top of the stack leaves it: put in force again, or dropped because it cannot be.
LEMMA Pops ==
  ASSUME LogInv, RedoInv, redo # <<>>, redo' = Front(redo),
         log' = log \/ log' = Marked({Last(redo)}, FALSE)
  PROVE  RedoInv'
<1>1. PICK S : redo \in Seq(S)
  BY DEF RedoInv
<1>2. PICK top : top = Last(redo)
  OBVIOUS
<1>3. /\ Len(redo) \in Nat \ {0} /\ Len(redo') = Len(redo) - 1 /\ redo' \in Seq(S)
      /\ \A i \in 1..Len(redo') : redo'[i] = redo[i] /\ i \in 1..(Len(redo) - 1)
  <2>1. Len(redo) \in Nat \ {0} /\ \A i \in 1..(Len(redo) - 1) : redo[i] \in S
    BY <1>1
  <2>2. redo' = SubSeq(redo, 1, Len(redo) - 1)
    BY DEF Front
  <2>3. /\ redo' \in Seq(S)
        /\ Len(redo') = IF 1 <= Len(redo) - 1 THEN Len(redo) - 1 - 1 + 1 ELSE 0
        /\ \A i \in 1..(Len(redo) - 1 - 1 + 1) : redo'[i] = redo[1 + i - 1]
    BY <2>1, <2>2, SubSeqProperties
  <2>4. Len(redo') = Len(redo) - 1
    <3>1. ASSUME NEW l \in Nat \ {0}, NEW m, m = IF 1 <= l - 1 THEN l - 1 - 1 + 1 ELSE 0
          PROVE  m = l - 1
      BY <3>1
    <3>2. Len(redo') = IF 1 <= Len(redo) - 1 THEN Len(redo) - 1 - 1 + 1 ELSE 0
      BY <2>3
    <3> QED
      BY <2>1, <3>1, <3>2
  <2>5. \A i \in 1..(Len(redo) - 1) : redo'[i] = redo[i]
    BY <2>1, <2>3
  <2> QED
    BY <2>1, <2>3, <2>4, <2>5
<1>4. top = redo[Len(redo)]
  BY <1>2 DEF Last
<1>5. \A i \in 1..Len(redo) : redo[i] \in Rows /\ log[redo[i]].reverted
  BY DEF RedoInv
<1>6. \A i \in 1..Len(redo) : /\ \A j \in Unreverted : j < redo[i]
                              /\ \A j \in 1..(i - 1) : redo[i] < redo[j]
  BY <1>1 DEF RedoInv, RedoIsNewest
\* What is left lies above the top.
<1>7. \A i \in 1..Len(redo') : top < redo'[i]
  BY <1>3, <1>4, <1>6
<1>8. top \in Rows
  BY <1>3, <1>4, <1>5
<1>9. /\ Len(log') = Len(log)
      /\ \A j \in Rows \ {top} : log'[j].reverted = log[j].reverted
  BY <1>2, MarkedKeeps
<1>10. Rows' = Rows /\ Unreverted' \subseteq Unreverted \cup {top}
  BY <1>9 DEF Unreverted, Rows
<1>11. Rows \subseteq Nat
  BY DEF Rows, LogInv
<1>12. \A i \in 1..Len(redo') : redo'[i] \in Rows' /\ log'[redo'[i]].reverted
  <2> SUFFICES ASSUME NEW i \in 1..Len(redo')
               PROVE  redo'[i] \in Rows' /\ log'[redo'[i]].reverted
    OBVIOUS
  <2>1. redo'[i] \in Rows /\ log[redo'[i]].reverted
    BY <1>3, <1>5
  <2>2. redo'[i] # top
    BY <1>7, <1>8, <1>11, <2>1
  <2> QED
    BY <1>9, <1>10, <2>1, <2>2
<1>13. \A i \in 1..Len(redo') : /\ \A j \in Unreverted' : j < redo'[i]
                                /\ \A j \in 1..(i - 1) : redo'[i] < redo'[j]
  BY <1>3, <1>6, <1>7, <1>10
<1>14. RedoIsNewest'
  BY <1>3, <1>13 DEF RedoIsNewest
<1> QED
  BY <1>3, <1>12, <1>14 DEF RedoInv

-----------------------------------------------------------------------------
\* The operations.
LEMMA DiskStays == DiskInv /\ UNCHANGED <<disk, text>> => DiskInv'
BY DEF DiskInv, Entry, Files

LEMMA LogStays == LogInv /\ UNCHANGED log => LogInv'
BY DEF LogInv, Rows

LEMMA ARowIsARow ==
  ASSUME NEW tool, NEW n, NEW prior, NEW t, NEW i, NEW r, r = Row(tool, n, prior, t, i)
  PROVE  RowShape(r) /\ r.name = n
BY DEF Row, RowShape

LEMMA WriteKeeps ==
  ASSUME FilesInv, NEW n \in Names, NEW t, WriteProjectFile(n, t)
  PROVE  FilesInv'
<1>1. PICK m \in Names : m = Resolve(n)
  BY ResolvesToAName DEF FilesInv
<1>2. PICK r : r = Row("write", m, TextAt(m), t, disk'[m].file)
  OBVIOUS
<1>3. Put(m, t) /\ Record(r)
  BY <1>1, <1>2 DEF WriteProjectFile
<1>4. RowShape(r) /\ r.name = m
  BY <1>2, ARowIsARow
<1>5. DiskInv'
  BY <1>3, PutKeeps DEF FilesInv
<1> QED
  BY <1>3, <1>4, <1>5, RecordKeeps DEF FilesInv

LEMMA SaveKeeps ==
  ASSUME FilesInv, NEW n \in Names, NEW t, SaveFile(n, t)
  PROVE  FilesInv'
<1>1. PICK r : r = Row("save", n, NoText, t, disk'[n].file)
  OBVIOUS
<1>2. Put(n, t) /\ Record(r)
  BY <1>1 DEF SaveFile
<1>3. RowShape(r) /\ r.name = n
  BY <1>1, ARowIsARow
<1>4. DiskInv'
  BY <1>2, PutKeeps DEF FilesInv
<1> QED
  BY <1>2, <1>3, <1>4, RecordKeeps DEF FilesInv

LEMMA UndoKeeps ==
  ASSUME FilesInv, UndoLastAction
  PROVE  FilesInv'
<1>1. PICK k : k = RecentUnreverted
  OBVIOUS
<1>2. /\ k # 0 /\ (UndoWrite(k) \/ UndoSave(k))
      /\ MarkSnapshotReverted(k)
      /\ redo' = IF log' = log THEN redo ELSE Append(redo, k)
  BY <1>1 DEF UndoLastAction, UndoLast
<1>3. k \in Rows /\ log[k].name \in Names
  <2>1. LogInv /\ RecentUnreverted # 0
    BY <1>1, <1>2 DEF FilesInv
  <2>2. k \in Unreverted
    BY <1>1, <2>1, RecentIsNewest
  <2> QED
    BY <2>1, <2>2 DEF LogInv, Unreverted
<1>4. DiskInv'
  <2>1. CASE UndoWrite(k)
    <3>1. Put(log[k].name, log[k].prior)
      BY <2>1 DEF UndoWrite
    <3> QED
      BY <1>3, <3>1, PutKeeps DEF FilesInv
  <2>2. CASE UndoSave(k)
    <3>1. disk' = [disk EXCEPT ![log[k].name] = Nothing] /\ text' = text
      BY <2>2 DEF UndoSave
    <3> QED
      BY <1>3, <3>1, EmptyName DEF FilesInv
  <2> QED
    BY <1>2, <2>1, <2>2
<1>5. CASE log' = log
  BY <1>2, <1>4, <1>5, LogStays, StackStays DEF FilesInv
<1>6. CASE log' # log
  <2>1. log' = Marked({k}, TRUE) /\ redo' = Append(redo, k)
    BY <1>2, <1>6 DEF MarkSnapshotReverted, MarkFails
  <2> QED
    <3>1. /\ LogInv /\ RedoInv /\ RecentUnreverted # 0
          /\ log' = Marked({RecentUnreverted}, TRUE) /\ redo' = Append(redo, RecentUnreverted)
      BY <1>1, <1>2, <2>1 DEF FilesInv
    <3>2. LogInv'
      BY <2>1, <3>1, MarkedKeeps
    <3>3. RedoInv'
      BY <3>1, Pushes
    <3> QED
      BY <1>4, <3>2, <3>3 DEF FilesInv
<1> QED
  BY <1>5, <1>6

LEMMA RedoKeeps ==
  ASSUME FilesInv, RedoLastAction
  PROVE  FilesInv'
<1>1. PICK k : k = Last(redo)
  OBVIOUS
<1>2. redo # <<>> /\ k \in Rows /\ log[k].name \in Names
  <2>1. PICK S : redo \in Seq(S)
    BY DEF FilesInv, RedoInv
  <2>2. redo # <<>>
    BY DEF RedoLastAction, RedoLast
  <2>3. Len(redo) \in 1..Len(redo)
    BY <2>1, <2>2
  <2> QED
    BY <1>1, <2>2, <2>3 DEF FilesInv, RedoInv, LogInv, Last
<1>3. CASE redo' = Front(redo) /\ UNCHANGED <<disk, text, log>>
  BY <1>2, <1>3, DiskStays, LogStays, Pops DEF FilesInv
<1>4. CASE /\ RedoSave(k) /\ MarkSnapshotUnreverted(k)
           /\ redo' = IF log' = log THEN redo ELSE Front(redo)
  <2>1. Put(log[k].name, log[k].wrote)
    BY <1>4 DEF RedoSave
  <2>2. DiskInv'
    BY <1>2, <2>1, PutKeeps DEF FilesInv
  <2>3. CASE log' = log
    BY <1>4, <2>2, <2>3, LogStays, StackStays DEF FilesInv
  <2>4. CASE log' # log
    <3>1. log' = Marked({k}, FALSE) /\ redo' = Front(redo)
      BY <1>4, <2>4 DEF MarkSnapshotUnreverted, MarkFails
    <3> QED
      BY <1>1, <1>2, <2>2, <3>1, MarkedKeeps, Pops DEF FilesInv
  <2> QED
    BY <2>3, <2>4
<1> QED
  BY <1>1, <1>3, <1>4 DEF RedoLastAction, RedoLast

\* The chain of a name is a set of writes, and its target is a name.
LEMMA ChainIsOfWrites == \A n : ChainFor(n) \subseteq Writes
BY DEF ChainFor, Chain

LEMMA TargetIsAName ==
  ASSUME LogInv, NEW c, c \subseteq Writes, c # {}
  PROVE  Oldest(c) \in Rows /\ Target(c) \in Names
<1>1. c \subseteq Rows
  BY DEF Writes, Unreverted
<1> QED
  BY <1>1, OldestIsOne DEF Target, LogInv

LEMMA RevertKeeps ==
  ASSUME FilesInv, NEW n \in Names, RevertFile(n)
  PROVE  FilesInv'
<1>1. PICK c : c = ChainFor(n)
  OBVIOUS
<1>2. /\ c # {} /\ c \subseteq Writes
      /\ Put(Target(c), log[Oldest(c)].prior)
      /\ log' = Marked(c, TRUE) \/ log' = log
      /\ redo' = redo
  BY <1>1, ChainIsOfWrites DEF RevertFile, RevertPath, RevertWrites, MarkSnapshotsReverted, MarkFails
<1>3. DiskInv'
  BY <1>2, TargetIsAName, PutKeeps DEF FilesInv
<1>4. CASE log' = log
  BY <1>2, <1>3, <1>4, LogStays, StackStays DEF FilesInv
<1>5. CASE log' = Marked(c, TRUE)
  BY <1>2, <1>3, <1>5, MarkedKeeps, MoreReverted DEF FilesInv
<1> QED
  BY <1>2, <1>4, <1>5

\* The person.
LEMMA MovesKeeps ==
  ASSUME DiskInv, NEW n \in Names, PersonMoves(n)
  PROVE  DiskInv'
<1>1. text' = text /\ disk = [k \in Names |-> disk[k]] /\ \A k \in Names : Entry(disk[k])
  BY DEF PersonMoves, DiskInv
<1>2. ASSUME NEW e, Entry(e) PROVE Entry(e)'
  BY <1>1, <1>2 DEF Entry, Files
<1>3. Entry(Nothing) /\ \A m \in Names : Entry(Link(m))
  BY DEF Entry, Nothing, Link
<1>4. disk' = [k \in Names |-> disk'[k]] /\ \A k \in Names : Entry(disk'[k])
  <2>1. CASE disk' = [disk EXCEPT ![n] = Nothing]
    BY <1>1, <1>3, <2>1
  <2>2. ASSUME NEW m \in Names, disk' = [disk EXCEPT ![n] = Nothing, ![m] = disk[n]]
        PROVE  disk' = [k \in Names |-> disk'[k]] /\ \A k \in Names : Entry(disk'[k])
    BY <1>1, <1>3, <2>2
  <2>3. ASSUME NEW m \in Names, disk' = [disk EXCEPT ![m] = disk[n]]
        PROVE  disk' = [k \in Names |-> disk'[k]] /\ \A k \in Names : Entry(disk'[k])
    BY <1>1, <1>3, <2>3
  <2>4. ASSUME NEW m \in Names, disk' = [disk EXCEPT ![n] = Link(m)]
        PROVE  disk' = [k \in Names |-> disk'[k]] /\ \A k \in Names : Entry(disk'[k])
    BY <1>1, <1>3, <2>4
  <2> QED
    BY <2>1, <2>2, <2>3, <2>4 DEF PersonMoves
<1>5. \A k \in Names : Entry(disk[k])'
  <2> SUFFICES ASSUME NEW k \in Names PROVE Entry(disk[k])'
    OBVIOUS
  <2>1. PICK e : e = disk'[k]
    OBVIOUS
  <2> QED
    BY <1>2, <1>4, <2>1
<1> QED
  BY <1>1, <1>4, <1>5 DEF DiskInv

LEMMA EditsKeeps ==
  ASSUME DiskInv, NEW n \in Names, NEW t, PersonEdits(n, t) \/ PersonReplaces(n, t)
  PROVE  DiskInv'
<1>1. CASE PersonEdits(n, t)
  <2>1. disk[n].file \in Files
    BY <1>1 DEF PersonEdits, DiskInv, Entry
  <2> QED
    BY <1>1, <2>1, NewText DEF PersonEdits
<1>2. CASE PersonReplaces(n, t)
  BY <1>2, NewFile DEF PersonReplaces
<1> QED
  BY <1>1, <1>2

\* prune leaves rows that were there.
LEMMA PrunedIsALog ==
  ASSUME LogInv, log' \in Pruned
  PROVE  LogInv'
<1>1. CASE log' = log
  BY <1>1, LogStays
<1>2. CASE log' # log
  <2>1. PICK K \in SUBSET Rows :
          \E f \in [1..Cardinality(K) -> K] : log' = [i \in 1..Cardinality(K) |-> log[f[i]]]
    BY <1>2 DEF Pruned
  <2>2. PICK f \in [1..Cardinality(K) -> K] : log' = [i \in 1..Cardinality(K) |-> log[f[i]]]
    BY <2>1
  <2>3. PICK S : log \in Seq(S)
    BY DEF LogInv
  <2>4. Len(log) \in Nat
    BY <2>3
  <2>5. Cardinality(K) \in Nat
    <3>1. IsFiniteSet(Rows)
      BY <2>4, FS_Interval DEF Rows
    <3> QED
      BY <3>1, FS_Subset, FS_CardinalityType
  <2>6. PICK b \in Nat : b = Cardinality(K)
    BY <2>5
  <2>7. \A i \in 1..b : f[i] \in Rows /\ log'[i] = log[f[i]]
    BY <2>2, <2>6
  <2>8. \A i \in 1..b : log'[i] \in S
    BY <2>3, <2>7 DEF Rows
  <2>9. log' \in [1..b -> S]
    BY <2>2, <2>6, <2>8
  <2>10. log' \in Seq(S) /\ Len(log') = b
    BY <2>9
  <2> QED
    BY <2>7, <2>10 DEF LogInv, Rows
<1> QED
  BY <1>1, <1>2

LEMMA RestartKeeps ==
  ASSUME FilesInv, Restart
  PROVE  FilesInv'
<1>1. log' \in Pruned /\ redo' = <<>> /\ UNCHANGED <<disk, text>>
  BY DEF Restart
<1>2. DiskInv' /\ LogInv'
  BY <1>1, DiskStays, PrunedIsALog DEF FilesInv
<1>3. redo' \in Seq({})
  BY <1>1
<1> QED
  BY <1>1, <1>2, <1>3 DEF FilesInv, RedoInv, RedoIsNewest

LEMMA StepKeepsFiles == FilesInv /\ [Next]_vars => FilesInv'
<1> SUFFICES ASSUME FilesInv, [Next]_vars PROVE FilesInv'
  OBVIOUS
<1>1. ASSUME DiskInv', UNCHANGED <<log, redo>> PROVE FilesInv'
  BY <1>1, LogStays, StackStays DEF FilesInv
<1>2. ASSUME UNCHANGED <<disk, text, log, redo>> PROVE FilesInv'
  BY <1>1, <1>2, DiskStays DEF FilesInv
<1>3. CASE \E n \in Names, t \in AddisonTexts : WriteProjectFile(n, t) \/ SaveFile(n, t)
  BY <1>3, WriteKeeps, SaveKeeps
<1>4. CASE \E n \in Names : RevertFile(n)
  BY <1>4, RevertKeeps
<1>5. CASE \E n \in Names : PersonMoves(n)
  BY <1>1, <1>5, MovesKeeps DEF PersonMoves, Person, FilesInv
<1>6. CASE \E n \in Names, t \in PersonTexts : PersonEdits(n, t) \/ PersonReplaces(n, t)
  BY <1>1, <1>6, EditsKeeps DEF PersonEdits, PersonReplaces, Person, FilesInv
<1>7. CASE UndoLastAction
  BY <1>7, UndoKeeps
<1>8. CASE RedoLastAction
  BY <1>8, RedoKeeps
<1>9. CASE GrantTrust \/ RevokeTrust \/ ProfileSet
  BY <1>2, <1>9 DEF GrantTrust, RevokeTrust, ProfileSet, Person
<1>10. CASE Restart
  BY <1>10, RestartKeeps
<1>11. CASE UNCHANGED vars
  BY <1>2, <1>11 DEF vars
<1> QED
  BY <1>3, <1>4, <1>5, <1>6, <1>7, <1>8, <1>9, <1>10, <1>11 DEF Next

LEMMA InitFiles == Init => FilesInv
<1> SUFFICES ASSUME Init PROVE FilesInv
  OBVIOUS
<1>1. PICK t : text = <<t>>
  BY DEF Init
<1>2. text \in Seq({t}) /\ Len(text) = 1
  BY <1>1
<1>3. DiskInv
  BY <1>2 DEF Init, DiskInv, Entry, Files, File, Nothing
<1>4. log \in Seq({}) /\ redo \in Seq({}) /\ Len(log) = 0 /\ Len(redo) = 0
  BY DEF Init
<1>5. LogInv
  BY <1>4 DEF LogInv, Rows
<1>6. RedoInv
  BY <1>4 DEF RedoInv, RedoIsNewest
<1> QED
  BY <1>3, <1>5, <1>6 DEF FilesInv

-----------------------------------------------------------------------------
(* Redoing in stack order never jumps over a newer action, for any number of writes,   *)
(* undos, reverts and restarts, and whichever rows cannot be marked (undo_manager.py).  *)
THEOREM RedoFollowsTheHistory == Spec => []RedoIsNewest
<1>1. FilesInv => RedoIsNewest
  BY DEF FilesInv, RedoInv
<1> QED
  BY <1>1, InitFiles, StepKeepsFiles, PTL DEF Spec

\* Of the steps, these put a write back.
LEMMA WhatPutsBack ==
  ASSUME FilesInv, PutsAWriteBack
  PROVE  Touched \subseteq {log[k].file : k \in Writes}
<1>1. CASE RecentUnreverted # 0 /\ UndoWrite(RecentUnreverted)
  <2>1. PICK k : k = RecentUnreverted
    OBVIOUS
  <2>2. k \in Unreverted
    BY <1>1, <2>1, RecentIsNewest DEF FilesInv
  <2>3. /\ log[k].tool = "write" /\ ~AnotherFileStands(log[k].name, {log[k].file})
        /\ Put(log[k].name, log[k].prior)
    BY <1>1, <2>1 DEF UndoWrite
  <2>4. k \in Writes
    BY <2>2, <2>3 DEF Writes
  <2>5. PICK n \in Names : n = log[k].name
    BY <2>2 DEF FilesInv, LogInv, Unreverted
  <2>6. disk[n].is # "link" /\ (disk[n].is = "file" => disk[n].file = log[k].file)
    BY <2>3, <2>5 DEF AnotherFileStands, ReplacedByALink
  <2>7. Touched \subseteq IF disk[n].is = "file" THEN {disk[n].file} ELSE {}
    BY <2>3, <2>5, <2>6, PutGives DEF FilesInv
  <2> QED
    BY <2>4, <2>6, <2>7
<1>2. ASSUME NEW n \in Names, RevertFile(n)
      PROVE  Touched \subseteq {log[k].file : k \in Writes}
  <2>1. PICK c : c = ChainFor(n)
    OBVIOUS
  <2>2. /\ c # {} /\ c \subseteq Writes /\ ReplacedBy(c) = "no"
        /\ Put(Target(c), log[Oldest(c)].prior)
    BY <1>2, <2>1, ChainIsOfWrites DEF RevertFile, RevertPath, RevertWrites
  <2>3. PICK m \in Names : m = Target(c)
    BY <2>2, TargetIsAName DEF FilesInv
  <2>4. disk[m].is # "link" /\ (disk[m].is = "file" => disk[m].file \in Identities(c))
    BY <2>2, <2>3 DEF ReplacedBy, AnotherFileStands, ReplacedByALink
  <2>5. Touched \subseteq IF disk[m].is = "file" THEN {disk[m].file} ELSE {}
    BY <2>2, <2>3, <2>4, PutGives DEF FilesInv
  <2>6. Identities(c) \subseteq {log[k].file : k \in Writes}
    BY <2>2 DEF Identities
  <2> QED
    BY <2>4, <2>5, <2>6
<1> QED
  BY <1>1, <1>2 DEF PutsAWriteBack

(* Whatever the person moved, replaced or linked since: undoing a write, or reverting  *)
(* a file, changes or removes no file but one Addison wrote and has not put back        *)
(* (file_revert.py another_file_stands_there).                                          *)
THEOREM OtherFilesAreLeftAlone == Spec => KeepsOffOtherFiles
<1>1. FilesInv /\ [Next]_vars
        => [PutsAWriteBack => Touched \subseteq {log[k].file : k \in Writes}]_vars
  BY WhatPutsBack
<1> QED
  BY <1>1, InitFiles, StepKeepsFiles, PTL DEF Spec, KeepsOffOtherFiles

\* A revert gives back what the oldest row of the chain found.
LEMMA RevertGivesBefore ==
  ASSUME FilesInv, NEW n \in Names, RevertFile(n)
  PROVE  \E m \in {Target(ChainFor(n))} : TextAt(m)' = ReadEditDiff(n).before
<1>1. PICK c : c = ChainFor(n)
  OBVIOUS
<1>2. /\ c # {} /\ c \subseteq Writes /\ ReplacedBy(c) = "no"
      /\ Put(Target(c), log[Oldest(c)].prior)
  BY <1>1, ChainIsOfWrites DEF RevertFile, RevertPath, RevertWrites
<1>3. PICK m \in Names : m = Target(c)
  BY <1>2, TargetIsAName DEF FilesInv
<1>4. disk[m].is # "link"
  BY <1>2, <1>3 DEF ReplacedBy, ReplacedByALink
<1>5. TextAt(m)' = log[Oldest(c)].prior
  BY <1>2, <1>3, <1>4, PutGives DEF FilesInv
<1>6. ReadEditDiff(n).before = log[Oldest(c)].prior
  BY <1>1, <1>2 DEF ReadEditDiff, Before
<1> QED
  BY <1>1, <1>3, <1>5, <1>6

(* The pane the review surface shows as "before" is, to the text, what a revert leaves, *)
(* by whatever name of the chain it is asked for (_workspace_read_edit_diff against     *)
(* revert_path).                                                                        *)
THEOREM RevertIsWhatWasShown == Spec => RevertGivesWhatTheDiffShows
<1>1. FilesInv /\ [Next]_vars
        => [\A n \in Names : RevertFile(n) =>
              \E m \in {Target(ChainFor(n))} : TextAt(m)' = ReadEditDiff(n).before]_vars
  BY RevertGivesBefore
<1> QED
  BY <1>1, InitFiles, StepKeepsFiles, PTL DEF Spec, RevertGivesWhatTheDiffShows

\* A chain that is listed: the name it would be put back at is in the ledger, or its
\* bytes are Addison's and the shell adopts it; and it is no link.
LEMMA ListedIsWritten ==
  ASSUME LogInv, NEW c, c \subseteq Writes, c # {}, ReplacedBy(c) = "no",
         RestorableMap[Target(c)] \/ DiskState(c).unchanged
  PROVE  RevertWrites(c)
<1>1. PICK n \in Names : n = Target(c)
  BY TargetIsAName
<1>2. disk[n].is # "link"
  BY <1>1 DEF ReplacedBy, ReplacedByALink
<1>3. CASE RestorableMap[n]
  BY <1>1, <1>2, <1>3 DEF RestorableMap, Ledgered, RevertWrites, ShellRestores, Adopts, Adopted
<1>4. CASE DiskState(c).unchanged
  <2>1. TextAt(n) = log[Newest(c)].wrote
    BY <1>1, <1>4 DEF DiskState, DigestMap
  <2>2. n \in Adopts(c)
    BY <1>1, <1>2, <2>1 DEF Adopts, Adopted
  <2> QED
    BY <1>1, <1>2, <2>2 DEF RevertWrites, ShellRestores
<1> QED
  BY <1>1, <1>3, <1>4

(* What the review surface calls revertable the shell does write back, in this session *)
(* or a later one, over any chain and whatever the ledger has lost (_edit_payload       *)
(* against revert_path).                                                                *)
THEOREM RevertableIsReverted == Spec => []RevertablePromise
<1>1. FilesInv => RevertablePromise
  <2> SUFFICES ASSUME FilesInv, NEW e \in ListEdits,
                      e.says.revertable, e.says.replacedBy = "no"
               PROVE  RevertWrites(e.chain)
    BY DEF RevertablePromise
  <2>1. PICK c \in PendingEdits : e = [chain |-> c, says |-> EditPayload(c)]
    BY DEF ListEdits
  <2>2. PICK k \in Writes : c = Chain(k)
    BY <2>1 DEF PendingEdits
  <2>3. c \subseteq Writes /\ k \in c
    BY <2>2 DEF Chain
  <2>4. ReplacedBy(c) = "no" /\ (RestorableMap[Target(c)] \/ DiskState(c).unchanged)
    BY <2>1 DEF EditPayload
  <2> QED
    BY <2>1, <2>3, <2>4, ListedIsWritten DEF FilesInv
<1> QED
  BY <1>1, InitFiles, StepKeepsFiles, PTL DEF Spec
===============================================================================
