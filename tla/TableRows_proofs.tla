--------------------------- MODULE TableRows_proofs ---------------------------
(***************************************************************************)
(* Proofs about TableRows: for any number of rows, any width of the ids    *)
(* and any number of restarts, rows and ids stay side by side, a restart   *)
(* loads what was saved, an id is given out once, no row is changed in the *)
(* place of another one, and the sort index finds what was written.        *)
(***************************************************************************)
EXTENDS TableRows, TLAPS, SequenceTheorems, WellFoundedInduction

(* A table: as many ids as rows, not more than fit, and no id twice. *)
Table == [rows : Seq(Row), index : Seq(Ids), max : 0 .. MaxId]
Distinct(index) == \A i, j \in 1 .. Len(index) : index[i] = index[j] => i = j
TableOK(t) ==
    /\ t \in Table /\ Len(t.index) = Len(t.rows) /\ Len(t.rows) <= MaxRows
    /\ Distinct(t.index)

SortOK(s) ==
    /\ s = [byValue |-> s.byValue, byNum |-> s.byNum]
    /\ DOMAIN s.byValue \subseteq Values \cup {Blank}
    /\ \A v \in DOMAIN s.byValue : s.byValue[v] \in 1 .. MaxRows
    /\ DOMAIN s.byNum \subseteq 1 .. MaxRows

TypeInv ==
    /\ hasMax \in BOOLEAN /\ sorted \in BOOLEAN
    /\ TableOK(table) /\ TableOK(disk) /\ SortOK(sort)
    /\ torn \subseteq Ids /\ lost \subseteq Ids /\ unsaved \subseteq Ids /\ given \subseteq Ids
    /\ crashes \in 0 .. MaxCrash

(* A row that was written whole has its id. *)
IdsOK(t, ids) ==
    \A i \in 1 .. Len(t.rows) : t.rows[i].id = t.index[i] \/ t.index[i] \in ids
IdInv == IdsOK(table, torn) /\ IdsOK(disk, lost)

(* Rows are appended behind those that are saved, until all are saved; and *)
(* a row that is not as it is saved was changed by an action that failed.  *)
Behind(t, d) ==
    /\ Len(d.rows) <= Len(t.rows) /\ d.max <= t.max
    /\ \A j \in 1 .. Len(d.rows) : d.index[j] = t.index[j]
SavedOK(t, d, ids) ==
    \A i \in 1 .. Len(t.rows) :
        t.index[i] \notin ids =>
            i <= Len(d.rows) /\ d.rows[i] = t.rows[i] /\ d.index[i] = t.index[i]
SavedInv == Behind(table, disk) /\ SavedOK(table, disk, unsaved)

(* INDEX_MAX_NUM is saved with the row that has the number. *)
GivenInv == hasMax => \A g \in given : g <= disk.max

(* Only a row whose write has failed has an id above INDEX_MAX_NUM, if the *)
(* scripts write no ids that were never given out.                         *)
BelowOK(t, ids) == \A i \in 1 .. Len(t.rows) : t.index[i] <= t.max \/ t.index[i] \in ids
BelowInv == hasMax /\ ~AnyId => BelowOK(table, torn) /\ BelowOK(disk, lost)

(* Every value of a row is in the sort index, and has a row there that has *)
(* it, if scripts delete no row of a sorted table and write its field once. *)
SeekOK(s, t) ==
    /\ \A v \in DOMAIN s.byValue \cap Values :
         s.byValue[v] \in 1 .. Len(t.rows) /\ t.rows[s.byValue[v]].val = v
    /\ \A i \in 1 .. Len(t.rows) : t.rows[i].val \in Values => t.rows[i].val \in DOMAIN s.byValue
SeekInv == sorted /\ ~Careless => SeekOK(sort, table)

Inv == TypeInv /\ IdInv /\ SavedInv /\ GivenInv /\ BelowInv /\ SeekInv

-----------------------------------------------------------------------------
(* Sets of numbers, sequences *)

LEMMA MinFacts ==
    ASSUME NEW T, T \subseteq Nat, T # {}
    PROVE  Min(T) \in T /\ \A j \in T : Min(T) <= j
<1>1. PICK i \in T : \A j \in T : ~ (<<j, i>> \in OpToRel(<, Nat))
  BY NatLessThanWellFounded, WFMin
<1>2. ASSUME NEW j \in T PROVE i <= j
  <2>1. i \in Nat /\ j \in Nat /\ ~ (<<j, i>> \in OpToRel(<, Nat))
    BY <1>1
  <2> QED BY <2>1 DEF OpToRel
<1> QED BY <1>2 DEF Min

LEMMA MaxFacts ==
    ASSUME NEW n \in Nat, NEW T, T \subseteq 0 .. n, T # {}
    PROVE  Max(T) \in T /\ \A j \in T : j <= Max(T)
<1> DEFINE above == {b \in Nat : \A j \in T : j <= b}
<1>1. n \in above
  OBVIOUS
<1> DEFINE m == Min(above)
<1>2. m \in above /\ \A b \in above : m <= b
  BY <1>1, MinFacts
<1>3. m \in Nat /\ \A j \in T : j \in Nat /\ j <= m
  BY <1>2
<1> HIDE DEF m
<1>4. m \in T
  <2> SUFFICES ASSUME m \notin T PROVE FALSE
    OBVIOUS
  <2>1. PICK k \in T : TRUE
    OBVIOUS
  <2>2. m > 0
    BY <1>3, <2>1
  <2>3. m - 1 \in Nat /\ \A j \in T : j <= m - 1
    BY <1>3, <2>2
  <2>4. m - 1 \in above
    BY <2>3
  <2> HIDE DEF above
  <2> QED BY <1>2, <1>3, <2>4
<1>5. \A j \in T : m >= j
  BY <1>3
<1>6. Max(T) \in T /\ \A j \in T : Max(T) >= j
  BY <1>4, <1>5 DEF Max
<1>7. Max(T) \in Nat
  <2>1. T \subseteq Nat
    OBVIOUS
  <2> QED BY ONLY <1>6, <2>1
<1> QED BY <1>3, <1>6, <1>7

LEMMA AppendFacts ==
    ASSUME NEW S, NEW q \in Seq(S), NEW e \in S
    PROVE  /\ Append(q, e) \in Seq(S)
           /\ Len(q) \in Nat /\ Len(Append(q, e)) = Len(q) + 1
           /\ \A i \in 1 .. Len(q) : Append(q, e)[i] = q[i]
           /\ Append(q, e)[Len(q) + 1] = e
OBVIOUS

LEMMA ExceptFacts ==
    ASSUME NEW S, NEW q \in Seq(S), NEW n \in 1 .. Len(q), NEW e \in S
    PROVE  /\ [q EXCEPT ![n] = e] \in Seq(S) /\ Len([q EXCEPT ![n] = e]) = Len(q)
           /\ [q EXCEPT ![n] = e][n] = e
           /\ \A i \in 1 .. Len(q) : i # n => [q EXCEPT ![n] = e][i] = q[i]
OBVIOUS

LEMMA RemoveFacts ==
    ASSUME NEW S, NEW q \in Seq(S), NEW n \in 1 .. Len(q)
    PROVE  /\ RemoveAt(q, n) \in Seq(S) /\ Len(RemoveAt(q, n)) = Len(q) - 1
           /\ \A i \in 1 .. Len(q) - 1 :
                RemoveAt(q, n)[i] = IF i < n THEN q[i] ELSE q[i + 1]
<1> DEFINE a == SubSeq(q, 1, n - 1)
<1> DEFINE b == SubSeq(q, n + 1, Len(q))
<1> DEFINE r == RemoveAt(q, n)
<1>1. Len(q) \in Nat /\ n \in Nat /\ n >= 1 /\ n <= Len(q) /\ \A i \in 1 .. Len(q) : q[i] \in S
  BY ElementOfSeq
<1>2. r = a \o b
  BY DEF RemoveAt
<1>3. a \in Seq(S) /\ Len(a) = n - 1 /\ \A i \in 1 .. n - 1 : a[i] = q[i]
  <2>1. n - 1 \in 1 - 1 .. Len(q) /\ 1 \in 1 .. Len(q) + 1
    BY <1>1
  <2> QED BY <1>1, <2>1, SubSeqProperties
<1>4. b \in Seq(S) /\ Len(b) = Len(q) - n /\ \A i \in 1 .. Len(q) - n : b[i] = q[n + i]
  <2>1. n + 1 \in 1 .. Len(q) + 1 /\ Len(q) \in (n + 1) - 1 .. Len(q)
    BY <1>1
  <2> QED BY <1>1, <2>1, SubSeqProperties
<1> HIDE DEF a, b, r
<1>5. /\ r \in Seq(S) /\ Len(r) = Len(a) + Len(b)
      /\ \A i \in 1 .. Len(r) : r[i] = IF i <= Len(a) THEN a[i] ELSE b[i - Len(a)]
  <2>1. a \in Seq(S) /\ b \in Seq(S)
    BY <1>3, <1>4
  <2> QED BY ONLY <1>2, <2>1, ConcatProperties
<1>6. Len(r) = Len(q) - 1
  BY ONLY <1>1, <1>3, <1>4, <1>5
<1>7. ASSUME NEW i \in 1 .. Len(q) - 1
      PROVE  r[i] = IF i < n THEN q[i] ELSE q[i + 1]
  <2>1. r[i] = IF i <= n - 1 THEN a[i] ELSE b[i - (n - 1)]
    BY <1>3, <1>5, <1>6
  <2>2. CASE i < n
    BY <1>1, <1>3, <2>1, <2>2
  <2>3. CASE ~(i < n)
    <3>1. i - (n - 1) \in 1 .. Len(q) - n /\ n + (i - (n - 1)) = i + 1 /\ ~(i <= n - 1)
      BY <1>1, <2>3
    <3> QED BY <1>4, <2>1, <2>3, <3>1
  <2> QED BY <2>2, <2>3
<1> QED BY <1>5, <1>6, <1>7 DEF r

-----------------------------------------------------------------------------
(* Ids and positions *)

LEMMA TableFacts ==
    ASSUME NEW t, TableOK(t)
    PROVE  /\ t = [rows |-> t.rows, index |-> t.index, max |-> t.max]
           /\ t.rows \in Seq(Row) /\ t.index \in Seq(Ids) /\ t.max \in 0 .. MaxId
           /\ t.max \in Nat /\ Len(t.rows) \in Nat /\ Len(t.index) = Len(t.rows)
           /\ Len(t.rows) <= MaxRows /\ Distinct(t.index)
           /\ \A i \in 1 .. Len(t.rows) : t.rows[i] \in Row /\ t.index[i] \in Ids
           /\ \A i \in 1 .. Len(t.rows) : t.index[i] \in Nat /\ t.index[i] > 0
           /\ MaxId \in Nat \ {0} /\ MaxRows \in Nat \ {0}
<1>1. MaxId \in Nat \ {0} /\ MaxRows \in Nat \ {0}
  BY RowsAssumption
<1>2. t \in [rows : Seq(Row), index : Seq(Ids), max : 0 .. MaxId]
  BY DEF TableOK, Table
<1>3. /\ t = [rows |-> t.rows, index |-> t.index, max |-> t.max]
      /\ t.rows \in Seq(Row) /\ t.index \in Seq(Ids) /\ t.max \in 0 .. MaxId
  BY <1>2
<1>4. /\ Len(t.index) = Len(t.rows) /\ Len(t.rows) <= MaxRows /\ Distinct(t.index)
  BY DEF TableOK
<1>5. /\ Len(t.rows) \in Nat
      /\ \A i \in 1 .. Len(t.rows) : t.rows[i] \in Row /\ t.index[i] \in Ids
  BY <1>3, <1>4, ElementOfSeq
<1> QED BY <1>1, <1>3, <1>4, <1>5 DEF Ids

LEMMA NumFacts ==
    ASSUME NEW t, TableOK(t), NEW id
    PROVE  \/ Num(t, id) = None /\ \A i \in 1 .. Len(t.rows) : t.index[i] # id
           \/ /\ Num(t, id) \in 1 .. Len(t.rows) /\ t.index[Num(t, id)] = id
              /\ Num(t, id) # None
              /\ \A i \in 1 .. Len(t.rows) : t.index[i] = id => i = Num(t, id)
<1>1. Len(t.index) = Len(t.rows) /\ Len(t.rows) \in Nat /\ Distinct(t.index)
  BY TableFacts
<1> DEFINE found == {i \in 1 .. Len(t.index) : t.index[i] = id}
<1>2. Num(t, id) = IF found # {} THEN Min(found) ELSE 0
  BY DEF Num, SelectInSeq
<1>3. CASE found = {}
  BY <1>1, <1>2, <1>3 DEF None
<1>4. CASE found # {}
  <2>1. found \subseteq Nat
    OBVIOUS
  <2> DEFINE n == Min(found)
  <2>2. n \in found
    <3> HIDE DEF found
    <3> QED BY <1>4, <2>1, MinFacts
  <2>3. Num(t, id) = n
    BY <1>2, <1>4
  <2> HIDE DEF n
  <2>4. n \in 1 .. Len(t.rows) /\ t.index[n] = id /\ n # 0
    BY <1>1, <2>2
  <2>5. \A i \in 1 .. Len(t.rows) : t.index[i] = id => i = n
    BY <1>1, <2>4 DEF Distinct
  <2> QED BY <2>3, <2>4, <2>5 DEF None
<1> QED BY <1>3, <1>4

LEMMA LastIdFacts ==
    ASSUME NEW t, TableOK(t)
    PROVE  /\ LastId(t) \in 0 .. MaxId
           /\ hasMax /\ t.max >= 2 => LastId(t) = t.max
           /\ ~(hasMax /\ t.max >= 2) => \A i \in 1 .. Len(t.rows) : t.index[i] <= LastId(t)
<1>1. /\ MaxId \in Nat /\ t.max \in 0 .. MaxId /\ t.index \in Seq(Ids)
      /\ Len(t.index) = Len(t.rows)
      /\ \A i \in 1 .. Len(t.rows) : t.index[i] \in Ids
  BY TableFacts
<1>2. DOMAIN t.index = 1 .. Len(t.rows)
  BY <1>1, LenProperties
<1> DEFINE all == ToSet(t.index) \cup {0}
<1>3. all \subseteq 0 .. MaxId /\ all # {} /\ \A i \in 1 .. Len(t.rows) : t.index[i] \in all
  <2>1. \A x \in all : x = 0 \/ \E i \in 1 .. Len(t.rows) : x = t.index[i]
    BY <1>2 DEF ToSet
  <2>2. \A i \in 1 .. Len(t.rows) : t.index[i] \in all
    BY <1>2 DEF ToSet
  <2>3. 0 \in all
    OBVIOUS
  <2> HIDE DEF all
  <2> QED BY <1>1, <2>1, <2>2, <2>3 DEF Ids
<1> DEFINE m == Max(all)
<1>4. LastId(t) = IF hasMax /\ t.max >= 2 THEN t.max ELSE m
  BY DEF LastId
<1> HIDE DEF all
<1>5. m \in all /\ \A j \in all : j <= m
  BY <1>1, <1>3, MaxFacts
<1> HIDE DEF m
<1> QED BY <1>1, <1>3, <1>4, <1>5

(* The id that is written is one that fits. *)
LEMMA IdFacts ==
    ASSUME NEW t, TableOK(t), NEW w \in Writes, ~Refused(t, w)
    PROVE  /\ IdOf(t, w.id) \in Ids
           /\ w.id # New => IdOf(t, w.id) = w.id
           /\ w.id = New => IdOf(t, w.id) = LastId(t) + 1
           /\ Num(t, IdOf(t, w.id)) = None => Len(t.rows) < MaxRows
<1>1. /\ LastId(t) \in 0 .. MaxId /\ MaxId \in Nat \ {0} /\ Len(t.rows) \in Nat
      /\ Len(t.rows) <= MaxRows /\ MaxRows \in Nat
  BY TableFacts, LastIdFacts
<1>2. w.id \in {New} \cup 1 .. MaxId - 1
  BY DEF Writes
<1>3. w.id = New => LastId(t) # MaxId
  BY DEF Refused
<1>4. Num(t, IdOf(t, w.id)) = None => Len(t.rows) # MaxRows
  BY DEF Refused
<1> QED BY <1>1, <1>2, <1>3, <1>4 DEF IdOf, Ids, New
-----------------------------------------------------------------------------
(* WriteBufferToDB_OneNode *)

(* Position n has the row with this id, and the others are as they were. *)
WrittenIs(t, w, u, id, n) ==
    /\ TableOK(u) /\ id \in Ids /\ n \in 1 .. Len(u.rows) /\ u.index[n] = id /\ n = Num(u, id)
    /\ Len(t.rows) <= Len(u.rows) /\ t.max <= u.max
    /\ \A j \in 1 .. Len(u.rows) : j # n => j <= Len(t.rows) /\ u.rows[j] = t.rows[j]
    /\ \A j \in 1 .. Len(t.rows) : u.index[j] = t.index[j]
    /\ n <= Len(t.rows) => n = Num(t, id)
    /\ ~(n <= Len(t.rows)) => Num(t, id) = None
    /\ w.ok => u.rows[n] = [id |-> id, val |-> w.val]
    /\ ~w.ok => u.rows[n] = IF n <= Len(t.rows) THEN t.rows[n] ELSE Hole
    /\ u.max = IF hasMax /\ w.id = New /\ w.ok THEN id ELSE t.max
    /\ w.id # New => id = w.id

LEMMA FoundFacts ==
    ASSUME NEW t, TableOK(t), NEW id \in Ids, Num(t, id) = None => Len(t.rows) < MaxRows
    PROVE  LET f == Found(t, id)
               n == Num(f, id)
           IN  /\ TableOK(f) /\ n \in 1 .. Len(f.rows) /\ f.index[n] = id
               /\ Len(t.rows) <= Len(f.rows) /\ f.max = t.max
               /\ \A j \in 1 .. Len(f.rows) : j # n => j <= Len(t.rows)
               /\ \A j \in 1 .. Len(t.rows) : f.rows[j] = t.rows[j] /\ f.index[j] = t.index[j]
               /\ n <= Len(t.rows) => n = Num(t, id)
               /\ ~(n <= Len(t.rows)) => Num(t, id) = None /\ f.rows[n] = Hole
<1> DEFINE f == Found(t, id)
<1>1. /\ t = [rows |-> t.rows, index |-> t.index, max |-> t.max]
      /\ t.rows \in Seq(Row) /\ t.index \in Seq(Ids) /\ t.max \in 0 .. MaxId
      /\ Len(t.rows) \in Nat /\ Len(t.index) = Len(t.rows) /\ Len(t.rows) <= MaxRows
      /\ Distinct(t.index) /\ MaxRows \in Nat
  BY TableFacts
<1>2. CASE Num(t, id) # None
  <2>1. f = t
    BY <1>2 DEF Found
  <2>2. Num(t, id) \in 1 .. Len(t.rows) /\ t.index[Num(t, id)] = id
    BY <1>2, NumFacts
  <2> HIDE DEF f
  <2>3. Num(f, id) \in 1 .. Len(f.rows) /\ f.index[Num(f, id)] = id /\ Num(f, id) <= Len(t.rows)
    BY <1>1, <2>1, <2>2
  <2> QED BY <1>1, <2>1, <2>3 DEF f
<1>3. CASE Num(t, id) = None
  <2> DEFINE m == Len(t.rows) + 1
  <2>1. f = [t EXCEPT !.rows = Append(@, Hole), !.index = Append(@, id)]
    BY <1>3 DEF Found
  <2>2. f = [rows |-> Append(t.rows, Hole), index |-> Append(t.index, id), max |-> t.max]
    BY <1>1, <2>1
  <2>3. f.rows = Append(t.rows, Hole) /\ f.index = Append(t.index, id) /\ f.max = t.max
    BY <2>2
  <2>4. Hole \in Row
    BY DEF Hole, Row
  <2>5. /\ f.rows \in Seq(Row) /\ Len(f.rows) = m /\ f.rows[m] = Hole
        /\ \A j \in 1 .. Len(t.rows) : f.rows[j] = t.rows[j]
    BY <1>1, <2>3, <2>4, AppendFacts
  <2>6. /\ f.index \in Seq(Ids) /\ Len(f.index) = m /\ f.index[m] = id
        /\ \A j \in 1 .. Len(t.rows) : f.index[j] = t.index[j]
    BY <1>1, <2>3, AppendFacts
  <2>7. f \in Table
    BY <1>1, <2>2, <2>3, <2>5, <2>6 DEF Table
  <2>8. \A i \in 1 .. Len(t.rows) : t.index[i] # id
    BY <1>3, NumFacts
  <2> HIDE DEF f
  <2>9. Distinct(f.index)
    <3> SUFFICES ASSUME NEW i \in 1 .. m, NEW j \in 1 .. m, f.index[i] = f.index[j]
                 PROVE  i = j
      BY <2>6 DEF Distinct
    <3>1. (i = m \/ i \in 1 .. Len(t.rows)) /\ (j = m \/ j \in 1 .. Len(t.rows))
      BY <1>1
    <3> QED BY <1>1, <2>6, <2>8, <3>1 DEF Distinct
  <2>10. TableOK(f)
    BY <1>1, <1>3, <2>5, <2>6, <2>7, <2>9 DEF TableOK
  <2>11. m \in 1 .. Len(f.rows) /\ m \in Nat /\ ~(m <= Len(t.rows)) /\ Len(t.rows) <= m
    BY <1>1, <2>5
  <2>12. Num(f, id) = m
    BY <2>6, <2>10, <2>11, NumFacts
  <2>13. \A j \in 1 .. Len(f.rows) : j # m => j <= Len(t.rows)
    BY <1>1, <2>5
  <2> QED BY <1>3, <2>3, <2>5, <2>6, <2>10, <2>11, <2>12, <2>13 DEF f
<1> QED BY <1>2, <1>3

LEMMA WrittenFacts ==
    ASSUME NEW t, TableOK(t), NEW w \in Writes, ~Refused(t, w)
    PROVE  WrittenIs(t, w, Written(t, w), IdOf(t, w.id), Num(Written(t, w), IdOf(t, w.id)))
<1> DEFINE id == IdOf(t, w.id)
<1> DEFINE f == Found(t, id)
<1> DEFINE n == Num(f, id)
<1> DEFINE g == WithFields(f, id, w)
<1> DEFINE u == WithMax(g, id, w)
<1>1. /\ id \in Ids /\ (w.id # New => id = w.id) /\ (w.id = New => id = LastId(t) + 1)
      /\ Num(t, id) = None => Len(t.rows) < MaxRows
  BY IdFacts
<1>2. /\ w.ok \in BOOLEAN /\ w.val \in Values
  BY DEF Writes
<1>3. Written(t, w) = u
  BY DEF Written
<1>4. /\ LastId(t) \in 0 .. MaxId /\ (hasMax /\ t.max >= 2 => LastId(t) = t.max)
      /\ t.max \in Nat /\ Len(t.rows) \in Nat
  BY LastIdFacts, TableFacts
<1> HIDE DEF id
<1>5. /\ TableOK(f) /\ n \in 1 .. Len(f.rows) /\ f.index[n] = id
      /\ Len(t.rows) <= Len(f.rows) /\ f.max = t.max
      /\ \A j \in 1 .. Len(f.rows) : j # n => j <= Len(t.rows)
      /\ \A j \in 1 .. Len(t.rows) : f.rows[j] = t.rows[j] /\ f.index[j] = t.index[j]
      /\ n <= Len(t.rows) => n = Num(t, id)
      /\ ~(n <= Len(t.rows)) => Num(t, id) = None /\ f.rows[n] = Hole
  BY <1>1, FoundFacts
<1> DEFINE row == [id |-> id, val |-> w.val]
<1>6. g = IF w.ok THEN [f EXCEPT !.rows[n] = row] ELSE f
  BY DEF WithFields
<1>7. u = IF hasMax /\ w.id = New /\ w.ok THEN [g EXCEPT !.max = id] ELSE g
  BY DEF WithMax
<1> HIDE DEF f, n, g, u
<1>8. row \in Row
  BY <1>1, <1>2 DEF Row
<1> HIDE DEF row
<1>9. /\ f = [rows |-> f.rows, index |-> f.index, max |-> f.max]
      /\ f.rows \in Seq(Row) /\ f.index \in Seq(Ids) /\ f.max \in 0 .. MaxId
      /\ Len(f.rows) \in Nat /\ Len(f.index) = Len(f.rows) /\ Len(f.rows) <= MaxRows
      /\ Distinct(f.index) /\ MaxId \in Nat
  BY <1>5, TableFacts
<1>10. /\ g = [rows |-> g.rows, index |-> f.index, max |-> f.max]
       /\ g.rows = IF w.ok THEN [f.rows EXCEPT ![n] = row] ELSE f.rows
  <2>1. CASE w.ok
    <3>1. g = [f EXCEPT !.rows[n] = row]
      BY <1>6, <2>1
    <3>2. g = [rows |-> [f.rows EXCEPT ![n] = row], index |-> f.index, max |-> f.max]
      BY <1>9, <3>1
    <3> QED BY <2>1, <3>2
  <2>2. CASE ~w.ok
    BY <1>6, <1>9, <2>2
  <2> QED BY <2>1, <2>2
<1>11. /\ g.rows \in Seq(Row) /\ Len(g.rows) = Len(f.rows)
       /\ w.ok => g.rows[n] = row
       /\ ~w.ok => g.rows[n] = f.rows[n]
       /\ \A j \in 1 .. Len(f.rows) : j # n => g.rows[j] = f.rows[j]
  <2>1. CASE w.ok
    BY <1>5, <1>8, <1>9, <1>10, <2>1, ExceptFacts
  <2>2. CASE ~w.ok
    BY <1>9, <1>10, <2>2
  <2> QED BY <2>1, <2>2
<1>12. /\ u.rows = g.rows /\ u.index = f.index
       /\ u.max = IF hasMax /\ w.id = New /\ w.ok THEN id ELSE t.max
       /\ u = [rows |-> u.rows, index |-> u.index, max |-> u.max]
  <2>1. CASE hasMax /\ w.id = New /\ w.ok
    <3>1. u = [g EXCEPT !.max = id]
      BY <1>7, <2>1
    <3>2. u = [rows |-> g.rows, index |-> f.index, max |-> id]
      BY <1>10, <3>1
    <3> QED BY <2>1, <3>2
  <2>2. CASE ~(hasMax /\ w.id = New /\ w.ok)
    <3>1. u = g
      BY <1>7, <2>2
    <3> QED BY <1>5, <1>10, <2>2, <3>1
  <2> QED BY <2>1, <2>2
<1>13. u.max \in 0 .. MaxId /\ t.max <= u.max
  <2>1. id \in 0 .. MaxId /\ id \in Nat /\ id >= 1
    BY <1>1, <1>9 DEF Ids
  <2>2. t.max \in 0 .. MaxId
    BY <1>5, <1>9
  <2>3. hasMax /\ w.id = New => t.max <= id
    BY <1>1, <1>4, <2>1
  <2> QED BY <1>4, <1>12, <2>1, <2>2, <2>3
<1>14. TableOK(u)
  <2>1. u \in Table
    BY <1>9, <1>11, <1>12, <1>13 DEF Table
  <2> QED BY <1>9, <1>11, <1>12, <2>1 DEF TableOK
<1>15. n = Num(u, id) /\ n \in 1 .. Len(u.rows) /\ u.index[n] = id
  <2>1. n \in 1 .. Len(u.rows) /\ u.index[n] = id
    BY <1>5, <1>11, <1>12
  <2> QED BY <1>14, <2>1, NumFacts
<1>16. \A j \in 1 .. Len(u.rows) : j # n => j <= Len(t.rows) /\ u.rows[j] = t.rows[j]
  <2> SUFFICES ASSUME NEW j \in 1 .. Len(u.rows), j # n
               PROVE  j <= Len(t.rows) /\ u.rows[j] = t.rows[j]
    OBVIOUS
  <2>1. j \in 1 .. Len(f.rows) /\ j <= Len(t.rows)
    BY <1>5, <1>11, <1>12
  <2>2. j \in 1 .. Len(t.rows)
    BY <1>4, <1>9, <2>1
  <2> QED BY <1>5, <1>11, <1>12, <2>1, <2>2
<1>17. ~w.ok => u.rows[n] = IF n <= Len(t.rows) THEN t.rows[n] ELSE Hole
  <2>1. n <= Len(t.rows) => n \in 1 .. Len(t.rows)
    BY <1>4, <1>5, <1>9
  <2> QED BY <1>5, <1>11, <1>12, <2>1
<1>18. w.ok => u.rows[n] = [id |-> id, val |-> w.val]
  BY <1>11, <1>12 DEF row
<1>19. WrittenIs(t, w, u, id, n)
  BY <1>1, <1>5, <1>11, <1>12, <1>13, <1>14, <1>15, <1>16, <1>17, <1>18 DEF WrittenIs
<1> QED BY <1>3, <1>15, <1>19 DEF id
(* What is known of a written table, position by position. *)
LEMMA WrittenAt ==
    ASSUME NEW t, TableOK(t), NEW w, NEW u, NEW id, NEW n, WrittenIs(t, w, u, id, n)
    PROVE  /\ \A j \in 1 .. Len(u.rows) :
                j # n => /\ j \in 1 .. Len(t.rows) /\ u.rows[j] = t.rows[j]
                         /\ u.index[j] = t.index[j] /\ u.index[j] # id
           /\ n \in 1 .. Len(u.rows) /\ u.index[n] = id /\ id \in Nat /\ id >= 1
           /\ \A j \in 1 .. Len(t.rows) : j \in 1 .. Len(u.rows)
<1>1. TableOK(u) /\ n \in 1 .. Len(u.rows) /\ u.index[n] = id /\ id \in Ids
  BY DEF WrittenIs
<1>2. /\ Len(u.rows) \in Nat /\ Len(t.rows) \in Nat /\ Len(t.rows) <= Len(u.rows)
      /\ Distinct(u.index) /\ Len(u.index) = Len(u.rows)
  BY <1>1, TableFacts DEF WrittenIs
<1>3. ASSUME NEW j \in 1 .. Len(u.rows), j # n
      PROVE  /\ j \in 1 .. Len(t.rows) /\ u.rows[j] = t.rows[j]
             /\ u.index[j] = t.index[j] /\ u.index[j] # id
  <2>1. j <= Len(t.rows) /\ u.rows[j] = t.rows[j]
    BY <1>3 DEF WrittenIs
  <2>2. j \in 1 .. Len(t.rows)
    BY <1>2, <2>1
  <2>3. u.index[j] = t.index[j]
    BY <2>2 DEF WrittenIs
  <2>4. u.index[j] # id
    BY <1>1, <1>2, <1>3 DEF Distinct
  <2> QED BY <2>1, <2>2, <2>3, <2>4
<1>4. id \in Nat /\ id >= 1
  BY <1>1, RowsAssumption DEF Ids
<1> QED BY <1>1, <1>2, <1>3, <1>4

LEMMA WrittenIds ==
    ASSUME NEW t, TableOK(t), NEW w, NEW u, NEW id, NEW n, WrittenIs(t, w, u, id, n),
           NEW T, IdsOK(t, T)
    PROVE  IdsOK(u, Tear(T, id, w))
<1>1. ASSUME NEW j \in 1 .. Len(u.rows), j # n
      PROVE  u.rows[j].id = u.index[j] \/ u.index[j] \in T \ {id}
  BY <1>1, WrittenAt DEF IdsOK
<1>2. u.rows[n].id = u.index[n] \/ ~w.ok
  BY WrittenAt DEF WrittenIs
<1>3. u.index[n] = id
  BY WrittenAt
<1> QED BY <1>1, <1>2, <1>3 DEF IdsOK, Tear

LEMMA WrittenBelow ==
    ASSUME NEW t, TableOK(t), NEW w, NEW u, NEW id, NEW n, WrittenIs(t, w, u, id, n),
           NEW T, BelowOK(t, T), hasMax, w.id # New => w.id <= t.max
    PROVE  BelowOK(u, Tear(T, id, w)) /\ (w.ok => id <= u.max)
<1>1. TableOK(u) /\ t.max <= u.max
  BY DEF WrittenIs
<1>2. t.max \in Nat /\ u.max \in Nat /\ id \in Nat
  BY <1>1, TableFacts, WrittenAt
<1>3. ASSUME NEW j \in 1 .. Len(u.rows), j # n
      PROVE  u.index[j] <= u.max \/ u.index[j] \in T \ {id}
  <2>1. j \in 1 .. Len(t.rows) /\ u.index[j] = t.index[j] /\ u.index[j] # id
    BY <1>3, WrittenAt
  <2>2. t.index[j] \in Nat
    BY <2>1, TableFacts
  <2> QED BY <1>1, <1>2, <2>1, <2>2 DEF BelowOK
<1>4. w.ok => id <= u.max
  <2>1. CASE w.id = New
    BY <1>2, <2>1 DEF WrittenIs
  <2>2. CASE w.id # New
    <3>1. id <= t.max
      BY <2>2 DEF WrittenIs
    <3> QED BY <1>1, <1>2, <3>1
  <2> QED BY <2>1, <2>2
<1>5. u.index[n] = id
  BY WrittenAt
<1> QED BY <1>3, <1>4, <1>5 DEF BelowOK, Tear

LEMMA WrittenSaved ==
    ASSUME NEW t, TableOK(t), NEW w, NEW u, NEW id, NEW n, WrittenIs(t, w, u, id, n),
           NEW d, TableOK(d), NEW T, Behind(t, d), SavedOK(t, d, T)
    PROVE  Behind(u, d) /\ SavedOK(u, d, T \cup {id})
<1>1. TableOK(u) /\ t.max <= u.max /\ Len(t.rows) <= Len(u.rows)
  BY DEF WrittenIs
<1>2. /\ t.max \in Nat /\ u.max \in Nat /\ d.max \in Nat
      /\ Len(t.rows) \in Nat /\ Len(u.rows) \in Nat /\ Len(d.rows) \in Nat
  BY <1>1, TableFacts
<1>3. Behind(u, d)
  <2>1. Len(d.rows) <= Len(u.rows) /\ d.max <= u.max
    BY <1>1, <1>2 DEF Behind
  <2>2. ASSUME NEW j \in 1 .. Len(d.rows) PROVE d.index[j] = u.index[j]
    <3>1. j \in 1 .. Len(t.rows) /\ d.index[j] = t.index[j]
      BY <1>2 DEF Behind
    <3> QED BY <3>1 DEF WrittenIs
  <2> QED BY <2>1, <2>2 DEF Behind
<1>4. ASSUME NEW j \in 1 .. Len(u.rows), u.index[j] \notin T \cup {id}
      PROVE  j <= Len(d.rows) /\ d.rows[j] = u.rows[j] /\ d.index[j] = u.index[j]
  <2>1. j # n
    BY <1>4, WrittenAt
  <2>2. j \in 1 .. Len(t.rows) /\ u.rows[j] = t.rows[j] /\ u.index[j] = t.index[j]
    BY <2>1, WrittenAt
  <2> QED BY <1>4, <2>2 DEF SavedOK
<1> QED BY <1>3, <1>4 DEF SavedOK

LEMMA InsertFacts ==
    ASSUME NEW s, SortOK(s), NEW v \in Values, NEW i \in 1 .. MaxRows
    PROVE  /\ SortOK(InsertItem(s, v, i))
           /\ DOMAIN InsertItem(s, v, i).byValue = DOMAIN s.byValue \cup {v}
           /\ \A z \in DOMAIN s.byValue : InsertItem(s, v, i).byValue[z] = s.byValue[z]
           /\ v \notin DOMAIN s.byValue => InsertItem(s, v, i).byValue[v] = i
<1> DEFINE r == InsertItem(s, v, i)
<1>1. r.byValue = Added(s.byValue, v, i) /\ r.byNum = Added(s.byNum, i, v)
      /\ r = [byValue |-> r.byValue, byNum |-> r.byNum]
  BY DEF InsertItem
<1>2. DOMAIN r.byValue = DOMAIN s.byValue \cup {v} /\ DOMAIN r.byNum = DOMAIN s.byNum \cup {i}
  BY <1>1 DEF Added
<1>3. /\ \A z \in DOMAIN s.byValue : r.byValue[z] = s.byValue[z]
      /\ v \notin DOMAIN s.byValue => r.byValue[v] = i
  BY <1>1 DEF Added
<1> HIDE DEF r
<1>4. SortOK(r)
  BY <1>1, <1>2, <1>3 DEF SortOK
<1> QED BY <1>2, <1>3, <1>4 DEF r

LEMMA WrittenSort ==
    ASSUME NEW t, TableOK(t), NEW w \in Writes, ~Refused(t, w), NEW s, SortOK(s)
    PROVE  /\ SortOK(SortWritten(s, t, w))
           /\ sorted /\ ~Careless /\ Sensible(t, w) /\ SeekOK(s, t) =>
                SeekOK(SortWritten(s, t, w), Written(t, w))
<1> DEFINE id == IdOf(t, w.id)
<1> DEFINE u == Written(t, w)
<1> DEFINE n == Num(u, id)
<1> DEFINE r == SortWritten(s, t, w)
<1>1. WrittenIs(t, w, u, id, n)
  BY WrittenFacts
<1>2. r = IF sorted /\ w.ok THEN InsertItem(s, w.val, n) ELSE s
  BY DEF SortWritten
<1>3. Sensible(t, w) /\ sorted /\ ~Careless /\ Num(t, id) # None =>
         t.rows[Num(t, id)].val \in {Blank, w.val}
  BY DEF Sensible
<1>4. w.val \in Values /\ Blank \notin Values
  BY RowsAssumption DEF Writes
<1> HIDE DEF id, u, n, r
<1>5. n \in 1 .. MaxRows /\ n \in Nat
  BY <1>1, TableFacts, WrittenAt DEF WrittenIs
<1>6. SortOK(r)
  BY <1>2, <1>4, <1>5, InsertFacts
<1>7. ASSUME sorted, ~Careless, Sensible(t, w), SeekOK(s, t)
      PROVE  SeekOK(r, u)
  <2>1. ASSUME NEW i \in 1 .. Len(t.rows), t.rows[i].val \in Values
        PROVE  i \in 1 .. Len(u.rows) /\ u.rows[i].val = t.rows[i].val
    <3>0. i \in 1 .. Len(u.rows)
      BY <1>1, WrittenAt
    <3>1. CASE i # n
      BY <1>1, <3>0, <3>1, WrittenAt
    <3>2. CASE i = n /\ ~w.ok
      <4>1. n <= Len(t.rows)
        BY <3>2
      <4> QED BY <1>1, <3>0, <3>2, <4>1 DEF WrittenIs
    <3>3. CASE i = n /\ w.ok
      <4>1. n <= Len(t.rows)
        BY <3>3
      <4>2. n = Num(t, id) /\ n # None
        BY <1>1, <1>5, <4>1 DEF WrittenIs, None
      <4>3. t.rows[n].val = w.val
        BY <1>3, <1>4, <1>7, <2>1, <3>3, <4>2
      <4>4. u.rows[n].val = w.val
        BY <1>1, <3>3 DEF WrittenIs
      <4> QED BY <3>0, <3>3, <4>3, <4>4
    <3> QED BY <3>1, <3>2, <3>3
  <2>2. w.ok => u.rows[n].val = w.val
    BY <1>1 DEF WrittenIs
  <2>3. ~w.ok => r = s
    BY <1>2
  <2>4. w.ok => /\ DOMAIN r.byValue = DOMAIN s.byValue \cup {w.val}
                /\ \A z \in DOMAIN s.byValue : r.byValue[z] = s.byValue[z]
                /\ w.val \notin DOMAIN s.byValue => r.byValue[w.val] = n
    BY <1>2, <1>4, <1>5, <1>7, InsertFacts
  <2>5. ASSUME NEW v \in DOMAIN s.byValue \cap Values
        PROVE  /\ s.byValue[v] \in 1 .. Len(u.rows) /\ u.rows[s.byValue[v]].val = v
               /\ r.byValue[v] = s.byValue[v]
    <3>1. s.byValue[v] \in 1 .. Len(t.rows) /\ t.rows[s.byValue[v]].val = v
      BY <1>7 DEF SeekOK
    <3> QED BY <2>1, <2>3, <2>4, <3>1
  <2>6. ASSUME NEW v \in DOMAIN r.byValue \cap Values
        PROVE  r.byValue[v] \in 1 .. Len(u.rows) /\ u.rows[r.byValue[v]].val = v
    <3>1. CASE v \in DOMAIN s.byValue
      BY <2>5, <3>1
    <3>2. CASE v \notin DOMAIN s.byValue
      <4>1. w.ok /\ v = w.val /\ r.byValue[v] = n
        BY <2>3, <2>4, <2>6, <3>2
      <4>2. n \in 1 .. Len(u.rows)
        BY <1>1, WrittenAt
      <4> QED BY <2>2, <4>1, <4>2
    <3> QED BY <3>1, <3>2
  <2>7. ASSUME NEW i \in 1 .. Len(u.rows), u.rows[i].val \in Values
        PROVE  u.rows[i].val \in DOMAIN r.byValue
    <3>1. DOMAIN s.byValue \subseteq DOMAIN r.byValue
      BY <2>3, <2>4
    <3>2. CASE i # n
      BY <1>1, <1>7, <2>7, <3>1, <3>2, WrittenAt DEF SeekOK
    <3>3. CASE i = n /\ w.ok
      BY <2>2, <2>4, <3>3
    <3>4. CASE i = n /\ ~w.ok
      <4>1. u.rows[n] = IF n <= Len(t.rows) THEN t.rows[n] ELSE Hole
        BY <1>1, <3>4 DEF WrittenIs
      <4>2. n <= Len(t.rows)
        BY <1>4, <2>7, <3>4, <4>1 DEF Hole
      <4>3. n \in 1 .. Len(t.rows) /\ u.rows[n] = t.rows[n]
        BY <1>5, <4>1, <4>2, TableFacts
      <4> QED BY <1>7, <2>7, <3>1, <3>4, <4>3 DEF SeekOK
    <3> QED BY <3>2, <3>3, <3>4
  <2> QED BY <2>6, <2>7 DEF SeekOK
<1> QED BY <1>6, <1>7 DEF r, u
-----------------------------------------------------------------------------
(* ACTION_WRITE *)

LEMMA InvFacts ==
    ASSUME Inv
    PROVE  /\ TableOK(table) /\ TableOK(disk) /\ SortOK(sort)
           /\ torn \subseteq Ids /\ lost \subseteq Ids /\ unsaved \subseteq Ids
           /\ given \subseteq Ids
           /\ IdsOK(table, torn) /\ IdsOK(disk, lost)
           /\ Behind(table, disk) /\ SavedOK(table, disk, unsaved)
           /\ hasMax => \A g \in given : g <= disk.max
           /\ hasMax /\ ~AnyId => BelowOK(table, torn) /\ BelowOK(disk, lost)
           /\ sorted /\ ~Careless => SeekOK(sort, table)
BY DEF Inv, TypeInv, IdInv, SavedInv, GivenInv, BelowInv, SeekInv

(* One row is saved, and with it the head. *)
LEMMA NodeFacts ==
    ASSUME Inv, NEW u, TableOK(u), NEW n \in 1 .. Len(u.rows), NEW d, d = SaveDBNode(u, n)
    PROVE  /\ TableOK(d) /\ d.index = u.index /\ d.max = u.max /\ Len(d.rows) = Len(u.rows)
           /\ d.rows[n] = u.rows[n]
           /\ \A j \in 1 .. Len(u.rows) :
                j # n => d.rows[j] = IF j <= Len(disk.rows) THEN disk.rows[j] ELSE Hole
<1>1. /\ u = [rows |-> u.rows, index |-> u.index, max |-> u.max]
      /\ u.rows \in Seq(Row) /\ u.index \in Seq(Ids) /\ u.max \in 0 .. MaxId
      /\ Len(u.rows) \in Nat /\ Len(u.index) = Len(u.rows) /\ Len(u.rows) <= MaxRows
      /\ Distinct(u.index)
      /\ \A i \in 1 .. Len(u.rows) : u.rows[i] \in Row
  BY TableFacts
<1>2. /\ Len(disk.rows) \in Nat
      /\ \A i \in 1 .. Len(disk.rows) : disk.rows[i] \in Row
  BY InvFacts, TableFacts
<1>3. DOMAIN u.rows = 1 .. Len(u.rows)
  BY <1>1, LenProperties
<1> DEFINE row(j) ==
        IF j = n THEN u.rows[j] ELSE IF j <= Len(disk.rows) THEN disk.rows[j] ELSE Hole
<1> DEFINE rows == [j \in 1 .. Len(u.rows) |-> row(j)]
<1>4. d = [u EXCEPT !.rows = rows]
  BY <1>3 DEF SaveDBNode
<1>5. ASSUME NEW j \in 1 .. Len(u.rows) PROVE row(j) \in Row
  <2>1. j <= Len(disk.rows) => j \in 1 .. Len(disk.rows)
    BY <1>1, <1>2
  <2>2. Hole \in Row
    BY DEF Hole, Row
  <2> QED BY <1>1, <1>2, <2>1, <2>2
<1>6. \A j \in 1 .. Len(u.rows) : rows[j] = row(j)
  OBVIOUS
<1>7. rows \in [1 .. Len(u.rows) -> Row]
  BY <1>5
<1> HIDE DEF rows
<1>8. rows \in Seq(Row) /\ Len(rows) = Len(u.rows)
  <2>1. rows \in Seq(Row)
    BY <1>1, <1>7, SeqDef
  <2>2. Len(rows) \in Nat /\ 1 .. Len(rows) = 1 .. Len(u.rows)
    BY <1>7, <2>1, LenProperties
  <2>3. /\ Len(rows) > 0 => Len(rows) \in 1 .. Len(u.rows)
        /\ Len(u.rows) > 0 => Len(u.rows) \in 1 .. Len(rows)
    BY <1>1, <2>2
  <2> QED BY <1>1, <2>1, <2>2, <2>3
<1>9. d = [rows |-> rows, index |-> u.index, max |-> u.max]
  BY <1>1, <1>4
<1>10. d.rows = rows /\ d.index = u.index /\ d.max = u.max
  BY <1>9
<1>11. TableOK(d)
  BY <1>1, <1>8, <1>9, <1>10 DEF TableOK, Table
<1> QED BY <1>6, <1>8, <1>10, <1>11

(* What goes for a table and for what was saved with it. *)
LEMMA SameTables ==
    ASSUME NEW t, TableOK(t)
    PROVE  Behind(t, t) /\ SavedOK(t, t, {})
<1>1. t.max \in Nat /\ Len(t.rows) \in Nat
  BY TableFacts
<1> QED BY <1>1 DEF Behind, SavedOK

LEMMA WriteOneKeeps ==
    ASSUME Inv, NEW w \in Writes, WriteOne(w)
    PROVE  Inv'
<1> DEFINE id == IdOf(table, w.id)
<1> DEFINE u == Written(table, w)
<1> DEFINE n == Num(u, id)
<1>1. /\ Sensible(table, w) /\ ~Refused(table, w)
      /\ table' = u /\ sort' = SortWritten(sort, table, w) /\ torn' = Tear(torn, id, w)
      /\ UNCHANGED <<hasMax, sorted, crashes>>
  BY DEF WriteOne
<1>2. w.ok => /\ disk' = SaveDBNode(u, n) /\ lost' = (lost \cup Holes(u)) \ {id}
              /\ unsaved' = unsaved \ {id} /\ given' = given \cup GivenOut(table, w)
  BY <1>1 DEF WriteOne
<1>3. ~w.ok => /\ unsaved' = unsaved \cup {id} /\ disk' = disk /\ lost' = lost
               /\ given' = given
  BY DEF WriteOne
<1>4. WrittenIs(table, w, u, id, n)
  BY <1>1, InvFacts, WrittenFacts
<1>5. /\ SortOK(sort')
      /\ sorted /\ ~Careless => SeekOK(sort', u)
  BY <1>1, InvFacts, WrittenSort
<1>6. hasMax /\ ~AnyId /\ w.id # New => w.id <= table.max
  BY <1>1 DEF Sensible
<1>7. w.id = New => GivenOut(table, w) = IF hasMax THEN {id} ELSE {}
  BY DEF GivenOut
<1>8. w.id # New => GivenOut(table, w) = {}
  BY DEF GivenOut
<1> HIDE DEF id, u, n
<1>9. /\ TableOK(u) /\ TableOK(table) /\ TableOK(disk) /\ id \in Ids /\ u.index[n] = id
      /\ n \in 1 .. Len(u.rows)
  BY <1>4, InvFacts DEF WrittenIs
<1>10. /\ Len(u.rows) \in Nat /\ Len(disk.rows) \in Nat /\ u.max \in Nat /\ disk.max \in Nat
       /\ table.max \in Nat /\ Len(u.index) = Len(u.rows)
       /\ u.rows \in Seq(Row)
       /\ \A i \in 1 .. Len(u.rows) : u.index[i] \in Ids
  BY <1>9, TableFacts
<1>11. /\ IdsOK(u, torn')
       /\ Behind(u, disk) /\ SavedOK(u, disk, unsaved \cup {id})
       /\ hasMax /\ ~AnyId => BelowOK(u, torn') /\ (w.ok => id <= u.max)
  BY <1>1, <1>4, <1>6, InvFacts, WrittenIds, WrittenSaved, WrittenBelow
<1>12. torn' \subseteq Ids
  BY <1>1, <1>9, InvFacts DEF Tear
<1>13. CASE ~w.ok
  <2>1. TypeInv'
    BY <1>1, <1>3, <1>5, <1>9, <1>12, <1>13 DEF Inv, TypeInv
  <2>2. IdInv' /\ SavedInv' /\ GivenInv' /\ BelowInv' /\ SeekInv'
    BY <1>1, <1>3, <1>5, <1>11, <1>13, InvFacts
       DEF IdInv, SavedInv, GivenInv, BelowInv, SeekInv
  <2> QED BY <2>1, <2>2 DEF Inv
<1>14. CASE w.ok
  <2> DEFINE d == disk'
  <2>1. /\ TableOK(d) /\ d.index = u.index /\ d.max = u.max /\ Len(d.rows) = Len(u.rows)
        /\ d.rows[n] = u.rows[n]
        /\ \A j \in 1 .. Len(u.rows) :
             j # n => d.rows[j] = IF j <= Len(disk.rows) THEN disk.rows[j] ELSE Hole
    BY <1>2, <1>9, <1>14, NodeFacts
  <2>2. ASSUME NEW j \in 1 .. Len(u.rows), ~(j <= Len(disk.rows)) PROVE u.index[j] \in Holes(u)
    <3>1. j \in DOMAIN u.rows /\ j > Len(disk.rows)
      BY <1>10, <2>2, LenProperties
    <3> QED BY <3>1 DEF Holes
  <2>3. ASSUME NEW j \in 1 .. Len(u.rows), j # n
        PROVE  \/ j \in 1 .. Len(disk.rows) /\ d.rows[j] = disk.rows[j]
                    /\ u.index[j] = disk.index[j]
               \/ u.index[j] \in lost'
    <3>1. u.index[j] # id
      BY <1>4, <1>9, <2>3, WrittenAt
    <3>2. CASE j <= Len(disk.rows)
      <4>1. j \in 1 .. Len(disk.rows)
        BY <1>10, <3>2
      <4> QED BY <1>11, <2>1, <2>3, <3>2, <4>1 DEF Behind
    <3>3. CASE ~(j <= Len(disk.rows))
      BY <1>2, <1>14, <2>2, <2>3, <3>1, <3>3
    <3> QED BY <3>2, <3>3
  <2>4. \A j \in 1 .. Len(u.rows) : j # n => u.index[j] # id
    BY <1>4, <1>9, WrittenAt
  <2>5. u.rows[n].id = id
    BY <1>4, <1>14 DEF WrittenIs
  <2>6. lost' \subseteq Ids /\ unsaved' \subseteq Ids /\ given' \subseteq Ids
    <3>1. Holes(u) \subseteq Ids
      BY <1>10, LenProperties DEF Holes
    <3> QED BY <1>2, <1>7, <1>8, <1>9, <1>14, <3>1, InvFacts
  <2>7. lost \ {id} \subseteq lost'
    BY <1>2, <1>14
  <2> HIDE DEF d
  <2>8. IdsOK(d, lost')
    <3> SUFFICES ASSUME NEW j \in 1 .. Len(u.rows)
                 PROVE  d.rows[j].id = u.index[j] \/ u.index[j] \in lost'
      BY <2>1 DEF IdsOK
    <3>1. CASE j = n
      BY <1>9, <2>1, <2>5, <3>1
    <3>2. CASE j # n
      BY <2>3, <2>4, <2>7, <3>2, InvFacts DEF IdsOK
    <3> QED BY <3>1, <3>2
  <2>9. Behind(u, d)
    BY <1>10, <2>1 DEF Behind
  <2>10. SavedOK(u, d, unsaved')
    <3> SUFFICES ASSUME NEW j \in 1 .. Len(u.rows), u.index[j] \notin unsaved'
                 PROVE  d.rows[j] = u.rows[j]
      BY <1>10, <2>1 DEF SavedOK
    <3>1. CASE j = n
      BY <2>1, <3>1
    <3>2. CASE j # n
      <4>1. u.index[j] \notin unsaved \cup {id}
        BY <1>2, <1>14, <2>4, <3>2
      <4>2. j <= Len(disk.rows) /\ disk.rows[j] = u.rows[j]
        BY <1>11, <4>1 DEF SavedOK
      <4> QED BY <2>1, <3>2, <4>2
    <3> QED BY <3>1, <3>2
  <2>11. ASSUME hasMax, NEW g \in given' PROVE g <= d.max
    <3>1. disk.max <= u.max
      BY <1>11 DEF Behind
    <3>2. CASE g \in given
      <4>1. g <= disk.max /\ g \in Nat
        BY <2>11, <3>2, InvFacts DEF Ids
      <4> QED BY <1>10, <2>1, <3>1, <4>1
    <3>3. CASE g \notin given
      <4>1. w.id = New /\ g = id
        BY <1>2, <1>7, <1>8, <1>14, <2>11, <3>3
      <4>2. u.max = id
        BY <1>4, <1>14, <2>11, <4>1 DEF WrittenIs
      <4> QED BY <1>10, <2>1, <4>1, <4>2
    <3> QED BY <3>2, <3>3
  <2>12. ASSUME hasMax, ~AnyId PROVE BelowOK(d, lost')
    <3> SUFFICES ASSUME NEW j \in 1 .. Len(u.rows)
                 PROVE  u.index[j] <= u.max \/ u.index[j] \in lost'
      BY <2>1 DEF BelowOK
    <3>1. CASE j = n
      BY <1>9, <1>11, <1>14, <2>12, <3>1
    <3>2. CASE j # n
      <4>1. \/ j \in 1 .. Len(disk.rows) /\ u.index[j] = disk.index[j]
            \/ u.index[j] \in lost'
        BY <2>3, <3>2
      <4>2. ASSUME j \in 1 .. Len(disk.rows), u.index[j] = disk.index[j]
            PROVE  u.index[j] <= u.max \/ u.index[j] \in lost'
        <5>1. disk.index[j] <= disk.max \/ disk.index[j] \in lost
          BY <2>12, <4>2, InvFacts DEF BelowOK
        <5>2. disk.max <= u.max /\ disk.index[j] \in Nat
          BY <1>9, <1>11, <4>2, TableFacts DEF Behind
        <5> QED BY <1>10, <2>4, <2>7, <3>2, <4>2, <5>1, <5>2
      <4> QED BY <4>1, <4>2
    <3> QED BY <3>1, <3>2
  <2>13. TypeInv'
    BY <1>1, <1>5, <1>9, <1>12, <2>1, <2>6 DEF Inv, TypeInv, d
  <2>14. IdInv' /\ SavedInv' /\ GivenInv' /\ BelowInv' /\ SeekInv'
    BY <1>1, <1>5, <1>11, <2>8, <2>9, <2>10, <2>11, <2>12
       DEF IdInv, SavedInv, GivenInv, BelowInv, SeekInv, d
  <2> QED BY <2>13, <2>14 DEF Inv
<1> QED BY <1>13, <1>14
(* All rows are saved. *)
LEMMA SaveAllKeeps ==
    ASSUME NEW t, TableOK(t), table' = t, SortOK(sort'),
           hasMax' \in BOOLEAN, sorted' \in BOOLEAN, crashes' \in 0 .. MaxCrash,
           torn' \subseteq Ids, given' \subseteq Ids, SaveAll,
           IdsOK(t, torn'),
           hasMax' => \A g \in given' : g <= t.max,
           hasMax' /\ ~AnyId => BelowOK(t, torn'),
           sorted' /\ ~Careless => SeekOK(sort', t)
    PROVE  Inv'
<1>1. disk' = t /\ lost' = torn' /\ unsaved' = {}
  BY DEF SaveAll
<1>2. Behind(t, t) /\ SavedOK(t, t, {})
  BY SameTables
<1>3. TypeInv'
  BY <1>1 DEF TypeInv
<1>4. IdInv' /\ SavedInv' /\ GivenInv' /\ BelowInv' /\ SeekInv'
  BY <1>1, <1>2 DEF IdInv, SavedInv, GivenInv, BelowInv, SeekInv
<1> QED BY <1>3, <1>4 DEF Inv

LEMMA WriteTwoKeeps ==
    ASSUME Inv, NEW v \in Writes, NEW w \in Writes, WriteTwo(v, w)
    PROVE  Inv'
<1> DEFINE u == Written(table, v)
<1> DEFINE id == IdOf(table, v.id)
<1> DEFINE n == Num(u, id)
<1> DEFINE s == SortWritten(sort, table, v)
<1> DEFINE x == Written(u, w)
<1> DEFINE next == IdOf(u, w.id)
<1> DEFINE m == Num(x, next)
<1>1. /\ v.ok /\ Sensible(table, v) /\ ~Refused(table, v) /\ Sensible(u, w)
      /\ UNCHANGED <<hasMax, sorted, crashes>>
  BY DEF WriteTwo
<1>2. \/ /\ Refused(u, w) /\ table' = u /\ sort' = s /\ torn' = torn \ {id}
         /\ unsaved' = unsaved \cup {id} /\ UNCHANGED <<disk, lost, given>>
      \/ /\ ~Refused(u, w) /\ table' = x /\ sort' = SortWritten(s, u, w)
         /\ torn' = Tear(torn \ {id}, next, w)
         /\ w.ok => SaveAll /\ given' = given \cup GivenOut(table, v) \cup GivenOut(u, w)
         /\ ~w.ok => unsaved' = unsaved \cup {id, next} /\ UNCHANGED <<disk, lost, given>>
  BY DEF WriteTwo
<1>3. WrittenIs(table, v, u, id, n)
  BY <1>1, InvFacts, WrittenFacts
<1>4. SortOK(s) /\ (sorted /\ ~Careless => SeekOK(s, u))
  BY <1>1, InvFacts, WrittenSort
<1>5. TableOK(u)
  BY <1>3 DEF WrittenIs
<1>6. ~Refused(u, w) =>
        /\ WrittenIs(u, w, x, next, m)
        /\ SortOK(SortWritten(s, u, w))
        /\ sorted /\ ~Careless => SeekOK(SortWritten(s, u, w), x)
  BY <1>1, <1>4, <1>5, WrittenFacts, WrittenSort
<1>7. hasMax /\ ~AnyId => /\ v.id # New => v.id <= table.max
                          /\ w.id # New => w.id <= u.max
  BY <1>1 DEF Sensible
<1>8. GivenOut(table, v) \subseteq (IF hasMax /\ v.id = New THEN {id} ELSE {})
  BY DEF GivenOut
<1>9. GivenOut(u, w) \subseteq (IF hasMax /\ w.id = New THEN {next} ELSE {})
  BY DEF GivenOut
<1> HIDE DEF u, id, n, s, x, next, m
<1>10. torn \ {id} = Tear(torn, id, v)
  BY <1>1 DEF Tear
<1> DEFINE T == torn \ {id}
<1>11. /\ IdsOK(u, T)
       /\ Behind(u, disk) /\ SavedOK(u, disk, unsaved \cup {id})
       /\ hasMax /\ ~AnyId => BelowOK(u, T)
  BY <1>3, <1>7, <1>10, InvFacts, WrittenIds, WrittenSaved, WrittenBelow
<1>12. T \subseteq Ids /\ id \in Ids
  BY <1>3, InvFacts DEF WrittenIs
<1> HIDE DEF T
<1>13. CASE Refused(u, w)
  <2>1. /\ table' = u /\ sort' = s /\ torn' = T
        /\ unsaved' = unsaved \cup {id} /\ UNCHANGED <<disk, lost, given>>
    BY <1>2, <1>13 DEF T
  <2>2. TypeInv'
    BY <1>1, <1>4, <1>5, <1>12, <2>1 DEF Inv, TypeInv
  <2>3. IdInv' /\ SavedInv' /\ GivenInv' /\ BelowInv' /\ SeekInv'
    BY <1>1, <1>4, <1>11, <2>1, InvFacts DEF IdInv, SavedInv, GivenInv, BelowInv, SeekInv
  <2> QED BY <2>2, <2>3 DEF Inv
<1>14. CASE ~Refused(u, w)
  <2>1. /\ table' = x /\ SortOK(sort') /\ torn' = Tear(T, next, w)
        /\ WrittenIs(u, w, x, next, m)
        /\ sorted /\ ~Careless => SeekOK(sort', x)
    BY <1>2, <1>6, <1>14 DEF T
  <2>2. /\ IdsOK(x, torn')
        /\ Behind(x, disk) /\ SavedOK(x, disk, (unsaved \cup {id}) \cup {next})
        /\ hasMax /\ ~AnyId => BelowOK(x, torn')
    BY <1>5, <1>7, <1>11, <2>1, InvFacts, WrittenIds, WrittenSaved, WrittenBelow
  <2>3. TableOK(x) /\ next \in Ids
    BY <2>1 DEF WrittenIs
  <2>4. torn' \subseteq Ids
    BY <1>12, <2>1, <2>3 DEF Tear
  <2>5. CASE ~w.ok
    <3>1. unsaved' = (unsaved \cup {id}) \cup {next} /\ UNCHANGED <<disk, lost, given>>
      BY <1>2, <1>14, <2>5
    <3>2. TypeInv'
      BY <1>1, <1>12, <2>1, <2>3, <2>4, <3>1 DEF Inv, TypeInv
    <3>3. IdInv' /\ SavedInv' /\ GivenInv' /\ BelowInv' /\ SeekInv'
      BY <1>1, <2>1, <2>2, <3>1, InvFacts DEF IdInv, SavedInv, GivenInv, BelowInv, SeekInv
    <3> QED BY <3>2, <3>3 DEF Inv
  <2>6. CASE w.ok
    <3>1. SaveAll /\ given' = given \cup GivenOut(table, v) \cup GivenOut(u, w)
      BY <1>2, <1>14, <2>6
    <3>2. given' \subseteq Ids
      BY <1>8, <1>9, <1>12, <2>3, <3>1, InvFacts
    <3>3. /\ disk.max <= x.max /\ u.max <= x.max
          /\ disk.max \in Nat /\ x.max \in Nat /\ u.max \in Nat
      BY <1>5, <2>1, <2>2, <2>3, InvFacts, TableFacts DEF Behind, WrittenIs
    <3>4. ASSUME hasMax, NEW g \in given' PROVE g <= x.max
      <4>1. CASE g \in given
        <5>1. g <= disk.max /\ g \in Nat
          BY <3>4, <4>1, InvFacts DEF Ids
        <5> QED BY <3>3, <5>1
      <4>2. CASE g \in GivenOut(table, v)
        <5>1. v.id = New /\ g = id
          BY <1>8, <4>2
        <5>2. u.max = id
          BY <1>1, <1>3, <3>4, <5>1 DEF WrittenIs
        <5> QED BY <3>3, <5>1, <5>2
      <4>3. CASE g \in GivenOut(u, w)
        <5>1. w.id = New /\ g = next
          BY <1>9, <4>3
        <5>2. x.max = next
          BY <2>1, <2>6, <3>4, <5>1 DEF WrittenIs
        <5> QED BY <3>3, <5>1, <5>2
      <4> QED BY <3>1, <3>4, <4>1, <4>2, <4>3
    <3>5. hasMax' \in BOOLEAN /\ sorted' \in BOOLEAN /\ crashes' \in 0 .. MaxCrash
      BY <1>1 DEF Inv, TypeInv
    <3> QED BY <1>1, <2>1, <2>2, <2>3, <2>4, <3>1, <3>2, <3>4, <3>5, SaveAllKeeps
  <2> QED BY <2>5, <2>6
<1> QED BY <1>13, <1>14

-----------------------------------------------------------------------------
(* ACTION_DELETE *)

LEMMA DeletedFacts ==
    ASSUME NEW t, TableOK(t), NEW id, Num(t, id) # None, NEW u, u = Deleted(t, id)
    PROVE  /\ TableOK(u) /\ u.max = t.max
           /\ \A j \in 1 .. Len(u.rows) : \E k \in 1 .. Len(t.rows) :
                u.rows[j] = t.rows[k] /\ u.index[j] = t.index[k] /\ t.index[k] # id
           /\ \A k \in 1 .. Len(t.rows) :
                t.index[k] # id => \E j \in 1 .. Len(u.rows) : u.index[j] = t.index[k]
<1> DEFINE n == Num(t, id)
<1>1. /\ n \in 1 .. Len(t.rows) /\ t.index[n] = id
      /\ \A i \in 1 .. Len(t.rows) : t.index[i] = id => i = n
  BY NumFacts
<1>2. /\ t = [rows |-> t.rows, index |-> t.index, max |-> t.max]
      /\ t.rows \in Seq(Row) /\ t.index \in Seq(Ids) /\ t.max \in 0 .. MaxId
      /\ Len(t.rows) \in Nat /\ Len(t.index) = Len(t.rows) /\ Len(t.rows) <= MaxRows
      /\ Distinct(t.index) /\ MaxRows \in Nat
  BY TableFacts
<1>3. u = [t EXCEPT !.rows = RemoveAt(@, n), !.index = RemoveAt(@, n)]
  BY DEF Deleted
<1> HIDE DEF n
<1>4. u = [rows |-> RemoveAt(t.rows, n), index |-> RemoveAt(t.index, n), max |-> t.max]
  BY <1>2, <1>3
<1>5. u.rows = RemoveAt(t.rows, n) /\ u.index = RemoveAt(t.index, n) /\ u.max = t.max
  BY <1>4
<1> DEFINE from(j) == IF j < n THEN j ELSE j + 1
<1>6. /\ u.rows \in Seq(Row) /\ Len(u.rows) = Len(t.rows) - 1
      /\ \A j \in 1 .. Len(t.rows) - 1 : u.rows[j] = t.rows[from(j)]
  BY <1>1, <1>2, <1>5, RemoveFacts
<1>7. /\ u.index \in Seq(Ids) /\ Len(u.index) = Len(t.rows) - 1
      /\ \A j \in 1 .. Len(t.rows) - 1 : u.index[j] = t.index[from(j)]
  <2>1. PICK q : q = t.index
    OBVIOUS
  <2>2. q \in Seq(Ids) /\ Len(q) = Len(t.rows) /\ n \in 1 .. Len(q)
    BY <1>1, <1>2, <2>1
  <2>3. /\ RemoveAt(q, n) \in Seq(Ids) /\ Len(RemoveAt(q, n)) = Len(q) - 1
        /\ \A i \in 1 .. Len(q) - 1 :
             RemoveAt(q, n)[i] = IF i < n THEN q[i] ELSE q[i + 1]
    BY ONLY <2>2, RemoveFacts
  <2>4. u.index = RemoveAt(q, n)
    BY <1>5, <2>1
  <2> QED BY ONLY <2>1, <2>2, <2>3, <2>4
<1>8. ASSUME NEW j \in 1 .. Len(t.rows) - 1
      PROVE  from(j) \in 1 .. Len(t.rows) /\ from(j) # n
  BY <1>1, <1>2
<1>9. ASSUME NEW i \in 1 .. Len(t.rows) - 1, NEW j \in 1 .. Len(t.rows) - 1, from(i) = from(j)
      PROVE  i = j
  BY <1>1, <1>2, <1>9
<1>10. ASSUME NEW k \in 1 .. Len(t.rows), k # n
       PROVE  \E j \in 1 .. Len(t.rows) - 1 : from(j) = k
  <2>1. CASE k < n
    <3>1. k \in 1 .. Len(t.rows) - 1 /\ from(k) = k
      BY <1>1, <1>2, <2>1
    <3> QED BY <3>1
  <2>2. CASE k > n
    <3>1. k - 1 \in 1 .. Len(t.rows) - 1 /\ from(k - 1) = k
      BY <1>1, <1>2, <2>2
    <3> QED BY <3>1
  <2> QED BY <1>1, <1>10, <2>1, <2>2
<1> HIDE DEF from
<1>11. Distinct(u.index)
  BY <1>2, <1>7, <1>8, <1>9 DEF Distinct
<1>12. TableOK(u)
  <2>1. u \in Table
    BY <1>2, <1>4, <1>5, <1>6, <1>7 DEF Table
  <2> QED BY <1>2, <1>6, <1>7, <1>11, <2>1 DEF TableOK
<1>13. ASSUME NEW j \in 1 .. Len(u.rows)
       PROVE  \E k \in 1 .. Len(t.rows) :
                u.rows[j] = t.rows[k] /\ u.index[j] = t.index[k] /\ t.index[k] # id
  BY <1>1, <1>6, <1>7, <1>8
<1>14. ASSUME NEW k \in 1 .. Len(t.rows), t.index[k] # id
       PROVE  \E j \in 1 .. Len(u.rows) : u.index[j] = t.index[k]
  <2>1. k # n
    BY <1>1, <1>14
  <2>2. PICK j \in 1 .. Len(t.rows) - 1 : from(j) = k
    BY <1>10, <2>1
  <2> QED BY <1>6, <1>7, <2>2
<1> QED BY <1>5, <1>12, <1>13, <1>14

LEMMA DeleteItemFacts ==
    ASSUME NEW s, SortOK(s), NEW i
    PROVE  SortOK(DeleteItem(s, i))
<1> DEFINE r == DeleteItem(s, i)
<1>1. CASE i \notin DOMAIN s.byNum
  BY <1>1 DEF DeleteItem
<1>2. CASE i \in DOMAIN s.byNum
  <2>1. r = [byValue |-> Without(s.byValue, s.byNum[i]), byNum |-> Without(s.byNum, i)]
    BY <1>2 DEF DeleteItem
  <2>2. /\ r.byValue = Without(s.byValue, s.byNum[i]) /\ r.byNum = Without(s.byNum, i)
        /\ r = [byValue |-> r.byValue, byNum |-> r.byNum]
    BY <2>1
  <2> HIDE DEF r
  <2>3. /\ DOMAIN r.byValue \subseteq DOMAIN s.byValue
        /\ \A z \in DOMAIN r.byValue : r.byValue[z] = s.byValue[z]
        /\ DOMAIN r.byNum \subseteq DOMAIN s.byNum
    BY <2>2 DEF Without
  <2>4. SortOK(r)
    BY <2>2, <2>3 DEF SortOK
  <2> QED BY <2>4 DEF r
<1> QED BY <1>1, <1>2

LEMMA DeleteKeeps ==
    ASSUME Inv, NEW id, DeleteOneNode(id)
    PROVE  Inv'
<1> DEFINE n == Num(table, id)
<1>1. /\ ~sorted \/ Careless
      /\ table' = IF n = None THEN table ELSE Deleted(table, id)
      /\ sort' = IF n = None \/ ~sorted THEN sort ELSE DeleteItem(sort, n)
      /\ torn' = torn \ {id} /\ SaveAll
      /\ UNCHANGED <<hasMax, sorted, given, crashes>>
  BY DEF DeleteOneNode
<1>2. SortOK(sort')
  BY <1>1, InvFacts, DeleteItemFacts
<1>3. torn' \subseteq Ids /\ given' \subseteq Ids /\ hasMax' \in BOOLEAN /\ sorted' \in BOOLEAN
      /\ crashes' \in 0 .. MaxCrash
  BY <1>1, InvFacts DEF Inv, TypeInv
<1>4. /\ TableOK(table') /\ table'.max = table.max
      /\ \A j \in 1 .. Len(table'.rows) : \E k \in 1 .. Len(table.rows) :
           /\ table'.rows[j] = table.rows[k] /\ table'.index[j] = table.index[k]
           /\ table.index[k] # id
  <2>1. CASE n = None
    <3>1. \A k \in 1 .. Len(table.rows) : table.index[k] # id
      BY <2>1, InvFacts, NumFacts
    <3> QED BY <1>1, <2>1, <3>1, InvFacts
  <2>2. CASE n # None
    <3>1. PICK t : t = table
      OBVIOUS
    <3>2. TableOK(t) /\ Num(t, id) # None
      BY <2>2, <3>1, InvFacts
    <3>3. PICK u : u = Deleted(t, id)
      OBVIOUS
    <3>4. /\ TableOK(u) /\ u.max = t.max
          /\ \A j \in 1 .. Len(u.rows) : \E k \in 1 .. Len(t.rows) :
               u.rows[j] = t.rows[k] /\ u.index[j] = t.index[k] /\ t.index[k] # id
      BY <3>2, <3>3, DeletedFacts
    <3>5. table' = u
      BY <1>1, <2>2, <3>1, <3>3
    <3> QED BY <3>1, <3>4, <3>5
  <2> QED BY <2>1, <2>2
<1> HIDE DEF n
<1>5. IdsOK(table', torn')
  BY <1>1, <1>4, InvFacts DEF IdsOK
<1>6. hasMax' /\ ~AnyId => BelowOK(table', torn')
  BY <1>1, <1>4, InvFacts DEF BelowOK
<1>7. ASSUME hasMax', NEW g \in given' PROVE g <= table'.max
  <2>1. g <= disk.max /\ disk.max <= table.max /\ g \in Nat
    BY <1>1, <1>7, InvFacts DEF Behind, Ids
  <2>2. disk.max \in Nat /\ table.max \in Nat
    BY InvFacts, TableFacts
  <2> QED BY <1>4, <2>1, <2>2
<1> QED BY <1>1, <1>2, <1>3, <1>4, <1>5, <1>6, <1>7, SaveAllKeeps

-----------------------------------------------------------------------------
(* Loading *)

(* The first row with a value stays, and every value has one. *)
LEMMA SortInit ==
    ASSUME NEW t, TableOK(t)
    PROVE  SortOK(SortObjFieldInit(t.rows)) /\ SeekOK(SortObjFieldInit(t.rows), t)
<1> DEFINE s == SortObjFieldInit(t.rows)
<1> DEFINE with(v) == {i \in 1 .. Len(t.rows) : t.rows[i].val = v}
<1> DEFINE all == {t.rows[i].val : i \in 1 .. Len(t.rows)}
<1>1. /\ t.rows \in Seq(Row) /\ Len(t.rows) \in Nat /\ Len(t.rows) <= MaxRows
      /\ MaxRows \in Nat /\ \A i \in 1 .. Len(t.rows) : t.rows[i] \in Row
  BY TableFacts
<1>2. DOMAIN t.rows = 1 .. Len(t.rows)
  BY <1>1, LenProperties
<1>3. s = [byValue |-> [v \in all |-> Min(with(v))],
           byNum |-> [i \in 1 .. Len(t.rows) |-> t.rows[i].val]]
  BY <1>2 DEF SortObjFieldInit
<1>4. all \subseteq Values \cup {Blank}
  BY <1>1 DEF Row
<1>5. ASSUME NEW v \in all
      PROVE  Min(with(v)) \in 1 .. Len(t.rows) /\ t.rows[Min(with(v))].val = v
  <2>1. with(v) \subseteq Nat /\ with(v) # {}
    OBVIOUS
  <2>2. PICK T : T = with(v)
    OBVIOUS
  <2>3. Min(T) \in T
    BY ONLY <2>1, <2>2, MinFacts
  <2>4. \A i \in T : i \in 1 .. Len(t.rows) /\ t.rows[i].val = v
    BY <2>2
  <2> QED BY <2>2, <2>3, <2>4
<1>6. \A i \in 1 .. Len(t.rows) : t.rows[i].val \in all
  OBVIOUS
<1> DEFINE first(v) == Min(with(v))
<1>7. /\ s = [byValue |-> s.byValue, byNum |-> s.byNum]
      /\ DOMAIN s.byValue = all /\ \A v \in all : s.byValue[v] = first(v)
      /\ DOMAIN s.byNum = 1 .. Len(t.rows)
  BY <1>3
<1> HIDE DEF s, all, with
<1>8. \A v \in all : first(v) \in 1 .. Len(t.rows) /\ t.rows[first(v)].val = v
  BY <1>5
<1> HIDE DEF first
<1>9. SortOK(s)
  BY <1>1, <1>4, <1>7, <1>8 DEF SortOK
<1>10. SeekOK(s, t)
  BY <1>6, <1>7, <1>8 DEF SeekOK
<1> QED BY <1>9, <1>10 DEF s

LEMMA NoSortOK == SortOK(NoSort)
<1>1. NoSort.byValue = [v \in {} |-> None] /\ NoSort.byNum = [i \in {} |-> Blank]
      /\ NoSort = [byValue |-> NoSort.byValue, byNum |-> NoSort.byNum]
  BY DEF NoSort
<1>2. DOMAIN NoSort.byValue = {} /\ DOMAIN NoSort.byNum = {}
  BY <1>1
<1> QED BY <1>1, <1>2 DEF SortOK

LEMMA CrashKeeps ==
    ASSUME Inv, Crash
    PROVE  Inv'
<1>1. /\ crashes < MaxCrash /\ crashes' = crashes + 1
      /\ table' = disk /\ torn' = lost /\ unsaved' = {}
      /\ sort' = IF sorted THEN SortObjFieldInit(disk.rows) ELSE NoSort
      /\ UNCHANGED <<hasMax, sorted, disk, lost, given>>
  BY DEF Crash
<1>2. TableOK(disk)
  BY InvFacts
<1>3. SortOK(sort') /\ (sorted => SeekOK(sort', disk))
  BY <1>1, <1>2, SortInit, NoSortOK
<1>4. crashes' \in 0 .. MaxCrash
  BY <1>1, RowsAssumption DEF Inv, TypeInv
<1>5. Behind(disk, disk) /\ SavedOK(disk, disk, {})
  BY <1>2, SameTables
<1>6. TypeInv'
  BY <1>1, <1>2, <1>3, <1>4, InvFacts DEF Inv, TypeInv
<1>7. IdInv' /\ SavedInv' /\ GivenInv' /\ BelowInv' /\ SeekInv'
  BY <1>1, <1>3, <1>5, InvFacts DEF IdInv, SavedInv, GivenInv, BelowInv, SeekInv
<1> QED BY <1>6, <1>7 DEF Inv

-----------------------------------------------------------------------------
(* The invariant *)

LEMMA InvInit == Init => Inv
<1> SUFFICES ASSUME Init PROVE Inv
  OBVIOUS
<1>1. /\ hasMax \in BOOLEAN /\ sorted \in BOOLEAN
      /\ table = NoTable /\ sort = NoSort /\ disk = NoTable
      /\ torn = {} /\ lost = {} /\ unsaved = {} /\ given = {} /\ crashes = 0
  BY DEF Init
<1>2. /\ NoTable = [rows |-> <<>>, index |-> <<>>, max |-> 0]
      /\ NoTable.rows = <<>> /\ NoTable.index = <<>> /\ NoTable.max = 0
  BY DEF NoTable
<1>3. MaxId \in Nat /\ MaxRows \in Nat /\ MaxCrash \in Nat
  BY RowsAssumption
<1>4. TableOK(NoTable)
  <2>1. PICK e : e = <<>>
    OBVIOUS
  <2>2. e \in Seq(Row) /\ e \in Seq(Ids) /\ Len(e) = 0
    BY <2>1
  <2>3. NoTable \in Table
    BY <1>2, <1>3, <2>1, <2>2 DEF Table
  <2>4. Len(NoTable.rows) = 0 /\ Len(NoTable.index) = 0
    BY <1>2, <2>1, <2>2
  <2> QED BY <1>3, <2>3, <2>4 DEF TableOK, Distinct
<1>5. Len(NoTable.rows) = 0
  BY <1>2
<1>6. TypeInv
  BY <1>1, <1>3, <1>4, NoSortOK DEF TypeInv
<1>7. IdInv /\ GivenInv /\ BelowInv
  BY <1>1, <1>5 DEF IdInv, IdsOK, GivenInv, BelowInv, BelowOK
<1>8. SavedInv
  BY <1>1, <1>4, SameTables DEF SavedInv
<1>9. SeekInv
  <2>1. DOMAIN NoSort.byValue = {}
    BY DEF NoSort
  <2> QED BY <1>1, <1>5, <2>1 DEF SeekInv, SeekOK
<1> QED BY <1>6, <1>7, <1>8, <1>9 DEF Inv

LEMMA InvNext == Inv /\ [Next]_vars => Inv'
<1> SUFFICES ASSUME Inv, [Next]_vars PROVE Inv'
  OBVIOUS
<1>1. ASSUME NEW w \in Writes, WriteOne(w) PROVE Inv'
  BY <1>1, WriteOneKeeps
<1>2. ASSUME NEW v \in Writes, NEW w \in Writes, WriteTwo(v, w) PROVE Inv'
  BY <1>2, WriteTwoKeeps
<1>3. ASSUME NEW id \in Ids, Delete(id) PROVE Inv'
  <2>1. DeleteOneNode(id)
    BY <1>3 DEF Delete
  <2> QED BY <2>1, DeleteKeeps
<1>4. ASSUME NEW ids \in Batches, DeleteBatch(ids) PROVE Inv'
  <2>1. DeleteOneNode(IdOfBatch(ids))
    BY <1>4 DEF DeleteBatch
  <2> QED BY <2>1, DeleteKeeps
<1>5. CASE Crash
  BY <1>5, CrashKeeps
<1>6. CASE UNCHANGED vars
  BY <1>6 DEF vars, Inv, TypeInv, IdInv, SavedInv, GivenInv, BelowInv, SeekInv
<1> QED BY <1>1, <1>2, <1>3, <1>4, <1>5, <1>6 DEF Next

(* What holds after every write, delete and restart of a table with an     *)
(* index, whichever of the writes fails (WriteBufferToDB, DeleteFromDB).   *)
THEOREM RowsInvariant == Spec => []Inv
<1>1. Init => Inv
  BY InvInit
<1>2. Inv /\ [Next]_vars => Inv'
  BY InvNext
<1> QED BY <1>1, <1>2, PTL DEF Spec

(* Rows and ids stay side by side, in memory and in what is loaded.        *)
LEMMA RowsIndexedInv == Inv => RowsIndexed
<1> SUFFICES ASSUME Inv PROVE RowsIndexed
  OBVIOUS
<1>1. ASSUME NEW t, TableOK(t)
      PROVE  /\ DOMAIN t.rows = 1 .. Len(t.rows) /\ DOMAIN t.index = 1 .. Len(t.rows)
             /\ Len(t.rows) <= MaxRows /\ \A i \in 1 .. Len(t.rows) : t.rows[i] \in Row
             /\ Len(t.index) = Len(t.rows) /\ \A i \in 1 .. Len(t.rows) : t.index[i] \in Ids
             /\ t.max \in 0 .. MaxId /\ IsInjective(t.index)
  <2>1. /\ t.rows \in Seq(Row) /\ t.index \in Seq(Ids) /\ t.max \in 0 .. MaxId
        /\ Len(t.index) = Len(t.rows) /\ Len(t.rows) <= MaxRows /\ Distinct(t.index)
        /\ \A i \in 1 .. Len(t.rows) : t.rows[i] \in Row /\ t.index[i] \in Ids
    BY <1>1, TableFacts
  <2>2. DOMAIN t.rows = 1 .. Len(t.rows) /\ DOMAIN t.index = 1 .. Len(t.rows)
    BY <2>1, LenProperties
  <2>3. IsInjective(t.index)
    BY <2>1, <2>2 DEF IsInjective, Distinct
  <2> QED BY <2>1, <2>2, <2>3
<1>2. TableOK(table) /\ TableOK(disk)
  BY InvFacts
<1>3. TypeOK
  <2>1. \A t \in {table, disk} :
          /\ Len(t.rows) <= MaxRows /\ \A i \in DOMAIN t.rows : t.rows[i] \in Row
          /\ Len(t.index) <= MaxRows /\ \A i \in DOMAIN t.index : t.index[i] \in Ids
          /\ t.max \in 0 .. MaxId
    BY <1>1, <1>2
  <2>2. /\ DOMAIN sort.byValue \subseteq Values \cup {Blank}
        /\ \A v \in DOMAIN sort.byValue : sort.byValue[v] \in 1 .. MaxRows
        /\ DOMAIN sort.byNum \subseteq 1 .. MaxRows
    BY InvFacts DEF SortOK
  <2>3. \A s \in {torn, lost, unsaved, given} : s \subseteq Ids
    BY InvFacts
  <2> QED BY <2>1, <2>2, <2>3 DEF TypeOK, Inv, TypeInv
<1>4. ASSUME NEW t, NEW ids, TableOK(t), IdsOK(t, ids)
      PROVE  /\ Len(t.index) = Len(t.rows) /\ IsInjective(t.index)
             /\ \A i \in DOMAIN t.rows : t.rows[i].id = t.index[i] \/ t.index[i] \in ids
  BY <1>1, <1>4 DEF IdsOK
<1>5. IdsOK(table, torn) /\ IdsOK(disk, lost)
  BY InvFacts
<1> DEFINE here == [t |-> table, torn |-> torn]
<1> DEFINE there == [t |-> disk, torn |-> lost]
<1>6. here.t = table /\ here.torn = torn /\ there.t = disk /\ there.torn = lost
  OBVIOUS
<1>7. ASSUME NEW s \in {here, there}
      PROVE  /\ Len(s.t.index) = Len(s.t.rows) /\ IsInjective(s.t.index)
             /\ \A i \in DOMAIN s.t.rows :
                  s.t.rows[i].id = s.t.index[i] \/ s.t.index[i] \in s.torn
  <2>1. TableOK(s.t) /\ IdsOK(s.t, s.torn)
    BY <1>2, <1>5, <1>6
  <2> HIDE DEF here, there
  <2> QED BY <1>4, <2>1
<1> QED BY <1>3, <1>7 DEF RowsIndexed

THEOREM RowsIndexedHolds == Spec => []RowsIndexed
BY RowsInvariant, RowsIndexedInv, PTL

(* A restart loads every row but those of an action that failed.           *)
LEMMA SavedHere == Inv => Saved
<1> SUFFICES ASSUME Inv, NEW i \in DOMAIN table.rows, table.index[i] \notin unsaved
             PROVE  /\ i \in DOMAIN disk.rows
                    /\ disk.rows[i] = table.rows[i] /\ disk.index[i] = table.index[i]
  BY DEF Saved
<1>1. /\ table.rows \in Seq(Row) /\ disk.rows \in Seq(Row)
      /\ Len(table.rows) \in Nat /\ Len(disk.rows) \in Nat
  BY InvFacts, TableFacts
<1>2. DOMAIN table.rows = 1 .. Len(table.rows) /\ DOMAIN disk.rows = 1 .. Len(disk.rows)
  BY <1>1, LenProperties
<1>3. i <= Len(disk.rows) /\ disk.rows[i] = table.rows[i] /\ disk.index[i] = table.index[i]
  BY <1>2, InvFacts DEF SavedOK
<1> QED BY <1>1, <1>2, <1>3

THEOREM SavedHolds == Spec => []Saved
BY RowsInvariant, SavedHere, PTL

(* A search in the sort index finds a row that has the value, and finds    *)
(* one if there is one (AvartarSortObj::SeekItem).                         *)
LEMMA SeeksHere == ~Careless /\ Inv => SortSeeks
<1> SUFFICES ASSUME ~Careless, Inv, sorted, NEW v \in Values
             PROVE  LET n == SeekItem(sort, v) IN
                    /\ n # None => n \in DOMAIN table.rows /\ table.rows[n].val = v
                    /\ n = None => \A i \in DOMAIN table.rows :
                         table.rows[i].val = v => table.index[i] \in torn
  BY DEF SortSeeks
<1>1. table.rows \in Seq(Row) /\ Len(table.rows) \in Nat
  BY InvFacts, TableFacts
<1>2. DOMAIN table.rows = 1 .. Len(table.rows)
  BY <1>1, LenProperties
<1>3. SeekOK(sort, table)
  BY InvFacts
<1>4. CASE v \in DOMAIN sort.byValue
  <2>1. SeekItem(sort, v) = sort.byValue[v]
    BY <1>4 DEF SeekItem
  <2>2. sort.byValue[v] \in 1 .. Len(table.rows) /\ table.rows[sort.byValue[v]].val = v
    BY <1>3, <1>4 DEF SeekOK
  <2>3. sort.byValue[v] # None
    BY <1>1, <2>2 DEF None
  <2> QED BY <1>2, <2>1, <2>2, <2>3
<1>5. CASE v \notin DOMAIN sort.byValue
  <2>1. SeekItem(sort, v) = None
    BY <1>5 DEF SeekItem
  <2>2. \A i \in 1 .. Len(table.rows) : table.rows[i].val # v
    BY <1>3, <1>5 DEF SeekOK
  <2> QED BY <1>2, <2>1, <2>2
<1> QED BY <1>4, <1>5

THEOREM SortSeeksHolds ==
    ASSUME ~Careless
    PROVE  Spec => []SortSeeks
<1>1. Inv => SortSeeks
  BY SeeksHere
<1> QED BY <1>1, RowsInvariant, PTL

(* INDEX_MAX_NUM gives an id out once: the number it would give next is    *)
(* above all that were given, but for the first.                           *)
LEMMA NextIdIsNew == Inv /\ hasMax => IdOf(table, New) \notin given \ {1}
<1> SUFFICES ASSUME Inv, hasMax, IdOf(table, New) \in given, IdOf(table, New) # 1
             PROVE  FALSE
  OBVIOUS
<1> DEFINE g == IdOf(table, New)
<1>1. g = LastId(table) + 1
  BY DEF IdOf
<1>2. /\ LastId(table) \in 0 .. MaxId
      /\ table.max >= 2 => LastId(table) = table.max
  BY InvFacts, LastIdFacts
<1>3. g \in 1 .. MaxId /\ MaxId \in Nat
  BY InvFacts, RowsAssumption DEF Ids
<1>4. g <= disk.max /\ disk.max <= table.max
  BY InvFacts DEF Behind
<1>5. disk.max \in Nat /\ table.max \in Nat
  BY InvFacts, TableFacts
<1>6. g # 1
  OBVIOUS
<1> HIDE DEF g
<1> QED BY <1>1, <1>2, <1>3, <1>4, <1>5, <1>6

THEOREM NeverReusedHolds == Spec => NeverReused
<1>1. Inv /\ [Next]_vars =>
        [hasMax /\ IdOf(table, New) \in given \ {1} =>
            \A v \in Values : ~WriteOne([id |-> New, val |-> v, ok |-> TRUE])]_vars
  BY NextIdIsNew
<1> QED BY <1>1, RowsInvariant, PTL DEF Spec, NeverReused

-----------------------------------------------------------------------------
(* No row in the place of another one *)

(* The id of a new row is that of no row that was written whole. *)
LEMMA NewIdIsFree ==
    ASSUME ~AnyId, Inv, NEW i \in 1 .. Len(table.rows), table.index[i] = IdOf(table, New)
    PROVE  table.index[i] \in torn
<1>1. table.index[i] = LastId(table) + 1
  BY DEF IdOf
<1>2. /\ LastId(table) \in 0 .. MaxId
      /\ hasMax /\ table.max >= 2 => LastId(table) = table.max
      /\ ~(hasMax /\ table.max >= 2) => table.index[i] <= LastId(table)
  BY InvFacts, LastIdFacts
<1>3. MaxId \in Nat /\ table.max \in Nat /\ table.index[i] \in Nat
  BY InvFacts, TableFacts
<1>4. hasMax => table.index[i] <= table.max \/ table.index[i] \in torn
  BY InvFacts DEF BelowOK
<1> QED BY <1>1, <1>2, <1>3, <1>4

LEMMA NewRowKeeps ==
    ASSUME ~AnyId, Inv, NEW w \in Writes, w.id = New, WriteOne(w),
           NEW i \in DOMAIN table.rows \cap DOMAIN table'.rows, table.index[i] \notin torn
    PROVE  table'.rows[i] = table.rows[i]
<1> DEFINE id == IdOf(table, w.id)
<1> DEFINE u == Written(table, w)
<1> DEFINE n == Num(u, id)
<1>1. ~Refused(table, w) /\ table' = u
  BY DEF WriteOne
<1>2. WrittenIs(table, w, u, id, n)
  BY <1>1, InvFacts, WrittenFacts
<1>3. TableOK(table) /\ TableOK(u)
  BY <1>2, InvFacts DEF WrittenIs
<1>4. id = IdOf(table, New)
  OBVIOUS
<1> HIDE DEF u, id, n
<1>5. DOMAIN table.rows = 1 .. Len(table.rows) /\ DOMAIN u.rows = 1 .. Len(u.rows)
  <2>1. table.rows \in Seq(Row) /\ u.rows \in Seq(Row)
    BY <1>3, TableFacts
  <2> QED BY <2>1, LenProperties
<1>6. i \in 1 .. Len(table.rows) /\ i \in 1 .. Len(u.rows)
  BY <1>1, <1>5
<1>7. i # n
  <2> SUFFICES ASSUME i = n PROVE FALSE
    OBVIOUS
  <2>1. table.index[i] = id
    BY <1>2, <1>6 DEF WrittenIs
  <2> QED BY <1>4, <1>6, <2>1, NewIdIsFree
<1>8. u.rows[i] = table.rows[i]
  BY <1>2, <1>6, <1>7 DEF WrittenIs
<1> QED BY <1>1, <1>8

(* The number that a batch of two makes of its ids is that of no row.      *)
LEMMA BatchIsNoId ==
    ASSUME NEW ids \in Batches
    PROVE  IdOfBatch(ids) \in Ids => IdOfBatch(ids) \in ToSet(ids)
<1>1. MaxId \in Nat /\ Base \in Nat /\ MaxId < Base
  BY RowsAssumption
<1>2. PICK n \in 1 .. 2 : ids \in [1 .. n -> Ids]
  BY DEF Batches
<1>3. ids \in Seq(Ids) /\ Len(ids) = n /\ DOMAIN ids = 1 .. n
  <2>1. n \in Nat
    BY <1>2
  <2>2. ids \in Seq(Ids) /\ DOMAIN ids = 1 .. n
    BY <1>2, <2>1, SeqDef
  <2>3. Len(ids) \in Nat /\ 1 .. Len(ids) = 1 .. n
    BY <2>2, LenProperties
  <2>4. n \in 1 .. Len(ids) /\ (Len(ids) > 0 => Len(ids) \in 1 .. n)
    BY <1>2, <2>3
  <2> QED BY <2>1, <2>2, <2>3, <2>4
<1>4. CASE n = 1
  BY <1>3, <1>4 DEF IdOfBatch, ToSet
<1>5. CASE n = 2
  <2>1. ids[1] \in Nat /\ ids[1] >= 1 /\ ids[2] \in Nat /\ ids[2] >= 1
    BY <1>2, <1>5 DEF Ids
  <2>2. IdOfBatch(ids) = ids[1] * Base + ids[2]
    BY <1>3, <1>5 DEF IdOfBatch
  <2>3. ASSUME NEW a \in Nat, NEW b \in Nat, a >= 1 PROVE a * b >= b /\ a * b \in Nat
    BY <2>3
  <2>4. ids[1] * Base >= Base /\ ids[1] * Base \in Nat
    BY <1>1, <2>1, <2>3
  <2>5. IdOfBatch(ids) \notin Ids
    BY <1>1, <2>1, <2>2, <2>4 DEF Ids
  <2> QED BY <2>5
<1> QED BY <1>2, <1>4, <1>5

LEMMA BatchKeeps ==
    ASSUME Inv, NEW ids \in Batches, DeleteBatch(ids), table'.index # table.index
    PROVE  ToSet(table.index) \ ToSet(table'.index) \subseteq ToSet(ids)
<1>1. PICK id : id = IdOfBatch(ids)
  OBVIOUS
<1>2. table' = IF Num(table, id) = None THEN table ELSE Deleted(table, id)
  BY <1>1 DEF DeleteBatch, DeleteOneNode
<1>3. Num(table, id) # None
  BY <1>2
<1>4. PICK t : t = table
  OBVIOUS
<1>5. PICK u : u = Deleted(t, id)
  OBVIOUS
<1>6. TableOK(t) /\ Num(t, id) # None
  BY <1>3, <1>4, InvFacts
<1>7. /\ TableOK(u) /\ u.max = t.max
      /\ \A j \in 1 .. Len(u.rows) : \E k \in 1 .. Len(t.rows) :
           u.rows[j] = t.rows[k] /\ u.index[j] = t.index[k] /\ t.index[k] # id
      /\ \A k \in 1 .. Len(t.rows) :
           t.index[k] # id => \E j \in 1 .. Len(u.rows) : u.index[j] = t.index[k]
  BY <1>5, <1>6, DeletedFacts
<1>8. table' = u
  BY <1>2, <1>3, <1>4, <1>5
<1>9. \E k \in 1 .. Len(t.rows) : t.index[k] = id /\ id \in Ids
  BY <1>6, NumFacts, TableFacts
<1>10. id \in ToSet(ids)
  BY <1>1, <1>9, BatchIsNoId
<1>11. DOMAIN t.index = 1 .. Len(t.rows) /\ DOMAIN u.index = 1 .. Len(u.rows)
  <2>1. /\ t.index \in Seq(Ids) /\ Len(t.index) = Len(t.rows)
        /\ u.index \in Seq(Ids) /\ Len(u.index) = Len(u.rows)
    BY <1>6, <1>7, TableFacts
  <2> QED BY <2>1, LenProperties
<1>12. ASSUME NEW x \in ToSet(t.index), x \notin ToSet(u.index) PROVE x = id
  <2>1. PICK k \in 1 .. Len(t.rows) : t.index[k] = x
    BY <1>11 DEF ToSet
  <2>2. \A j \in 1 .. Len(u.rows) : u.index[j] # x
    BY <1>11, <1>12 DEF ToSet
  <2> QED BY <1>7, <2>1, <2>2
<1> QED BY <1>4, <1>10, <1>12, <1>8

(* A new row is written over no row that was written whole, and a batch of *)
(* ids deletes no row it does not name (WriteBufferToDB, DeleteFromDB).    *)
THEOREM OthersKeptHolds ==
    ASSUME ~AnyId
    PROVE  Spec => OthersKept
<1>1. Inv /\ [Next]_vars =>
        [/\ (\E i \in DOMAIN table.rows \cap DOMAIN table'.rows :
                table'.rows[i] # table.rows[i] /\ table.index[i] \notin torn) =>
              \A w \in {x \in Writes : x.id = New} : ~WriteOne(w)
         /\ \A ids \in Batches :
              table'.index # table.index /\ DeleteBatch(ids) =>
                ToSet(table.index) \ ToSet(table'.index) \subseteq ToSet(ids)]_vars
  <2> SUFFICES ASSUME Inv
               PROVE  /\ \A i \in DOMAIN table.rows \cap DOMAIN table'.rows :
                           table'.rows[i] # table.rows[i] /\ table.index[i] \notin torn =>
                             \A w \in {x \in Writes : x.id = New} : ~WriteOne(w)
                      /\ \A ids \in Batches :
                           table'.index # table.index /\ DeleteBatch(ids) =>
                             ToSet(table.index) \ ToSet(table'.index) \subseteq ToSet(ids)
    OBVIOUS
  <2> QED BY NewRowKeeps, BatchKeeps
<1> QED BY <1>1, RowsInvariant, PTL DEF Spec, OthersKept
===============================================================================
