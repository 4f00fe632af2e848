--------------------------- MODULE TableFile_proofs ---------------------------
(***************************************************************************)
(* Proofs about TableFile: for any number of rows and any values, a crash  *)
(* or a failure at any write leaves a file from which a table before or    *)
(* after the last save is loaded, and between saves the file is what the   *)
(* object is.                                                              *)
(***************************************************************************)
EXTENDS TableFile, TLAPS, SequenceTheorems

(* What the cell at a position holds when these are the rows. *)
Cell(rows, p) == IF p = 1 THEN Len(rows) ELSE rows[p - 1]
Cells == Row \cup (0 .. MaxRows)
Places == 1 .. MaxRows + 1

IsCell(p, c) == IF p = 1 THEN c \in 0 .. MaxRows ELSE c \in Row

TypeInv ==
    /\ table \in Rows \cup {None} /\ saved \in Rows /\ goal \in Rows
    /\ good \in BOOLEAN /\ whole \in BOOLEAN /\ mixed \in BOOLEAN
    /\ lag \in {"none", "failed", "reopened"}
    /\ length \in Unopened .. MaxRows + 1
    /\ pending \in Seq([pos : Places, val : Cells])
    /\ \A k \in 1 .. Len(pending) : IsCell(pending[k].pos, pending[k].val)
    /\ file # None =>
         /\ file \in Seq(Cells) /\ Len(file) <= MaxRows + 1
         /\ \A p \in 1 .. Len(file) : IsCell(p, file[p])

(* An open file is there and no shorter than was noted; nothing is saved   *)
(* to one that is not open.  The stream is bad while writes are lost.      *)
OpenInv ==
    /\ length # Unopened => file # None /\ length <= Len(file)
    /\ length = Unopened => table = None /\ pending = <<>>
    /\ good <=> lag # "failed"
    /\ whole => pending # <<>>

(* The writes that are left are of the object, which is saved; the first   *)
(* one to an empty file is the head.                                       *)
PendInv ==
    pending # <<>> /\ good =>
        /\ table = goal
        /\ \A k \in 1 .. Len(pending) :
             pending[k].pos <= Len(goal) + 1 /\ pending[k].val = Cell(goal, pending[k].pos)
        /\ file = <<>> => pending[1].pos = 1

(* Single rows are saved to a file that is behind, or all to a new one. *)
MixedInv ==
    /\ pending # <<>> /\ lag = "reopened" => mixed
    /\ pending # <<>> /\ lag = "none" /\ mixed => whole

(* Every cell is in the file or is going to be written, if nothing was     *)
(* lost before this save or all is saved.                                  *)
InFile(p) == p \in 1 .. Len(file) /\ file[p] = Cell(goal, p)
Unread(p) == p > 1 /\ Cell(goal, p) = Garbage
CoverInv ==
    length # Unopened /\ (lag = "none" \/ (good /\ whole)) =>
        \A p \in 1 .. Len(goal) + 1 :
            InFile(p) \/ Unread(p) \/ \E k \in 1 .. Len(pending) : pending[k].pos = p

(* Between two saves with nothing lost, object and save are the same. *)
SavedInv ==
    pending = <<>> /\ length # Unopened /\ lag = "none" =>
        saved = goal /\ ~mixed /\ (table # None => table = goal)

(* What a new process would find. *)
DiskInv ==
    ~mixed =>
        /\ file \in {None, <<>>} => saved = <<>>
        /\ file \notin {None, <<>>} =>
             /\ file[1] = Len(saved) \/ file[1] = Len(goal)
             /\ \A i \in 1 .. Len(saved) :
                  i <= Len(goal) =>
                    \/ saved[i] = Garbage
                    \/ i + 1 <= Len(file) /\ file[i + 1] \in {saved[i], goal[i]}

Inv ==
    TypeInv /\ OpenInv /\ PendInv /\ MixedInv /\ CoverInv /\ SavedInv /\ DiskInv

-----------------------------------------------------------------------------
(* Sequences *)

LEMMA SameLength ==
    ASSUME NEW m \in Nat, NEW n \in Nat, 1 .. m = 1 .. n
    PROVE  m = n
<1>1. (m > 0 => m \in 1 .. n) /\ (n > 0 => n \in 1 .. m)
  OBVIOUS
<1> QED BY <1>1

LEMMA FunctionIsSeq ==
    ASSUME NEW S, NEW n \in Nat, NEW f \in [1 .. n -> S]
    PROVE  f \in Seq(S) /\ Len(f) = n
<1>1. f \in Seq(S)
  BY SeqDef
<1>2. Len(f) \in Nat /\ DOMAIN f = 1 .. Len(f) /\ DOMAIN f = 1 .. n
  BY <1>1, LenProperties
<1>3. Len(f) = n
  BY <1>2, SameLength
<1> QED BY <1>1, <1>3

LEMMA TailFacts ==
    ASSUME NEW S, NEW q \in Seq(S), q # <<>>
    PROVE  /\ q[1] \in S /\ Tail(q) \in Seq(S)
           /\ Len(q) \in Nat \ {0} /\ Len(Tail(q)) = Len(q) - 1
           /\ \A i \in 1 .. Len(q) - 1 : Tail(q)[i] = q[i + 1]
           /\ (Tail(q) = <<>>) <=> (Len(q) = 1)
<1>1. /\ q[1] \in S /\ Tail(q) \in Seq(S)
      /\ Len(q) \in Nat \ {0} /\ Len(Tail(q)) = Len(q) - 1
      /\ \A i \in 1 .. Len(q) - 1 : Tail(q)[i] = q[i + 1]
  OBVIOUS
<1>2. (Tail(q) = <<>>) <=> (Len(Tail(q)) = 0)
  BY <1>1, EmptySeq
<1> QED BY <1>1, <1>2

(* Tables are the sequences of rows that are short enough. *)
LEMMA RowsIs ==
    ASSUME NEW r
    PROVE  r \in Rows <=> r \in Seq(Row) /\ Len(r) <= MaxRows
<1>1. MaxRows \in Nat
  BY TableAssumption
<1>2. ASSUME r \in Rows PROVE r \in Seq(Row) /\ Len(r) <= MaxRows
  <2>1. PICK n \in 0 .. MaxRows : r \in [1 .. n -> Row]
    BY <1>2 DEF Rows
  <2>2. n \in Nat /\ n <= MaxRows
    BY <1>1, <2>1
  <2>3. r \in Seq(Row) /\ Len(r) = n
    BY <2>1, <2>2, FunctionIsSeq
  <2> QED BY <2>2, <2>3
<1>3. ASSUME r \in Seq(Row), Len(r) <= MaxRows PROVE r \in Rows
  <2>1. Len(r) \in 0 .. MaxRows /\ r \in [1 .. Len(r) -> Row]
    BY <1>1, <1>3, LenProperties
  <2> QED BY <2>1 DEF Rows
<1> QED BY <1>2, <1>3

LEMMA RowFacts ==
    ASSUME NEW r \in Rows
    PROVE  /\ r \in Seq(Row) /\ Len(r) \in 0 .. MaxRows /\ Len(r) \in Nat
           /\ DOMAIN r = 1 .. Len(r)
           /\ \A i \in 1 .. Len(r) : r[i] \in Row
<1>1. MaxRows \in Nat
  BY TableAssumption
<1>2. r \in Seq(Row) /\ Len(r) <= MaxRows
  BY RowsIs
<1>3. Len(r) \in Nat /\ DOMAIN r = 1 .. Len(r) /\ \A i \in 1 .. Len(r) : r[i] \in Row
  BY <1>2, LenProperties, ElementOfSeq
<1> QED BY <1>1, <1>2, <1>3

LEMMA CellFacts ==
    ASSUME NEW r \in Rows, NEW p \in 1 .. Len(r) + 1
    PROVE  /\ p \in Places /\ Cell(r, p) \in Cells /\ IsCell(p, Cell(r, p))
           /\ p = 1 => Cell(r, p) = Len(r)
           /\ p > 1 => p - 1 \in 1 .. Len(r) /\ Cell(r, p) = r[p - 1]
<1>1. Len(r) \in 0 .. MaxRows /\ Len(r) \in Nat /\ \A i \in 1 .. Len(r) : r[i] \in Row
  BY RowFacts
<1>2. MaxRows \in Nat
  BY TableAssumption
<1>3. p \in Nat /\ p \in Places /\ (p > 1 => p - 1 \in 1 .. Len(r)) /\ p >= 1
  BY <1>1, <1>2 DEF Places
<1> QED BY <1>1, <1>3 DEF Cell, Cells, IsCell

-----------------------------------------------------------------------------
(* Writes *)

LEMMA WriteFacts ==
    ASSUME NEW f \in Seq(Cells), NEW pos \in Nat \ {0}, NEW v \in Cells
    PROVE  /\ Write(f, pos, v) \in Seq(Cells)
           /\ Len(Write(f, pos, v)) = Longer(pos, Len(f))
           /\ Write(f, pos, v)[pos] = v
           /\ \A i \in 1 .. Longer(pos, Len(f)) :
                i # pos => Write(f, pos, v)[i] = IF i <= Len(f) THEN f[i] ELSE Garbage
<1> DEFINE n == Longer(pos, Len(f))
<1> DEFINE w == Write(f, pos, v)
<1>1. Len(f) \in Nat /\ \A i \in 1 .. Len(f) : f[i] \in Cells
  BY ElementOfSeq
<1>2. n \in Nat /\ pos \in 1 .. n /\ Len(f) <= n
  BY <1>1 DEF Longer
<1>3. w = [i \in 1 .. n |-> IF i = pos THEN v ELSE IF i <= Len(f) THEN f[i] ELSE Garbage]
  BY DEF Write
<1> HIDE DEF n, w
<1>4. Garbage \in Cells
  BY DEF Cells, Row
<1>5. ASSUME NEW i \in 1 .. n
      PROVE  (IF i = pos THEN v ELSE IF i <= Len(f) THEN f[i] ELSE Garbage) \in Cells
  BY <1>1, <1>2, <1>4, <1>5
<1>6. w \in [1 .. n -> Cells]
  BY <1>3, <1>5
<1>7. w \in Seq(Cells) /\ Len(w) = n
  BY <1>2, <1>6, FunctionIsSeq
<1> QED BY <1>2, <1>3, <1>7 DEF n, w

(* The writes of a save of these rows. *)
WritesOf(ws, rows) ==
    /\ ws \in Seq([pos : Places, val : Cells]) /\ ws # <<>> /\ ws[1].pos = 1
    /\ \A k \in 1 .. Len(ws) :
         ws[k].pos \in 1 .. Len(rows) + 1 /\ ws[k].val = Cell(rows, ws[k].pos)

Writes(ws, p) == \E k \in 1 .. Len(ws) : ws[k].pos = p

LEMMA HeadFacts ==
    ASSUME NEW r \in Rows
    PROVE  /\ HeadWrite(r) \in Seq([pos : Places, val : Cells])
           /\ Len(HeadWrite(r)) = 1 /\ HeadWrite(r)[1] = [pos |-> 1, val |-> Cell(r, 1)]
<1>1. Len(r) \in Nat /\ 1 \in 1 .. Len(r) + 1
  BY RowFacts
<1>2. 1 \in Places /\ Cell(r, 1) = Len(r) /\ Cell(r, 1) \in Cells
  BY <1>1, CellFacts
<1> QED BY <1>2 DEF HeadWrite

LEMMA SaveDBWrites ==
    ASSUME NEW r \in Rows
    PROVE  /\ WritesOf(SaveDB(r), r)
           /\ \A p \in 1 .. Len(r) + 1 : Writes(SaveDB(r), p)
<1> DEFINE h == HeadWrite(r)
<1> DEFINE rest == RowWrites(r)
<1> DEFINE ws == SaveDB(r)
<1>1. /\ h \in Seq([pos : Places, val : Cells]) /\ Len(h) = 1
      /\ h[1] = [pos |-> 1, val |-> Cell(r, 1)]
  BY HeadFacts
<1>2. Len(r) \in Nat /\ DOMAIN r = 1 .. Len(r)
  BY RowFacts
<1>3. ASSUME NEW i \in 1 .. Len(r)
      PROVE  /\ i + 1 \in 1 .. Len(r) + 1 /\ i + 1 \in Places /\ r[i] = Cell(r, i + 1)
             /\ Cell(r, i + 1) \in Cells
  <2>1. i + 1 \in 1 .. Len(r) + 1 /\ i + 1 > 1 /\ i + 1 - 1 = i
    BY <1>2
  <2> QED BY <2>1, CellFacts
<1>4. rest = [i \in 1 .. Len(r) |-> [pos |-> i + 1, val |-> r[i]]]
  BY <1>2 DEF RowWrites
<1>5. ws = h \o rest
  BY DEF SaveDB
<1> HIDE DEF h, rest, ws
<1>6. rest \in [1 .. Len(r) -> [pos : Places, val : Cells]]
  BY <1>3, <1>4
<1>7. rest \in Seq([pos : Places, val : Cells]) /\ Len(rest) = Len(r)
  BY <1>2, <1>6, FunctionIsSeq
<1>8. /\ ws \in Seq([pos : Places, val : Cells]) /\ Len(ws) = 1 + Len(r)
      /\ \A k \in 1 .. Len(ws) : ws[k] = IF k <= 1 THEN h[k] ELSE rest[k - 1]
  BY <1>1, <1>5, <1>7, ConcatProperties
<1>9. ws[1].pos = 1 /\ ws[1].val = Cell(r, 1) /\ ws # <<>>
  BY <1>1, <1>2, <1>8
<1>10. ASSUME NEW k \in 1 .. Len(ws)
       PROVE  ws[k].pos = k /\ ws[k].val = Cell(r, k)
  <2>1. CASE k = 1
    BY <1>9, <2>1
  <2>2. CASE k > 1
    <3>1. k - 1 \in 1 .. Len(r) /\ (k - 1) + 1 = k
      BY <1>2, <1>8, <2>2
    <3>2. ws[k] = rest[k - 1]
      BY <1>8, <2>2
    <3>3. rest[k - 1] = [pos |-> k, val |-> r[k - 1]] /\ r[k - 1] = Cell(r, k)
      BY <1>3, <1>4, <3>1
    <3> QED BY <3>2, <3>3
  <2> QED BY <1>2, <1>8, <2>1, <2>2
<1>11. Len(ws) = Len(r) + 1
  BY <1>2, <1>8
<1> QED BY <1>8, <1>9, <1>10, <1>11 DEF WritesOf, Writes, ws

LEMMA SaveDBNodeWrites ==
    ASSUME NEW r \in Rows, NEW i \in 1 .. Len(r)
    PROVE  /\ WritesOf(SaveDBNode(r, i), r)
           /\ Writes(SaveDBNode(r, i), 1) /\ Writes(SaveDBNode(r, i), i + 1)
<1> DEFINE h == HeadWrite(r)
<1> DEFINE rest == <<[pos |-> i + 1, val |-> r[i]]>>
<1> DEFINE ws == SaveDBNode(r, i)
<1>1. /\ h \in Seq([pos : Places, val : Cells]) /\ Len(h) = 1
      /\ h[1] = [pos |-> 1, val |-> Cell(r, 1)]
  BY HeadFacts
<1>2. Len(r) \in Nat
  BY RowFacts
<1>3. /\ i + 1 \in 1 .. Len(r) + 1 /\ i + 1 \in Places /\ r[i] = Cell(r, i + 1)
      /\ Cell(r, i + 1) \in Cells
  <2>1. i + 1 \in 1 .. Len(r) + 1 /\ i + 1 > 1 /\ i + 1 - 1 = i
    BY <1>2
  <2> QED BY <2>1, CellFacts
<1>4. /\ rest \in Seq([pos : Places, val : Cells]) /\ Len(rest) = 1
      /\ rest[1] = [pos |-> i + 1, val |-> Cell(r, i + 1)]
  BY <1>3
<1>5. ws = h \o rest
  BY DEF SaveDBNode
<1> HIDE DEF h, rest, ws
<1>6. /\ ws \in Seq([pos : Places, val : Cells]) /\ Len(ws) = 2
      /\ ws[1] = h[1] /\ ws[2] = rest[1] /\ ws # <<>>
  BY <1>1, <1>4, <1>5, ConcatProperties
<1>7. /\ ws[1].pos = 1 /\ ws[1].val = Cell(r, 1)
      /\ ws[2].pos = i + 1 /\ ws[2].val = Cell(r, i + 1)
  BY <1>1, <1>4, <1>6
<1>8. WritesOf(ws, r)
  <2>1. 1 \in 1 .. Len(r) + 1
    BY <1>2
  <2>2. \A k \in 1 .. Len(ws) : k = 1 \/ k = 2
    BY <1>6
  <2> QED BY <1>3, <1>6, <1>7, <2>1, <2>2 DEF WritesOf
<1>9. 1 \in 1 .. Len(ws) /\ 2 \in 1 .. Len(ws)
  BY <1>6
<1> QED BY <1>7, <1>8, <1>9 DEF Writes, ws
-----------------------------------------------------------------------------
(* The invariant *)

(* None is neither a table nor a file. *)
LEMMA NoneIs ==
    /\ \A f \in Seq(Cells) : f # None
    /\ \A r \in Rows : r # None
<1>1. None \notin Seq(Values \cup {Garbage} \cup Nat)
  BY TableAssumption
<1>2. ASSUME NEW f \in Seq(Cells) PROVE f # None
  <2>1. Cells \subseteq Values \cup {Garbage} \cup Nat
    BY TableAssumption DEF Cells, Row
  <2>2. f \in Seq(Values \cup {Garbage} \cup Nat)
    BY <2>1
  <2> QED BY <1>1, <2>2
<1>3. ASSUME NEW r \in Rows PROVE r # None
  <2>1. r \in Seq(Row)
    BY RowsIs
  <2>2. r \in Seq(Values \cup {Garbage} \cup Nat)
    BY <2>1 DEF Row
  <2> QED BY <1>1, <2>2
<1> QED BY <1>2, <1>3

LEMMA NoRows == <<>> \in Rows
<1>1. PICK e \in Seq(Row) : e = <<>> /\ Len(e) = 0
  <2>1. <<>> \in Seq(Row) /\ Len(<<>>) = 0
    OBVIOUS
  <2> QED BY <2>1
<1>2. Len(e) <= MaxRows
  BY <1>1, TableAssumption
<1>3. e \in Rows
  BY <1>2, RowsIs
<1> QED BY <1>1, <1>3

LEMMA InvInit == Init => Inv
<1> SUFFICES ASSUME Init PROVE Inv
  OBVIOUS
<1>1. MaxRows \in Nat \ {0}
  BY TableAssumption
<1>2. <<>> \in Rows
  BY NoRows
<1>3. /\ table = None /\ file = None /\ length = -1 /\ pending = <<>> /\ saved = <<>>
      /\ goal = <<>> /\ good = TRUE /\ whole = FALSE /\ lag = "none" /\ mixed = FALSE
  BY DEF Init, Unopened
<1>4. TypeInv
  <2>1. pending \in Seq([pos : Places, val : Cells]) /\ Len(pending) = 0
    BY <1>3
  <2>2. \A k \in 1 .. Len(pending) : IsCell(pending[k].pos, pending[k].val)
    BY <2>1
  <2>3. length \in Unopened .. MaxRows + 1
    BY <1>1, <1>3 DEF Unopened
  <2> QED BY <1>2, <1>3, <2>1, <2>2, <2>3 DEF TypeInv
<1>5. OpenInv
  BY <1>3 DEF OpenInv, Unopened
<1>6. PendInv /\ MixedInv /\ CoverInv /\ SavedInv /\ DiskInv
  BY <1>3 DEF PendInv, MixedInv, CoverInv, SavedInv, DiskInv, Unopened
<1> QED BY <1>4, <1>5, <1>6 DEF Inv

LEMMA TypeFacts ==
    ASSUME TypeInv
    PROVE  /\ MaxRows \in Nat \ {0} /\ length \in Int /\ Len(pending) \in Nat
           /\ saved \in Rows /\ goal \in Rows
           /\ Len(saved) \in Nat /\ Len(goal) \in Nat /\ Len(goal) <= MaxRows
           /\ file # None => Len(file) \in Nat
BY TableAssumption, RowFacts DEF TypeInv, Unopened

(* A file that has every cell of these rows. *)
LEMMA Covered ==
    ASSUME NEW f \in Seq(Cells), NEW rows \in Rows,
           \A p \in 1 .. Len(rows) + 1 :
              (p \in 1 .. Len(f) /\ f[p] = Cell(rows, p)) \/ (p > 1 /\ Cell(rows, p) = Garbage)
    PROVE  /\ f # <<>> /\ f[1] = Len(rows)
           /\ \A i \in 1 .. Len(rows) :
                rows[i] = Garbage \/ (i + 1 <= Len(f) /\ f[i + 1] = rows[i])
<1>1. Len(rows) \in Nat /\ Len(f) \in Nat
  BY RowFacts
<1>2. 1 \in 1 .. Len(f) /\ f[1] = Len(rows)
  BY <1>1 DEF Cell
<1>3. ASSUME NEW i \in 1 .. Len(rows)
      PROVE  rows[i] = Garbage \/ (i + 1 <= Len(f) /\ f[i + 1] = rows[i])
  <2>1. i + 1 \in 1 .. Len(rows) + 1 /\ Cell(rows, i + 1) = rows[i]
    BY <1>1, CellFacts
  <2> QED BY <1>1, <2>1
<1> QED BY <1>2, <1>3

(* Between two saves with nothing lost the file has every cell. *)
LEMMA FileIs ==
    ASSUME Inv, pending = <<>>, length # Unopened, lag = "none"
    PROVE  /\ ~mixed /\ saved = goal /\ (table # None => table = goal)
           /\ file # None /\ file # <<>> /\ file[1] = Len(goal)
           /\ \A p \in 1 .. Len(goal) + 1 : InFile(p) \/ Unread(p)
           /\ \A i \in 1 .. Len(goal) :
                goal[i] = Garbage \/ (i + 1 <= Len(file) /\ file[i + 1] = goal[i])
<1>1. ~mixed /\ saved = goal /\ (table # None => table = goal)
  BY DEF Inv, SavedInv
<1>2. goal \in Rows /\ file # None /\ file \in Seq(Cells)
  BY DEF Inv, OpenInv, TypeInv
<1>3. \A k \in 1 .. Len(pending) : FALSE
  OBVIOUS
<1>4. \A p \in 1 .. Len(goal) + 1 : InFile(p) \/ Unread(p)
  BY <1>3 DEF Inv, CoverInv
<1>5. \A p \in 1 .. Len(goal) + 1 :
         (p \in 1 .. Len(file) /\ file[p] = Cell(goal, p)) \/ (p > 1 /\ Cell(goal, p) = Garbage)
  BY <1>4 DEF InFile, Unread
<1> QED BY <1>1, <1>2, <1>4, <1>5, Covered

(* An operation begins a save; so does the creation of an object while the *)
(* file is open.                                                           *)
LEMMA SaveKeeps ==
    ASSUME Inv, NEW rows \in Rows, NEW ws, NEW all \in BOOLEAN,
           Idle, length # Unopened, length' = length, UNCHANGED <<file, good, lag>>,
           Save(rows, ws, all), WritesOf(ws, rows),
           all => \A p \in 1 .. Len(rows) + 1 : Writes(ws, p),
           lag = "none" =>
             \A p \in 1 .. Len(rows) + 1 :
                \/ Writes(ws, p)
                \/ p > 1 /\ p <= Len(goal) + 1 /\ Cell(rows, p) = Cell(goal, p)
    PROVE  Inv'
<1>1. /\ table' = rows /\ pending' = ws /\ goal' = (IF good THEN rows ELSE goal)
      /\ whole' = all /\ mixed' = (mixed \/ lag = "reopened")
      /\ saved' = (IF mixed' THEN <<>> ELSE saved)
      /\ file' = file /\ good' = good /\ lag' = lag /\ length' = length
  BY DEF Save
<1>2. /\ ws \in Seq([pos : Places, val : Cells]) /\ ws # <<>> /\ ws[1].pos = 1
      /\ \A k \in 1 .. Len(ws) :
           ws[k].pos \in 1 .. Len(rows) + 1 /\ ws[k].val = Cell(rows, ws[k].pos)
  BY DEF WritesOf
<1>3. /\ MaxRows \in Nat \ {0} /\ Len(rows) \in Nat /\ Len(goal) \in Nat /\ Len(saved) \in Nat
      /\ goal \in Rows /\ saved \in Rows
  BY TypeFacts, RowFacts DEF Inv
<1>4. good \in BOOLEAN /\ mixed \in BOOLEAN /\ (good <=> lag # "failed")
      /\ pending = <<>> /\ file # None /\ length <= Len(file)
  BY DEF Inv, TypeInv, OpenInv, Idle
<1>5. TypeInv'
  <2>1. <<>> \in Rows
    BY NoRows
  <2>2. goal' \in Rows /\ saved' \in Rows /\ mixed' \in BOOLEAN
    BY <1>1, <1>3, <1>4, <2>1
  <2>3. \A k \in 1 .. Len(ws) : IsCell(ws[k].pos, ws[k].val)
    BY <1>2, CellFacts
  <2>4. \A k \in 1 .. Len(pending') : IsCell(pending'[k].pos, pending'[k].val)
    BY <1>1, <2>3
  <2>5. /\ file \in Seq(Cells) /\ Len(file) <= MaxRows + 1
        /\ \A p \in 1 .. Len(file) : IsCell(p, file[p])
    BY <1>4 DEF Inv, TypeInv
  <2>6. length \in Unopened .. MaxRows + 1 /\ lag \in {"none", "failed", "reopened"}
    BY DEF Inv, TypeInv
  <2> QED BY <1>1, <1>2, <1>4, <2>2, <2>4, <2>5, <2>6 DEF TypeInv
<1>6. OpenInv'
  BY <1>1, <1>2, <1>4 DEF OpenInv
<1>7. PendInv'
  <2> SUFFICES ASSUME good PROVE
        /\ table' = goal'
        /\ \A k \in 1 .. Len(pending') :
             pending'[k].pos <= Len(goal') + 1 /\ pending'[k].val = Cell(goal', pending'[k].pos)
        /\ file' = <<>> => pending'[1].pos = 1
    BY <1>1 DEF PendInv
  <2>1. goal' = rows
    BY <1>1
  <2> QED BY <1>1, <1>2, <1>3, <2>1
<1>8. MixedInv'
  <2>1. lag = "none" => ~mixed
    BY <1>4 DEF Inv, SavedInv
  <2> QED BY <1>1, <2>1 DEF MixedInv
<1>9. CoverInv'
  <2> SUFFICES ASSUME lag = "none" \/ (good /\ all), NEW p \in 1 .. Len(goal') + 1
               PROVE  InFile(p)' \/ Unread(p)' \/ \E k \in 1 .. Len(pending') : pending'[k].pos = p
    BY <1>1 DEF CoverInv
  <2>1. goal' = rows
    BY <1>1, <1>4
  <2>2. CASE Writes(ws, p)
    BY <1>1, <2>2 DEF Writes
  <2>3. CASE ~Writes(ws, p)
    <3>1. lag = "none" /\ p > 1 /\ p \in 1 .. Len(goal) + 1 /\ Cell(rows, p) = Cell(goal, p)
      BY <1>3, <2>1, <2>3
    <3>2. InFile(p) \/ Unread(p)
      BY <1>4, <3>1, FileIs
    <3> QED BY <1>1, <2>1, <3>1, <3>2 DEF InFile, Unread
  <2> QED BY <2>2, <2>3
<1>10. SavedInv'
  BY <1>1, <1>2 DEF SavedInv
<1>11. DiskInv'
  <2> SUFFICES ASSUME ~mixed' PROVE DiskInv'
    BY DEF DiskInv
  <2>1. ~mixed /\ lag # "reopened" /\ saved' = saved
    BY <1>1, <1>4
  <2>2. CASE lag = "failed"
    <3>1. goal' = goal
      BY <1>1, <1>4, <2>2
    <3> QED BY <1>1, <2>1, <3>1 DEF Inv, DiskInv
  <2>3. CASE lag = "none"
    <3>1. /\ saved = goal /\ file # None /\ file # <<>> /\ file[1] = Len(saved)
          /\ \A i \in 1 .. Len(saved) :
               saved[i] = Garbage \/ (i + 1 <= Len(file) /\ file[i + 1] = saved[i])
      BY <1>4, <2>3, FileIs
    <3> QED BY <1>1, <2>1, <3>1 DEF DiskInv
  <2>4. lag \in {"none", "failed", "reopened"}
    BY DEF Inv, TypeInv
  <2> QED BY <2>1, <2>2, <2>3, <2>4
<1> QED BY <1>5, <1>6, <1>7, <1>8, <1>9, <1>10, <1>11 DEF Inv
(* A write that is refused, as are those after a write that failed. *)
LEMMA LostKeeps ==
    ASSUME Inv, pending # <<>>, pending' = Tail(pending), good' = FALSE, lag' = "failed",
           whole' \in BOOLEAN, whole' => pending' # <<>>,
           UNCHANGED <<table, file, length, saved, goal, mixed>>
    PROVE  Inv'
<1>1. /\ Len(pending) \in Nat \ {0} /\ pending' \in Seq([pos : Places, val : Cells])
      /\ Len(pending') = Len(pending) - 1
      /\ \A k \in 1 .. Len(pending) - 1 : pending'[k] = pending[k + 1]
  BY TailFacts DEF Inv, TypeInv
<1>2. \A k \in 1 .. Len(pending') : IsCell(pending'[k].pos, pending'[k].val)
  <2>1. \A k \in 1 .. Len(pending) : IsCell(pending[k].pos, pending[k].val)
    BY DEF Inv, TypeInv
  <2>2. \A k \in 1 .. Len(pending') : k + 1 \in 1 .. Len(pending) /\ pending'[k] = pending[k + 1]
    BY <1>1
  <2> QED BY <2>1, <2>2
<1>3. TypeInv'
  BY <1>1, <1>2 DEF Inv, TypeInv
<1>4. OpenInv'
  BY DEF Inv, OpenInv
<1>5. PendInv' /\ MixedInv' /\ CoverInv' /\ SavedInv'
  BY DEF PendInv, MixedInv, CoverInv, SavedInv
<1>6. DiskInv'
  BY DEF Inv, DiskInv
<1> QED BY <1>3, <1>4, <1>5, <1>6 DEF Inv

(* A write that reaches the system. *)
LEMMA WrittenKeeps ==
    ASSUME Inv, WriteNext, good
    PROVE  Inv'
<1> DEFINE w == pending[1]
<1>0. file' = Write(file, w.pos, w.val)
  BY DEF WriteNext
<1>01. pending' = Tail(pending)
  BY DEF WriteNext
<1>1. /\ pending # <<>>
      /\ table' = table /\ length' = length /\ good' = good /\ goal' = goal
      /\ whole' = (whole /\ Len(pending) > 1)
      /\ Len(pending) = 1 => saved' = (IF mixed /\ ~whole THEN <<>> ELSE goal)
      /\ Len(pending) = 1 => lag' = (IF whole THEN "none" ELSE lag)
      /\ Len(pending) = 1 => mixed' = (mixed /\ ~whole)
      /\ Len(pending) # 1 => saved' = saved /\ lag' = lag /\ mixed' = mixed
  BY DEF WriteNext, Inv, OpenInv
<1>2. /\ w \in [pos : Places, val : Cells]
      /\ Len(pending) \in Nat \ {0} /\ pending' \in Seq([pos : Places, val : Cells])
      /\ Len(pending') = Len(pending) - 1
      /\ pending' = <<>> => Len(pending) = 1
      /\ Len(pending) = 1 => pending' = <<>>
      /\ \A k \in 1 .. Len(pending) - 1 : pending'[k] = pending[k + 1]
  BY <1>01, <1>1, TailFacts DEF Inv, TypeInv
<1>3. /\ MaxRows \in Nat \ {0} /\ goal \in Rows /\ saved \in Rows /\ Len(goal) \in Nat
      /\ Len(saved) \in Nat
  BY TypeFacts DEF Inv
<1>4. w.pos \in Nat \ {0} /\ w.pos <= MaxRows + 1 /\ w.val \in Cells
  BY <1>2, <1>3 DEF Places
<1>5. 1 \in 1 .. Len(pending)
  BY <1>2
<1>6. IsCell(w.pos, w.val) /\ w.pos <= Len(goal) + 1 /\ w.val = Cell(goal, w.pos)
      /\ table = goal /\ (file = <<>> => w.pos = 1)
  BY <1>1, <1>5 DEF Inv, TypeInv, PendInv
<1>7. length # Unopened /\ file # None /\ length <= Len(file) /\ lag # "failed"
  BY <1>1 DEF Inv, OpenInv
<1>8. /\ file \in Seq(Cells) /\ Len(file) \in Nat /\ Len(file) <= MaxRows + 1
      /\ \A p \in 1 .. Len(file) : IsCell(p, file[p])
  BY <1>7, TypeFacts DEF Inv, TypeInv
<1> DEFINE n == Longer(w.pos, Len(file))
<1> HIDE DEF w
<1>9. /\ file' \in Seq(Cells) /\ Len(file') = n /\ file'[w.pos] = w.val
      /\ \A p \in 1 .. n : p # w.pos => file'[p] = IF p <= Len(file) THEN file[p] ELSE Garbage
  <2>1. PICK f, pos, v : f = file /\ pos = w.pos /\ v = w.val
    OBVIOUS
  <2>2. f \in Seq(Cells) /\ pos \in Nat \ {0} /\ v \in Cells
    BY <1>4, <1>8, <2>1
  <2>3. /\ Write(f, pos, v) \in Seq(Cells)
        /\ Len(Write(f, pos, v)) = Longer(pos, Len(f))
        /\ Write(f, pos, v)[pos] = v
        /\ \A i \in 1 .. Longer(pos, Len(f)) :
             i # pos => Write(f, pos, v)[i] = IF i <= Len(f) THEN f[i] ELSE Garbage
    BY <2>2, WriteFacts
  <2>4. file' = Write(f, pos, v) /\ n = Longer(pos, Len(f))
    BY <1>0, <2>1
  <2> QED BY ONLY <2>1, <2>3, <2>4
<1>10. n \in Nat \ {0} /\ n <= MaxRows + 1 /\ Len(file) <= n /\ w.pos \in 1 .. n
  BY <1>4, <1>8 DEF Longer
<1> HIDE DEF n
<1>11. file' # <<>> /\ file' # None
  BY <1>9, <1>10, NoneIs
<1>12. \A p \in 1 .. Len(file) : p # w.pos => p \in 1 .. n /\ file'[p] = file[p]
  BY <1>8, <1>9, <1>10
<1>13. \A k \in 1 .. Len(pending') : k + 1 \in 1 .. Len(pending) /\ pending'[k] = pending[k + 1]
  BY <1>2
<1>14. /\ length \in Unopened .. MaxRows + 1 /\ lag \in {"none", "failed", "reopened"}
       /\ whole \in BOOLEAN /\ mixed \in BOOLEAN
  BY DEF Inv, TypeInv
<1>15. TypeInv'
  <2>1. saved' \in Rows /\ lag' \in {"none", "failed", "reopened"} /\ mixed' \in BOOLEAN
        /\ whole' \in BOOLEAN
    BY <1>1, <1>3, <1>14, NoRows
  <2>2. \A k \in 1 .. Len(pending') : IsCell(pending'[k].pos, pending'[k].val)
    BY <1>13 DEF Inv, TypeInv
  <2>3. ASSUME NEW p \in 1 .. Len(file') PROVE IsCell(p, file'[p])
    <3>1. p \in 1 .. n /\ p \in Nat \ {0}
      BY <1>9, <1>10
    <3>2. CASE p = w.pos
      BY <1>6, <1>9, <3>2
    <3>3. CASE p # w.pos /\ p <= Len(file)
      BY <1>8, <1>9, <3>1, <3>3
    <3>4. CASE p # w.pos /\ ~(p <= Len(file))
      <4>1. p # 1
        <5>1. p = 1 => Len(file) = 0
          BY <1>8, <3>4
        <5>2. Len(file) = 0 => file = <<>>
          BY <1>8, EmptySeq
        <5> QED BY <1>6, <3>4, <5>1, <5>2
      <4> QED BY <1>9, <3>1, <3>4, <4>1 DEF IsCell, Row
    <3> QED BY <3>2, <3>3, <3>4
  <2> QED BY <1>1, <1>2, <1>6, <1>3, <1>9, <1>10, <1>14, <2>1, <2>2, <2>3 DEF Inv, TypeInv
<1>16. OpenInv'
  <2>1. length <= Len(file')
    BY <1>7, <1>8, <1>9, <1>10, <1>14, <1>3 DEF Unopened
  <2>2. whole' => Len(pending) # 1
    <3>1. whole' = (whole /\ Len(pending) > 1) /\ (Len(pending) > 1) \in BOOLEAN
      BY <1>1
    <3>2. Len(pending) = 1 => ~(Len(pending) > 1)
      OBVIOUS
    <3> QED BY ONLY <3>1, <3>2, Zenon
  <2>3. lag' # "failed"
    BY <1>1, <1>7
  <2> QED BY <1>1, <1>2, <1>7, <1>11, <2>1, <2>2, <2>3 DEF OpenInv
<1>17. PendInv'
  <2>1. \A k \in 1 .. Len(pending') :
           pending'[k].pos <= Len(goal) + 1 /\ pending'[k].val = Cell(goal, pending'[k].pos)
    BY <1>1, <1>13 DEF Inv, PendInv
  <2> QED BY <1>1, <1>6, <1>11, <2>1 DEF PendInv
<1>18. MixedInv'
  <2> SUFFICES ASSUME pending' # <<>> PROVE MixedInv'
    BY DEF MixedInv
  <2>0. Len(pending) # 1
    BY <1>2
  <2>1. /\ saved' = saved /\ lag' = lag /\ mixed' = mixed
        /\ whole => whole'
    <3>1. saved' = saved /\ lag' = lag /\ mixed' = mixed
      BY <1>1, <2>0
    <3>2. whole' = (whole /\ Len(pending) > 1) /\ Len(pending) > 1
      BY <1>1, <1>2, <2>0
    <3> QED BY ONLY <3>1, <3>2
  <2> QED BY <1>1, <2>1 DEF MixedInv, Inv
<1>19. CoverInv'
  <2> SUFFICES ASSUME lag' = "none" \/ (good' /\ whole'), NEW p \in 1 .. Len(goal') + 1
               PROVE  InFile(p)' \/ Unread(p)' \/ \E k \in 1 .. Len(pending') : pending'[k].pos = p
    BY DEF CoverInv
  <2>1. lag = "none" \/ (good /\ whole)
    BY <1>1
  <2>2. InFile(p) \/ Unread(p) \/ \E k \in 1 .. Len(pending) : pending[k].pos = p
    BY <1>1, <1>7, <2>1 DEF Inv, CoverInv
  <2>3. CASE p = w.pos
    <3>1. InFile(p)'
      BY <1>1, <1>6, <1>9, <1>10, <2>3 DEF InFile
    <3> QED BY <3>1
  <2>4. CASE p # w.pos /\ InFile(p)
    <3>1. InFile(p)'
      BY <1>1, <1>9, <1>12, <2>4 DEF InFile
    <3> QED BY <3>1
  <2>5. CASE Unread(p)
    BY <1>1, <2>5 DEF Unread
  <2>6. CASE p # w.pos /\ \E k \in 1 .. Len(pending) : pending[k].pos = p
    <3>1. PICK k \in 1 .. Len(pending) : pending[k].pos = p
      BY <2>6
    <3>2. k # 1
      BY <2>6, <3>1 DEF w
    <3>3. k - 1 \in 1 .. Len(pending') /\ pending'[k - 1] = pending[k]
      <4>1. k - 1 \in 1 .. Len(pending) - 1 /\ (k - 1) + 1 = k
        BY <1>2, <3>2
      <4> QED BY <1>2, <4>1
    <3> QED BY <3>1, <3>3
  <2> QED BY <2>2, <2>3, <2>4, <2>5, <2>6
<1>20. SavedInv'
  <2> SUFFICES ASSUME pending' = <<>>, lag' = "none"
               PROVE  saved' = goal' /\ ~mixed' /\ (table' # None => table' = goal')
    BY DEF SavedInv
  <2>1. Len(pending) = 1
    BY <1>2
  <2>2. mixed => whole
    BY <1>1, <2>1 DEF Inv, MixedInv
  <2> QED BY <1>1, <1>6, <2>1, <2>2
<1>21. DiskInv'
  <2> SUFFICES ASSUME ~mixed'
               PROVE  /\ file'[1] = Len(saved') \/ file'[1] = Len(goal')
                      /\ \A i \in 1 .. Len(saved') :
                           i <= Len(goal') =>
                             \/ saved'[i] = Garbage
                             \/ i + 1 <= Len(file') /\ file'[i + 1] \in {saved'[i], goal'[i]}
    BY <1>11 DEF DiskInv
  <2>1. CASE Len(pending) = 1
    <3>1. saved' = goal /\ lag' = "none" /\ pending' = <<>>
      BY <1>1, <1>2, <1>7, <1>14, <2>1 DEF Inv, MixedInv
    <3>2. \A k \in 1 .. Len(pending') : FALSE
      BY <3>1
    <3>3. \A p \in 1 .. Len(goal') + 1 : InFile(p)' \/ Unread(p)'
      BY <1>1, <1>7, <1>19, <3>1, <3>2 DEF CoverInv
    <3>4. \A p \in 1 .. Len(goal) + 1 :
             (p \in 1 .. Len(file') /\ file'[p] = Cell(goal, p))
               \/ (p > 1 /\ Cell(goal, p) = Garbage)
      BY <1>1, <3>3 DEF InFile, Unread
    <3>5. /\ file'[1] = Len(goal)
          /\ \A i \in 1 .. Len(goal) :
               goal[i] = Garbage \/ (i + 1 <= Len(file') /\ file'[i + 1] = goal[i])
      BY <1>3, <1>9, <3>4, Covered
    <3> QED BY <1>1, <3>1, <3>5
  <2>2. CASE Len(pending) # 1
    <3>1. saved' = saved /\ ~mixed
      BY <1>1, <2>2
    <3>2. CASE file = <<>>
      <4>1. Len(saved) = 0 /\ file'[1] = Len(goal)
        BY <1>6, <1>9, <3>1, <3>2 DEF Inv, DiskInv, Cell
      <4> QED BY <1>1, <3>1, <4>1
    <3>3. CASE file # <<>>
      <4>1. /\ file[1] = Len(saved) \/ file[1] = Len(goal)
            /\ \A i \in 1 .. Len(saved) :
                 i <= Len(goal) =>
                   \/ saved[i] = Garbage
                   \/ i + 1 <= Len(file) /\ file[i + 1] \in {saved[i], goal[i]}
        BY <1>7, <3>1, <3>3 DEF Inv, DiskInv
      <4>2. 1 \in 1 .. Len(file)
        BY <1>8, <3>3, EmptySeq
      <4>3. file'[1] = Len(saved) \/ file'[1] = Len(goal)
        BY <1>6, <1>9, <1>12, <4>1, <4>2 DEF Cell
      <4>4. ASSUME NEW i \in 1 .. Len(saved), i <= Len(goal), saved[i] # Garbage
            PROVE  i + 1 <= Len(file') /\ file'[i + 1] \in {saved[i], goal[i]}
        <5>1. i + 1 <= Len(file) /\ file[i + 1] \in {saved[i], goal[i]}
          BY <4>1, <4>4
        <5>2. i + 1 \in 1 .. Len(file) /\ i + 1 <= Len(file')
          BY <1>3, <1>8, <1>9, <1>10, <5>1
        <5>3. CASE i + 1 = w.pos
          <6>1. Cell(goal, i + 1) = goal[i]
            BY <1>3 DEF Cell
          <6> QED BY <1>6, <1>9, <5>2, <5>3, <6>1
        <5>4. CASE i + 1 # w.pos
          BY <1>12, <5>1, <5>2, <5>4
        <5> QED BY <5>3, <5>4
      <4> QED BY <1>1, <3>1, <4>3, <4>4
    <3> QED BY <3>2, <3>3
  <2> QED BY <2>1, <2>2
<1> QED BY <1>15, <1>16, <1>17, <1>18, <1>19, <1>20, <1>21 DEF Inv

LEMMA WriteKeeps ==
    ASSUME Inv, WriteNext
    PROVE  Inv'
<1>1. CASE good
  BY <1>1, WrittenKeeps
<1>2. CASE ~good
  <2>1. lag = "failed" /\ good = FALSE /\ whole \in BOOLEAN
    BY <1>2 DEF Inv, OpenInv, TypeInv
  <2>2. /\ pending # <<>> /\ pending' = Tail(pending) /\ whole' = (whole /\ Len(pending) > 1)
        /\ UNCHANGED <<table, file, length, good, saved, goal, lag, mixed>>
    BY <1>2, <2>1 DEF WriteNext
  <2>3. Len(pending) > 1 => Tail(pending) # <<>>
    BY <2>2, TailFacts DEF Inv, TypeInv
  <2> QED BY <2>1, <2>2, <2>3, LostKeeps
<1> QED BY <1>1, <1>2

LEMMA WriteFailsKeeps ==
    ASSUME Inv, WriteFails
    PROVE  Inv'
BY LostKeeps DEF WriteFails

-----------------------------------------------------------------------------
(* Commit, crash, deletion *)

LEMMA CommitKeeps ==
    ASSUME Inv, Commit
    PROVE  Inv'
<1>1. /\ pending = <<>> /\ length # Unopened /\ good' = TRUE
      /\ lag' = (IF lag = "failed" THEN "reopened" ELSE lag)
      /\ UNCHANGED <<table, file, length, pending, saved, goal, whole, mixed>>
  BY DEF Commit, Idle
<1>2. lag \in {"none", "failed", "reopened"} /\ ~whole
  BY <1>1 DEF Inv, TypeInv, OpenInv
<1>3. TypeInv'
  BY <1>1, <1>2 DEF Inv, TypeInv
<1>4. OpenInv' /\ PendInv' /\ MixedInv'
  BY <1>1, <1>2 DEF Inv, OpenInv, PendInv, MixedInv
<1>5. CoverInv'
  BY <1>1, <1>2 DEF Inv, CoverInv, InFile, Unread
<1>6. SavedInv' /\ DiskInv'
  BY <1>1, <1>2 DEF Inv, SavedInv, DiskInv
<1> QED BY <1>3, <1>4, <1>5, <1>6 DEF Inv

LEMMA CrashKeeps ==
    ASSUME Inv, Crash
    PROVE  Inv'
<1>1. /\ table' = None /\ length' = Unopened /\ pending' = <<>> /\ whole' = FALSE
      /\ UNCHANGED <<file, good, saved, goal, lag, mixed>>
  BY DEF Crash
<1>2. TypeInv'
  <2>1. pending' \in Seq([pos : Places, val : Cells]) /\ Len(pending') = 0
    BY <1>1
  <2>2. \A k \in 1 .. Len(pending') : IsCell(pending'[k].pos, pending'[k].val)
    BY <2>1
  <2>3. length' \in Unopened .. MaxRows + 1
    BY <1>1, TypeFacts DEF Inv, Unopened
  <2> QED BY <1>1, <2>1, <2>2, <2>3 DEF Inv, TypeInv
<1>3. OpenInv' /\ PendInv' /\ MixedInv' /\ CoverInv' /\ SavedInv'
  BY <1>1 DEF Inv, OpenInv, PendInv, MixedInv, CoverInv, SavedInv
<1>4. DiskInv'
  BY <1>1 DEF Inv, DiskInv
<1> QED BY <1>2, <1>3, <1>4 DEF Inv

LEMMA DeleteObjKeeps ==
    ASSUME Inv, DeleteObj
    PROVE  Inv'
<1>1. /\ table' = None /\ pending = <<>> /\ table # None
      /\ UNCHANGED <<file, length, good, pending, saved, goal, whole, lag, mixed>>
  BY DEF DeleteObj, Ready, Idle, history
<1>2. TypeInv' /\ OpenInv' /\ PendInv' /\ MixedInv' /\ SavedInv' /\ DiskInv'
  BY <1>1 DEF Inv, TypeInv, OpenInv, PendInv, MixedInv, SavedInv, DiskInv
<1>3. CoverInv'
  BY <1>1 DEF Inv, CoverInv, InFile, Unread
<1> QED BY <1>2, <1>3 DEF Inv
-----------------------------------------------------------------------------
(* The creation of the object *)

LEMMA ReadFacts ==
    ASSUME Inv, LoadedLength # 0
    PROVE  /\ file # None /\ file # <<>> /\ file \in Seq(Cells) /\ Len(file) \in Nat \ {0}
           /\ LoadedLength \in Nat \ {0} /\ LoadedLength <= Len(file)
           /\ length = Unopened => LoadedLength = Len(file)
           /\ file[1] \in 0 .. MaxRows /\ file[1] \in Nat
           /\ ReadFile(LoadedLength) \in Rows /\ Len(ReadFile(LoadedLength)) = file[1]
           /\ \A i \in 1 .. file[1] :
                ReadFile(LoadedLength)[i] =
                  IF i + 1 <= LoadedLength THEN file[i + 1] ELSE Garbage
<1> DEFINE n == LoadedLength
<1> DEFINE r == ReadFile(n)
<1>1. file # None /\ n = (IF length = Unopened THEN Len(file) ELSE length) /\ n # 0
  BY DEF LoadedLength
<1>2. /\ file \in Seq(Cells) /\ Len(file) \in Nat /\ Len(file) <= MaxRows + 1
      /\ \A p \in 1 .. Len(file) : IsCell(p, file[p])
      /\ length \in Unopened .. MaxRows + 1 /\ MaxRows \in Nat \ {0}
      /\ length # Unopened => length <= Len(file)
  BY <1>1, TypeFacts DEF Inv, TypeInv, OpenInv
<1>3. n \in Nat \ {0} /\ n <= Len(file) /\ (length = Unopened => n = Len(file))
  BY <1>1, <1>2 DEF Unopened
<1>4. Len(file) \in Nat \ {0} /\ file # <<>> /\ 1 \in 1 .. Len(file)
  BY <1>2, <1>3
<1>5. file[1] \in 0 .. MaxRows /\ file[1] \in Nat
  BY <1>2, <1>4 DEF IsCell
<1>6. r = [i \in 1 .. file[1] |-> IF i + 1 <= n THEN file[i + 1] ELSE Garbage]
  BY DEF ReadFile
<1> HIDE DEF n, r
<1>7. ASSUME NEW i \in 1 .. file[1]
      PROVE  (IF i + 1 <= n THEN file[i + 1] ELSE Garbage) \in Row
  <2>1. CASE i + 1 <= n
    <3>1. i + 1 \in 1 .. Len(file) /\ i + 1 # 1
      BY <1>2, <1>3, <1>5, <2>1
    <3> QED BY <1>2, <2>1, <3>1 DEF IsCell
  <2>2. CASE ~(i + 1 <= n)
    BY <2>2 DEF Row
  <2> QED BY <2>1, <2>2
<1>8. r \in [1 .. file[1] -> Row]
  BY <1>6, <1>7
<1>9. r \in Seq(Row) /\ Len(r) = file[1]
  BY <1>5, <1>8, FunctionIsSeq
<1>10. r \in Rows
  BY <1>2, <1>5, <1>9, RowsIs
<1>11. \A i \in 1 .. file[1] : r[i] = IF i + 1 <= n THEN file[i + 1] ELSE Garbage
  BY <1>6
<1> QED BY <1>1, <1>2, <1>3, <1>4, <1>5, <1>9, <1>10, <1>11 DEF n, r

LEMMA LoadKeeps ==
    ASSUME Inv, LoadDB
    PROVE  Inv'
<1> DEFINE n == LoadedLength
<1> DEFINE r == ReadFile(n)
<1>1. /\ pending = <<>> /\ n # 0 /\ length' = n /\ good' = TRUE /\ table' = r
      /\ saved' = r /\ goal' = r /\ lag' = "none" /\ mixed' = FALSE
      /\ file' = file /\ pending' = pending /\ whole' = whole
  BY DEF LoadDB, Idle
<1>2. /\ file # None /\ file # <<>> /\ file \in Seq(Cells) /\ Len(file) \in Nat \ {0}
      /\ n \in Nat \ {0} /\ n <= Len(file)
      /\ r \in Rows /\ Len(r) = file[1]
      /\ \A i \in 1 .. file[1] : r[i] = IF i + 1 <= n THEN file[i + 1] ELSE Garbage
  BY <1>1, ReadFacts
<1> HIDE DEF n, r
<1>3. ~whole /\ Len(file) <= MaxRows + 1 /\ MaxRows \in Nat \ {0} /\ whole \in BOOLEAN
  BY <1>1, <1>2, TypeFacts DEF Inv, OpenInv, TypeInv
<1>4. ASSUME NEW p \in 1 .. Len(r) + 1
      PROVE  \/ p \in 1 .. Len(file) /\ file[p] = Cell(r, p)
             \/ p > 1 /\ Cell(r, p) = Garbage
  <2>1. Len(r) \in Nat
    BY <1>2, RowFacts
  <2>2. CASE p = 1
    BY <1>2, <2>2 DEF Cell
  <2>3. CASE p > 1
    <3>1. p - 1 \in 1 .. file[1] /\ (p - 1) + 1 = p /\ Cell(r, p) = r[p - 1]
      BY <1>2, <2>1, <2>3, CellFacts
    <3>2. r[p - 1] = IF p <= n THEN file[p] ELSE Garbage
      BY <1>2, <3>1
    <3>3. p <= n => p \in 1 .. Len(file)
      BY <1>2, <2>1
    <3> QED BY <2>3, <3>1, <3>2, <3>3
  <2> QED BY <2>1, <2>2, <2>3
<1>5. TypeInv'
  <2>1. length' \in Unopened .. MaxRows + 1
    BY <1>1, <1>2, <1>3 DEF Unopened
  <2> QED BY <1>1, <1>2, <1>3, <2>1 DEF Inv, TypeInv
<1>6. OpenInv'
  BY <1>1, <1>2, <1>3 DEF OpenInv, Unopened
<1>7. PendInv' /\ MixedInv' /\ SavedInv'
  BY <1>1 DEF PendInv, MixedInv, SavedInv
<1>8. CoverInv'
  BY <1>1, <1>4 DEF CoverInv, InFile, Unread
<1>9. DiskInv'
  <2>1. /\ file[1] = Len(r)
        /\ \A i \in 1 .. Len(r) : r[i] = Garbage \/ (i + 1 <= Len(file) /\ file[i + 1] = r[i])
    BY <1>2, <1>4, Covered
  <2> QED BY <1>1, <1>2, <2>1 DEF DiskInv
<1> QED BY <1>5, <1>6, <1>7, <1>8, <1>9 DEF Inv

LEMMA NewKeeps ==
    ASSUME Inv, NewDB
    PROVE  Inv'
<1>1. /\ Idle /\ LoadedLength = 0 /\ length' = 0 /\ Save(<<>>, SaveDB(<<>>), TRUE)
      /\ length # Unopened => UNCHANGED <<file, good, lag>>
      /\ length = Unopened => file' = <<>> /\ good' = TRUE /\ lag' = "none"
  BY DEF NewDB
<1>2. PICK rows \in Rows : rows = <<>> /\ Len(rows) = 0
  <2>1. <<>> \in Rows /\ Len(<<>>) = 0
    BY NoRows
  <2> QED BY <2>1
<1>3. PICK ws : ws = SaveDB(<<>>)
  OBVIOUS
<1>4. Save(rows, ws, TRUE) /\ WritesOf(ws, rows) /\ \A p \in 1 .. Len(rows) + 1 : Writes(ws, p)
  BY <1>1, <1>2, <1>3, SaveDBWrites
<1>5. CASE length # Unopened
  <2>1. length' = length
    BY <1>1, <1>5 DEF LoadedLength, Inv, OpenInv
  <2> QED BY <1>1, <1>4, <1>5, <2>1, SaveKeeps
<1>6. CASE length = Unopened
  <2>1. /\ file' = <<>> /\ good' = TRUE /\ lag' = "none" /\ length' = 0
        /\ table' = rows /\ pending' = ws /\ goal' = rows /\ whole' = TRUE
        /\ mixed' = mixed /\ saved' = (IF mixed THEN rows ELSE saved)
    BY <1>1, <1>2, <1>4, <1>6 DEF Save, Inv, TypeInv
  <2>2. file = None \/ Len(file) = 0
    BY <1>1, <1>6 DEF LoadedLength
  <2>3. file \in {None, <<>>}
    BY <2>2, EmptySeq DEF Inv, TypeInv
  <2>4. /\ ws \in Seq([pos : Places, val : Cells]) /\ ws # <<>> /\ ws[1].pos = 1
        /\ \A k \in 1 .. Len(ws) : ws[k].pos \in 1 .. Len(rows) + 1
                                     /\ ws[k].val = Cell(rows, ws[k].pos)
        /\ \A p \in 1 .. Len(rows) + 1 : \E k \in 1 .. Len(ws) : ws[k].pos = p
    BY <1>4 DEF WritesOf, Writes
  <2>5. MaxRows \in Nat \ {0} /\ mixed \in BOOLEAN /\ saved \in Rows
    BY TypeFacts DEF Inv, TypeInv
  <2>6. TypeInv'
    <3>1. \A k \in 1 .. Len(ws) : IsCell(ws[k].pos, ws[k].val)
      BY <2>4, CellFacts
    <3>2. file' \in Seq(Cells) /\ Len(file') = 0
      BY <2>1
    <3>3. 0 \in Unopened .. MaxRows + 1 /\ Len(file') <= MaxRows + 1
      BY <2>5, <3>2 DEF Unopened
    <3>4. \A p \in 1 .. Len(file') : IsCell(p, file'[p])
      BY <3>2
    <3>5. \A k \in 1 .. Len(pending') : IsCell(pending'[k].pos, pending'[k].val)
      BY <2>1, <3>1
    <3> QED BY <2>1, <2>4, <2>5, <3>2, <3>3, <3>4, <3>5 DEF TypeInv
  <2>7. OpenInv'
    <3>1. file' \in Seq(Cells) /\ Len(file') = 0
      BY <2>1
    <3>2. file' # None
      BY <3>1, NoneIs
    <3>3. length' # -1 /\ pending' # <<>> /\ length' <= Len(file')
      BY <2>1, <2>4, <3>1
    <3> QED BY <2>1, <3>2, <3>3 DEF OpenInv, Unopened
  <2>8. PendInv'
    <3>1. \A k \in 1 .. Len(ws) : ws[k].pos <= Len(rows) + 1 /\ ws[k].val = Cell(rows, ws[k].pos)
      BY <1>2, <2>4
    <3> QED BY <2>1, <2>4, <3>1 DEF PendInv
  <2>9. MixedInv' /\ SavedInv'
    BY <2>1, <2>4 DEF MixedInv, SavedInv
  <2>10. CoverInv'
    BY <2>1, <2>4 DEF CoverInv
  <2>11. DiskInv'
    BY <2>1, <2>3 DEF Inv, DiskInv
  <2> QED BY <2>6, <2>7, <2>8, <2>9, <2>10, <2>11 DEF Inv
<1> QED BY <1>5, <1>6
-----------------------------------------------------------------------------
(* The operations on the object *)

(* While there is an object, its file is open. *)
LEMMA ReadyFacts ==
    ASSUME Inv, Ready
    PROVE  /\ Idle /\ length # Unopened /\ table \in Rows /\ Len(table) \in Nat
           /\ DOMAIN table = 1 .. Len(table) /\ \A i \in 1 .. Len(table) : table[i] \in Row
           /\ Len(table) <= MaxRows /\ MaxRows \in Nat
           /\ lag = "none" => table = goal
<1>1. Idle /\ pending = <<>> /\ table # None /\ table \in Rows
  BY DEF Ready, Idle, Inv, TypeInv
<1>2. length # Unopened
  BY <1>1 DEF Inv, OpenInv
<1>3. lag = "none" => table = goal
  BY <1>1, <1>2 DEF Inv, SavedInv
<1> QED BY <1>1, <1>2, <1>3, RowFacts, TableAssumption

LEMMA AppendKeeps ==
    ASSUME Inv, NEW v \in Values, Append1(v)
    PROVE  Inv'
<1> DEFINE rows == Append(table, v)
<1>1. /\ Ready /\ Len(table) < MaxRows /\ UNCHANGED <<file, length, good, lag>>
      /\ Save(rows, SaveDBNode(rows, Len(rows)), FALSE)
  BY DEF Append1, stream
<1>2. /\ Idle /\ length # Unopened /\ table \in Rows /\ Len(table) \in Nat /\ MaxRows \in Nat
      /\ lag = "none" => table = goal
  BY <1>1, ReadyFacts
<1>3. table \in Seq(Row) /\ v \in Row
  BY <1>2, RowsIs DEF Row
<1>4. /\ rows \in Seq(Row) /\ Len(rows) = Len(table) + 1
      /\ \A i \in 1 .. Len(table) : rows[i] = table[i]
  BY <1>3
<1> HIDE DEF rows
<1>5. rows \in Rows /\ Len(rows) \in 1 .. Len(rows) /\ Len(rows) \in Nat
  BY <1>1, <1>2, <1>4, RowsIs
<1> DEFINE ws == SaveDBNode(rows, Len(rows))
<1>6. WritesOf(ws, rows) /\ Writes(ws, 1) /\ Writes(ws, Len(rows) + 1)
  BY <1>5, SaveDBNodeWrites
<1> HIDE DEF ws
<1>7. ASSUME lag = "none", NEW p \in 1 .. Len(rows) + 1, ~Writes(ws, p)
      PROVE  p > 1 /\ p <= Len(goal) + 1 /\ Cell(rows, p) = Cell(goal, p)
  <2>1. p > 1 /\ p <= Len(table) + 1 /\ p - 1 \in 1 .. Len(table)
    <3>1. p # 1 /\ p # Len(rows) + 1
      BY <1>6, <1>7
    <3> QED BY <1>2, <1>4, <1>5, <3>1
  <2>2. Cell(rows, p) = rows[p - 1] /\ Cell(table, p) = table[p - 1]
    BY <2>1 DEF Cell
  <2> QED BY <1>2, <1>4, <1>7, <2>1, <2>2
<1>8. Save(rows, ws, FALSE)
  BY <1>1 DEF ws
<1> QED BY <1>1, <1>2, <1>5, <1>6, <1>7, <1>8, SaveKeeps

LEMMA UpdateKeeps ==
    ASSUME Inv, NEW j \in 1 .. MaxRows, NEW v \in Values, Update(j, v)
    PROVE  Inv'
<1> DEFINE rows == [table EXCEPT ![j] = v]
<1>1. /\ Ready /\ j \in DOMAIN table /\ UNCHANGED <<file, length, good, lag>>
      /\ Save(rows, SaveDBNode(rows, j), FALSE)
  BY DEF Update, stream
<1>2. /\ Idle /\ length # Unopened /\ table \in Rows /\ Len(table) \in Nat /\ MaxRows \in Nat
      /\ j \in 1 .. Len(table) /\ Len(table) <= MaxRows
      /\ lag = "none" => table = goal
  BY <1>1, ReadyFacts
<1>3. table \in Seq(Row) /\ v \in Row
  BY <1>2, RowsIs DEF Row
<1>4. /\ rows \in Seq(Row) /\ Len(rows) = Len(table)
      /\ \A i \in 1 .. Len(table) : i # j => rows[i] = table[i]
  BY <1>2, <1>3
<1> HIDE DEF rows
<1>5. rows \in Rows /\ j \in 1 .. Len(rows)
  BY <1>2, <1>4, RowsIs
<1> DEFINE ws == SaveDBNode(rows, j)
<1>6. WritesOf(ws, rows) /\ Writes(ws, 1) /\ Writes(ws, j + 1)
  BY <1>5, SaveDBNodeWrites
<1> HIDE DEF ws
<1>7. ASSUME lag = "none", NEW p \in 1 .. Len(rows) + 1, ~Writes(ws, p)
      PROVE  p > 1 /\ p <= Len(goal) + 1 /\ Cell(rows, p) = Cell(goal, p)
  <2>1. p > 1 /\ p <= Len(table) + 1 /\ p - 1 \in 1 .. Len(table) /\ p - 1 # j
    <3>1. p # 1 /\ p # j + 1
      BY <1>6, <1>7
    <3> QED BY <1>2, <1>4, <3>1
  <2>2. Cell(rows, p) = rows[p - 1] /\ Cell(table, p) = table[p - 1]
    BY <2>1 DEF Cell
  <2> QED BY <1>2, <1>4, <1>7, <2>1, <2>2
<1>8. Save(rows, ws, FALSE)
  BY <1>1 DEF ws
<1> QED BY <1>1, <1>2, <1>5, <1>6, <1>7, <1>8, SaveKeeps

(* All rows are saved. *)
LEMMA SaveAllKeeps ==
    ASSUME Inv, Ready, UNCHANGED <<file, length, good, lag>>,
           NEW rows \in Rows, Save(rows, SaveDB(rows), TRUE)
    PROVE  Inv'
<1> DEFINE ws == SaveDB(rows)
<1>1. WritesOf(ws, rows) /\ \A p \in 1 .. Len(rows) + 1 : Writes(ws, p)
  BY SaveDBWrites
<1>2. Save(rows, ws, TRUE) /\ Idle /\ length # Unopened
  BY ReadyFacts
<1> HIDE DEF ws
<1> QED BY <1>1, <1>2, SaveKeeps

LEMMA UpdateAllKeeps ==
    ASSUME Inv, NEW v \in Values, UpdateAll(v)
    PROVE  Inv'
<1> DEFINE rows == [i \in DOMAIN table |-> v]
<1>1. /\ Ready /\ UNCHANGED <<file, length, good, lag>> /\ Save(rows, SaveDB(rows), TRUE)
  BY DEF UpdateAll, stream
<1>2. Len(table) \in Nat /\ DOMAIN table = 1 .. Len(table) /\ Len(table) <= MaxRows
  BY <1>1, ReadyFacts
<1>3. rows \in [1 .. Len(table) -> Row]
  BY <1>2 DEF Row
<1> HIDE DEF rows
<1>4. rows \in Rows
  BY <1>2, <1>3, FunctionIsSeq, RowsIs
<1> QED BY <1>1, <1>4, SaveAllKeeps

LEMMA DeleteKeeps ==
    ASSUME Inv, NEW j \in 1 .. MaxRows, Delete(j)
    PROVE  Inv'
<1> DEFINE rows == RemoveAt(table, j)
<1>1. /\ Ready /\ j \in DOMAIN table /\ UNCHANGED <<file, length, good, lag>>
      /\ Save(rows, SaveDB(rows), TRUE)
  BY DEF Delete, stream
<1>2. /\ Len(table) \in Nat /\ j \in 1 .. Len(table) /\ Len(table) <= MaxRows
      /\ table \in Rows
  BY <1>1, ReadyFacts
<1> DEFINE a == SubSeq(table, 1, j - 1)
<1> DEFINE b == SubSeq(table, j + 1, Len(table))
<1>3. table \in Seq(Row) /\ rows = a \o b
  BY <1>2, RowsIs DEF RemoveAt
<1>4. a \in Seq(Row) /\ Len(a) = j - 1
  <2>1. 1 \in 1 .. Len(table) + 1 /\ j - 1 \in 1 - 1 .. Len(table) /\ \A i \in 1 .. j - 1 : table[i] \in Row
    BY <1>2, <1>3, RowFacts
  <2> QED BY <1>2, <1>3, <2>1, SubSeqProperties
<1>5. b \in Seq(Row) /\ Len(b) = Len(table) - j
  <2>1. j + 1 \in 1 .. Len(table) + 1 /\ Len(table) \in (j + 1) - 1 .. Len(table)
    BY <1>2
  <2> QED BY <1>2, <1>3, <2>1, SubSeqProperties
<1> HIDE DEF a, b, rows
<1>6. rows \in Seq(Row) /\ Len(rows) = Len(table) - 1
  <2>1. rows = a \o b
    BY <1>3
  <2>2. rows \in Seq(Row) /\ Len(rows) = Len(a) + Len(b)
    BY ONLY <2>1, <1>4, <1>5, ConcatProperties
  <2>3. j \in Nat
    BY <1>2
  <2> QED BY ONLY <1>2, <1>4, <1>5, <2>2, <2>3
<1>7. rows \in Rows
  BY <1>2, <1>6, TableAssumption, RowsIs
<1> QED BY <1>1, <1>7, SaveAllKeeps

LEMMA InvNext == Inv /\ [Next]_vars => Inv'
<1> SUFFICES ASSUME Inv, [Next]_vars PROVE Inv'
  OBVIOUS
<1>1. CASE WriteNext
  BY <1>1, WriteKeeps
<1>2. CASE WriteFails
  BY <1>2, WriteFailsKeeps
<1>3. CASE Commit
  BY <1>3, CommitKeeps
<1>4. CASE LoadDB
  BY <1>4, LoadKeeps
<1>5. CASE NewDB
  BY <1>5, NewKeeps
<1>6. CASE Operation
  <2>1. CASE \E v \in Values : Append1(v)
    BY <2>1, AppendKeeps
  <2>2. CASE \E v \in Values : UpdateAll(v)
    BY <2>2, UpdateAllKeeps
  <2>3. CASE \E i \in 1 .. MaxRows : Delete(i)
    BY <2>3, DeleteKeeps
  <2>4. CASE \E i \in 1 .. MaxRows : \E v \in Values : Update(i, v)
    BY <2>4, UpdateKeeps
  <2> QED BY <1>6, <2>1, <2>2, <2>3, <2>4 DEF Operation
<1>7. CASE DeleteObj
  BY <1>7, DeleteObjKeeps
<1>8. CASE Crash
  BY <1>8, CrashKeeps
<1>9. CASE UNCHANGED vars
  BY <1>9 DEF vars, history, Inv, TypeInv, OpenInv, PendInv, MixedInv, CoverInv, InFile, Unread,
              SavedInv, DiskInv
<1> QED BY <1>1, <1>2, <1>3, <1>4, <1>5, <1>6, <1>7, <1>8, <1>9 DEF Next

(* Whatever the rows and their values, and wherever writes fail and the    *)
(* process dies: what is left to be written is of the object, every cell   *)
(* is in the file or left to be written unless a write was lost, and the   *)
(* file is that of the save before or of the one that is going on.         *)
THEOREM FileInvariant == Spec => []Inv
<1>1. Init => Inv
  BY InvInit
<1>2. Inv /\ [Next]_vars => Inv'
  BY InvNext
<1> QED BY <1>1, <1>2, PTL DEF Spec

-----------------------------------------------------------------------------
(* FileCurrent *)

LEMMA InvType == Inv => TypeOK
<1> SUFFICES ASSUME Inv PROVE TypeOK
  OBVIOUS
<1>1. /\ table \in Rows \cup {None} /\ length \in Unopened .. MaxRows + 1
      /\ saved \in Rows /\ goal \in Rows /\ {good, whole, mixed} \subseteq BOOLEAN
      /\ lag \in {"none", "failed", "reopened"}
  BY DEF Inv, TypeInv
<1>2. pending # <<>> => length # Unopened /\ (good => table = goal)
  BY DEF Inv, OpenInv, PendInv
<1>3. ASSUME file # None, file # <<>>
      PROVE  file[1] \in 0 .. MaxRows /\ Tail(file) \in Rows
  <2>1. /\ file \in Seq(Cells) /\ Len(file) \in Nat \ {0} /\ Len(file) <= MaxRows + 1
        /\ \A p \in 1 .. Len(file) : IsCell(p, file[p])
        /\ MaxRows \in Nat
    BY <1>3, TailFacts, TableAssumption DEF Inv, TypeInv
  <2>2. 1 \in 1 .. Len(file)
    BY <2>1
  <2>3. file[1] \in 0 .. MaxRows
    BY <2>1, <2>2 DEF IsCell
  <2> DEFINE t == Tail(file)
  <2>4. /\ t \in Seq(Cells) /\ Len(t) = Len(file) - 1
        /\ \A i \in 1 .. Len(file) - 1 : t[i] = file[i + 1]
    BY <1>3, <2>1, TailFacts
  <2> HIDE DEF t
  <2>5. ASSUME NEW i \in 1 .. Len(t) PROVE t[i] \in Row
    <3>1. i + 1 \in 1 .. Len(file) /\ i + 1 # 1 /\ t[i] = file[i + 1]
      BY <2>1, <2>4
    <3> QED BY <2>1, <3>1 DEF IsCell
  <2>6. t \in [1 .. Len(t) -> Row] /\ Len(t) \in Nat
    BY <2>1, <2>4, <2>5, LenProperties
  <2>7. t \in Seq(Row) /\ Len(t) <= MaxRows
    BY <2>1, <2>4, <2>6, FunctionIsSeq
  <2>8. t \in Rows
    BY <2>7, RowsIs
  <2> QED BY <2>3, <2>8 DEF t
<1> QED BY <1>1, <1>2, <1>3 DEF TypeOK

LEMMA InvCurrent == Inv => FileCurrent
<1> SUFFICES ASSUME Inv PROVE FileCurrent
  OBVIOUS
<1>1. TypeOK
  BY InvType
<1>2. ASSUME Idle, table # None, lag = "none"
      PROVE  /\ file # <<>> /\ file[1] = Len(table)
             /\ \A i \in DOMAIN table : table[i] # Garbage =>
                  i + 1 \in DOMAIN file /\ file[i + 1] = table[i]
  <2>1. pending = <<>> /\ length # Unopened
    BY <1>2 DEF Idle, Inv, OpenInv
  <2>2. /\ table = goal /\ file # None /\ file # <<>> /\ file[1] = Len(goal)
        /\ \A i \in 1 .. Len(goal) :
             goal[i] = Garbage \/ (i + 1 <= Len(file) /\ file[i + 1] = goal[i])
    BY <1>2, <2>1, FileIs
  <2>3. goal \in Rows /\ file \in Seq(Cells)
    BY <2>2 DEF Inv, TypeInv
  <2>4. /\ DOMAIN table = 1 .. Len(goal) /\ Len(goal) \in Nat
        /\ DOMAIN file = 1 .. Len(file) /\ Len(file) \in Nat
    BY <2>2, <2>3, RowFacts, LenProperties
  <2>5. ASSUME NEW i \in DOMAIN table, table[i] # Garbage
        PROVE  i + 1 \in DOMAIN file /\ file[i + 1] = table[i]
    <3>1. i \in 1 .. Len(goal) /\ i + 1 <= Len(file) /\ file[i + 1] = table[i]
      BY <2>2, <2>4, <2>5
    <3>2. i + 1 \in 1 .. Len(file)
      BY <2>4, <3>1
    <3> QED BY <2>4, <3>1, <3>2
  <2> QED BY <2>2, <2>5
<1> QED BY <1>1, <1>2 DEF FileCurrent

(* Between two saves the file holds what the object holds, unless a write  *)
(* was lost and not all rows have been saved since COMMIT_ALL opened the   *)
(* file anew: for any number of rows.                                      *)
THEOREM FileCurrentHolds == Spec => []FileCurrent
BY FileInvariant, InvCurrent, PTL

-----------------------------------------------------------------------------
(* Recovered *)

LEMMA NextRecovers ==
    ASSUME Inv, length = Unopened, ~mixed
    PROVE  /\ NewDB => saved = <<>>
           /\ LoadDB =>
                /\ Len(table') \in {Len(saved), Len(goal)}
                /\ \A i \in DOMAIN table' \cap DOMAIN saved \cap DOMAIN goal :
                     table'[i] \in {saved[i], goal[i]} \/ saved[i] = Garbage
<1>1. ASSUME NewDB PROVE saved = <<>>
  <2>1. file = None \/ Len(file) = 0
    BY <1>1 DEF NewDB, LoadedLength
  <2>2. file \in {None, <<>>}
    BY <2>1, EmptySeq DEF Inv, TypeInv
  <2> QED BY <2>2 DEF Inv, DiskInv
<1>2. ASSUME LoadDB
      PROVE  /\ Len(table') \in {Len(saved), Len(goal)}
             /\ \A i \in DOMAIN table' \cap DOMAIN saved \cap DOMAIN goal :
                  table'[i] \in {saved[i], goal[i]} \/ saved[i] = Garbage
  <2> DEFINE n == LoadedLength
  <2> DEFINE r == ReadFile(n)
  <2>1. n # 0 /\ table' = r
    BY <1>2 DEF LoadDB
  <2>2. /\ file # None /\ file # <<>> /\ n = Len(file) /\ r \in Rows /\ Len(r) = file[1]
        /\ Len(file) \in Nat
        /\ \A i \in 1 .. file[1] : r[i] = IF i + 1 <= n THEN file[i + 1] ELSE Garbage
    BY <2>1, ReadFacts
  <2> HIDE DEF n, r
  <2>3. /\ file[1] = Len(saved) \/ file[1] = Len(goal)
        /\ \A i \in 1 .. Len(saved) :
             i <= Len(goal) =>
               \/ saved[i] = Garbage
               \/ i + 1 <= Len(file) /\ file[i + 1] \in {saved[i], goal[i]}
    BY <2>2 DEF Inv, DiskInv
  <2>4. /\ DOMAIN r = 1 .. file[1] /\ DOMAIN saved = 1 .. Len(saved) /\ Len(saved) \in Nat
        /\ DOMAIN goal = 1 .. Len(goal) /\ Len(goal) \in Nat
    BY <2>2, RowFacts DEF Inv, TypeInv
  <2>5. ASSUME NEW i \in DOMAIN r \cap DOMAIN saved \cap DOMAIN goal, saved[i] # Garbage
        PROVE  r[i] \in {saved[i], goal[i]}
    <3>1. i \in 1 .. file[1] /\ i \in 1 .. Len(saved) /\ i <= Len(goal)
      BY <2>4, <2>5
    <3>2. i + 1 <= n /\ file[i + 1] \in {saved[i], goal[i]}
      BY <2>2, <2>3, <2>5, <3>1
    <3> QED BY <2>2, <3>1, <3>2
  <2> QED BY <2>1, <2>2, <2>3, <2>5
<1> QED BY <1>1, <1>2

(* After a crash at any point of any save, what is loaded has the number   *)
(* of rows before or after it, and each row that both have is what it was  *)
(* before or after it; and a new object is only made in the place of one   *)
(* that had no rows: for any number of rows.                               *)
THEOREM RecoveredHolds == Spec => Recovered
<1>1. Inv /\ [Next]_vars =>
        [length = Unopened /\ ~mixed =>
           /\ NewDB => saved = <<>>
           /\ LoadDB =>
                /\ Len(table') \in {Len(saved), Len(goal)}
                /\ \A i \in DOMAIN table' \cap DOMAIN saved \cap DOMAIN goal :
                     table'[i] \in {saved[i], goal[i]} \/ saved[i] = Garbage]_vars
  BY NextRecovers
<1> QED BY <1>1, FileInvariant, PTL DEF Spec, Recovered
===============================================================================
