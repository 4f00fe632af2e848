---------------------------- MODULE TaskTable_proofs ----------------------------
(***************************************************************************)
(* What TaskTable promises for a table of any size and any clock, with any *)
(* number of restarts, if scripts leave a ring room for the task they add  *)
(* (~Overrun): no task is lost, none is overwritten, and a cycle passes    *)
(* none by that was due.                                                   *)
(*                                                                         *)
(* A ring is handled with "row x is on the way from a to b".  All that is  *)
(* open is on the way from TASK_START to CYCLE_ADD, and the row a cycle is *)
(* at stands between them.                                                 *)
(***************************************************************************)
EXTENDS TaskTable, TLAPS, FiniteSetTheorems

(* Row x is on the way from row a to row b, over the end of the table if b *)
(* is before a.                                                            *)
OnWay(x, a, b) == IF a <= b THEN a <= x /\ x <= b ELSE a <= x \/ x <= b

(* The table: what a restart loads has the same rows, and a row that is    *)
(* not FREE is not FREE there.                                             *)
DiskInv ==
    /\ DOMAIN disk.rows = DOMAIN rows
    /\ disk.added = added
    /\ \A r \in DOMAIN rows : rows[r] # Free => disk.rows[r] # Free

(* A ring that is not full ends with its last task; pointers are rows. *)
RingInv ==
    ring =>
        /\ Num = 0 => start = 0 /\ added = 0 /\ disk.start = 0
        /\ Num > 0 => start < Num /\ added < Num /\ disk.start < Num
        /\ 0 < Num /\ Num < MaxNum => added = Num - 1

(* What is open is not FREE and on the way between the pointers, and       *)
(* TASK_START is not behind what a restart would load.                     *)
OpenInv ==
    /\ \A r \in open : rows[r] # Free
    /\ ring => \A r \in open : OnWay(r, start, added)
    /\ ring /\ Num > 0 => OnWay(start, disk.start, added)

(* A cycle is at a row between the pointers and comes to its end before    *)
(* CYCLE_ADD; as long as it found FREE rows only, no open row is behind it.*)
ScanInv ==
    scan # Idle =>
        /\ scan.num <= Num
        /\ ring =>
            /\ scan.num < MaxNum => scan.end = scan.num - 1
            /\ Here < scan.num /\ scan.end < scan.num
            /\ OnWay(Here, start, added) /\ OnWay(scan.end, Here, added)
            /\ scan.free => \A r \in open : OnWay(r, Here, added)
        /\ ~ring => scan.end = scan.num /\ Here <= scan.num

(* What the cycle still owes is due and before it. *)
OwedInv ==
    /\ scan = Idle => owed = {}
    /\ scan # Idle => \A r \in owed :
        /\ r < scan.num /\ Due(r, scan.tick)
        /\ IF ring THEN OnWay(r, Here, scan.end) ELSE Here <= r

TaskInv == TypeOK /\ DiskInv /\ RingInv /\ OpenInv /\ ScanInv /\ OwedInv

-----------------------------------------------------------------------------
(* The rows of a table are those from 0 to Num - 1. *)
LEMMA RowsNum ==
    ASSUME NEW f \in Rows
    PROVE  /\ Cardinality(DOMAIN f) \in 0 .. MaxNum
           /\ DOMAIN f = 0 .. Cardinality(DOMAIN f) - 1
           /\ f \in [DOMAIN f -> Times \cup {Free}]
<1>1. PICK n \in 0 .. MaxNum : f \in [0 .. n - 1 -> Times \cup {Free}]
  BY DEF Rows
<1>2. DOMAIN f = 0 .. n - 1 /\ n \in Nat
  BY <1>1, TaskAssumption
<1>3. Cardinality(0 .. n - 1) = n
  BY <1>2, FS_Interval
<1> QED BY <1>1, <1>2, <1>3

LEMMA RowsIs ==
    ASSUME NEW n \in 0 .. MaxNum, NEW f \in [0 .. n - 1 -> Times \cup {Free}]
    PROVE  f \in Rows /\ DOMAIN f = 0 .. n - 1 /\ Cardinality(DOMAIN f) = n
<1>1. DOMAIN f = 0 .. n - 1 /\ n \in Nat
  BY TaskAssumption
<1>2. Cardinality(0 .. n - 1) = n
  BY <1>1, FS_Interval
<1> QED BY <1>1, <1>2 DEF Rows

(* What the type invariant says of the two tables, without cardinalities. *)
LEMMA TableFacts ==
    ASSUME TypeOK, DiskInv
    PROVE  /\ Num \in 0 .. MaxNum /\ MaxNum \in Nat \ {0} /\ MaxTime \in Nat
           /\ DOMAIN rows = 0 .. Num - 1 /\ rows \in [0 .. Num - 1 -> Times \cup {Free}]
           /\ disk.rows \in [0 .. Num - 1 -> Times \cup {Free}]
           /\ disk.start \in 0 .. MaxNum - 1
           /\ start \in 0 .. MaxNum - 1 /\ added \in 0 .. MaxNum - 1
           /\ disk = [rows |-> disk.rows, start |-> disk.start, added |-> added]
           /\ open \subseteq 0 .. Num - 1 /\ owed \subseteq open
<1>1. rows \in Rows /\ disk.rows \in Rows
  BY DEF TypeOK
<1>2. /\ Num \in 0 .. MaxNum /\ DOMAIN rows = 0 .. Num - 1
      /\ rows \in [DOMAIN rows -> Times \cup {Free}]
  BY <1>1, RowsNum DEF Num
<1>3. disk.rows \in [0 .. Num - 1 -> Times \cup {Free}]
  BY <1>1, <1>2, RowsNum DEF DiskInv
<1> QED BY <1>1, <1>2, <1>3, TaskAssumption DEF TypeOK, DiskInv

(* From a on the way to c one comes by b, and from b by x. *)
LEMMA OnWayThrough ==
    ASSUME NEW a \in Int, NEW b \in Int, NEW c \in Int, NEW x \in Int,
           OnWay(b, a, c), OnWay(x, b, c)
    PROVE  OnWay(x, a, c)
BY DEF OnWay

(* From a one cannot have come by x before b and come by it after b. *)
LEMMA OnWayOnce ==
    ASSUME NEW a \in Int, NEW b \in Int, NEW c \in Int, NEW x \in Int,
           OnWay(b, a, c), OnWay(x, a, b), OnWay(x, b, c)
    PROVE  x = b
BY DEF OnWay

(* For the rows of a table, Window is what is on the way. *)
LEMMA WindowIs ==
    ASSUME NEW a \in 0 .. Num - 1, NEW b \in 0 .. Num - 1, Num \in Nat,
           NEW x \in 0 .. Num - 1
    PROVE  x \in Window(a, b) <=> OnWay(x, a, b)
BY DEF Window, OnWay

-----------------------------------------------------------------------------
(* Adding a task *)

LEMMA PutFacts ==
    ASSUME TypeOK, DiskInv, NEW r \in 0 .. Num, r < MaxNum, NEW task \in Times, NEW last,
           Put(r, task, last)
    PROVE  /\ Num' = IF r = Num THEN Num + 1 ELSE Num
           /\ Num' <= MaxNum
           /\ rows' \in Rows /\ DOMAIN rows' = 0 .. Num' - 1
           /\ \A i \in 0 .. Num' - 1 : rows'[i] = IF i = r THEN task ELSE rows[i]
           /\ disk'.rows \in Rows /\ DOMAIN disk'.rows = DOMAIN rows'
           /\ \A i \in 0 .. Num' - 1 : disk'.rows[i] = IF i = r THEN task ELSE disk.rows[i]
           /\ disk' = [rows |-> disk'.rows, start |-> start, added |-> last]
           /\ added' = last /\ open' = open \cup {r} /\ owed' = owed \ {r}
           /\ UNCHANGED <<ring, start, now, crashes>>
<1> DEFINE n == IF r = Num THEN Num + 1 ELSE Num
<1>0. /\ Num \in 0 .. MaxNum /\ MaxNum \in Nat \ {0}
      /\ DOMAIN rows = 0 .. Num - 1 /\ rows \in [0 .. Num - 1 -> Times \cup {Free}]
      /\ DOMAIN disk.rows = 0 .. Num - 1
      /\ disk.rows \in [0 .. Num - 1 -> Times \cup {Free}]
  BY TableFacts DEF DiskInv
<1>1. n \in 0 .. MaxNum /\ 0 .. n - 1 = (0 .. Num - 1) \cup {r} /\ r \in 0 .. n - 1
  BY <1>0
<1>2. rows' = [i \in 0 .. n - 1 |-> IF i = r THEN task ELSE rows[i]]
  BY <1>0, <1>1 DEF Put, WithRow
<1>3. rows' \in [0 .. n - 1 -> Times \cup {Free}] /\ DOMAIN rows' = 0 .. n - 1
  BY <1>0, <1>1, <1>2
<1>4. disk' = [rows |-> [i \in 0 .. n - 1 |->
                          IF i = r \/ i \notin 0 .. Num - 1 THEN rows'[i] ELSE disk.rows[i]],
               start |-> start, added |-> last]
  BY <1>0, <1>3 DEF Put, Saved
<1>5. \A i \in 0 .. n - 1 : disk'.rows[i] = IF i = r THEN task ELSE disk.rows[i]
  BY <1>1, <1>2, <1>4
<1>6. disk'.rows \in [0 .. n - 1 -> Times \cup {Free}] /\ DOMAIN disk'.rows = 0 .. n - 1
  <2>1. \A i \in 0 .. n - 1 : disk'.rows[i] \in Times \cup {Free}
    BY <1>0, <1>1, <1>5
  <2>2. disk'.rows = [i \in 0 .. n - 1 |->
                          IF i = r \/ i \notin 0 .. Num - 1 THEN rows'[i] ELSE disk.rows[i]]
    BY <1>4
  <2> QED BY <2>1, <2>2
<1> HIDE DEF n
<1>7. rows' \in Rows /\ disk'.rows \in Rows /\ Num' = n
  <2>1. rows' \in Rows /\ Cardinality(DOMAIN rows') = n
    BY <1>1, <1>3, RowsIs
  <2>2. disk'.rows \in Rows
    BY <1>1, <1>6, RowsIs
  <2> QED BY <2>1, <2>2 DEF Num
<1> QED BY <1>0, <1>1, <1>2, <1>3, <1>4, <1>5, <1>6, <1>7 DEF n, Put

(* A ring with room goes on at a row that is not on the way, and all that  *)
(* was on the way from a row of it still is.                               *)
LEMMA NextRowFacts ==
    ASSUME TypeOK, DiskInv, RingInv, ring, Room, ~Overrun
    PROVE  /\ NextRow \in 0 .. Num /\ NextRow < MaxNum
           /\ Num = 0 => NextRow = 0
           /\ Num > 0 => ~OnWay(NextRow, start, added)
           /\ NextRow < Num => Num = MaxNum
           /\ \A a, x \in 0 .. Num - 1 :
                OnWay(a, start, added) /\ OnWay(x, a, added) => OnWay(x, a, NextRow)
<1>1. Num \in 0 .. MaxNum /\ start \in 0 .. MaxNum - 1 /\ added \in 0 .. MaxNum - 1 /\ MaxNum \in Nat \ {0}
  BY TableFacts
<1>2. CASE Num = 0
  BY <1>1, <1>2 DEF RingInv, NextRow
<1>3. CASE Num > 0
  <2>1. start < Num /\ added < Num /\ (Num < MaxNum => added = Num - 1)
    BY <1>1, <1>3 DEF RingInv
  <2>2. NextRow = IF added + 1 >= MaxNum THEN 0 ELSE added + 1
    BY <1>1, <1>3, <2>1 DEF NextRow
  <2>3. Num < MaxNum \/ NextRow # start
    BY DEF Room
  <2>4. ~OnWay(NextRow, start, added)
    BY <1>1, <1>3, <2>1, <2>2, <2>3 DEF OnWay
  <2>5. ASSUME NEW a \in 0 .. Num - 1, NEW x \in 0 .. Num - 1,
               OnWay(a, start, added), OnWay(x, a, added)
        PROVE  OnWay(x, a, NextRow)
    BY <1>1, <2>1, <2>2, <2>3, <2>5 DEF OnWay
  <2> QED BY <1>1, <1>3, <2>1, <2>2, <2>4, <2>5
<1> QED BY <1>1, <1>2, <1>3

(* CycleAdd and CycleAddIfFree keep the invariant. *)
LEMMA RingPutKeeps ==
    ASSUME TaskInv, ~Overrun, ring, Room, NEW task \in Times,
           Put(NextRow, task, NextRow), UNCHANGED scan
    PROVE  TaskInv'
<1> DEFINE r == NextRow
<1>0. /\ TypeOK /\ DiskInv /\ RingInv /\ OpenInv /\ ScanInv /\ OwedInv
  BY DEF TaskInv
<1>1. /\ r \in 0 .. Num /\ r < MaxNum /\ (Num = 0 => r = 0) /\ (r < Num => Num = MaxNum)
      /\ \A a, x \in 0 .. Num - 1 :
            OnWay(a, start, added) /\ OnWay(x, a, added) => OnWay(x, a, r)
  BY <1>0, NextRowFacts
<1> HIDE DEF r
<1>2. Put(r, task, r)
  BY DEF r
<1>3. /\ Num' = IF r = Num THEN Num + 1 ELSE Num
      /\ Num' <= MaxNum
      /\ rows' \in Rows /\ DOMAIN rows' = 0 .. Num' - 1
      /\ \A i \in 0 .. Num' - 1 : rows'[i] = IF i = r THEN task ELSE rows[i]
      /\ disk'.rows \in Rows /\ DOMAIN disk'.rows = DOMAIN rows'
      /\ \A i \in 0 .. Num' - 1 : disk'.rows[i] = IF i = r THEN task ELSE disk.rows[i]
      /\ disk' = [rows |-> disk'.rows, start |-> start, added |-> r]
      /\ added' = r /\ open' = open \cup {r} /\ owed' = owed \ {r}
      /\ UNCHANGED <<ring, start, now, crashes>>
  BY <1>0, <1>1, <1>2, PutFacts
<1>4. /\ Num \in 0 .. MaxNum /\ MaxNum \in Nat \ {0} /\ MaxTime \in Nat
      /\ DOMAIN rows = 0 .. Num - 1 /\ rows \in [0 .. Num - 1 -> Times \cup {Free}]
      /\ start \in 0 .. MaxNum - 1 /\ added \in 0 .. MaxNum - 1
      /\ open \subseteq 0 .. Num - 1 /\ owed \subseteq open
  BY <1>0, TableFacts
<1>5. disk'.start = start /\ disk'.added = r
  BY <1>3
<1>6. TypeOK'
  <2>1. disk' \in [rows : Rows, start : 0 .. MaxNum - 1, added : 0 .. MaxNum - 1]
    BY <1>1, <1>3, <1>4
  <2>2. open' \subseteq DOMAIN rows' /\ owed' \subseteq open'
    BY <1>1, <1>3, <1>4
  <2> QED BY <1>0, <1>1, <1>3, <1>4, <2>1, <2>2 DEF TypeOK
<1>7. task # Free
  BY <1>4 DEF Times, Free
<1>8. DiskInv'
  <2>1. \A i \in 0 .. Num' - 1 : rows'[i] # Free => disk'.rows[i] # Free
    BY <1>0, <1>1, <1>3, <1>4, <1>7 DEF DiskInv
  <2> QED BY <1>3, <1>5, <2>1 DEF DiskInv
<1>9. RingInv'
  BY <1>0, <1>1, <1>3, <1>4, <1>5 DEF RingInv
<1>10. Num > 0 => start < Num /\ OnWay(start, start, added)
  BY <1>0, <1>4 DEF RingInv, OnWay
<1>11. \A i \in open : OnWay(i, start, r)
  BY <1>0, <1>1, <1>4, <1>10 DEF OpenInv
<1>12. OpenInv'
  <2>1. \A i \in open' : rows'[i] # Free
    BY <1>0, <1>1, <1>3, <1>4, <1>7 DEF OpenInv
  <2>2. \A i \in open' : OnWay(i, start, r)
    BY <1>1, <1>3, <1>4, <1>11 DEF OnWay
  <2>3. OnWay(start, start, r)
    BY <1>1, <1>4 DEF OnWay
  <2> QED BY <1>3, <1>5, <2>1, <2>2, <2>3 DEF OpenInv
<1>13. ScanInv'
  <2> SUFFICES ASSUME scan # Idle PROVE ScanInv'
    BY DEF ScanInv
  <2>1. /\ scan.num <= Num /\ scan' = scan /\ Here' = Here /\ scan \in Cycle
        /\ scan.num < MaxNum => scan.end = scan.num - 1
        /\ Here < scan.num /\ scan.end < scan.num
        /\ OnWay(Here, start, added) /\ OnWay(scan.end, Here, added)
        /\ scan.free => \A i \in open : OnWay(i, Here, added)
    BY <1>0, <1>3 DEF ScanInv, Here, TypeOK
  <2>2. Here \in 0 .. Num - 1 /\ scan.end \in 0 .. Num - 1 /\ scan.num \in 1 .. Num
    BY <1>4, <2>1 DEF Here, Cycle
  <2>3. OnWay(Here, start, r) /\ OnWay(scan.end, Here, r)
    BY <1>1, <1>4, <1>10, <2>1, <2>2
  <2>4. scan.free => \A i \in open' : OnWay(i, Here, r)
    <3>1. OnWay(r, Here, r)
      BY <1>1, <1>4, <2>2 DEF OnWay
    <3> QED BY <1>1, <1>3, <1>4, <2>1, <2>2, <3>1
  <2>5. scan.num <= Num'
    BY <1>3, <1>4, <2>2
  <2> QED BY <1>3, <2>1, <2>3, <2>4, <2>5 DEF ScanInv
<1>14. OwedInv'
  <2>1. Here' = Here /\ scan' = scan
    BY <1>3 DEF Here
  <2>2. \A i \in owed' : i \in owed /\ rows'[i] = rows[i]
    BY <1>1, <1>3, <1>4
  <2> QED BY <1>0, <1>3, <2>1, <2>2 DEF OwedInv, Due
<1> QED BY <1>6, <1>8, <1>9, <1>12, <1>13, <1>14 DEF TaskInv

(* A task put into a table that is no ring. *)
LEMMA PlainWriteKeeps ==
    ASSUME TaskInv, NEW r \in 0 .. MaxNum - 1, NEW task \in Times, PlainWrite(r, task)
    PROVE  TaskInv'
<1>0. /\ TypeOK /\ DiskInv /\ OpenInv /\ ScanInv /\ OwedInv
      /\ ~ring /\ r \in 0 .. Num /\ r < MaxNum /\ Put(r, task, added) /\ scan' = scan
  BY DEF TaskInv, PlainWrite
<1>1. /\ Num' = IF r = Num THEN Num + 1 ELSE Num
      /\ Num' <= MaxNum
      /\ rows' \in Rows /\ DOMAIN rows' = 0 .. Num' - 1
      /\ \A i \in 0 .. Num' - 1 : rows'[i] = IF i = r THEN task ELSE rows[i]
      /\ disk'.rows \in Rows /\ DOMAIN disk'.rows = DOMAIN rows'
      /\ \A i \in 0 .. Num' - 1 : disk'.rows[i] = IF i = r THEN task ELSE disk.rows[i]
      /\ disk' = [rows |-> disk'.rows, start |-> start, added |-> added]
      /\ added' = added /\ open' = open \cup {r} /\ owed' = owed \ {r}
      /\ UNCHANGED <<ring, start, now, crashes>>
  BY <1>0, PutFacts
<1>2. /\ Num \in 0 .. MaxNum /\ MaxNum \in Nat \ {0} /\ MaxTime \in Nat
      /\ DOMAIN rows = 0 .. Num - 1 /\ rows \in [0 .. Num - 1 -> Times \cup {Free}]
      /\ start \in 0 .. MaxNum - 1 /\ added \in 0 .. MaxNum - 1
      /\ open \subseteq 0 .. Num - 1 /\ owed \subseteq open
  BY <1>0, TableFacts
<1>3. TypeOK'
  <2>1. disk' \in [rows : Rows, start : 0 .. MaxNum - 1, added : 0 .. MaxNum - 1]
    BY <1>1, <1>2
  <2>2. open' \subseteq DOMAIN rows' /\ owed' \subseteq open'
    BY <1>0, <1>1, <1>2
  <2> QED BY <1>0, <1>1, <1>2, <2>1, <2>2 DEF TypeOK
<1>4. task # Free
  BY <1>2 DEF Times, Free
<1>5. DiskInv'
  <2>1. \A i \in 0 .. Num' - 1 : rows'[i] # Free => disk'.rows[i] # Free
    BY <1>0, <1>1, <1>2, <1>4 DEF DiskInv
  <2>2. disk'.added = added'
    BY <1>1
  <2> QED BY <1>1, <2>1, <2>2 DEF DiskInv
<1>6. RingInv' /\ ~ring'
  BY <1>0, <1>1 DEF RingInv
<1>7. OpenInv'
  BY <1>0, <1>1, <1>2, <1>4, <1>6 DEF OpenInv
<1>8. ScanInv'
  BY <1>0, <1>1, <1>2, <1>6 DEF ScanInv, Here, TypeOK, Cycle
<1>9. OwedInv'
  <2>1. Here' = Here /\ scan' = scan
    BY <1>0, <1>1 DEF Here
  <2>2. \A i \in owed' : i \in owed /\ rows'[i] = rows[i]
    BY <1>0, <1>1, <1>2
  <2> QED BY <1>0, <1>1, <2>1, <2>2 DEF OwedInv, Due
<1> QED BY <1>3, <1>5, <1>6, <1>7, <1>8, <1>9 DEF TaskInv

-----------------------------------------------------------------------------
(* The cycle *)

LEMMA WalkingFacts ==
    ASSUME TaskInv, Walking
    PROVE  /\ scan \in Cycle /\ scan # Idle
           /\ scan.num \in 1 .. Num /\ Num \in 1 .. MaxNum /\ MaxNum \in Nat
           /\ Here \in 0 .. scan.num - 1
           /\ scan.tick \in Times
           /\ ring => /\ start \in 0 .. Num - 1 /\ added \in 0 .. Num - 1
                      /\ scan.num < MaxNum => scan.end = scan.num - 1
                      /\ scan.end \in 0 .. scan.num - 1
                      /\ OnWay(Here, start, added) /\ OnWay(scan.end, Here, added)
           /\ ~ring => scan.end = scan.num
<1>1. /\ TypeOK /\ ScanInv /\ RingInv /\ scan # Idle /\ scan \in Cycle /\ Here < scan.num
      /\ Num \in 0 .. MaxNum /\ MaxNum \in Nat \ {0}
      /\ start \in 0 .. MaxNum - 1 /\ added \in 0 .. MaxNum - 1
  BY TableFacts DEF TaskInv, Walking, TypeOK
<1>2. scan.num \in 1 .. Num /\ scan.r \in 0 .. MaxNum /\ scan.end \in 0 .. MaxNum /\ scan.tick \in Times
  BY <1>1 DEF ScanInv, Cycle
<1>3. Here \in 0 .. scan.num - 1
  BY <1>1, <1>2 DEF Here
<1> QED BY <1>1, <1>2, <1>3 DEF ScanInv, RingInv

(* The loop goes on to the next row of a ring, or has done the last.       *)
LEMMA OnwardFacts ==
    ASSUME TaskInv, Walking, NEW free \in BOOLEAN, Onward(free), ring' = ring
    PROVE  /\ scan' \in Cycle \cup {Idle}
           /\ scan' = Idle => ring /\ Here = scan.end
           /\ scan' # Idle =>
                /\ scan'.num = scan.num /\ scan'.end = scan.end /\ scan'.tick = scan.tick
                /\ scan'.free = free
                /\ ring => /\ Here' \in 0 .. scan.num - 1
                           /\ OnWay(Here', start, added) /\ OnWay(Here', Here, added)
                           /\ \A x \in 0 .. Num - 1 : x # Here /\ OnWay(x, Here, added) =>
                                OnWay(x, Here', added)
                           /\ \A x \in 0 .. scan.num - 1 : x # Here /\ OnWay(x, Here, scan.end) =>
                                OnWay(x, Here', scan.end)
                           /\ OnWay(scan.end, Here', added)
                /\ ~ring => Here' = Here + 1
<1>1. /\ scan \in Cycle /\ scan # Idle
      /\ scan.num \in 1 .. Num /\ Num \in 1 .. MaxNum /\ MaxNum \in Nat
      /\ Here \in 0 .. scan.num - 1
      /\ ring => /\ start \in 0 .. Num - 1 /\ added \in 0 .. Num - 1
                 /\ scan.num < MaxNum => scan.end = scan.num - 1
                 /\ scan.end \in 0 .. scan.num - 1
                 /\ OnWay(Here, start, added) /\ OnWay(scan.end, Here, added)
      /\ ~ring => scan.end = scan.num
  BY WalkingFacts
<1>2. CASE Here = scan.end
  BY <1>1, <1>2 DEF Onward
<1>3. CASE Here # scan.end
  <2>1. scan' = [scan EXCEPT !.r = Here + 1, !.free = free]
    BY <1>3 DEF Onward
  <2>2. /\ scan' \in Cycle /\ scan'.num = scan.num /\ scan'.end = scan.end
        /\ scan'.tick = scan.tick /\ scan'.free = free /\ scan'.r = Here + 1
    <3>1. Here + 1 \in 0 .. MaxNum
      BY <1>1
    <3> DEFINE n == Here + 1
    <3> HIDE DEF n
    <3>2. n \in 0 .. MaxNum /\ scan' = [scan EXCEPT !.r = n, !.free = free]
      BY <2>1, <3>1 DEF n
    <3>3. scan' \in Cycle /\ scan'.r = n /\ scan'.free = free
      BY <1>1, <3>2 DEF Cycle
    <3>4. scan'.num = scan.num /\ scan'.end = scan.end /\ scan'.tick = scan.tick
      BY <1>1, <3>2 DEF Cycle
    <3> QED BY <3>3, <3>4 DEF n
  <2>3. Here' = IF ring /\ Here + 1 >= scan.num THEN 0 ELSE Here + 1
    BY <2>2 DEF Here
  <2>4. scan' # Idle
    <3>1. scan'.r # Idle.r
      BY <1>1, <2>2 DEF Idle
    <3> QED BY <3>1
  <2> DEFINE h == Here
             k == IF h + 1 >= scan.num THEN 0 ELSE h + 1
  <2>5. CASE ring
    <3>0. Here' = k /\ k \in 0 .. scan.num - 1
      BY <1>1, <2>3, <2>5
    <3>1. h + 1 >= scan.num => Num = scan.num /\ h = Num - 1
      BY <1>1, <1>3, <2>5 DEF OnWay
    <3>2. h # added
      BY <1>1, <1>3, <2>5 DEF OnWay
    <3>3. ASSUME NEW x \in 0 .. Num - 1, x # h, OnWay(x, h, added)
          PROVE  OnWay(x, k, added)
      BY <1>1, <2>5, <3>1, <3>2, <3>3 DEF OnWay
    <3>4. ASSUME NEW x \in 0 .. scan.num - 1, x # h, OnWay(x, h, scan.end)
          PROVE  OnWay(x, k, scan.end)
      BY <1>1, <1>3, <2>5, <3>4 DEF OnWay
    <3>5. OnWay(scan.end, k, added)
      BY <1>1, <1>3, <2>5, <3>3
    <3>6. OnWay(k, h, added)
      BY <1>1, <2>5, <3>1, <3>2 DEF OnWay
    <3>7. OnWay(k, start, added)
      BY <1>1, <2>5, <3>0, <3>6, OnWayThrough
    <3> HIDE DEF k
    <3> QED BY <2>2, <2>4, <2>5, <3>0, <3>3, <3>4, <3>5, <3>6, <3>7
  <2>6. CASE ~ring
    BY <2>2, <2>3, <2>4, <2>6
  <2> QED BY <2>5, <2>6
<1> QED BY <1>2, <1>3

LEMMA BeginCycleKeeps ==
    ASSUME TaskInv, BeginCycle
    PROVE  TaskInv'
<1>0. /\ TypeOK /\ DiskInv /\ RingInv /\ OpenInv
      /\ scan' = [r |-> IF ring THEN start ELSE 0, end |-> IF ring THEN added ELSE Num,
                  num |-> Num, tick |-> now, from |-> start, free |-> TRUE]
      /\ owed' = {r \in open : Due(r, now)}
      /\ UNCHANGED <<ring, rows, start, added, now, disk, open, crashes>>
      /\ Num # 0
  BY DEF TaskInv, BeginCycle
<1>1. /\ Num \in 1 .. MaxNum /\ MaxNum \in Nat \ {0}
      /\ start \in 0 .. MaxNum - 1 /\ added \in 0 .. MaxNum - 1 /\ open \subseteq 0 .. Num - 1
      /\ ring => start < Num /\ added < Num /\ (Num < MaxNum => added = Num - 1)
      /\ now \in Times
  BY <1>0, TableFacts DEF RingInv, TypeOK
<1>2. /\ scan'.r = (IF ring THEN start ELSE 0) /\ scan'.end = (IF ring THEN added ELSE Num)
      /\ scan'.num = Num /\ scan'.tick = now /\ scan'.free
  BY <1>0
<1>3. scan' \in Cycle
  BY <1>0, <1>1 DEF Cycle
<1>4. scan' # Idle
  <2>1. scan'.r # Idle.r
    BY <1>1, <1>2 DEF Idle
  <2> QED BY <2>1
<1>5. Here' = IF ring THEN start ELSE 0
  BY <1>0, <1>1, <1>2 DEF Here
<1>6. TypeOK'
  BY <1>0, <1>3 DEF TypeOK
<1>7. DiskInv' /\ RingInv' /\ OpenInv' /\ Num' = Num
  BY <1>0 DEF DiskInv, RingInv, OpenInv, Num
<1>8. ring => OnWay(start, start, added) /\ OnWay(added, start, added)
  BY <1>1 DEF OnWay
<1>9. ScanInv'
  BY <1>0, <1>1, <1>2, <1>5, <1>7, <1>8 DEF ScanInv, OpenInv
<1>10. OwedInv'
  BY <1>0, <1>1, <1>2, <1>4, <1>5 DEF OwedInv, OpenInv, Due
<1> QED BY <1>6, <1>7, <1>9, <1>10 DEF TaskInv

(* TASK_START goes on over FREE rows: no open row is behind it. *)
LEMMA PassFreeKeeps ==
    ASSUME TaskInv, PassFree
    PROVE  TaskInv'
<1>0. /\ TypeOK /\ DiskInv /\ RingInv /\ OpenInv /\ ScanInv /\ OwedInv
      /\ Walking /\ rows[Here] = Free /\ Onward(scan.free)
      /\ start' = IF ring /\ scan.free /\ Here # scan.from THEN Here ELSE start
      /\ UNCHANGED <<ring, rows, added, now, disk, open, owed, crashes>>
  BY DEF TaskInv, PassFree
<1>1. /\ scan \in Cycle /\ scan # Idle /\ scan.free \in BOOLEAN
      /\ scan.num \in 1 .. Num /\ Num \in 1 .. MaxNum /\ MaxNum \in Nat
      /\ Here \in 0 .. scan.num - 1
      /\ ring => /\ start \in 0 .. Num - 1 /\ added \in 0 .. Num - 1
                 /\ scan.end \in 0 .. scan.num - 1
                 /\ OnWay(Here, start, added)
      /\ ~ring => scan.end = scan.num
  BY <1>0, WalkingFacts DEF Cycle
<1>2. /\ open \subseteq 0 .. Num - 1 /\ owed \subseteq open /\ disk.start \in 0 .. MaxNum - 1
      /\ start \in 0 .. MaxNum - 1 /\ added \in 0 .. MaxNum - 1
  BY <1>0, TableFacts
<1>3. Here \notin open /\ Here \notin owed
  BY <1>0, <1>2 DEF OpenInv
<1>4. /\ scan' \in Cycle \cup {Idle}
      /\ scan' = Idle => ring /\ Here = scan.end
      /\ scan' # Idle =>
            /\ scan'.num = scan.num /\ scan'.end = scan.end /\ scan'.tick = scan.tick
            /\ scan'.free = scan.free
            /\ ring => /\ Here' \in 0 .. scan.num - 1
                       /\ OnWay(Here', start, added) /\ OnWay(Here', Here, added)
                       /\ \A x \in 0 .. Num - 1 : x # Here /\ OnWay(x, Here, added) =>
                            OnWay(x, Here', added)
                       /\ \A x \in 0 .. scan.num - 1 : x # Here /\ OnWay(x, Here, scan.end) =>
                            OnWay(x, Here', scan.end)
                       /\ OnWay(scan.end, Here', added)
            /\ ~ring => Here' = Here + 1
  BY <1>0, <1>1, OnwardFacts
<1>5. Num' = Num
  BY <1>0 DEF Num
<1>6. start' \in 0 .. MaxNum - 1 /\ (ring => start' \in 0 .. Num - 1)
  BY <1>0, <1>1, <1>2
<1>7. TypeOK' /\ DiskInv'
  BY <1>0, <1>4, <1>6 DEF TypeOK, DiskInv
<1>8. RingInv'
  BY <1>0, <1>1, <1>5, <1>6 DEF RingInv
<1>9. ring => \A r \in open : OnWay(r, start', added)
  BY <1>0, <1>1 DEF OpenInv, ScanInv
<1>10. ring => OnWay(start', disk.start, added)
  <2>1. ring => OnWay(start, disk.start, added)
    BY <1>0, <1>1 DEF OpenInv
  <2> QED BY <1>0, <1>1, <1>2, <2>1, OnWayThrough
<1>11. OpenInv'
  BY <1>0, <1>5, <1>9, <1>10 DEF OpenInv
<1>12. ASSUME ring, scan' # Idle
       PROVE  /\ OnWay(Here', start', added)
              /\ scan.free => \A r \in open : OnWay(r, Here', added)
  <2>1. scan.free => \A r \in open : OnWay(r, Here', added)
    BY <1>0, <1>1, <1>2, <1>3, <1>4, <1>12 DEF ScanInv
  <2> QED BY <1>0, <1>4, <1>12, <2>1
<1>13. ScanInv'
  BY <1>0, <1>1, <1>4, <1>5, <1>12 DEF ScanInv
<1>14. OwedInv'
  <2>1. CASE scan' = Idle
    <3>1. \A r \in owed : OnWay(r, Here, Here)
      BY <1>0, <1>1, <1>4, <2>1 DEF OwedInv
    <3>2. owed = {}
      BY <1>1, <1>2, <1>3, <3>1 DEF OnWay
    <3> QED BY <1>0, <2>1, <3>2 DEF OwedInv
  <2>2. CASE scan' # Idle
    <3> SUFFICES ASSUME NEW r \in owed
                 PROVE  /\ r < scan.num /\ Due(r, scan.tick)
                        /\ IF ring THEN OnWay(r, Here', scan.end) ELSE Here' <= r
      BY <1>0, <1>4, <2>2 DEF OwedInv, Due
    <3>1. /\ r < scan.num /\ Due(r, scan.tick) /\ r # Here
          /\ IF ring THEN OnWay(r, Here, scan.end) ELSE Here <= r
      BY <1>0, <1>1, <1>3 DEF OwedInv
    <3> QED BY <1>1, <1>2, <1>4, <2>2, <3>1
  <2> QED BY <2>1, <2>2
<1> QED BY <1>7, <1>8, <1>11, <1>13, <1>14 DEF TaskInv

(* A row that is not FREE: it is not due, or its script has run. *)
LEMMA PassKeeps ==
    ASSUME TaskInv, Walking, Onward(FALSE),
           UNCHANGED <<ring, start, added, now, disk, crashes>>,
           rows[Here] # Free,
           \/ rows[Here] > scan.tick /\ UNCHANGED <<rows, open, owed>>
           \/ \E task \in Times \cup {Free} :
                /\ rows' = [rows EXCEPT ![Here] = task]
                /\ open' = IF task = Free THEN open \ {Here} ELSE open \cup {Here}
                /\ owed' = owed \ {Here}
    PROVE  TaskInv'
<1>0. TypeOK /\ DiskInv /\ RingInv /\ OpenInv /\ ScanInv /\ OwedInv
  BY DEF TaskInv
<1>1. /\ scan \in Cycle /\ scan # Idle
      /\ scan.num \in 1 .. Num /\ Num \in 1 .. MaxNum /\ MaxNum \in Nat
      /\ Here \in 0 .. scan.num - 1
      /\ ring => /\ start \in 0 .. Num - 1 /\ added \in 0 .. Num - 1
                 /\ scan.end \in 0 .. scan.num - 1
                 /\ OnWay(Here, start, added)
      /\ ~ring => scan.end = scan.num
      /\ scan.tick \in Times
  BY WalkingFacts
<1>2. /\ open \subseteq 0 .. Num - 1 /\ owed \subseteq open
      /\ DOMAIN rows = 0 .. Num - 1 /\ rows \in [0 .. Num - 1 -> Times \cup {Free}]
      /\ MaxTime \in Nat
  BY <1>0, TableFacts
<1>3. /\ scan' \in Cycle \cup {Idle}
      /\ scan' = Idle => ring /\ Here = scan.end
      /\ scan' # Idle =>
            /\ scan'.num = scan.num /\ scan'.end = scan.end /\ scan'.tick = scan.tick
            /\ scan'.free = FALSE
            /\ ring => /\ Here' \in 0 .. scan.num - 1
                       /\ OnWay(Here', start, added)
                       /\ \A x \in 0 .. scan.num - 1 : x # Here /\ OnWay(x, Here, scan.end) =>
                            OnWay(x, Here', scan.end)
                       /\ OnWay(scan.end, Here', added)
            /\ ~ring => Here' = Here + 1
  BY OnwardFacts
<1>4. /\ rows' \in [0 .. Num - 1 -> Times \cup {Free}]
      /\ \A i \in (0 .. Num - 1) \ {Here} : rows'[i] = rows[i]
      /\ open' \subseteq open \cup {Here}
      /\ \A r \in open' : rows'[r] # Free
      /\ owed' \subseteq owed /\ Here \notin owed' /\ owed' \subseteq open'
  <2>1. CASE rows[Here] > scan.tick /\ UNCHANGED <<rows, open, owed>>
    <3>1. Here \notin owed
      BY <1>0, <1>1, <1>2, <2>1 DEF OwedInv, Due, Times, Free
    <3> QED BY <1>0, <1>2, <2>1, <3>1 DEF OpenInv
  <2>2. CASE \E task \in Times \cup {Free} :
                /\ rows' = [rows EXCEPT ![Here] = task]
                /\ open' = IF task = Free THEN open \ {Here} ELSE open \cup {Here}
                /\ owed' = owed \ {Here}
    BY <1>0, <1>1, <1>2, <2>2 DEF OpenInv
  <2> QED BY <2>1, <2>2
<1>5. DOMAIN rows' = 0 .. Num - 1 /\ Num' = Num /\ rows' \in Rows
  <2>1. rows' \in Rows /\ Cardinality(DOMAIN rows') = Num
    BY <1>1, <1>4, RowsIs
  <2> QED BY <1>4, <2>1 DEF Num
<1>6. TypeOK'
  BY <1>0, <1>1, <1>2, <1>3, <1>4, <1>5 DEF TypeOK
<1>7. DiskInv'
  BY <1>0, <1>1, <1>2, <1>4, <1>5 DEF DiskInv
<1>8. RingInv'
  BY <1>0, <1>5 DEF RingInv
<1>9. OpenInv'
  BY <1>0, <1>1, <1>4, <1>5 DEF OpenInv
<1>10. ScanInv'
  BY <1>0, <1>1, <1>3, <1>5 DEF ScanInv
<1>11. OwedInv'
  <2>1. CASE scan' = Idle
    <3>1. \A r \in owed : OnWay(r, Here, Here)
      BY <1>0, <1>1, <1>3, <2>1 DEF OwedInv
    <3>2. owed' = {}
      BY <1>1, <1>2, <1>4, <3>1 DEF OnWay
    <3> QED BY <2>1, <3>2 DEF OwedInv
  <2>2. CASE scan' # Idle
    <3> SUFFICES ASSUME NEW r \in owed'
                 PROVE  /\ r < scan.num /\ Due(r, scan.tick)'
                        /\ IF ring THEN OnWay(r, Here', scan.end) ELSE Here' <= r
      BY <1>3, <2>2 DEF OwedInv, Due
    <3>1. /\ r \in owed /\ r # Here /\ r \in 0 .. Num - 1
          /\ r < scan.num /\ Due(r, scan.tick)
          /\ IF ring THEN OnWay(r, Here, scan.end) ELSE Here <= r
      BY <1>0, <1>1, <1>2, <1>4 DEF OwedInv
    <3>2. Due(r, scan.tick)'
      BY <1>3, <1>4, <2>2, <3>1 DEF Due
    <3> QED BY <1>1, <1>3, <2>2, <3>1, <3>2
  <2> QED BY <2>1, <2>2
<1> QED BY <1>6, <1>7, <1>8, <1>9, <1>10, <1>11 DEF TaskInv

(* A cycle that is broken off, or at the end of a table that is no ring. *)
LEMMA LeaveKeeps ==
    ASSUME TaskInv, Abort \/ EndWhole
    PROVE  TaskInv'
<1>0. /\ TypeOK /\ DiskInv /\ RingInv /\ OpenInv /\ ScanInv /\ OwedInv
      /\ scan' = Idle /\ UNCHANGED <<ring, rows, start, added, now, disk, open, crashes>>
  BY DEF TaskInv, Abort, EndWhole
<1>1. owed' = {}
  <2>1. CASE Abort
    BY <2>1 DEF Abort
  <2>2. CASE EndWhole
    <3>1. /\ scan # Idle /\ ~ring /\ Here >= scan.num /\ owed' = owed /\ scan \in Cycle
      BY <1>0, <2>2 DEF EndWhole, TypeOK
    <3>2. \A r \in owed : r < scan.num /\ Here <= r /\ r \in Int
      BY <1>0, <3>1, TableFacts DEF OwedInv
    <3> QED BY <3>1, <3>2 DEF Here, Cycle
  <2> QED BY <2>1, <2>2
<1> QED BY <1>0, <1>1 DEF TaskInv, TypeOK, DiskInv, RingInv, Num, OpenInv, ScanInv, OwedInv

LEMMA TickKeeps ==
    ASSUME TaskInv, Tick
    PROVE  TaskInv'
<1>1. now' \in Times /\ UNCHANGED <<ring, rows, start, added, scan, disk, open, owed, crashes>>
  BY TaskAssumption DEF TaskInv, TypeOK, Tick, Times
<1> QED BY <1>1 DEF TaskInv, TypeOK, DiskInv, RingInv, Num, OpenInv, ScanInv, OwedInv, Here, Due

LEMMA CrashKeeps ==
    ASSUME TaskInv, Crash
    PROVE  TaskInv'
<1>0. /\ TypeOK /\ DiskInv /\ RingInv /\ OpenInv
      /\ crashes' \in 0 .. MaxCrash
      /\ rows' = disk.rows /\ start' = disk.start /\ added' = added
      /\ scan' = Idle /\ owed' = {} /\ UNCHANGED <<ring, now, disk, open>>
  BY TaskAssumption DEF TaskInv, Crash, TypeOK, DiskInv
<1>1. /\ Num \in 0 .. MaxNum /\ MaxNum \in Nat
      /\ DOMAIN rows = 0 .. Num - 1 /\ open \subseteq 0 .. Num - 1
      /\ disk.start \in 0 .. MaxNum - 1 /\ start \in 0 .. MaxNum - 1 /\ added \in 0 .. MaxNum - 1
  BY <1>0, TableFacts
<1>2. DOMAIN rows' = DOMAIN rows /\ Num' = Num
  BY <1>0 DEF DiskInv, Num
<1>3. TypeOK' /\ DiskInv' /\ RingInv'
  BY <1>0, <1>1, <1>2 DEF TypeOK, DiskInv, RingInv
<1>4. OpenInv'
  <2>1. \A r \in open : rows'[r] # Free
    BY <1>0, <1>1 DEF OpenInv, DiskInv
  <2>2. ASSUME ring, NEW r \in open PROVE OnWay(r, disk.start, added)
    <3>1. OnWay(r, start, added) /\ OnWay(start, disk.start, added)
      BY <1>0, <1>1, <2>2 DEF OpenInv
    <3> QED BY <1>1, <3>1, OnWayThrough
  <2>3. OnWay(disk.start, disk.start, added)
    BY <1>1 DEF OnWay
  <2> QED BY <1>0, <2>1, <2>2, <2>3 DEF OpenInv
<1> QED BY <1>0, <1>3, <1>4 DEF TaskInv, ScanInv, OwedInv

-----------------------------------------------------------------------------
LEMMA TaskInit == Init => TaskInv
<1> SUFFICES ASSUME Init PROVE TaskInv
  OBVIOUS
<1>1. rows \in [0 .. 0 - 1 -> Times \cup {Free}] /\ 0 \in 0 .. MaxNum
  BY TaskAssumption DEF Init
<1>2. rows \in Rows /\ DOMAIN rows = {} /\ Num = 0
  <2>1. rows \in Rows /\ DOMAIN rows = 0 .. 0 - 1 /\ Cardinality(DOMAIN rows) = 0
    BY <1>1, RowsIs
  <2> QED BY <2>1 DEF Num
<1>3. TypeOK
  BY <1>2, TaskAssumption DEF Init, TypeOK, Times
<1> QED BY <1>2, <1>3 DEF Init, TaskInv, DiskInv, RingInv, OpenInv, ScanInv, OwedInv

LEMMA TaskStep ==
    ASSUME ~Overrun
    PROVE  TaskInv /\ [Next]_vars => TaskInv'
<1> SUFFICES ASSUME TaskInv, [Next]_vars PROVE TaskInv'
  OBVIOUS
<1>1. CASE \E task \in Times : CycleAdd(task) \/ CycleAddIfFree(task)
  BY <1>1, RingPutKeeps DEF CycleAdd, CycleAddIfFree
<1>2. CASE \E task \in Times : \E r \in 0 .. MaxNum - 1 : PlainWrite(r, task)
  BY <1>2, PlainWriteKeeps
<1>3. CASE BeginCycle
  BY <1>3, BeginCycleKeeps
<1>4. CASE PassFree
  BY <1>4, PassFreeKeeps
<1>5. CASE PassLater
  <2>1. TypeOK /\ Walking /\ rows[Here] # Free
    <3>1. /\ rows[Here] > scan.tick /\ scan.tick \in Times /\ MaxTime \in Nat /\ Walking
      BY <1>5, WalkingFacts, TaskAssumption DEF PassLater
    <3> QED BY <3>1 DEF Times, Free, TaskInv
  <2> QED BY <1>5, <2>1, PassKeeps DEF PassLater
<1>6. CASE \E task \in Times \cup {Free} : Run(task)
  BY <1>6, PassKeeps DEF Run, Due
<1>7. CASE Abort \/ EndWhole
  BY <1>7, LeaveKeeps
<1>8. CASE Tick
  BY <1>8, TickKeeps
<1>9. CASE Crash
  BY <1>9, CrashKeeps
<1>10. CASE UNCHANGED vars
  BY <1>10 DEF vars, TaskInv, TypeOK, DiskInv, RingInv, Num, OpenInv, ScanInv, OwedInv, Here, Due
<1> QED BY <1>1, <1>2, <1>3, <1>4, <1>5, <1>6, <1>7, <1>8, <1>9, <1>10 DEF Next, CycleStep

(* If scripts leave a ring room, all of the above holds in every state. *)
THEOREM TaskInvariant == ASSUME ~Overrun PROVE Spec => []TaskInv
BY TaskInit, TaskStep, PTL DEF Spec

(* A cycle that was not broken off has run every task that was due when it *)
(* began.                                                                  *)
THEOREM DueServedHolds == ASSUME ~Overrun PROVE Spec => []DueServed
<1>1. TaskInv => DueServed
  BY DEF TaskInv, OwedInv, DueServed
<1> QED BY <1>1, TaskInvariant, PTL

-----------------------------------------------------------------------------
(* Every task that is not done is in a row that is not FREE, between the   *)
(* pointers, and so it is in what a restart would load.                    *)
LEMMA OpenInPlace ==
    TaskInv =>
      /\ TypeOK
      /\ \A r \in open :
            /\ rows[r] # Free /\ r \in DOMAIN disk.rows /\ disk.rows[r] # Free
            /\ ring => r \in Window(start, added) \cap Window(disk.start, disk.added)
<1> SUFFICES ASSUME TaskInv, NEW r \in open
             PROVE  /\ rows[r] # Free /\ r \in DOMAIN disk.rows /\ disk.rows[r] # Free
                    /\ ring => r \in Window(start, added) \cap Window(disk.start, disk.added)
  BY DEF TaskInv
<1>1. /\ TypeOK /\ DiskInv /\ RingInv /\ OpenInv
      /\ DOMAIN rows = 0 .. Num - 1 /\ DOMAIN disk.rows = 0 .. Num - 1
      /\ r \in 0 .. Num - 1 /\ Num \in Nat
      /\ start \in Nat /\ added \in Nat /\ disk.start \in Nat
  BY TableFacts DEF TaskInv, DiskInv
<1>2. ASSUME ring PROVE r \in Window(start, added) \cap Window(disk.start, disk.added)
  <2>1. /\ start \in 0 .. Num - 1 /\ added \in 0 .. Num - 1 /\ disk.start \in 0 .. Num - 1
        /\ OnWay(r, start, added) /\ OnWay(start, disk.start, added) /\ disk.added = added
    BY <1>1, <1>2 DEF RingInv, OpenInv, DiskInv
  <2>2. OnWay(r, disk.start, added)
    BY <1>1, <2>1, OnWayThrough
  <2> QED BY <1>1, <2>1, <2>2, WindowIs
<1> QED BY <1>1, <1>2 DEF OpenInv, DiskInv

LEMMA LongerRange ==
    ASSUME NEW m \in Nat, NEW n \in Nat, m <= n, NEW r \in 0 .. m - 1
    PROVE  r \in 0 .. n - 1
OBVIOUS

(* TASK_START moves over FREE rows only, and the row of a task that is not *)
(* done changes only when the cycle is there.                              *)
LEMMA OpenNotTouched ==
    ASSUME ~Overrun
    PROVE  TaskInv /\ [Next]_vars =>
             [crashes' = crashes =>
               /\ start' # start =>
                    start' \in Window(start, added) /\ Window(start, start') \cap open = {}
               /\ \A r \in open : rows'[r] # rows[r] => scan # Idle /\ r = Here]_vars
<1> SUFFICES ASSUME TaskInv, Next, crashes' = crashes
             PROVE  /\ start' # start =>
                         start' \in Window(start, added) /\ Window(start, start') \cap open = {}
                    /\ \A r \in open : rows'[r] # rows[r] => scan # Idle /\ r = Here
  OBVIOUS
<1>0. /\ TypeOK /\ DiskInv /\ RingInv /\ OpenInv /\ ScanInv /\ Num \in 0 .. MaxNum /\ MaxNum \in Nat
      /\ DOMAIN rows = 0 .. Num - 1 /\ open \subseteq 0 .. Num - 1
      /\ rows \in [0 .. Num - 1 -> Times \cup {Free}]
      /\ added \in Nat /\ start \in Nat
  BY TableFacts DEF TaskInv
<1>1. ASSUME NEW task \in Times, CycleAdd(task) \/ CycleAddIfFree(task)
      PROVE  start' = start /\ \A r \in open : rows'[r] = rows[r]
  <2>1. /\ NextRow \in 0 .. Num /\ NextRow < MaxNum /\ (Num > 0 => ~OnWay(NextRow, start, added))
        /\ ring /\ Put(NextRow, task, NextRow)
    BY <1>0, <1>1, NextRowFacts DEF CycleAdd, CycleAddIfFree
  <2>2. NextRow \notin open
    BY <1>0, <2>1 DEF OpenInv
  <2>3. start' = start /\ \A i \in 0 .. Num' - 1 : rows'[i] = IF i = NextRow THEN task ELSE rows[i]
    BY <1>0, <2>1, PutFacts
  <2>4. Num' \in {Num, Num + 1}
    BY <1>0, <2>1, PutFacts
  <2>5. ASSUME NEW r \in open PROVE rows'[r] = rows[r]
    <3>1. r \in 0 .. Num - 1 /\ r # NextRow /\ Num \in Nat
      BY <1>0, <2>2
    <3>2. Num' \in Nat /\ Num <= Num'
      BY <2>4, <3>1
    <3>3. r \in 0 .. Num' - 1
      BY <3>1, <3>2, LongerRange
    <3> QED BY <2>3, <3>1, <3>3
  <2> QED BY <2>3, <2>5
<1>2. ASSUME NEW task \in Times, NEW k \in 0 .. MaxNum - 1, PlainWrite(k, task)
      PROVE  start' = start /\ \A r \in open : rows'[r] = rows[r]
  <2>1. k \in 0 .. Num /\ Put(k, task, added) /\ (k < Num => rows[k] = Free) /\ k < MaxNum
    BY <1>2 DEF PlainWrite
  <2>2. k \notin open
    BY <1>0, <2>1 DEF OpenInv
  <2>3. start' = start /\ \A i \in 0 .. Num' - 1 : rows'[i] = IF i = k THEN task ELSE rows[i]
    BY <1>0, <2>1, PutFacts
  <2>4. Num' \in {Num, Num + 1}
    BY <1>0, <2>1, PutFacts
  <2>5. ASSUME NEW r \in open PROVE rows'[r] = rows[r]
    <3>1. r \in 0 .. Num - 1 /\ r # k /\ Num \in Nat
      BY <1>0, <2>2
    <3>2. Num' \in Nat /\ Num <= Num'
      BY <2>4, <3>1
    <3>3. r \in 0 .. Num' - 1
      BY <3>1, <3>2, LongerRange
    <3> QED BY <2>3, <3>1, <3>3
  <2> QED BY <2>3, <2>5
<1>3. ASSUME PassFree, start' # start
      PROVE  start' \in Window(start, added) /\ Window(start, start') \cap open = {}
  <2>1. /\ ring /\ scan.free /\ start' = Here /\ Walking /\ rows[Here] = Free
    BY <1>3 DEF PassFree
  <2>2. /\ Here \in 0 .. Num - 1 /\ start \in 0 .. Num - 1 /\ added \in 0 .. Num - 1
        /\ OnWay(Here, start, added) /\ \A r \in open : OnWay(r, Here, added)
    BY <1>0, <2>1, WalkingFacts DEF ScanInv
  <2>3. ASSUME NEW r \in open, r \in Window(start, Here) PROVE FALSE
    <3>1. OnWay(r, start, Here) /\ OnWay(r, Here, added)
      BY <1>0, <2>2, <2>3, WindowIs
    <3>2. r = Here
      BY <1>0, <2>2, <3>1, OnWayOnce
    <3> QED BY <1>0, <2>1, <3>2 DEF OpenInv
  <2>4. start' \in Window(start, added)
    <3>1. \A i \in 0 .. Num - 1 :
             i \in Window(start, added) <=> OnWay(i, start, added)
      BY <1>0, <2>2, WindowIs
    <3> QED BY <2>1, <2>2, <3>1
  <2>5. Window(start, Here) \cap open = {}
    BY <2>3
  <2> QED BY <2>1, <2>4, <2>5
<1>4. PassFree => rows' = rows
  BY DEF PassFree
<1>5. ASSUME NEW task \in Times \cup {Free}, Run(task)
      PROVE  start' = start /\ \A r \in open : rows'[r] # rows[r] => scan # Idle /\ r = Here
  BY <1>0, <1>5 DEF Run, Walking
<1>6. BeginCycle \/ PassLater \/ Abort \/ EndWhole \/ Tick => start' = start /\ rows' = rows
  BY DEF BeginCycle, PassLater, Abort, EndWhole, Tick
<1>7. ~Crash
  <2>1. crashes \in Nat
    BY <1>0, TaskAssumption DEF TypeOK
  <2> QED BY <2>1 DEF Crash
<1> QED BY <1>1, <1>2, <1>3, <1>4, <1>5, <1>6, <1>7 DEF Next, CycleStep

(* No task is lost, left behind or overwritten. *)
THEOREM OpenKeptHolds == ASSUME ~Overrun PROVE Spec => OpenKept
BY OpenInPlace, OpenNotTouched, TaskInvariant, PTL DEF Spec, OpenKept
=============================================================================
