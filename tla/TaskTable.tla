------------------------------ MODULE TaskTable ------------------------------
(***************************************************************************)
(* A table of tasks: TASK_CYCLE_RUN walks over it and runs the script of   *)
(* every task that is due (AvartarDBManager::DoTaskTableCycleRun), and     *)
(* scripts put tasks into it with @CYCLE_ADD (ACTION_WRITE).               *)
(*                                                                         *)
(* A table whose AddInfo has TASK_START and CYCLE_ADD is a ring: tasks are *)
(* added behind CYCLE_ADD and a cycle goes from TASK_START to CYCLE_ADD.   *)
(* Any other is walked over as a whole.  A cycle takes a step for every    *)
(* row, so that the script of a due row may add tasks in the middle of it. *)
(* Neither field is the first of AddInfo (the first can be read, but not   *)
(* set).                                                                   *)
(***************************************************************************)
EXTENDS Integers, FiniteSets

CONSTANTS
    MaxNum,     \* BB_GET_TABLE_MAX_NUM_LEN: the rows that fit into MaxLen
    MaxTime,    \* bound: the clock stops here
    MaxCrash,   \* bound: restarts
    Overrun     \* scripts may add a task when the ring has no room left

ASSUME TaskAssumption ==
    MaxNum \in Nat \ {0} /\ MaxTime \in Nat /\ MaxCrash \in Nat /\ Overrun \in BOOLEAN

Free == -1          \* TASK_TABLE_FREE; any other task is the time it is due
Idle == [r |-> -1]  \* no cycle is going on

VARIABLES
    ring,       \* AddInfo has both TASK_START and CYCLE_ADD
    rows,       \* TaskField of every row, from 0
    start,      \* AddInfo TASK_START
    added,      \* AddInfo CYCLE_ADD
    now,        \* LW_GetTickCount
    scan,       \* the cycle that is going on, or Idle
    disk,       \* what a restart loads
    open,       \* history: rows of tasks that were added and are not done
    owed,       \* history: open rows that were due when the cycle began
    crashes

vars == <<ring, rows, start, added, now, scan, disk, open, owed, crashes>>
table == <<rows, start, added>>

Num == Cardinality(DOMAIN rows)
Times == 0 .. MaxTime
Rows == UNION {[0 .. n - 1 -> Times \cup {Free}] : n \in 0 .. MaxNum}
Cycle ==
    [r : 0 .. MaxNum, end : 0 .. MaxNum, num : 1 .. MaxNum, tick : Times,
     from : 0 .. MaxNum, free : BOOLEAN]

(* Pointers and rows keep within the table's MaxLen. *)
TypeOK ==
    /\ ring \in BOOLEAN /\ rows \in Rows /\ now \in Times
    /\ start \in 0 .. MaxNum - 1 /\ added \in 0 .. MaxNum - 1
    /\ scan \in Cycle \cup {Idle}
    /\ disk \in [rows : Rows, start : 0 .. MaxNum - 1, added : 0 .. MaxNum - 1]
    /\ open \subseteq DOMAIN rows /\ owed \subseteq open
    /\ crashes \in 0 .. MaxCrash

Init ==
    /\ ring \in BOOLEAN
    /\ rows = [r \in {} |-> Free] /\ start = 0 /\ added = 0
    /\ disk = [rows |-> rows, start |-> 0, added |-> 0]
    /\ now = 0 /\ scan = Idle /\ open = {} /\ owed = {} /\ crashes = 0

-----------------------------------------------------------------------------
(* Adding a task *)

(* The row @CYCLE_ADD writes: the next one, the first again behind the     *)
(* last that fits, a new one (Num) behind the last there is.               *)
NextRow ==
    LET next == IF Num = 0 THEN added ELSE added + 1
        back == IF next >= MaxNum THEN 0 ELSE next
    IN  IF back >= Num THEN Num ELSE back

(* WriteBufferToDB_OneNode: replace a row or append one. *)
WithRow(r, task) == [i \in DOMAIN rows \cup {r} |-> IF i = r THEN task ELSE rows[i]]

(* SaveDBNode: the head, with AddInfo, and the row. *)
Saved(r, last) ==
    [rows |-> [i \in DOMAIN rows' |->
                  IF i = r \/ i \notin DOMAIN disk.rows THEN rows'[i] ELSE disk.rows[i]],
     start |-> start, added |-> last]

Put(r, task, last) ==
    /\ rows' = WithRow(r, task)
    /\ added' = last
    /\ disk' = Saved(r, last)
    /\ open' = open \cup {r} /\ owed' = owed \ {r}
    /\ UNCHANGED <<ring, start, now, crashes>>

Due(r, tick) == rows[r] # Free /\ rows[r] <= tick

(* The row the loop of a cycle is at: a ring goes on at the top. *)
Here == IF ring /\ scan.r >= scan.num THEN 0 ELSE scan.r

Walking == scan # Idle /\ Here < scan.num

(* Only the script of a due row can add a task while a cycle is going on. *)
ScriptMayRun == scan = Idle \/ (Walking /\ Due(Here, scan.tick))

(* What the scripts must see to: a ring has room as long as the next row   *)
(* is not the one TASK_START points at.                                    *)
Room == Overrun \/ Num < MaxNum \/ NextRow # start

CycleAdd(task) ==
    /\ ring /\ ScriptMayRun /\ Room
    /\ Put(NextRow, task, NextRow)
    /\ UNCHANGED scan

(* With conditions (the row must be FREE) the row is read first, and to    *)
(* read row 0xffff... fails: a new row is never appended.                  *)
CycleAddIfFree(task) ==
    /\ ring /\ ScriptMayRun /\ Room
    /\ NextRow < Num /\ rows[NextRow] = Free
    /\ Put(NextRow, task, NextRow)
    /\ UNCHANGED scan

(* A table that is no ring: an append, or a write to a row that is FREE. *)
PlainWrite(r, task) ==
    /\ ~ring /\ ScriptMayRun
    /\ r \in 0 .. Num /\ r < MaxNum
    /\ r < Num => rows[r] = Free
    /\ Put(r, task, added)
    /\ UNCHANGED scan

-----------------------------------------------------------------------------
(* The cycle *)

BeginCycle ==
    /\ scan = Idle /\ Num # 0
    /\ scan' = [r |-> IF ring THEN start ELSE 0, end |-> IF ring THEN added ELSE Num,
                num |-> Num, tick |-> now, from |-> start, free |-> TRUE]
    /\ owed' = {r \in open : Due(r, now)}
    /\ UNCHANGED <<ring, rows, start, added, now, disk, open, crashes>>

(* "same: do this one, then end". *)
Onward_BeforeLast(free) ==
    scan' = IF scan.end \in {Here, Here + 1} THEN Idle
            ELSE [scan EXCEPT !.r = Here + 1, !.free = free]
Onward_EndFirst(free) ==
    scan' = IF scan.r = scan.end THEN Idle ELSE [scan EXCEPT !.r = Here + 1, !.free = free]
Onward(free) ==
    scan' = IF Here = scan.end THEN Idle ELSE [scan EXCEPT !.r = Here + 1, !.free = free]

(* A FREE row: TASK_START follows as long as there was no other. *)
PassFree_Any ==
    /\ Walking /\ rows[Here] = Free
    /\ start' = IF ring /\ Here # scan.from THEN Here ELSE start
    /\ Onward(scan.free)
    /\ UNCHANGED <<ring, rows, added, now, disk, open, owed, crashes>>
PassFree ==
    /\ Walking /\ rows[Here] = Free
    /\ start' = IF ring /\ scan.free /\ Here # scan.from THEN Here ELSE start
    /\ Onward(scan.free)
    /\ UNCHANGED <<ring, rows, added, now, disk, open, owed, crashes>>

PassLater ==
    /\ Walking /\ rows[Here] > scan.tick
    /\ Onward(FALSE)
    /\ UNCHANGED <<ring, rows, start, added, now, disk, open, owed, crashes>>

(* The script has run; @_RETURN is written to TaskField and not saved. *)
Run(task) ==
    /\ Walking /\ Due(Here, scan.tick)
    /\ rows' = [rows EXCEPT ![Here] = task]
    /\ open' = IF task = Free THEN open \ {Here} ELSE open \cup {Here}
    /\ owed' = owed \ {Here}
    /\ Onward(FALSE)
    /\ UNCHANGED <<ring, start, added, now, disk, crashes>>

(* No node for the task's state, no record, an @_RETURN of another length, *)
(* a failed write: the cycle is over, and the rows behind wait.            *)
Abort ==
    /\ Walking /\ Due(Here, scan.tick)
    /\ scan' = Idle /\ owed' = {}
    /\ UNCHANGED <<ring, rows, start, added, now, disk, open, crashes>>

(* The end of a table that is no ring. *)
EndWhole ==
    /\ scan # Idle /\ ~ring /\ Here >= scan.num
    /\ scan' = Idle
    /\ UNCHANGED <<ring, rows, start, added, now, disk, open, owed, crashes>>

CycleStep ==
    \/ PassFree \/ PassLater \/ EndWhole \/ Abort
    \/ \E task \in Times \cup {Free} : Run(task)

Tick ==
    /\ now < MaxTime
    /\ now' = now + 1
    /\ UNCHANGED <<ring, rows, start, added, scan, disk, open, owed, crashes>>

(* The process dies, starts again and loads the table. *)
Crash ==
    /\ crashes < MaxCrash
    /\ crashes' = crashes + 1
    /\ rows' = disk.rows /\ start' = disk.start /\ added' = disk.added
    /\ scan' = Idle /\ owed' = {}
    /\ UNCHANGED <<ring, now, disk, open>>

Next ==
    \/ \E task \in Times :
        \/ CycleAdd(task)
        \/ CycleAddIfFree(task)
        \/ \E r \in 0 .. MaxNum - 1 : PlainWrite(r, task)
    \/ BeginCycle
    \/ CycleStep
    \/ Tick
    \/ Crash

(* A cycle is one call: it goes on until it returns. *)
Fairness == WF_vars(CycleStep)

Spec == Init /\ [][Next]_vars
FairSpec == Spec /\ Fairness

-----------------------------------------------------------------------------
(* Properties *)

(* The rows a cycle of a ring visits. *)
Window(first, last) ==
    IF first <= last THEN first .. last ELSE (first .. Num - 1) \cup 0 .. last

(* No task is lost: every task that is not done is in a row that is not    *)
(* FREE, between the two pointers of a ring, so that cycles come by -- and *)
(* the same is true of what a restart would load.  Nor is it left behind   *)
(* by TASK_START, which moves over FREE rows only, or overwritten by       *)
(* another one: its row changes when its own script has run.               *)
OpenKept ==
    /\ [](/\ TypeOK
          /\ \A r \in open :
               /\ rows[r] # Free /\ r \in DOMAIN disk.rows /\ disk.rows[r] # Free
               /\ ring => r \in Window(start, added) \cap Window(disk.start, disk.added))
    /\ [][crashes' = crashes =>
          /\ start' # start =>
               start' \in Window(start, added) /\ Window(start, start') \cap open = {}
          /\ \A r \in open : rows'[r] # rows[r] => scan # Idle /\ r = Here]_vars

(* A cycle that was not broken off has run every task that was due when it *)
(* began: none is passed over because rows were added meanwhile or because *)
(* the ring wraps.                                                         *)
DueServed == scan = Idle => owed = {}

(* Every cycle comes to its end: CYCLE_ADD is a row of the table. *)
CycleEnds == scan # Idle ~> scan = Idle
==============================================================================
