------------------------------ MODULE TableFile ------------------------------
(***************************************************************************)
(* One table of the database and the file it is saved in: the creation of  *)
(* the object (AvartarNewObj, LoadDB), SaveDB and SaveDBNode, COMMIT_ALL,  *)
(* and the FileQueue entry between them.                                   *)
(*                                                                         *)
(* A file is a sequence of cells: the head, which holds the number of      *)
(* rows, and the rows.  Every write that reaches the system is a step, so  *)
(* that the process may die between two of them; what the system has got   *)
(* stays.  (Nothing in the code waits for the disk, and the loss of what   *)
(* the system has got is not modelled.)  Lengths are counted in cells.     *)
(*                                                                         *)
(* A write may fail.  Nobody looks at the stream, which then refuses all   *)
(* later reads and writes until COMMIT_ALL opens the file again.  (Opening *)
(* a file that is there does not fail here.)                               *)
(***************************************************************************)
EXTENDS Integers, Sequences, SequencesExt

CONSTANTS
    Values,     \* what a row may hold
    Garbage,    \* what is in a row behind the end of what was written or read
    None,       \* no object, no file
    MaxRows     \* the rows that fit into the object's MaxLen

ASSUME TableAssumption ==
    /\ MaxRows \in Nat \ {0}
    /\ None \notin Seq(Values \cup {Garbage} \cup Nat)

Unopened == -1      \* no FileQueue entry

VARIABLES
    table,      \* the rows of the object, or None
    file,       \* the cells the system has, or None
    length,     \* what the FileQueue entry noted when the file was opened
    good,       \* the state of its stream
    pending,    \* the writes of the save that is going on
    saved,      \* history: the rows when the last save was completed
    goal,       \* history: the rows when the last save was begun
    whole,      \* history: that was a save of all rows
    lag,        \* history: how far the file is behind the saves
    mixed       \* history: single rows were saved to a file that is behind

history == <<saved, goal, whole, lag, mixed>>
vars == <<table, file, length, good, pending, history>>

Row == Values \cup {Garbage}
Rows == UNION {[1 .. n -> Row] : n \in 0 .. MaxRows}

(* Object, file and entry keep to their types: no more rows than fit, the  *)
(* head where the head belongs.                                            *)
TypeOK ==
    /\ table \in Rows \cup {None}
    /\ file \in {None, <<>>} \/ (file[1] \in 0 .. MaxRows /\ Tail(file) \in Rows)
    /\ length \in Unopened .. MaxRows + 1
    /\ saved \in Rows /\ goal \in Rows
    /\ {good, whole, mixed} \subseteq BOOLEAN
    /\ lag \in {"none", "failed", "reopened"}
    /\ pending # <<>> => length # Unopened /\ (good => table = goal)

-----------------------------------------------------------------------------
(* The file *)

Longer(m, n) == IF m > n THEN m ELSE n

(* A write behind the end leaves a hole. *)
Write(f, pos, val) ==
    [i \in 1 .. Longer(pos, Len(f)) |->
        IF i = pos THEN val ELSE IF i <= Len(f) THEN f[i] ELSE Garbage]

(* The writes of SaveDB and of SaveDBNode, in the order they reach the     *)
(* system: the seek to the row sends the head on its way.                  *)
HeadWrite(rows) == <<[pos |-> 1, val |-> Len(rows)]>>
RowWrites(rows) == [i \in DOMAIN rows |-> [pos |-> i + 1, val |-> rows[i]]]
SaveDB_HeadLast(rows) == HeadWrite(<<>>) \o RowWrites(rows) \o HeadWrite(rows)
SaveDB(rows) == HeadWrite(rows) \o RowWrites(rows)
SaveDBNode(rows, i) == HeadWrite(rows) \o <<[pos |-> i + 1, val |-> rows[i]]>>

(* A save is begun.  One that follows COMMIT_ALL puts its rows among those *)
(* of an older save, and the history of that is not followed.              *)
Save(rows, writes, all) ==
    /\ table' = rows /\ pending' = writes
    /\ goal' = IF good' THEN rows ELSE goal
    /\ whole' = all
    /\ mixed' = (mixed \/ lag' = "reopened")
    /\ saved' = IF mixed' THEN <<>> ELSE saved

(* The last write ends the save, which is reported as done in any case.  A *)
(* save of all rows makes up for those that were lost before COMMIT_ALL.   *)
WriteNext ==
    /\ pending # <<>>
    /\ file' = IF good THEN Write(file, pending[1].pos, pending[1].val) ELSE file
    /\ pending' = Tail(pending)
    /\ IF Len(pending) = 1 /\ lag # "failed"
       THEN /\ saved' = IF mixed /\ ~whole THEN <<>> ELSE goal
            /\ lag' = IF whole THEN "none" ELSE lag
            /\ mixed' = (mixed /\ ~whole)
       ELSE UNCHANGED <<saved, lag, mixed>>
    /\ whole' = (whole /\ Len(pending) > 1)
    /\ UNCHANGED <<table, length, good, goal>>

WriteFails ==
    /\ pending # <<>> /\ good
    /\ pending' = Tail(pending)
    /\ good' = FALSE
    /\ lag' = "failed" /\ whole' = FALSE
    /\ UNCHANGED <<table, file, length, saved, goal, mixed>>

Idle == pending = <<>>

(* COMMIT_ALL: the file is closed and opened again; the length that was    *)
(* noted stays.                                                            *)
Commit_Flush ==
    /\ Idle /\ length # Unopened
    /\ lag' = IF lag = "failed" THEN "reopened" ELSE lag
    /\ UNCHANGED <<table, file, length, good, pending, saved, goal, whole, mixed>>
Commit ==
    /\ Idle /\ length # Unopened
    /\ good' = TRUE
    /\ lag' = IF lag = "failed" THEN "reopened" ELSE lag
    /\ UNCHANGED <<table, file, length, pending, saved, goal, whole, mixed>>

-----------------------------------------------------------------------------
(* The creation of the object *)

(* What LoadDB takes for the length: what was noted, if the file is open.  *)
LoadedLength ==
    IF file = None THEN 0 ELSE IF length = Unopened THEN Len(file) ELSE length

(* READ_ALL, and what the object then has for its rows. *)
ReadFile(n) ==
    [i \in 1 .. file[1] |-> IF i + 1 <= n THEN file[i + 1] ELSE Garbage]

(* From a stream that has failed nothing is read: an object of zero bytes  *)
(* (BB_NULL), which is no table.                                           *)
LoadDB ==
    /\ Idle /\ table = None /\ LoadedLength # 0
    /\ length = Unopened \/ good
    /\ length' = LoadedLength /\ good' = TRUE
    /\ table' = ReadFile(LoadedLength)
    /\ saved' = table' /\ goal' = table'
    /\ lag' = "none" /\ mixed' = FALSE
    /\ UNCHANGED <<file, pending, whole>>

(* LoadDB fails: a new object is made and saved.  OPEN_MODE_TRUNC empties  *)
(* the file only if it is not open.                                        *)
NewDB ==
    /\ Idle /\ table = None /\ LoadedLength = 0
    /\ IF length = Unopened
       THEN file' = <<>> /\ good' = TRUE /\ lag' = "none"
       ELSE UNCHANGED <<file, good, lag>>
    /\ length' = 0
    /\ Save(<<>>, SaveDB(<<>>), TRUE)

-----------------------------------------------------------------------------
(* The operations on the object *)

Ready == Idle /\ table # None
stream == <<file, length, good, lag>>

(* BB_APPEND_ARRAY_REC, if there is room. *)
Append1(v) ==
    /\ Ready /\ Len(table) < MaxRows
    /\ UNCHANGED stream
    /\ LET rows == Append(table, v) IN Save(rows, SaveDBNode(rows, Len(rows)), FALSE)

Update(i, v) ==
    /\ Ready /\ i \in DOMAIN table
    /\ UNCHANGED stream
    /\ LET rows == [table EXCEPT ![i] = v] IN Save(rows, SaveDBNode(rows, i), FALSE)

UpdateAll(v) ==
    /\ Ready
    /\ UNCHANGED stream
    /\ LET rows == [i \in DOMAIN table |-> v] IN Save(rows, SaveDB(rows), TRUE)

(* BB_DELETE_ARRAY_REC moves the rows behind it down. *)
Delete(i) ==
    /\ Ready /\ i \in DOMAIN table
    /\ UNCHANGED stream
    /\ LET rows == RemoveAt(table, i) IN Save(rows, SaveDB(rows), TRUE)

(* ACTION_DELETE_OBJ_XML_CLUSTER: the object goes, file and entry stay. *)
DeleteObj ==
    /\ Ready
    /\ table' = None
    /\ UNCHANGED <<file, length, good, pending, history>>

(* The process dies and starts again. *)
Crash ==
    /\ length # Unopened
    /\ table' = None /\ length' = Unopened /\ pending' = <<>>
    /\ whole' = FALSE
    /\ UNCHANGED <<file, good, saved, goal, lag, mixed>>

-----------------------------------------------------------------------------
Init ==
    /\ table = None /\ file = None /\ length = Unopened
    /\ pending = <<>> /\ saved = <<>> /\ goal = <<>>
    /\ good = TRUE /\ whole = FALSE /\ lag = "none" /\ mixed = FALSE

Operation ==
    \/ \E v \in Values : Append1(v) \/ UpdateAll(v)
    \/ \E i \in 1 .. MaxRows : Delete(i) \/ \E v \in Values : Update(i, v)

Next ==
    WriteNext \/ WriteFails \/ Commit \/ LoadDB \/ NewDB \/ Operation \/ DeleteObj \/ Crash

Spec == Init /\ [][Next]_vars

-----------------------------------------------------------------------------
(* After a crash at any point of any save, the object that is loaded has   *)
(* the number of rows before or after the last save that reached the file, *)
(* and each row that both have is what it was before or after it, whatever *)
(* was lost since a write failed.  (A row the process had not been able to *)
(* read may be anything; and single rows saved after COMMIT_ALL, before    *)
(* all rows are saved, stand among old ones.)  A new process makes a new   *)
(* object in the place of none that had been saved with rows.              *)
Recovered ==
    [][length = Unopened /\ ~mixed =>
         /\ NewDB => saved = <<>>
         /\ LoadDB =>
              /\ Len(table') \in {Len(saved), Len(goal)}
              /\ \A i \in DOMAIN table' \cap DOMAIN saved \cap DOMAIN goal :
                   table'[i] \in {saved[i], goal[i]} \/ saved[i] = Garbage]_vars

(* Between two saves the file holds what the object holds, except for a    *)
(* row that a crash kept from being written -- unless a write has failed,  *)
(* and then again once COMMIT_ALL has opened the file anew and all rows    *)
(* were saved; neither has more rows than fit.                             *)
FileCurrent ==
    /\ TypeOK
    /\ Idle /\ table # None /\ lag = "none" =>
        /\ file # <<>> /\ file[1] = Len(table)
        /\ \A i \in DOMAIN table : table[i] # Garbage =>
             i + 1 \in DOMAIN file /\ file[i + 1] = table[i]
=============================================================================
