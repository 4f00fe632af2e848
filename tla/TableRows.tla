------------------------------ MODULE TableRows ------------------------------
(***************************************************************************)
(* The rows of a table with an index array: ACTION_WRITE with a given id   *)
(* or with 0xff... for a new one, ACTION_DELETE, the sort index            *)
(* (AvartarSortObj), what is saved after each, and a restart.              *)
(*                                                                         *)
(* Rows and ids are two arrays that are kept side by side; the position is *)
(* all that ties a row to its id, and the sort index knows rows by their   *)
(* position.  A row is written field by field, first the id field of the   *)
(* row (AddInfo INDEX_FIELD) then is set, then the sort index and          *)
(* INDEX_MAX_NUM.  A step that fails returns and takes nothing back.  The  *)
(* index has room for as many ids as the table for rows.                   *)
(***************************************************************************)
EXTENDS Integers, Sequences, FiniteSets, SequencesExt, FiniteSetsExt

CONSTANTS
    MaxId,      \* the id of ff bytes
    MaxRows,    \* the rows that fit into MaxLen
    Values,     \* of the field that is sorted
    Blank,      \* a field that was not written yet
    Base,       \* 2^w for the ids of w bits in a batch of ACTION_DELETE
    TwoIds,     \* bound: the ids in a message of two rows
    MaxCrash,   \* bound: restarts
    AnyId,      \* rows are written with ids that were never given out
    Careless    \* sorted tables: rows are deleted, sorted fields changed

ASSUME RowsAssumption ==
    /\ MaxId \in Nat \ {0} /\ MaxRows \in Nat \ {0} /\ Base \in Nat /\ MaxId < Base
    /\ MaxCrash \in Nat /\ Blank \notin Values /\ {AnyId, Careless} \subseteq BOOLEAN

Ids == 1 .. MaxId
New == 0            \* an id of ff bytes: the table finds one
None == 0           \* no position

VARIABLES
    hasMax,     \* AddInfo has INDEX_MAX_NUM (not as its first field)
    sorted,     \* AddInfo has SORT_FIELDS
    table,      \* rows, index (their ids), max (INDEX_MAX_NUM)
    sort,       \* byValue (value -> position), byNum (position -> value)
    disk,       \* rows, index, max as a restart loads them
    torn,       \* history: ids of rows whose last write failed half way
    lost,       \* history: the same for disk
    unsaved,    \* history: ids of rows changed by an action that failed
    given,      \* history: ids given out with INDEX_MAX_NUM
    crashes

vars == <<hasMax, sorted, table, sort, disk, torn, lost, unsaved, given, crashes>>

Row == [id : Ids \cup {Blank}, val : Values \cup {Blank}]
Hole == [id |-> Blank, val |-> Blank]

(* Not more rows than fit, ids that fit the index, positions of rows.      *)
TypeOK ==
    /\ hasMax \in BOOLEAN /\ sorted \in BOOLEAN
    /\ \A t \in {table, disk} :
        /\ Len(t.rows) <= MaxRows /\ \A i \in DOMAIN t.rows : t.rows[i] \in Row
        /\ Len(t.index) <= MaxRows /\ \A i \in DOMAIN t.index : t.index[i] \in Ids
        /\ t.max \in 0 .. MaxId
    /\ DOMAIN sort.byValue \subseteq Values \cup {Blank}
    /\ \A v \in DOMAIN sort.byValue : sort.byValue[v] \in 1 .. MaxRows
    /\ DOMAIN sort.byNum \subseteq 1 .. MaxRows
    /\ \A s \in {torn, lost, unsaved, given} : s \subseteq Ids
    /\ crashes \in 0 .. MaxCrash

NoTable == [rows |-> <<>>, index |-> <<>>, max |-> 0]
NoSort == [byValue |-> [v \in {} |-> None], byNum |-> [i \in {} |-> Blank]]

Init ==
    /\ hasMax \in BOOLEAN /\ sorted \in BOOLEAN
    /\ table = NoTable /\ sort = NoSort /\ disk = NoTable
    /\ torn = {} /\ lost = {} /\ unsaved = {} /\ given = {} /\ crashes = 0

-----------------------------------------------------------------------------
(* AvartarSortObj *)

(* InsertItem: map::insert keeps what is there. *)
Added(f, x, y) == [z \in DOMAIN f \cup {x} |-> IF z \in DOMAIN f THEN f[z] ELSE y]
InsertItem(s, v, i) == [byValue |-> Added(s.byValue, v, i), byNum |-> Added(s.byNum, i, v)]

Without(f, x) == [z \in DOMAIN f \ {x} |-> f[z]]
DeleteItem(s, i) ==
    IF i \in DOMAIN s.byNum
    THEN [byValue |-> Without(s.byValue, s.byNum[i]), byNum |-> Without(s.byNum, i)]
    ELSE s

SeekItem(s, v) == IF v \in DOMAIN s.byValue THEN s.byValue[v] ELSE None

(* AvartarNewObj_SortObjFieldInit, when the table is loaded: every row is  *)
(* inserted, and the first with a value stays.                             *)
SortObjFieldInit_Not(rows) == NoSort
SortObjFieldInit(rows) ==
    [byValue |-> [v \in {rows[i].val : i \in DOMAIN rows} |->
                     Min({i \in DOMAIN rows : rows[i].val = v})],
     byNum |-> [i \in DOMAIN rows |-> rows[i].val]]

-----------------------------------------------------------------------------
(* WriteBufferToDB_OneNode *)

(* The number of a row: BB_GET_ARRAY_NUM_BY_INDEX. *)
Num(t, id) == SelectInSeq(t.index, LAMBDA x : x = id)

(* INDEX_MAX_NUM if it is there and not below 2, else the greatest id. *)
LastId(t) == IF hasMax /\ t.max >= 2 THEN t.max ELSE Max(ToSet(t.index) \cup {0})

IdOf_Last(t, id) == IF id = New THEN Max({LastId(t), 1}) ELSE id
IdOf(t, id) == IF id = New THEN LastId(t) + 1 ELSE id

(* The index is full, the table is full: nothing has happened yet. *)
Refused(t, w) ==
    \/ w.id = New /\ LastId(t) = MaxId
    \/ Num(t, IdOf(t, w.id)) = None /\ Len(t.rows) = MaxRows

(* The row is there, or is appended and then its id. *)
Found(t, id) ==
    IF Num(t, id) # None THEN t
    ELSE [t EXCEPT !.rows = Append(@, Hole), !.index = Append(@, id)]

(* BB_WRITE_TABLE_BY_NUM fails at a field before the sorted one, or not.   *)
WithFields(t, id, w) ==
    IF w.ok THEN [t EXCEPT !.rows[Num(t, id)] = [id |-> id, val |-> w.val]] ELSE t

WithMax_Never(t, id, w) == t
WithMax(t, id, w) == IF hasMax /\ w.id = New /\ w.ok THEN [t EXCEPT !.max = id] ELSE t

Written(t, w) ==
    LET id == IdOf(t, w.id) IN WithMax(WithFields(Found(t, id), id, w), id, w)

SortWritten(s, t, w) ==
    IF sorted /\ w.ok THEN InsertItem(s, w.val, Num(Written(t, w), IdOf(t, w.id))) ELSE s

(* What scripts write: ids that were given out, and the sorted field of a  *)
(* row once.                                                               *)
Sensible(t, w) ==
    /\ AnyId \/ ~hasMax \/ w.id <= t.max
    /\ LET i == Num(t, IdOf(t, w.id))
       IN  sorted /\ ~Careless /\ i # None => t.rows[i].val \in {Blank, w.val}

Writes == [id : {New} \cup 1 .. MaxId - 1, val : Values, ok : BOOLEAN]

-----------------------------------------------------------------------------
(* Saving *)

(* SaveDBNode: the head, with AddInfo and index, and one row; rows that    *)
(* were never written to the file are a hole.                              *)
SaveDBNode_RowOnly(t, i) ==
    [disk EXCEPT !.rows = [j \in DOMAIN @ |-> IF j = i THEN t.rows[i] ELSE @[j]]]
SaveDBNode(t, i) ==
    [t EXCEPT !.rows = [j \in DOMAIN t.rows |->
        IF j = i THEN t.rows[j] ELSE IF j <= Len(disk.rows) THEN disk.rows[j] ELSE Hole]]

Holes(t) == {t.index[j] : j \in {k \in DOMAIN t.rows : k > Len(disk.rows)}}

(* SaveDB *)
SaveAll == /\ disk' = table' /\ lost' = torn' /\ unsaved' = {}

-----------------------------------------------------------------------------
(* ACTION_WRITE *)

Tear(ids, id, w) == IF w.ok THEN ids \ {id} ELSE ids \cup {id}
GivenOut(t, w) == IF hasMax /\ w.id = New THEN {IdOf(t, New)} ELSE {}

(* One row: saved if the write has been successful. *)
WriteOne(w) ==
    LET id == IdOf(table, w.id) IN
    /\ Sensible(table, w) /\ ~Refused(table, w)
    /\ table' = Written(table, w)
    /\ sort' = SortWritten(sort, table, w)
    /\ torn' = Tear(torn, id, w)
    /\ IF w.ok
       THEN /\ disk' = SaveDBNode(table', Num(table', id))
            /\ lost' = (lost \cup Holes(table')) \ {id}
            /\ unsaved' = unsaved \ {id}
            /\ given' = given \cup GivenOut(table, w)
       ELSE /\ unsaved' = unsaved \cup {id}
            /\ UNCHANGED <<disk, lost, given>>
    /\ UNCHANGED <<hasMax, sorted, crashes>>

(* Two rows in one message: the table is saved when both are written; the  *)
(* error of the second is all that the client hears of.                    *)
WriteTwo(v, w) ==
    LET first == Written(table, v)
        id == IdOf(table, v.id)
        next == IdOf(first, w.id)
    IN
    /\ v.ok /\ Sensible(table, v) /\ ~Refused(table, v)
    /\ Sensible(first, w)
    /\ UNCHANGED <<hasMax, sorted, crashes>>
    /\ \/ /\ Refused(first, w)
          /\ table' = first /\ sort' = SortWritten(sort, table, v)
          /\ torn' = torn \ {id} /\ unsaved' = unsaved \cup {id}
          /\ UNCHANGED <<disk, lost, given>>
       \/ /\ ~Refused(first, w)
          /\ table' = Written(first, w)
          /\ sort' = SortWritten(SortWritten(sort, table, v), first, w)
          /\ torn' = Tear(torn \ {id}, next, w)
          /\ IF w.ok
             THEN /\ SaveAll
                  /\ given' = given \cup GivenOut(table, v) \cup GivenOut(first, w)
             ELSE /\ unsaved' = unsaved \cup {id, next}
                  /\ UNCHANGED <<disk, lost, given>>

-----------------------------------------------------------------------------
(* ACTION_DELETE *)

(* DeleteFromDB_OneNode: the id, the row, the entry of the sort index. *)
Deleted_RowOnly(t, id) == [t EXCEPT !.rows = RemoveAt(@, Num(t, id))]
Deleted(t, id) ==
    [t EXCEPT !.rows = RemoveAt(@, Num(t, id)), !.index = RemoveAt(@, Num(t, id))]

DeleteOneNode(id) ==
    /\ ~sorted \/ Careless
    /\ table' = IF Num(table, id) = None THEN table ELSE Deleted(table, id)
    /\ sort' = IF Num(table, id) = None \/ ~sorted THEN sort ELSE DeleteItem(sort, Num(table, id))
    /\ torn' = torn \ {id}
    /\ SaveAll
    /\ UNCHANGED <<hasMax, sorted, given, crashes>>

(* An id that is not there is an error. *)
Delete(id) == Num(table, id) # None /\ DeleteOneNode(id)

(* A batch: every turn of the loop takes the bytes of the whole array for  *)
(* the id, _scanUINT those of the first two; that there is no such id is   *)
(* not seen as an error.                                                   *)
IdOfBatch(ids) == IF Len(ids) = 1 THEN ids[1] ELSE ids[1] * Base + ids[2]

DeleteBatch(ids) == DeleteOneNode(IdOfBatch(ids))

-----------------------------------------------------------------------------
(* The process dies and loads the table. *)
Crash ==
    /\ crashes < MaxCrash
    /\ crashes' = crashes + 1
    /\ table' = disk /\ torn' = lost
    /\ sort' = IF sorted THEN SortObjFieldInit(disk.rows) ELSE NoSort
    /\ unsaved' = {}
    /\ UNCHANGED <<hasMax, sorted, disk, lost, given>>

Batches == UNION {[1 .. n -> Ids] : n \in 1 .. 2}

Next ==
    \/ \E w \in Writes : WriteOne(w)
    \/ \E v, w \in {x \in Writes : x.id \in TwoIds} : WriteTwo(v, w)
    \/ \E id \in Ids : Delete(id)
    \/ \E ids \in Batches : DeleteBatch(ids)
    \/ Crash

Spec == Init /\ [][Next]_vars

-----------------------------------------------------------------------------
(* Properties *)

(* Rows and ids stay side by side, in memory and in what a restart loads,  *)
(* whatever write has failed: as many ids as rows, no id twice, and a row  *)
(* that was written whole has the id it is found by in its id field.       *)
RowsIndexed ==
    /\ TypeOK
    /\ \A s \in {[t |-> table, torn |-> torn], [t |-> disk, torn |-> lost]} :
        /\ Len(s.t.index) = Len(s.t.rows) /\ IsInjective(s.t.index)
        /\ \A i \in DOMAIN s.t.rows :
            s.t.rows[i].id = s.t.index[i] \/ s.t.index[i] \in s.torn

(* A search by a sorted field finds a row that has the value, and finds    *)
(* one if there is one that was written whole.                             *)
SortSeeks ==
    sorted => \A v \in Values :
        LET n == SeekItem(sort, v) IN
        /\ n # None => n \in DOMAIN table.rows /\ table.rows[n].val = v
        /\ n = None => \A i \in DOMAIN table.rows :
            table.rows[i].val = v => table.index[i] \in torn

(* What a restart loads is what is in memory, but for the rows an action   *)
(* has changed that returned with an error.                                *)
Saved ==
    \A i \in DOMAIN table.rows :
        table.index[i] \notin unsaved =>
            /\ i \in DOMAIN disk.rows
            /\ disk.rows[i] = table.rows[i] /\ disk.index[i] = table.index[i]

(* With INDEX_MAX_NUM an id is given out once, deletions, failed writes    *)
(* and restarts in between -- but for id 1: below 2 the number is not used.*)
NeverReused ==
    [][hasMax /\ IdOf(table, New) \in given \ {1} =>
        \A v \in Values : ~WriteOne([id |-> New, val |-> v, ok |-> TRUE])]_vars

(* No row is changed in the place of another one: a new row is never       *)
(* written over a row that was written whole, and a batch deletes no row   *)
(* it does not name.                                                       *)
OthersKept ==
    [][/\ (\E i \in DOMAIN table.rows \cap DOMAIN table'.rows :
              table'.rows[i] # table.rows[i] /\ table.index[i] \notin torn) =>
          \A w \in {x \in Writes : x.id = New} : ~WriteOne(w)
       /\ \A ids \in Batches :
            table'.index # table.index /\ DeleteBatch(ids) =>
              ToSet(table.index) \ ToSet(table'.index) \subseteq ToSet(ids)]_vars
==============================================================================
