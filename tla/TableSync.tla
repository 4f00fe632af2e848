------------------------------ MODULE TableSync ------------------------------
(***************************************************************************)
(* Which rows of a table have changed since they were read: the field of   *)
(* AddInfo UPLOADFLAG_FIELD, a bitmap of the columns in every row that a   *)
(* write sets and a query of method QUERY_UPLOADFLAG clears, and           *)
(* REC_CHG_MARK, a bit for every BitStep rows that lets a query skip rows. *)
(* (WriteBufferToDB_OneNode, BuildBufferFromDB_AllNode, _OneNode,          *)
(* GetRecChgMarkObj.)                                                      *)
(*                                                                         *)
(* Rows are counted from 0, as in the code.                                *)
(***************************************************************************)
EXTENDS Integers, FiniteSets, FiniteSetsExt

CONSTANTS
    MaxRows,    \* bound: rows
    ByteBits,   \* bits of a byte
    DataLen,    \* bytes of REC_CHG_MARK behind its parameters
    MaxNum,     \* the rows it is for, from the parameter
    Pages,      \* [start, count] of the cursors
    MaxCrash,   \* bound: restarts
    Strict      \* who clears flags or marks reads all that has changed

BitStep == MaxNum \div (ByteBits * DataLen)
ByteStep == BitStep * ByteBits
NoPage == [start |-> 0, count |-> 0]

ASSUME SyncAssumption ==
    /\ MaxRows \in Nat /\ ByteBits \in Nat \ {0} /\ DataLen \in Nat \ {0}
    /\ MaxNum \in Nat /\ BitStep > 0
    /\ Pages \subseteq [start : Nat, count : Nat] \ {NoPage}
    /\ MaxCrash \in Nat /\ Strict \in BOOLEAN

Bits == 0 .. DataLen * ByteBits - 1

VARIABLES
    marked,     \* AddInfo has REC_CHG_MARK
    flags,      \* [0 .. Rows - 1 -> BOOLEAN]: UPLOADFLAG_FIELD is not 0
    marks,      \* the bits of REC_CHG_MARK
    changed,    \* its flag 0x80: a bit was set
    owed,       \* history: rows with a change no query has read
    disk,       \* flags, marks, changed as a restart loads them
    crashes

syncVars == <<marked, flags, marks, changed, owed, disk, crashes>>

(* The number of rows. *)
Rows == Cardinality(DOMAIN flags)
Flags == UNION {[0 .. n - 1 -> BOOLEAN] : n \in 0 .. MaxRows}

(* Bits are those of the data, rows those of the table. *)
SyncTypeOK ==
    /\ marked \in BOOLEAN /\ flags \in Flags
    /\ marks \subseteq Bits /\ changed \in BOOLEAN
    /\ owed \subseteq DOMAIN flags
    /\ disk \in [flags : Flags, marks : SUBSET Bits, changed : BOOLEAN]
    /\ crashes \in 0 .. MaxCrash

SyncInit ==
    /\ marked \in BOOLEAN
    /\ flags = [r \in {} |-> FALSE] /\ marks = {} /\ changed = FALSE /\ owed = {}
    /\ disk = [flags |-> flags, marks |-> {}, changed |-> FALSE]
    /\ crashes = 0

Saved == disk' = [flags |-> flags', marks |-> marks', changed |-> changed']

-----------------------------------------------------------------------------
(* Changes *)

(* The bit of a row.  For a row behind the last group (all those from      *)
(* MaxNum on, and some before it if DataLen does not divide MaxNum) the    *)
(* code sets one behind the data, whatever is there: such rows are not     *)
(* written here.                                                           *)
BitOf(r) == (r \div ByteStep) * ByteBits + (r % ByteStep) \div BitStep
HasBit(r) == marked => BitOf(r) \in Bits

(* WriteBufferToDB_OneNode: a row, or a new one, whose bitmap is all ones  *)
(* before it is ANDed with the columns written.                            *)
Write_NoFlag(r) ==
    /\ r <= Rows /\ r < MaxRows /\ HasBit(r)
    /\ flags' = [i \in DOMAIN flags \cup {r} |-> IF i \in DOMAIN flags THEN flags[i] ELSE TRUE]
    /\ marks' = IF marked THEN marks \cup {BitOf(r)} ELSE marks
    /\ changed' = (changed \/ marked)
    /\ owed' = owed \cup {r}
    /\ Saved
    /\ UNCHANGED <<marked, crashes>>
Write(r) ==
    /\ r <= Rows /\ r < MaxRows /\ HasBit(r)
    /\ flags' = [i \in DOMAIN flags \cup {r} |-> i = r \/ flags[i]]
    /\ marks' = IF marked THEN marks \cup {BitOf(r)} ELSE marks
    /\ changed' = (changed \/ marked)
    /\ owed' = owed \cup {r}
    /\ Saved
    /\ UNCHANGED <<marked, crashes>>

(* With UN_UPLOADFLAG, for what comes from the other side: no mark, but    *)
(* the bitmap of a new row is all ones.                                    *)
WriteQuietly ==
    /\ Rows < MaxRows /\ HasBit(Rows)
    /\ flags' = [i \in 0 .. Rows |-> i = Rows \/ flags[i]]
    /\ UNCHANGED <<marked, marks, changed, owed, crashes>>
    /\ Saved

(* ACTION_DELETE: the rows behind move down, the bits stay.  Tables with a *)
(* UINT index, which refuse it, can have marks.                            *)
Down(S, r) == {i \in S : i < r} \cup {i - 1 : i \in {j \in S : j > r}}
Delete(r) ==
    /\ r \in DOMAIN flags /\ (marked => ~Strict)
    /\ flags' = [i \in 0 .. Rows - 2 |-> flags[IF i < r THEN i ELSE i + 1]]
    /\ owed' = Down(owed, r)
    /\ UNCHANGED <<marked, marks, changed, crashes>>
    /\ Saved

-----------------------------------------------------------------------------
(* BuildBufferFromDB_AllNode *)

(* A query: only rows with a flag (@UPLOADFLAG), only rows with a mark     *)
(* (@REC_CHG_MARK), flags are cleared (QUERY_UPLOADFLAG), a page, the rows *)
(* that fulfil the conditions, the first the access mask forbids.          *)
Queries ==
    [onlyFlag : BOOLEAN, onlyMark : BOOLEAN, clear : BOOLEAN, page : Pages \cup {NoPage},
     rows : SUBSET DOMAIN flags,
     denied : {{}} \cup {{r} : r \in DOMAIN flags}]

(* The loop with its jumps: the rows looked at from n on, b rows of the    *)
(* group of a bit behind, when rest[m][c] are those from m on, c behind.   *)
(* A jump is over the rest of the group or byte.                           *)
EmptyByte(n) == \A i \in 0 .. ByteBits - 1 : (n \div ByteStep) * ByteBits + i \notin marks
LookFrom_JumpByte(rest, n, b, narrow) ==
    CASE n >= Rows -> {}
      [] n < Rows /\ (~narrow \/ n >= MaxNum) -> {n} \cup rest[n + 1][b]
      [] n < Rows /\ narrow /\ n < MaxNum /\ b \notin {0, BitStep} -> {n} \cup rest[n + 1][b + 1]
      [] n < Rows /\ narrow /\ n < MaxNum /\ b \in {0, BitStep} ->
            IF BitOf(n) \notin marks THEN rest[n + ByteStep][0]
            ELSE {n} \cup rest[n + 1][1]
LookFrom(rest, n, b, narrow) ==
    CASE n >= Rows -> {}
      [] n < Rows /\ (~narrow \/ n >= MaxNum) -> {n} \cup rest[n + 1][b]
      [] n < Rows /\ narrow /\ n < MaxNum /\ b \notin {0, BitStep} -> {n} \cup rest[n + 1][b + 1]
      [] n < Rows /\ narrow /\ n < MaxNum /\ b \in {0, BitStep} ->
            IF (n % ByteStep) = 0 /\ EmptyByte(n) THEN rest[n + ByteStep][0]
            ELSE IF BitOf(n) \notin marks THEN rest[n + BitStep][0]
            ELSE {n} \cup rest[n + 1][1]
Looked(narrow) ==
    LET look[n \in 0 .. MaxRows + ByteStep] ==
            [b \in 0 .. BitStep |-> LookFrom(look, n, b, narrow)]
    IN  look[0][0]

(* Rows that pass, up to the one the access mask forbids: there the query  *)
(* returns.                                                                *)
Passing(q) ==
    {r \in Looked(q.onlyMark /\ marked /\ changed) \cap q.rows : q.onlyFlag => flags[r]}
UpToDenied(q) ==
    LET rows == Passing(q) IN {r \in rows : \A s \in rows \cap q.denied : r < s}

(* Rows counted from 1: those of ranks first to last. *)
Ranked(rows, first, last) ==
    {r \in rows : Cardinality({s \in rows : s <= r}) \in first .. last}

(* The rows of the page; the loop ends at the first one behind it, which   *)
(* was counted, and cleared, like those before the page.                   *)
LastRank(q) == Max({1, q.page.start + q.page.count})
Reached(q) ==
    IF q.page = NoPage THEN UpToDenied(q) ELSE Ranked(UpToDenied(q), 1, LastRank(q))
Read(q) ==
    IF q.page = NoPage THEN UpToDenied(q)
    ELSE Ranked(UpToDenied(q), q.page.start, q.page.start + q.page.count - 1)

Forbidden(q) ==
    /\ Passing(q) \cap q.denied # {}
    /\ q.page # NoPage => Cardinality(UpToDenied(q)) < LastRank(q)

(* Who clears flags reads the rest, too: one page, no conditions but the   *)
(* flags, no access mask; who clears marks clears flags.                   *)
Sensible(q) ==
    /\ q.clear => q.page = NoPage /\ q.rows = DOMAIN flags /\ q.denied = {}
    /\ q.onlyMark => q.clear

Cleared(q) == IF q.clear THEN [r \in DOMAIN flags |-> flags[r] /\ r \notin Reached(q)] ELSE flags

Query(q) ==
    /\ Strict => Sensible(q)
    /\ ~Forbidden(q)
    /\ flags' = Cleared(q)
    /\ owed' = owed \ Read(q)
    /\ IF q.onlyMark /\ marked /\ marks # {}
       THEN marks' = {} /\ changed' = FALSE
       ELSE UNCHANGED <<marks, changed>>
    /\ IF q.clear /\ Reached(q) # {} THEN Saved ELSE UNCHANGED disk
    /\ UNCHANGED <<marked, crashes>>

(* The access mask forbids a row: an error, and nothing is taken back. *)
QueryForbidden(q) ==
    /\ Strict => Sensible(q)
    /\ Forbidden(q)
    /\ flags' = Cleared(q)
    /\ UNCHANGED <<marked, marks, changed, owed, disk, crashes>>

(* BuildBufferFromDB_OneNode *)
ReadOne(r, clear) ==
    /\ r \in DOMAIN flags
    /\ flags' = IF clear THEN [flags EXCEPT ![r] = FALSE] ELSE flags
    /\ owed' = owed \ {r}
    /\ UNCHANGED <<marked, marks, changed, crashes>>
    /\ IF clear /\ flags[r] THEN Saved ELSE UNCHANGED disk

(* The process dies and loads the table. *)
Crash ==
    /\ crashes < MaxCrash
    /\ crashes' = crashes + 1
    /\ flags' = disk.flags /\ marks' = disk.marks /\ changed' = disk.changed
    /\ UNCHANGED <<marked, owed, disk>>

SyncNext ==
    \/ \E r \in 0 .. MaxRows - 1 : Write(r) \/ Delete(r)
    \/ WriteQuietly
    \/ \E q \in Queries : Query(q) \/ QueryForbidden(q)
    \/ \E r \in DOMAIN flags, clear \in BOOLEAN : ReadOne(r, clear)
    \/ Crash

SyncSpec == SyncInit /\ [][SyncNext]_syncVars

-----------------------------------------------------------------------------
(* Properties *)

(* No change is forgotten: a row with a change no query has read has its   *)
(* flag, in memory and in what a restart loads.                            *)
Tracked ==
    /\ SyncTypeOK
    /\ \A r \in owed : flags[r] /\ r \in DOMAIN disk.flags /\ disk.flags[r]

(* A query for changes that skips rows by their marks reads every row that *)
(* has a change, the rows behind the last mark and a last byte that is not *)
(* full included; and no row that has neither a mark nor a place behind    *)
(* the marks.                                                              *)
MarksExact ==
    /\ owed \subseteq Looked(marked /\ changed)
    /\ marked /\ changed => \A r \in Looked(TRUE) : r < MaxNum => BitOf(r) \in marks
=============================================================================
