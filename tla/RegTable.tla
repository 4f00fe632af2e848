------------------------------- MODULE RegTable -------------------------------
(***************************************************************************)
(* The table of registered tasks (AvartarDBManager, DoRegTableTask_...):   *)
(* a main task and its sons are consecutive rows.  DO_REG_TABLE_MAIN, from *)
(* a timer, goes round the main tasks and runs those that are due row by   *)
(* row; at a row for the cloud it returns with a message, and when the     *)
(* answer comes DO_REG_TABLE_CALLBACK goes on behind that row.  The        *)
(* message holds the number of the row and nothing else.                   *)
(*                                                                         *)
(* The two calls never run at the same time; a step is a row.  Rows are    *)
(* neither added nor deleted.                                              *)
(***************************************************************************)
EXTENDS Integers

CONSTANTS
    Num,        \* rows of the table
    MainOf,     \* [Row -> Row]: the row with the task id & MASK_PARENT_TASK_ID
    Cloud,      \* rows of ACTION_TYPE_CLOUD; the others are LOCAL
    Block,      \* rows with RESULT_BLOCK
    MayFail,    \* rows whose action may fail
    Switched,   \* rows scripts switch on and off
    Punctual    \* no task is due again before its round trip has ended

Row == 0 .. Num - 1

ASSUME RegAssumption ==
    /\ Num \in Nat \ {0} /\ Punctual \in BOOLEAN
    /\ MainOf \in [Row -> Row]
    /\ \A r \in Row : MainOf[r] <= r /\ MainOf[MainOf[r]] = MainOf[r]
    /\ \A r, s \in Row : r <= s => MainOf[r] <= MainOf[s]

Mains == {r \in Row : MainOf[r] = r}
Group(r) == {s \in Row : MainOf[s] = MainOf[r]}

Idle == [by |-> "nobody", son |-> FALSE, row |-> 0, at |-> 0]
Calls == [by : {"main", "answer"}, son : BOOLEAN, row : Row, at : 0 .. Num]

VARIABLES
    status,     \* ACTION_STATE_ON, OFF or HOLD of every row
    due,        \* CheckTaskRouting of a main task
    cursor,     \* DoRegTable_Rec
    call,       \* the call that is going on, or Idle
    flight,     \* messages on their way to the cloud and back, by row
    passed      \* history: the rows the run of a main task has behind it

vars == <<status, due, cursor, call, flight, passed>>

(* Status, cursor and messages are those of rows of the table. *)
TypeOK ==
    /\ status \in [Row -> {"ON", "OFF", "HOLD"}]
    /\ due \in [Mains -> BOOLEAN]
    /\ cursor \in 0 .. Num
    /\ call \in Calls \cup {Idle}
    /\ call = Idle => cursor < Num
    /\ flight \in [Row -> 0 .. 2] /\ \A r \in Row \ Cloud : flight[r] = 0
    /\ passed \subseteq Row
    /\ \A r \in Row \ Mains : status[r] # "HOLD"

Init ==
    /\ status \in [Row -> {"ON"}]
    /\ due = [m \in Mains |-> TRUE]
    /\ cursor = 0 /\ call = Idle
    /\ flight = [r \in Row |-> 0] /\ passed = {}

-----------------------------------------------------------------------------
(* SkipSonTask: the first row of the next group. *)
SkipSonTask(r) ==
    CHOOSE n \in r + 1 .. Num :
        (n < Num => MainOf[n] # MainOf[r]) /\ \A s \in r .. n - 1 : MainOf[s] = MainOf[r]

Wrap(r) == IF r = Num THEN 0 ELSE r

(* DO_REG_TABLE_MAIN walks with DoRegTable_Rec itself, the call back with  *)
(* a variable of its own.                                                  *)
At == IF call.by = "main" THEN cursor ELSE call.at
Onward ==
    IF call.by = "main" THEN cursor' = cursor + 1 /\ UNCHANGED call
    ELSE call' = [call EXCEPT !.at = @ + 1] /\ UNCHANGED cursor

-----------------------------------------------------------------------------
(* DoRegTableTask_Main *)

BeginMain ==
    /\ call = Idle
    /\ call' = [by |-> "main", son |-> FALSE, row |-> 0, at |-> 0]
    /\ UNCHANGED <<status, due, cursor, flight, passed>>

InMain == call.by = "main" /\ ~call.son

Runnable_OnOnly(r) == r \in Mains /\ status[r] = "ON" /\ due[r]
Runnable(r) == r \in Mains /\ status[r] \in {"ON", "HOLD"} /\ due[r]

SkipTask ==
    /\ InMain /\ cursor < Num /\ ~Runnable(cursor)
    /\ cursor' = SkipSonTask(cursor)
    /\ UNCHANGED <<status, due, call, flight, passed>>

RunTask ==
    /\ InMain /\ cursor < Num /\ Runnable(cursor)
    /\ status' = [status EXCEPT ![MainOf[cursor]] = "HOLD"]
    /\ due' = [due EXCEPT ![MainOf[cursor]] = FALSE]
    /\ call' = [call EXCEPT !.son = TRUE, !.row = cursor]
    /\ passed' = passed \ Group(cursor)
    /\ UNCHANGED <<cursor, flight>>

EndMain ==
    /\ InMain /\ cursor = Num
    /\ cursor' = Wrap(cursor)
    /\ call' = Idle
    /\ UNCHANGED <<status, due, flight, passed>>

-----------------------------------------------------------------------------
(* DoRegTableTask_Son, of the main task or of a call back *)

InGroup == call.son /\ At < Num /\ MainOf[At] = MainOf[call.row]
Active == InGroup /\ status[At] # "OFF"

SkipSon ==
    /\ InGroup /\ status[At] = "OFF"
    /\ passed' = passed \cup {At}
    /\ Onward
    /\ UNCHANGED <<status, due, flight>>

DoLocal ==
    /\ Active /\ At \notin Cloud
    /\ passed' = passed \cup {At}
    /\ Onward
    /\ UNCHANGED <<status, due, flight>>

DoCloud_Unlocks ==
    /\ Active /\ At \in Cloud /\ flight[At] < 2
    /\ flight' = [flight EXCEPT ![At] = @ + 1]
    /\ status' = [status EXCEPT ![MainOf[At]] = "ON"]
    /\ cursor' = IF call.by = "main" THEN Wrap(SkipSonTask(call.row)) ELSE cursor
    /\ call' = Idle
    /\ UNCHANGED <<due, passed>>

(* The message leaves; DO_REG_TABLE_MAIN goes to the next group. *)
DoCloud ==
    /\ Active /\ At \in Cloud /\ flight[At] < 2
    /\ flight' = [flight EXCEPT ![At] = @ + 1]
    /\ cursor' = IF call.by = "main" THEN Wrap(SkipSonTask(call.row)) ELSE cursor
    /\ call' = Idle
    /\ UNCHANGED <<status, due, passed>>

(* An error, or no connection for a message.  "unlock first": Main unlocks *)
(* the main task, CallBack the row that was answered.                      *)
Fail ==
    /\ Active /\ At \in MayFail
    /\ status' = [status EXCEPT ![call.row] = "ON"]
    /\ call' = Idle
    /\ UNCHANGED <<due, cursor, flight, passed>>

(* The group is at its end: the main task is unlocked. *)
EndGroup ==
    /\ call.son /\ ~InGroup
    /\ status' = [status EXCEPT ![MainOf[call.row]] = "ON"]
    /\ call' = IF call.by = "main" THEN [call EXCEPT !.son = FALSE] ELSE Idle
    /\ UNCHANGED <<due, cursor, flight, passed>>

-----------------------------------------------------------------------------
(* DoRegTableTask_CallBack *)

Arrived(r) ==
    /\ call = Idle /\ flight[r] > 0
    /\ flight' = [flight EXCEPT ![r] = @ - 1]

GoOn_OneMore(r) ==
    [by |-> "answer", son |-> TRUE, row |-> r, at |-> IF r + 2 < Num THEN r + 2 ELSE r + 1]
GoOn(r) == [by |-> "answer", son |-> TRUE, row |-> r, at |-> r + 1]

Answer(r) ==
    /\ Arrived(r)
    /\ call' = GoOn(r)
    /\ passed' = passed \cup {r}
    /\ UNCHANGED <<status, due, cursor>>

(* An empty result of a row with RESULT_BLOCK: the sons do not run. *)
EmptyAnswer(r) ==
    /\ Arrived(r) /\ r \in Block
    /\ status' = [status EXCEPT ![MainOf[r]] = "ON"]
    /\ UNCHANGED <<due, cursor, call, passed>>

(* The cloud reports an error, or message or answer is lost: the main task *)
(* stays on HOLD.                                                          *)
NoAnswer(r) ==
    /\ Arrived(r)
    /\ UNCHANGED <<status, due, cursor, call, passed>>

-----------------------------------------------------------------------------
(* The time of a main task's next run comes.  If Punctual, calls come more *)
(* often and answers faster than that.                                     *)
Elapse(m) ==
    /\ ~due[m]
    /\ Punctual => /\ cursor # m /\ (call # Idle => MainOf[call.row] # m)
                   /\ \A r \in Group(m) : flight[r] = 0
    /\ due' = [due EXCEPT ![m] = TRUE]
    /\ UNCHANGED <<status, cursor, call, flight, passed>>

Switch(r) ==
    /\ call = Idle /\ r \in Switched
    /\ status' = [status EXCEPT ![r] = IF @ = "OFF" THEN "ON" ELSE "OFF"]
    /\ UNCHANGED <<due, cursor, call, flight, passed>>

CallStep ==
    SkipTask \/ RunTask \/ EndMain \/ SkipSon \/ DoLocal \/ DoCloud \/ Fail \/ EndGroup

Next ==
    \/ BeginMain
    \/ CallStep
    \/ \E r \in Row : Answer(r) \/ EmptyAnswer(r) \/ NoAnswer(r) \/ Switch(r)
    \/ \E m \in Mains : Elapse(m)

(* The timer goes on calling, a call goes on until it returns. *)
Fairness == WF_vars(CallStep) /\ WF_vars(BeginMain)

Spec == Init /\ [][Next]_vars
FairSpec == Spec /\ Fairness

-----------------------------------------------------------------------------
(* Properties *)

(* Sons run in the order of the table: when a row is reached, every row of *)
(* its group before it has been run or skipped in the same run of the main *)
(* task, and answered if it is one for the cloud.                          *)
InOrder ==
    /\ TypeOK
    /\ call # Idle /\ call.son => {s \in Group(call.row) : s < At} \subseteq passed

(* A main task has one round trip under way at most, and its lock is       *)
(* released by the end of the run or by an error only, not while the       *)
(* answer of a row is waited for.                                          *)
OneTrip ==
    /\ [](\A m \in Mains : \A r, s \in Group(m) :
            flight[r] > 0 /\ flight[s] > 0 => r = s /\ flight[r] = 1)
    /\ [][\A m \in Mains : status[m] = "HOLD" /\ status'[m] = "ON" =>
            /\ \A r \in Group(m) : flight'[r] = 0
            /\ call = Idle \/ MainOf[call.row] = m]_vars

(* Every main task that is due gets its turn, whatever answers are lost    *)
(* and whatever other tasks wait for: a task that stays on HOLD is run     *)
(* again.                                                                  *)
Rotates == \A m \in Mains : due[m] ~> ~due[m] \/ status[m] = "OFF"
==============================================================================
