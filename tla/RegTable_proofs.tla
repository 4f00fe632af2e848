---------------------------- MODULE RegTable_proofs ----------------------------
(***************************************************************************)
(* What RegTable promises for a table of any size, any grouping into main  *)
(* tasks and sons, and any answers, as long as no task is due again before *)
(* its round trip has ended (Punctual).                                    *)
(*                                                                         *)
(* All of it rests on one fact: a round trip is in one place.  It is in    *)
(* the call that runs the sons, or in one message, or the main task is due *)
(* and there is none.                                                      *)
(***************************************************************************)
EXTENDS RegTable, TLAPS, WellFoundedInduction

(* A main task that is due has no round trip. *)
DueInv ==
    \A m \in Mains : due[m] =>
        /\ \A r \in Row : MainOf[r] = m => flight[r] = 0
        /\ call.son => MainOf[call.row] # m

(* One message is under way for a group at most, ... *)
TripInv ==
    \A r, s \in Row :
        MainOf[r] = MainOf[s] /\ flight[r] > 0 /\ flight[s] > 0 => r = s /\ flight[r] = 1

(* ... and none while a call runs the sons of the group. *)
RunInv == call.son => \A r \in Row : MainOf[r] = MainOf[call.row] => flight[r] = 0

(* The rows before the one that is reached, or that the cloud works on,    *)
(* are passed.                                                             *)
OrderInv ==
    call.son => \A s \in Row : MainOf[s] = MainOf[call.row] /\ s < At => s \in passed
FlightInv ==
    \A r, s \in Row : flight[r] > 0 /\ MainOf[s] = MainOf[r] /\ s < r => s \in passed

(* An answer comes between two calls of DO_REG_TABLE_MAIN, whose cursor is *)
(* then at a row.                                                          *)
CursorInv == call.by = "answer" => cursor < Num /\ call.son

RegInv == TypeOK /\ DueInv /\ TripInv /\ RunInv /\ OrderInv /\ FlightInv /\ CursorInv

-----------------------------------------------------------------------------
(* A non-empty set of rows has a first one. *)
LEMMA FirstRow ==
    ASSUME NEW T, T \subseteq Nat, T # {}
    PROVE  \E i \in T : \A j \in T : i <= j
<1>1. PICK i \in T : \A j \in T : ~ (<<j, i>> \in OpToRel(<, Nat))
  BY NatLessThanWellFounded, WFMin
<1>2. ASSUME NEW j \in T PROVE i <= j
  <2>1. i \in Nat /\ j \in Nat /\ ~ (<<j, i>> \in OpToRel(<, Nat))
    BY <1>1
  <2> QED BY <2>1 DEF OpToRel
<1> QED BY <1>2

(* SkipSonTask goes on, and not behind the end of the table. *)
LEMMA SkipSonTaskType ==
    ASSUME NEW r \in Row
    PROVE  SkipSonTask(r) \in r + 1 .. Num
<1> DEFINE T == {n \in r + 1 .. Num : n < Num => MainOf[n] # MainOf[r]}
<1>1. Num \in Nat /\ r \in 0 .. Num - 1
  BY RegAssumption DEF Row
<1>2. PICK n \in T : \A j \in T : n <= j
  <2>1. T \subseteq Nat /\ Num \in T
    BY <1>1
  <2> HIDE DEF T
  <2> QED BY <2>1, FirstRow
<1>3. \A s \in r .. n - 1 : MainOf[s] = MainOf[r]
  <2> SUFFICES ASSUME NEW s \in r .. n - 1, MainOf[s] # MainOf[r] PROVE FALSE
    OBVIOUS
  <2>1. s \in T /\ s < n
    BY <1>1
  <2> QED BY <1>1, <1>2, <2>1
<1>4. \E k \in r + 1 .. Num :
        (k < Num => MainOf[k] # MainOf[r]) /\ \A s \in r .. k - 1 : MainOf[s] = MainOf[r]
  BY <1>3
<1> QED BY <1>4 DEF SkipSonTask

LEMMA WrapType ==
    ASSUME NEW r \in 0 .. Num
    PROVE  Wrap(r) \in Row
BY RegAssumption DEF Wrap, Row

(* A son's main task is a main task. *)
LEMMA MainOfMain ==
    ASSUME NEW r \in Row
    PROVE  MainOf[r] \in Row /\ MainOf[r] \in Mains /\ MainOf[MainOf[r]] = MainOf[r]
BY RegAssumption DEF Mains

(* What is known of the row a call is at. *)
LEMMA InGroupRow ==
    ASSUME TypeOK, InGroup
    PROVE  At \in Row /\ call \in Calls /\ call.row \in Row /\ cursor \in 0 .. Num
BY RegAssumption DEF TypeOK, InGroup, At, Calls, Idle, Row

-----------------------------------------------------------------------------
LEMMA RegInit == Init => RegInv
<1> SUFFICES ASSUME Init PROVE RegInv
  OBVIOUS
<1>1. TypeOK
  BY RegAssumption DEF Init, TypeOK, Idle, Row, Mains
<1> QED BY <1>1 DEF Init, RegInv, DueInv, TripInv, RunInv, OrderInv, FlightInv, CursorInv, Idle, Mains

LEMMA BeginMainKeeps == RegInv /\ BeginMain => RegInv'
<1> SUFFICES ASSUME RegInv, BeginMain PROVE RegInv'
  OBVIOUS
<1>1. /\ call' = [by |-> "main", son |-> FALSE, row |-> 0, at |-> 0] /\ call' # Idle
      /\ UNCHANGED <<status, due, cursor, flight, passed>>
  BY DEF BeginMain, Idle
<1>2. TypeOK'
  BY <1>1, RegAssumption DEF RegInv, TypeOK, Calls, Row
<1> QED BY <1>1, <1>2 DEF RegInv, DueInv, TripInv, RunInv, OrderInv, FlightInv, CursorInv

LEMMA SkipTaskKeeps == RegInv /\ SkipTask => RegInv'
<1> SUFFICES ASSUME RegInv, SkipTask PROVE RegInv'
  OBVIOUS
<1>1. /\ call.by = "main" /\ ~call.son /\ cursor \in Row /\ cursor' = SkipSonTask(cursor)
      /\ UNCHANGED <<status, due, call, flight, passed>>
  BY RegAssumption DEF SkipTask, InMain, RegInv, TypeOK, Row
<1>2. cursor' \in 0 .. Num
  BY <1>1, SkipSonTaskType, RegAssumption DEF Row
<1>3. TypeOK'
  BY <1>1, <1>2 DEF RegInv, TypeOK, Idle
<1> QED BY <1>1, <1>3 DEF RegInv, DueInv, TripInv, RunInv, OrderInv, FlightInv, CursorInv

LEMMA RunTaskKeeps == RegInv /\ RunTask => RegInv'
<1> SUFFICES ASSUME RegInv, RunTask PROVE RegInv'
  OBVIOUS
<1>1. /\ cursor \in Mains /\ cursor \in Row /\ due[cursor] /\ cursor < Num
      /\ MainOf[cursor] = cursor
      /\ call \in Calls /\ call.by = "main" /\ ~call.son
  BY RegAssumption DEF RunTask, InMain, Runnable, Mains, RegInv, TypeOK, Idle
<1>2. /\ call' = [call EXCEPT !.son = TRUE, !.row = cursor]
      /\ passed' = passed \ Group(cursor)
      /\ status' = [status EXCEPT ![cursor] = "HOLD"]
      /\ due' = [due EXCEPT ![cursor] = FALSE]
      /\ UNCHANGED <<cursor, flight>>
  BY <1>1 DEF RunTask
<1>3. call' \in Calls /\ call'.by = "main" /\ call'.son /\ call'.row = cursor /\ At' = cursor
  BY <1>1, <1>2 DEF Calls, At
<1>4. TypeOK'
  BY <1>1, <1>2, <1>3 DEF RegInv, TypeOK, Idle, Calls
<1>5. \A r \in Row : MainOf[r] = cursor => flight[r] = 0
  BY <1>1 DEF RegInv, DueInv
<1>6. DueInv'
  BY <1>1, <1>2, <1>3 DEF RegInv, DueInv, TypeOK
<1>7. RunInv' /\ TripInv'
  BY <1>1, <1>2, <1>3, <1>5 DEF RegInv, RunInv, TripInv
<1>8. OrderInv'
  <2> SUFFICES ASSUME NEW s \in Row, MainOf[s] = cursor, s < cursor PROVE FALSE
    BY <1>1, <1>3 DEF OrderInv
  <2> QED BY <1>1, RegAssumption DEF Row
<1>9. FlightInv'
  BY <1>1, <1>2, <1>5, RegAssumption DEF RegInv, FlightInv, Group, TypeOK
<1> QED BY <1>3, <1>4, <1>6, <1>7, <1>8, <1>9 DEF RegInv, CursorInv

LEMMA EndMainKeeps == RegInv /\ EndMain => RegInv'
<1> SUFFICES ASSUME RegInv, EndMain PROVE RegInv'
  OBVIOUS
<1>1. cursor' \in Row /\ call' = Idle /\ UNCHANGED <<status, due, flight, passed>>
  BY WrapType, RegAssumption DEF EndMain, RegInv, TypeOK
<1>2. TypeOK'
  BY <1>1, RegAssumption DEF RegInv, TypeOK, Row
<1> QED BY <1>1, <1>2 DEF RegInv, DueInv, TripInv, RunInv, OrderInv, FlightInv, CursorInv, Idle

(* A row that is run or skipped is passed, and the call goes on behind it. *)
LEMMA PassKeeps ==
    ASSUME RegInv, InGroup, passed' = passed \cup {At}, Onward,
           UNCHANGED <<status, due, flight>>
    PROVE  RegInv'
<1>1. /\ At \in Row /\ call \in Calls /\ call.row \in Row /\ cursor \in 0 .. Num
      /\ call.son /\ At < Num /\ MainOf[At] = MainOf[call.row]
  BY InGroupRow DEF RegInv, InGroup
<1>2. /\ call' \in Calls /\ call'.son /\ call'.row = call.row /\ call'.by = call.by
      /\ cursor' \in 0 .. Num /\ (call.by = "answer" => cursor' = cursor)
      /\ At' = At + 1
  BY <1>1, RegAssumption DEF Onward, Calls, At, Row
<1>3. TypeOK'
  BY <1>1, <1>2 DEF RegInv, TypeOK, Idle, Calls
<1>4. DueInv' /\ TripInv' /\ RunInv'
  BY <1>1, <1>2 DEF RegInv, DueInv, TripInv, RunInv
<1>5. OrderInv'
  BY <1>1, <1>2, RegAssumption DEF RegInv, OrderInv, Row
<1>6. FlightInv' /\ CursorInv'
  BY <1>1, <1>2 DEF RegInv, FlightInv, CursorInv
<1> QED BY <1>3, <1>4, <1>5, <1>6 DEF RegInv

LEMMA DoCloudKeeps == RegInv /\ DoCloud => RegInv'
<1> SUFFICES ASSUME RegInv, DoCloud PROVE RegInv'
  OBVIOUS
<1> DEFINE r == At
<1>1. /\ r \in Row /\ call \in Calls /\ call.row \in Row /\ call.son
      /\ MainOf[r] = MainOf[call.row] /\ r \in Cloud /\ flight[r] = 0
      /\ MainOf[r] \in Mains
  BY InGroupRow, MainOfMain DEF DoCloud, Active, InGroup, RegInv, RunInv
<1>2. /\ flight' = [flight EXCEPT ![r] = @ + 1] /\ call' = Idle
      /\ UNCHANGED <<status, due, passed>>
  BY DEF DoCloud
<1>3. cursor' \in Row
  <2>1. cursor' = IF call.by = "main" THEN Wrap(SkipSonTask(call.row)) ELSE cursor
    BY DEF DoCloud
  <2>2. Wrap(SkipSonTask(call.row)) \in Row
    <3>1. SkipSonTask(call.row) \in 0 .. Num
      BY <1>1, SkipSonTaskType, RegAssumption DEF Row
    <3> QED BY <3>1, WrapType
  <2>3. call.by # "main" => cursor \in Row
    BY <1>1, RegAssumption DEF RegInv, TypeOK, CursorInv, Calls, Row
  <2> QED BY <2>1, <2>2, <2>3
<1>4. flight' \in [Row -> 0 .. 2] /\ flight'[r] = 1 /\ \A s \in Row \ {r} : flight'[s] = flight[s]
  BY <1>1, <1>2 DEF RegInv, TypeOK
<1> HIDE DEF r
<1>5. TypeOK'
  BY <1>1, <1>2, <1>3, <1>4, RegAssumption DEF RegInv, TypeOK, Row
<1>6. DueInv'
  BY <1>1, <1>2, <1>4 DEF RegInv, DueInv, Idle
<1>7. TripInv'
  BY <1>1, <1>4 DEF RegInv, TripInv, RunInv
<1>8. FlightInv'
  BY <1>1, <1>2, <1>4 DEF RegInv, FlightInv, OrderInv, r
<1> QED BY <1>2, <1>5, <1>6, <1>7, <1>8 DEF RegInv, RunInv, OrderInv, CursorInv, Idle

LEMMA FailKeeps == RegInv /\ Fail => RegInv'
<1> SUFFICES ASSUME RegInv, Fail PROVE RegInv'
  OBVIOUS
<1>1. /\ At \in Row /\ call \in Calls /\ call.row \in Row /\ cursor \in 0 .. Num /\ cursor < Num
      /\ status' = [status EXCEPT ![call.row] = "ON"] /\ call' = Idle
      /\ UNCHANGED <<due, cursor, flight, passed>>
  BY InGroupRow DEF Fail, Active, InGroup, RegInv, CursorInv, At, Calls
<1>2. TypeOK'
  BY <1>1 DEF RegInv, TypeOK
<1> QED BY <1>1, <1>2 DEF RegInv, DueInv, TripInv, RunInv, OrderInv, FlightInv, CursorInv, Idle

LEMMA EndGroupKeeps == RegInv /\ EndGroup => RegInv'
<1> SUFFICES ASSUME RegInv, EndGroup PROVE RegInv'
  OBVIOUS
<1>1. /\ call \in Calls /\ call.row \in Row /\ call.son /\ MainOf[call.row] \in Row
      /\ status' = [status EXCEPT ![MainOf[call.row]] = "ON"]
      /\ UNCHANGED <<due, cursor, flight, passed>>
  BY MainOfMain DEF EndGroup, RegInv, TypeOK, Calls, Idle
<1>2. /\ call' \in Calls \cup {Idle} /\ ~call'.son /\ call'.by # "answer"
      /\ call' = Idle => cursor < Num
  BY <1>1 DEF EndGroup, RegInv, CursorInv, Calls, Idle
<1>3. TypeOK'
  BY <1>1, <1>2 DEF RegInv, TypeOK
<1> QED BY <1>1, <1>2, <1>3 DEF RegInv, DueInv, TripInv, RunInv, OrderInv, FlightInv, CursorInv

(* The one message of a group comes back, or is lost. *)
LEMMA ArrivedFacts ==
    ASSUME RegInv, NEW r \in Row, Arrived(r)
    PROVE  /\ call = Idle /\ flight[r] = 1 /\ MainOf[r] \in Mains /\ ~due[MainOf[r]]
           /\ flight' \in [Row -> 0 .. 2] /\ flight'[r] = 0
           /\ \A s \in Row \ {r} : flight'[s] = flight[s]
           /\ \A s \in Row : MainOf[s] = MainOf[r] => flight'[s] = 0
           /\ \A s \in Row : MainOf[s] = MainOf[r] /\ s < r => s \in passed
           /\ \A s \in Row \ Cloud : flight'[s] = 0
           /\ cursor \in 0 .. Num /\ cursor < Num
<1>1. /\ call = Idle /\ flight[r] > 0 /\ flight' = [flight EXCEPT ![r] = @ - 1]
      /\ flight \in [Row -> 0 .. 2] /\ cursor \in 0 .. Num /\ cursor < Num
      /\ \A s \in Row \ Cloud : flight[s] = 0
  BY DEF Arrived, RegInv, TypeOK
<1>2. /\ flight[r] = 1
      /\ \A s \in Row : MainOf[s] = MainOf[r] /\ s # r => flight[s] = 0
  BY <1>1 DEF RegInv, TripInv
<1>3. MainOf[r] \in Mains /\ ~due[MainOf[r]]
  BY <1>1, MainOfMain DEF RegInv, DueInv
<1>4. \A s \in Row : MainOf[s] = MainOf[r] /\ s < r => s \in passed
  BY <1>1 DEF RegInv, FlightInv
<1> QED BY <1>1, <1>2, <1>3, <1>4

LEMMA AnswerKeeps ==
    ASSUME RegInv, NEW r \in Row, Answer(r)
    PROVE  RegInv'
<1>1. /\ call' = [by |-> "answer", son |-> TRUE, row |-> r, at |-> r + 1]
      /\ passed' = passed \cup {r} /\ UNCHANGED <<status, due, cursor>> /\ Arrived(r)
  BY DEF Answer, GoOn
<1>2. call' \in Calls /\ call'.by = "answer" /\ call'.son /\ call'.row = r /\ At' = r + 1
  BY <1>1, RegAssumption DEF Calls, Row, At
<1>3. TypeOK'
  BY <1>1, <1>2, ArrivedFacts DEF RegInv, TypeOK, Idle, Calls
<1>4. DueInv' /\ TripInv' /\ RunInv'
  BY <1>1, <1>2, ArrivedFacts DEF RegInv, DueInv, TripInv, RunInv, Mains
<1>5. OrderInv'
  BY <1>1, <1>2, ArrivedFacts, RegAssumption DEF OrderInv, Row
<1>6. FlightInv' /\ CursorInv'
  BY <1>1, <1>2, ArrivedFacts DEF RegInv, FlightInv, CursorInv
<1> QED BY <1>3, <1>4, <1>5, <1>6 DEF RegInv

LEMMA EmptyAnswerKeeps ==
    ASSUME RegInv, NEW r \in Row, EmptyAnswer(r) \/ NoAnswer(r)
    PROVE  RegInv'
<1>1. Arrived(r) /\ UNCHANGED <<due, cursor, call, passed>>
  BY DEF EmptyAnswer, NoAnswer
<1>2. status' \in [Row -> {"ON", "OFF", "HOLD"}] /\ \A s \in Row \ Mains : status'[s] # "HOLD"
  BY MainOfMain DEF EmptyAnswer, NoAnswer, RegInv, TypeOK
<1>3. TypeOK'
  BY <1>1, <1>2, ArrivedFacts DEF RegInv, TypeOK
<1> QED BY <1>1, <1>3, ArrivedFacts
        DEF RegInv, DueInv, TripInv, RunInv, OrderInv, FlightInv, CursorInv, Idle

(* The one step that needs Punctual. *)
LEMMA ElapseKeeps ==
    ASSUME RegInv, Punctual, NEW m \in Mains, Elapse(m)
    PROVE  RegInv'
<1>1. /\ call # Idle => MainOf[call.row] # m
      /\ \A r \in Row : MainOf[r] = m => flight[r] = 0
      /\ due' = [due EXCEPT ![m] = TRUE] /\ UNCHANGED <<status, cursor, call, flight, passed>>
  BY DEF Elapse, Group, Mains
<1>2. TypeOK'
  BY <1>1 DEF RegInv, TypeOK
<1>3. DueInv'
  BY <1>1 DEF RegInv, DueInv, Idle, TypeOK
<1> QED BY <1>1, <1>2, <1>3 DEF RegInv, TripInv, RunInv, OrderInv, FlightInv, CursorInv, At

LEMMA SwitchKeeps ==
    ASSUME RegInv, NEW r \in Row, Switch(r)
    PROVE  RegInv'
<1>1. /\ status' = [status EXCEPT ![r] = IF @ = "OFF" THEN "ON" ELSE "OFF"]
      /\ UNCHANGED <<due, cursor, call, flight, passed>>
  BY DEF Switch
<1>2. TypeOK'
  BY <1>1 DEF RegInv, TypeOK
<1> QED BY <1>1, <1>2 DEF RegInv, DueInv, TripInv, RunInv, OrderInv, FlightInv, CursorInv, At

LEMMA RegStep ==
    ASSUME Punctual
    PROVE  RegInv /\ [Next]_vars => RegInv'
<1> SUFFICES ASSUME RegInv, [Next]_vars PROVE RegInv'
  OBVIOUS
<1>1. CASE BeginMain
  BY <1>1, BeginMainKeeps
<1>2. CASE SkipTask \/ RunTask \/ EndMain
  BY <1>2, SkipTaskKeeps, RunTaskKeeps, EndMainKeeps
<1>3. CASE SkipSon \/ DoLocal
  BY <1>3, PassKeeps DEF SkipSon, DoLocal, Active
<1>4. CASE DoCloud \/ Fail \/ EndGroup
  BY <1>4, DoCloudKeeps, FailKeeps, EndGroupKeeps
<1>5. CASE \E r \in Row : Answer(r) \/ EmptyAnswer(r) \/ NoAnswer(r) \/ Switch(r)
  BY <1>5, AnswerKeeps, EmptyAnswerKeeps, SwitchKeeps
<1>6. CASE \E m \in Mains : Elapse(m)
  BY <1>6, ElapseKeeps
<1>7. CASE UNCHANGED vars
  BY <1>7 DEF vars, RegInv, TypeOK, DueInv, TripInv, RunInv, OrderInv, FlightInv, CursorInv, At
<1> QED BY <1>1, <1>2, <1>3, <1>4, <1>5, <1>6, <1>7 DEF Next, CallStep

-----------------------------------------------------------------------------
(* The round trips of every main task are in one place. *)
THEOREM RegInvariant == ASSUME Punctual PROVE Spec => []RegInv
BY RegInit, RegStep, PTL DEF Spec

(* A row is reached when every row of its group before it has been run,    *)
(* skipped or answered in the same run of the main task.                   *)
THEOREM InOrderHolds == ASSUME Punctual PROVE Spec => []InOrder
<1>1. RegInv => InOrder
  BY DEF RegInv, OrderInv, InOrder, Group
<1> QED BY <1>1, RegInvariant, PTL

(* The lock of a main task is released by the end of its own run or by an  *)
(* error of it, with no message under way.                                 *)
LEMMA ReleaseStep ==
    RegInv /\ [Next]_vars =>
        [\A m \in Mains : status[m] = "HOLD" /\ status'[m] = "ON" =>
            /\ \A r \in Group(m) : flight'[r] = 0
            /\ call = Idle \/ MainOf[call.row] = m]_vars
<1> SUFFICES ASSUME RegInv, Next, NEW m \in Mains, status[m] = "HOLD", status'[m] = "ON"
             PROVE  /\ \A r \in Group(m) : flight'[r] = 0
                    /\ call = Idle \/ MainOf[call.row] = m
  OBVIOUS
<1>0. m \in Row /\ MainOf[m] = m /\ status \in [Row -> {"ON", "OFF", "HOLD"}]
  BY DEF Mains, RegInv, TypeOK
<1>1. CASE Fail
  <2>1. call.row \in Row /\ status' = [status EXCEPT ![call.row] = "ON"] /\ flight' = flight /\ call.son
    BY <1>1, InGroupRow DEF Fail, Active, InGroup, RegInv
  <2>2. call.row = m
    BY <1>0, <2>1
  <2> QED BY <1>0, <2>1, <2>2 DEF RegInv, RunInv, Group
<1>2. CASE EndGroup
  <2>1. /\ call.row \in Row /\ status' = [status EXCEPT ![MainOf[call.row]] = "ON"]
        /\ flight' = flight /\ call.son
    BY <1>2 DEF EndGroup, RegInv, TypeOK, Calls, Idle
  <2>2. MainOf[call.row] = m
    BY <1>0, <2>1, MainOfMain
  <2> QED BY <1>0, <2>1, <2>2 DEF RegInv, RunInv, Group
<1>3. CASE \E r \in Row : EmptyAnswer(r)
  <2>1. PICK r \in Row : EmptyAnswer(r)
    BY <1>3
  <2>2. Arrived(r) /\ status' = [status EXCEPT ![MainOf[r]] = "ON"]
    BY <2>1 DEF EmptyAnswer
  <2>3. MainOf[r] = m
    BY <1>0, <2>2, MainOfMain
  <2> QED BY <1>0, <2>2, <2>3, ArrivedFacts DEF Group
<1>4. CASE BeginMain \/ SkipTask \/ EndMain \/ SkipSon \/ DoLocal \/ DoCloud
  BY <1>0, <1>4 DEF BeginMain, SkipTask, EndMain, SkipSon, DoLocal, DoCloud
<1>5. CASE RunTask
  BY <1>0, <1>5 DEF RunTask
<1>6. CASE \E r \in Row : Answer(r) \/ NoAnswer(r) \/ Switch(r)
  BY <1>0, <1>6 DEF Answer, NoAnswer, Switch
<1>7. CASE \E k \in Mains : Elapse(k)
  BY <1>0, <1>7 DEF Elapse
<1> QED BY <1>1, <1>2, <1>3, <1>4, <1>5, <1>6, <1>7 DEF Next, CallStep

(* A main task has one round trip under way at most, and stays locked      *)
(* while it lasts.                                                         *)
THEOREM OneTripHolds == ASSUME Punctual PROVE Spec => OneTrip
<1>1. RegInv => \A m \in Mains : \A r, s \in Group(m) :
                  flight[r] > 0 /\ flight[s] > 0 => r = s /\ flight[r] = 1
  BY DEF RegInv, TripInv, Group
<1> QED BY <1>1, ReleaseStep, RegInvariant, PTL DEF Spec, OneTrip
=============================================================================
