-------------------------- MODULE Upstream_proofs --------------------------
(***************************************************************************)
(* What ConnPool promises for any number of connections, timers and slots, *)
(* and what Upstream, which extends it, promises for the queue inside.     *)
(*                                                                         *)
(* The pool: the three counts, the ownership of timers and the uniqueness  *)
(* of thread connections all rest on the list holding each existing object *)
(* exactly once (ListOK) and on what a running callback knows of its       *)
(* connection (CursorOK); together with TypeOK they are inductive.         *)
(*                                                                         *)
(* The upstream: that queue and connection belong together rests on the    *)
(* pool having one connection of that name, and on what started the        *)
(* outermost running script (OuterOK).  With it, every step of Upstream is *)
(* a step of the pool and a step of the queue, or leaves one alone.        *)
(***************************************************************************)
EXTENDS Upstream, TLAPS, FiniteSetTheorems, SequenceTheorems,
        WellFoundedInduction

(* The list has every existing object, once. *)
ListOK ==
    /\ live = {list[i] : i \in DOMAIN list}
    /\ \A i, j \in DOMAIN list : list[i] = list[j] => i = j

(* No callback: no current connection.  A callback other than the          *)
(* reconnection task has one; a reading or connected one is active.        *)
CursorOK ==
    /\ cb \in {"idle", "limit"} => cur = NoConn
    /\ cb \notin {"idle", "limit"} => cur \in live
    /\ cb \in {"read", "connect"} => isAct[cur]

-----------------------------------------------------------------------------
(* A non-empty set of positions has a first one. *)
LEMMA FirstPosition ==
    ASSUME NEW T, T \subseteq Nat, T # {}
    PROVE  \E i \in T : \A j \in T : i <= j
<1>1. \E i \in T : \A j \in T : ~ (<<j, i>> \in OpToRel(<, Nat))
  BY NatLessThanWellFounded, WFMin
<1>2. PICK i \in T : \A j \in T : ~ (<<j, i>> \in OpToRel(<, Nat))
  BY <1>1
<1>3. \A j \in T : i <= j
  <2> SUFFICES ASSUME NEW j \in T PROVE i <= j
    OBVIOUS
  <2>1. i \in Nat /\ j \in Nat
    OBVIOUS
  <2>2. ~ (<<j, i>> \in OpToRel(<, Nat))
    BY <1>2
  <2> QED BY <2>1, <2>2 DEF OpToRel
<1> QED BY <1>3

(* FindConnByObjName answers with an object of the list that passes the    *)
(* test, and with the null pointer only when there is none.                *)
LEMMA FirstOfFinds ==
    ASSUME ConnTypeOK, NEW S
    PROVE  \/ /\ FirstOf(S) \in S /\ FirstOf(S) \in Conns
              /\ \E i \in DOMAIN list : FirstOf(S) = list[i]
           \/ /\ FirstOf(S) = NoConn
              /\ \A i \in DOMAIN list : list[i] \notin S
<1> DEFINE T == {i \in DOMAIN list : list[i] \in S}
<1>0. list \in Seq(Conns) /\ DOMAIN list = 1 .. Len(list) /\ Len(list) \in Nat
  BY LenProperties DEF ConnTypeOK
<1>1. CASE T = {}
  BY <1>1 DEF FirstOf
<1>2. CASE T # {}
  <2>0. T \subseteq Nat
    BY <1>0
  <2>1. \E i \in T : \A j \in T : i <= j
    <3> HIDE DEF T
    <3> QED BY <2>0, <1>2, FirstPosition
  <2>2. \E i \in DOMAIN list : /\ list[i] \in S
                               /\ \A j \in DOMAIN list : list[j] \in S => i <= j
    BY <2>1
  <2>3. \E i \in DOMAIN list : FirstOf(S) = list[i] /\ list[i] \in S
    BY <2>2 DEF FirstOf
  <2> QED BY <2>3, <1>0, ElementOfSeq
<1> QED BY <1>1, <1>2

(* Cutting position i out of a sequence. *)
LEMMA CutProperties ==
    ASSUME NEW S, NEW s \in Seq(S), NEW i \in DOMAIN s
    PROVE  /\ Cut(s, i) \in Seq(S)
           /\ Len(Cut(s, i)) = Len(s) - 1
           /\ DOMAIN Cut(s, i) = 1 .. Len(s) - 1
           /\ \A j \in 1 .. Len(s) - 1 :
                Cut(s, i)[j] = IF j < i THEN s[j] ELSE s[j + 1]
<1>1. Len(s) \in Nat /\ DOMAIN s = 1 .. Len(s) /\ i \in 1 .. Len(s)
  BY LenProperties
<1>2. Len(s) - 1 \in Nat
  BY <1>1
<1>3. \A j \in 1 .. Len(s) - 1 : (IF j < i THEN s[j] ELSE s[j + 1]) \in S
  BY <1>1, <1>2, ElementOfSeq
<1>4. Cut(s, i) \in [1 .. Len(s) - 1 -> S]
  BY <1>3 DEF Cut
<1>5. Cut(s, i) \in Seq(S)
  BY <1>4, <1>2, SeqDef
<1>6. Len(Cut(s, i)) = Len(s) - 1
  BY <1>4, <1>5, <1>2, LenProperties
<1> QED BY <1>4, <1>5, <1>6 DEF Cut

-----------------------------------------------------------------------------
(* InsertConn puts a new object into the list, once. *)
LEMMA InsertKeeps ==
    ASSUME ConnTypeOK, TimerTypeOK, ListOK,
           NEW c \in Conns, NEW n \in Names, NEW node \in Nodes,
           NEW act \in BOOLEAN, NEW out \in BOOLEAN,
           InsertConn(c, n, node, act, out), ctx' = ctx
    PROVE  ConnTypeOK' /\ TimerTypeOK' /\ ListOK'
<1>1. /\ list \in Seq(Conns) /\ <<c>> \in Seq(Conns)
      /\ Len(<<c>>) = 1 /\ <<c>>[1] = c
  BY DEF ConnTypeOK
<1>2. /\ list' \in Seq(Conns) /\ Len(list') = Len(list) + 1
      /\ Len(list) \in Nat
      /\ DOMAIN list = 1 .. Len(list) /\ DOMAIN list' = 1 .. Len(list) + 1
      /\ \A i \in 1 .. Len(list) + 1 :
            list'[i] = IF i = 1 THEN c ELSE list[i - 1]
  <2>1. list' = <<c>> \o list
    BY DEF InsertConn
  <2>2. /\ list' \in Seq(Conns) /\ Len(list') = 1 + Len(list)
        /\ \A i \in 1 .. 1 + Len(list) :
              list'[i] = IF i <= 1 THEN <<c>>[i] ELSE list[i - 1]
    BY <1>1, <2>1, ConcatProperties
  <2>3. Len(list) \in Nat /\ DOMAIN list = 1 .. Len(list)
    BY <1>1, LenProperties
  <2>4. DOMAIN list' = 1 .. Len(list')
    BY <2>2, LenProperties
  <2> QED BY <1>1, <2>2, <2>3, <2>4
<1>3. \A i \in 1 .. Len(list) : list[i] # c
  <2>1. c \notin live /\ live = {list[i] : i \in DOMAIN list}
    BY DEF InsertConn, ListOK
  <2>2. DOMAIN list = 1 .. Len(list)
    BY <1>2
  <2> QED BY ONLY <2>1, <2>2
<1>4. live' = {list'[i] : i \in DOMAIN list'}
  <2>1. ASSUME NEW d \in live' PROVE \E i \in DOMAIN list' : d = list'[i]
    <3>1. CASE d = c
      BY <3>1, <1>2
    <3>2. CASE d \in live
      <4>1. PICK i \in DOMAIN list : d = list[i]
        BY <3>2 DEF ListOK
      <4>2. i + 1 \in DOMAIN list' /\ list'[i + 1] = d
        BY <4>1, <1>2
      <4> QED BY <4>2
    <3> QED BY <3>1, <3>2, <2>1 DEF InsertConn
  <2>2. ASSUME NEW i \in DOMAIN list' PROVE list'[i] \in live'
    <3>1. CASE i = 1
      BY <3>1, <1>2 DEF InsertConn
    <3>2. CASE i # 1
      <4>1. i - 1 \in DOMAIN list /\ list'[i] = list[i - 1]
        BY <3>2, <1>2
      <4> QED BY <4>1 DEF ListOK, InsertConn
    <3> QED BY <3>1, <3>2
  <2> QED BY <2>1, <2>2
<1>5. ASSUME NEW i \in DOMAIN list', NEW j \in DOMAIN list', list'[i] = list'[j]
      PROVE  i = j
  <2>1. CASE i = 1 \/ j = 1
    BY <2>1, <1>5, <1>2, <1>3
  <2>2. CASE i # 1 /\ j # 1
    <3>1. i - 1 \in DOMAIN list /\ j - 1 \in DOMAIN list
      BY <2>2, <1>2
    <3>2. list[i - 1] = list[j - 1]
      BY <2>2, <1>2, <1>5
    <3>3. i - 1 = j - 1
      BY <3>1, <3>2 DEF ListOK
    <3> QED BY <3>3, <1>2
  <2> QED BY <2>1, <2>2
<1>6. ListOK'
  BY <1>4, <1>5 DEF ListOK
<1>7. ConnTypeOK' /\ TimerTypeOK'
  BY <1>2 DEF ConnTypeOK, TimerTypeOK, InsertConn
<1> QED BY <1>6, <1>7

(* DeleteConn takes exactly the deleted object out of the list. *)
LEMMA DeleteKeeps ==
    ASSUME ConnTypeOK, ListOK, NEW c \in live, DeleteConn(c)
    PROVE  /\ list' \in Seq(Conns) /\ Len(list') = Len(list) - 1
           /\ Len(list) \in Nat
           /\ ListOK'
<1> DEFINE k == CHOOSE i \in DOMAIN list : list[i] = c
<1>1. k \in DOMAIN list /\ list[k] = c
  BY DEF ListOK
<1>2. list' = Cut(list, k)
  BY DEF DeleteConn, Unlink
<1> HIDE DEF k
<1>3. /\ list \in Seq(Conns) /\ Len(list) \in Nat
      /\ DOMAIN list = 1 .. Len(list)
  BY LenProperties DEF ConnTypeOK
<1>4. /\ list' \in Seq(Conns) /\ Len(list') = Len(list) - 1
      /\ DOMAIN list' = 1 .. Len(list) - 1
      /\ \A j \in 1 .. Len(list) - 1 :
            list'[j] = IF j < k THEN list[j] ELSE list[j + 1]
  BY <1>1, <1>2, <1>3, CutProperties
<1>5. live' = live \ {c}
  BY DEF DeleteConn
<1>6. ASSUME NEW d \in live' PROVE \E j \in DOMAIN list' : d = list'[j]
  <2>1. PICK i \in DOMAIN list : d = list[i]
    BY <1>5, <1>6 DEF ListOK
  <2>2. i # k
    BY <2>1, <1>1, <1>5, <1>6
  <2>3. CASE i < k
    BY <2>1, <2>3, <1>1, <1>3, <1>4
  <2>4. CASE i > k
    <3>1. i - 1 \in DOMAIN list' /\ list'[i - 1] = list[i]
      BY <2>1, <2>4, <1>1, <1>3, <1>4
    <3> QED BY <3>1, <2>1
  <2> QED BY <2>2, <2>3, <2>4, <1>1, <1>3
<1>7. ASSUME NEW j \in DOMAIN list' PROVE list'[j] \in live'
  <2>1. PICK i \in DOMAIN list : list'[j] = list[i] /\ i # k
    BY <1>1, <1>3, <1>4
  <2> QED BY <2>1, <1>1, <1>5 DEF ListOK
<1>8. ASSUME NEW i \in DOMAIN list', NEW j \in DOMAIN list', list'[i] = list'[j]
      PROVE  i = j
  <2> DEFINE past(m) == IF m < k THEN m ELSE m + 1
  <2>1. past(i) \in DOMAIN list /\ past(j) \in DOMAIN list
    BY <1>1, <1>3, <1>4
  <2>2. list[past(i)] = list[past(j)]
    BY <1>8, <1>4
  <2>3. past(i) = past(j)
    BY <2>1, <2>2 DEF ListOK
  <2> QED BY <2>3, <1>1, <1>3, <1>4
<1> QED BY <1>3, <1>4, <1>6, <1>7, <1>8 DEF ListOK

(* conn_disconnect. *)
LEMMA DisconnectKeeps ==
    ASSUME ConnTypeOK, TimerTypeOK, ListOK, NEW c \in live, Disconnect(c)
    PROVE  ConnTypeOK' /\ TimerTypeOK' /\ ListOK'
<1>1. list' \in Seq(Conns) /\ ListOK'
  BY DeleteKeeps DEF Disconnect
<1>2. NoName \in Names /\ NoName \in Nodes
  BY DEF Names, Nodes
<1>3. ConnTypeOK'
  BY <1>1, <1>2 DEF ConnTypeOK, Disconnect, DeleteConn
<1>4. TimerTypeOK'
  BY DEF TimerTypeOK, Disconnect, DisarmOwn
<1> QED BY <1>1, <1>3, <1>4

-----------------------------------------------------------------------------
PoolInv == TypeOK /\ ListOK /\ CursorOK

LEMMA InitPoolInv == Init => PoolInv
<1> USE SlotAssumption DEF SlotType
<1> SUFFICES ASSUME Init PROVE PoolInv
  OBVIOUS
<1>1. list \in Seq(Conns) /\ DOMAIN list = {}
  BY EmptySeq, LenProperties DEF Init
<1>2. NoName \in Names /\ NoName \in Nodes
  BY DEF Names, Nodes
<1>3. TypeOK
  BY <1>1, <1>2 DEF Init, TypeOK, ConnTypeOK, TimerTypeOK, LoopTypeOK, Callbacks
<1>4. ListOK /\ CursorOK
  BY <1>1 DEF Init, ListOK, CursorOK
<1> QED BY <1>3, <1>4 DEF PoolInv

(* Everything that does not touch the objects or the list keeps ListOK. *)
LEMMA SameListKeeps ==
    ASSUME ListOK, UNCHANGED <<live, list>>
    PROVE  ListOK'
BY DEF ListOK

LEMMA PoolInvStep == PoolInv /\ [Next]_vars => PoolInv'
<1> SUFFICES ASSUME PoolInv, [Next]_vars PROVE PoolInv'
  OBVIOUS
<1> USE DEF PoolInv, TypeOK
<1>0. /\ NoConn \notin Conns /\ NoTimer \notin Timers
      /\ \A s \in Slots : s.name \in Names /\ s.node \in Nodes
      /\ ListenNames \subseteq Names /\ ListenNames \subseteq Nodes
      /\ UserNames \subseteq Names /\ NoName \in Names /\ NoName \in Nodes
      /\ live \subseteq Conns
  BY SlotAssumption DEF SlotType, ConnNames, Names, Nodes, ConnTypeOK
<1>1. ASSUME NEW c \in Conns, Accept(c) PROVE PoolInv'
  <2>1. ConnTypeOK' /\ TimerTypeOK' /\ ListOK'
    BY <1>0, <1>1, InsertKeeps DEF Accept
  <2>2. LoopTypeOK' /\ CursorOK'
    BY <1>1 DEF Accept, Idle, LoopTypeOK, CursorOK, loopVars
  <2> QED BY <2>1, <2>2
<1>2. ASSUME NEW c \in Conns, Connected(c) PROVE PoolInv'
  BY <1>2, SameListKeeps DEF Connected, Enter, ConnTypeOK, TimerTypeOK,
     LoopTypeOK, Callbacks, CursorOK, timerVars
<1>3. ASSUME NEW c \in Conns, ConnError(c) \/ Read(c) PROVE PoolInv'
  BY <1>3, SameListKeeps DEF ConnError, Read, Enter, ConnTypeOK, TimerTypeOK,
     LoopTypeOK, Callbacks, CursorOK, connVars, timerVars
<1>4. ASSUME NEW c \in Conns, Drained(c) PROVE PoolInv'
  <2>1. ConnTypeOK' /\ TimerTypeOK' /\ ListOK'
    BY <1>4, DisconnectKeeps DEF Drained
  <2>2. LoopTypeOK' /\ CursorOK'
    BY <1>4 DEF Drained, Idle, LoopTypeOK, CursorOK, loopVars
  <2> QED BY <2>1, <2>2
<1>5. ASSUME NEW c \in Conns, NEW n \in ListenNames,
             ReadHandshake(c, n) \/ ReadShort(c, n)
      PROVE  PoolInv'
  BY <1>0, <1>5, SameListKeeps DEF ReadHandshake, ReadShort, Idle, Enter,
     ConnTypeOK, TimerTypeOK, LoopTypeOK, Callbacks, CursorOK, timerVars, loopVars
<1>6. ASSUME NEW t \in Timers, TimerFire(t) PROVE PoolInv'
  BY <1>0, <1>6, SameListKeeps DEF TimerFire, Enter, ConnTypeOK, TimerTypeOK,
     LoopTypeOK, Callbacks, CursorOK, connVars, timerVars
<1>7. CASE LimitTick
  BY <1>7, SameListKeeps DEF LimitTick, Idle, ConnTypeOK, TimerTypeOK,
     LoopTypeOK, Callbacks, CursorOK, connVars, timerVars
<1>8. ASSUME NEW s \in Slots, CreateSkip(s) \/ CreateFail(s) PROVE PoolInv'
  BY <1>8, SameListKeeps DEF CreateSkip, CreateFail, ConnTypeOK, TimerTypeOK,
     LoopTypeOK, Callbacks, CursorOK, connVars, timerVars
<1>9. ASSUME NEW s \in Slots, NEW c \in Conns, CreateConn(s, c) PROVE PoolInv'
  <2>1. ConnTypeOK' /\ TimerTypeOK' /\ ListOK'
    BY <1>0, <1>9, InsertKeeps DEF CreateConn
  <2>2. cur # c \/ cb \in {"idle", "limit"}
    BY <1>9 DEF CreateConn, InsertConn, CursorOK
  <2>3. LoopTypeOK' /\ CursorOK'
    BY <1>9, <2>2 DEF CreateConn, InsertConn, LoopTypeOK, CursorOK, ConnTypeOK
  <2> QED BY <2>1, <2>3
<1>10. CASE EndError
  <2>1. cur \in live
    BY <1>10 DEF EndError, CursorOK
  <2>2. ConnTypeOK' /\ TimerTypeOK' /\ ListOK'
    BY <1>10, <2>1, DisconnectKeeps DEF EndError
  <2>3. LoopTypeOK' /\ CursorOK'
    BY <1>10 DEF EndError, Leave, LoopTypeOK, Callbacks, CursorOK
  <2> QED BY <2>2, <2>3
<1>11. CASE EndRead
  <2>1. cur \in live
    BY <1>11 DEF EndRead, CursorOK
  <2>2. ConnTypeOK' /\ TimerTypeOK' /\ ListOK'
    <3>1. CASE closeRead[cur]
      BY <1>11, <2>1, <3>1, DisconnectKeeps DEF EndRead
    <3>2. CASE ~closeRead[cur]
      BY <1>11, <3>2, SameListKeeps
         DEF EndRead, connVars, timerVars, ConnTypeOK, TimerTypeOK
    <3> QED BY <3>1, <3>2
  <2>3. LoopTypeOK' /\ CursorOK'
    BY <1>11 DEF EndRead, Leave, LoopTypeOK, Callbacks, CursorOK
  <2> QED BY <2>2, <2>3
<1>12. CASE EndScript \/ EndLimit
  BY <1>12, SameListKeeps DEF EndScript, EndLimit, Leave, ConnTypeOK,
     TimerTypeOK, LoopTypeOK, Callbacks, CursorOK, connVars, timerVars
<1>13. ASSUME NEW n \in Nodes, ScriptCreate(n) PROVE PoolInv'
  BY <1>13, SameListKeeps DEF ScriptCreate, ConnTypeOK, TimerTypeOK,
     LoopTypeOK, Callbacks, CursorOK, connVars, timerVars
<1>14. ASSUME NEW n \in Names, ScriptCancle(n) PROVE PoolInv'
  <2> DEFINE d == FindByName(n, TRUE)
  <2>1. d # NoConn /\ d # cur /\ DisconnectIfActive(d)
    BY <1>14 DEF ScriptCancle
  <2>2. d \in live
    BY <2>1, FirstOfFinds DEF FindByName, ListOK
  <2> HIDE DEF d
  <2>3. CASE isAct[d]
    <3>1. Disconnect(d)
      BY <2>1, <2>3 DEF DisconnectIfActive
    <3>2. ConnTypeOK' /\ TimerTypeOK' /\ ListOK'
      BY <2>2, <3>1, DisconnectKeeps
    <3>3. LoopTypeOK' /\ CursorOK'
      BY <1>14, <2>1, <3>1 DEF ScriptCancle, Disconnect, DeleteConn, LoopTypeOK,
         CursorOK, loopVars, ConnTypeOK
    <3> QED BY <3>2, <3>3
  <2>4. CASE ~isAct[d]
    BY <1>14, <2>1, <2>4, SameListKeeps DEF ScriptCancle, DisconnectIfActive,
       ConnTypeOK, TimerTypeOK, LoopTypeOK, CursorOK, connVars, timerVars, loopVars
  <2> QED BY <2>3, <2>4
<1>15. ASSUME NEW n \in Names, NEW t \in Timers, ScriptStartTimer(n, t)
       PROVE  PoolInv'
  <2> DEFINE c == FindByName(n, TRUE)
  <2>1. c # NoConn /\ ArmTimer(c, t) /\ UNCHANGED <<connVars, loopVars>>
    BY <1>15 DEF ScriptStartTimer
  <2>2. c \in Conns
    BY <2>1, FirstOfFinds DEF FindByName
  <2> HIDE DEF c
  <2> QED BY <2>1, <2>2, SameListKeeps DEF ArmTimer, ConnTypeOK, TimerTypeOK,
             LoopTypeOK, CursorOK, connVars, loopVars
<1>16. ASSUME NEW n \in Names, ScriptCancleTimer(n) PROVE PoolInv'
  <2> DEFINE c == FindByName(n, TRUE)
  <2>1. /\ DisarmOwn(c) /\ timeEv' = [timeEv EXCEPT ![c] = NoTimer]
        /\ UNCHANGED <<connVars, loopVars>>
    BY <1>16 DEF ScriptCancleTimer
  <2> HIDE DEF c
  <2> QED BY <2>1, SameListKeeps DEF DisarmOwn, ConnTypeOK, TimerTypeOK,
             LoopTypeOK, CursorOK, connVars, loopVars
<1>17. ASSUME NEW S \in SUBSET Conns, MarkCloseSend(S), UNCHANGED loopVars
       PROVE  PoolInv'
  BY <1>17, SameListKeeps DEF MarkCloseSend, ConnTypeOK, TimerTypeOK,
     LoopTypeOK, CursorOK, timerVars, loopVars
<1>18. CASE ScriptSendClose
  <2>1. cur \in live
    BY <1>18 DEF ScriptSendClose, InScript, CursorOK
  <2> QED BY <1>0, <1>17, <1>18, <2>1 DEF ScriptSendClose
<1>19. ASSUME NEW k \in DOMAIN list, ScriptSendAllClose(k) PROVE PoolInv'
  <2>1. /\ DOMAIN list = 1 .. Len(list) /\ Len(list) \in Nat
        /\ \A i \in 1 .. Len(list) : list[i] \in Conns
    BY LenProperties, ElementOfSeq DEF ConnTypeOK
  <2>2. {list[i] : i \in {j \in 1 .. k : isAct[list[j]]}} \in SUBSET Conns
    BY <2>1
  <2> QED BY <1>17, <1>19, <2>2 DEF ScriptSendAllClose
<1>20. CASE ScriptCloseAfterRead
  BY <1>20, SameListKeeps DEF ScriptCloseAfterRead, ConnTypeOK, TimerTypeOK,
     LoopTypeOK, CursorOK, timerVars, loopVars
<1>21. ASSUME NEW n \in UserNames, ScriptRename(n) PROVE PoolInv'
  BY <1>0, <1>21, SameListKeeps DEF ScriptRename, ConnTypeOK, TimerTypeOK,
     LoopTypeOK, CursorOK, timerVars, loopVars
<1>22. CASE UNCHANGED vars
  BY <1>22, SameListKeeps DEF vars, connVars, timerVars, loopVars, ConnTypeOK,
     TimerTypeOK, LoopTypeOK, CursorOK
<1> QED BY <1>1, <1>2, <1>3, <1>4, <1>5, <1>6, <1>7, <1>8, <1>9, <1>10, <1>11,
           <1>12, <1>13, <1>14, <1>15, <1>16, <1>18, <1>19, <1>20, <1>21, <1>22
        DEF Next, Network, CreateStep, Returns, Script

(* The inductive invariant holds in every behaviour of the pool. *)
THEOREM PoolInvariant == Spec => []PoolInv
<1>1. Init => PoolInv
  BY InitPoolInv
<1>2. PoolInv /\ [Next]_vars => PoolInv'
  BY PoolInvStep
<1> QED BY <1>1, <1>2, PTL DEF Spec

(* Every field keeps to its values. *)
THEOREM TypeCorrect == Spec => []TypeOK
<1>1. PoolInv => TypeOK
  BY DEF PoolInv
<1> QED BY <1>1, PoolInvariant, PTL

(* No callback returns into a connection that was deleted under it. *)
THEOREM CallbackSafe == Spec => []CallbackConnLive
<1>1. PoolInv => CallbackConnLive
  BY DEF PoolInv, CursorOK, CallbackConnLive
<1> QED BY <1>1, PoolInvariant, PTL

-----------------------------------------------------------------------------
(* Every step either leaves the objects alone, or makes one, or deletes    *)
(* one.  The four properties below look at a step in these terms only.     *)
TimerMoves ==
    \/ UNCHANGED timerVars
    \/ \E c \in live, t \in Timers :
         ArmTimer(c, t) /\ (RestartTimers \/ timeEv[c] = NoTimer)
    \/ \E c \in live : DisarmOwn(c) /\ timeEv' = [timeEv EXCEPT ![c] = NoTimer]

Quiet ==
    /\ UNCHANGED <<live, list, connNum, objNum>>
    /\ \A d \in live : name'[d] = name[d] \/ name'[d] \notin ConnNames
    /\ TimerMoves

Inserts ==
    \E c \in Conns, n \in Names, node \in Nodes, act, out \in BOOLEAN :
        /\ InsertConn(c, n, node, act, out)
        /\ ctx' = ctx
        /\ \A s \in Slots : s.thread /\ s.name = n => \A d \in live : name[d] # n

Deletes ==
    \E c \in live : Disconnect(c) /\ (isAct[c] \/ (cb = "event" /\ cur = c))

(* The reconnection task dials a thread slot only if no object, connected  *)
(* or not, has its name.                                                   *)
LEMMA NoDuplicateThread ==
    ASSUME PoolInv, NEW s \in Slots, s.thread, Existing(s) = NoConn
    PROVE  \A d \in live : name[d] # s.name
<1>1. NoConn \notin Conns /\ live \subseteq Conns
  BY SlotAssumption DEF PoolInv, TypeOK, ConnTypeOK
<1>2. FirstOf({c \in Conns : name[c] = s.name /\ (TRUE \/ isAct[c])}) = NoConn
  BY DEF Existing, FindByName
<1>3. \A i \in DOMAIN list :
        list[i] \notin {c \in Conns : name[c] = s.name /\ (TRUE \/ isAct[c])}
  BY <1>1, <1>2, FirstOfFinds DEF PoolInv, TypeOK
<1> QED BY <1>1, <1>3 DEF PoolInv, ListOK

LEMMA StepKinds == PoolInv /\ [Next]_vars => Quiet \/ Inserts \/ Deletes
<1> SUFFICES ASSUME PoolInv, [Next]_vars PROVE Quiet \/ Inserts \/ Deletes
  OBVIOUS
<1>0. /\ NoConn \notin Conns /\ live \subseteq Conns
      /\ \A s \in Slots : s.name \in Names /\ s.node \in Nodes
      /\ \A s, t \in Slots : s.name = t.name => s = t
      /\ \A s \in Slots : s.name # NoName
      /\ \A n \in ListenNames \cup UserNames : n \notin ConnNames
      /\ NoName \in Names /\ NoName \in Nodes
      /\ name \in [Conns -> Names] /\ (cb # "idle" /\ cb # "limit" => cur \in live)
  BY SlotAssumption DEF SlotType, ConnNames, Names, Nodes, ConnTypeOK, PoolInv,
     TypeOK, CursorOK
<1>1. ASSUME NEW c \in Conns, Accept(c) PROVE Inserts
  BY <1>0, <1>1 DEF Accept, Inserts
<1>2. ASSUME NEW s \in Slots, NEW c \in Conns, CreateConn(s, c) PROVE Inserts
  <2>1. InsertConn(c, s.name, s.node, FALSE, TRUE) /\ ctx' = ctx
    BY <1>2 DEF CreateConn
  <2>2. \A r \in Slots : r.thread /\ r.name = s.name => \A d \in live : name[d] # s.name
    BY <1>0, <1>2, NoDuplicateThread DEF CreateConn
  <2> QED BY <1>0, <2>1, <2>2 DEF Inserts
<1>3. ASSUME NEW c \in Conns, Drained(c) PROVE Deletes
  BY <1>3 DEF Drained, Deletes
<1>4. CASE EndError
  BY <1>0, <1>4 DEF EndError, Deletes
<1>5. CASE EndRead
  BY <1>0, <1>5 DEF EndRead, Deletes, Quiet, TimerMoves, connVars, timerVars,
     PoolInv, CursorOK
<1>6. ASSUME NEW n \in Names, ScriptCancle(n) PROVE Quiet \/ Deletes
  <2> DEFINE d == FindByName(n, TRUE)
  <2>1. d # NoConn /\ DisconnectIfActive(d)
    BY <1>6 DEF ScriptCancle
  <2>2. d \in live
    BY <2>1, FirstOfFinds DEF FindByName, ListOK, PoolInv, TypeOK
  <2> HIDE DEF d
  <2> QED BY <2>1, <2>2 DEF DisconnectIfActive, Deletes, Quiet, TimerMoves,
             connVars, timerVars
<1>7. ASSUME NEW n \in Names, NEW t \in Timers, ScriptStartTimer(n, t) PROVE Quiet
  <2> DEFINE c == FindByName(n, TRUE)
  <2>1. /\ c # NoConn /\ ArmTimer(c, t) /\ UNCHANGED connVars
        /\ RestartTimers \/ timeEv[c] = NoTimer
    BY <1>7 DEF ScriptStartTimer
  <2>2. c \in live
    BY <2>1, FirstOfFinds DEF FindByName, ListOK, PoolInv, TypeOK
  <2> HIDE DEF c
  <2> QED BY <2>1, <2>2 DEF Quiet, TimerMoves, connVars
<1>8. ASSUME NEW n \in Names, ScriptCancleTimer(n) PROVE Quiet
  <2> DEFINE c == FindByName(n, TRUE)
  <2>1. /\ c # NoConn /\ DisarmOwn(c) /\ UNCHANGED connVars
        /\ timeEv' = [timeEv EXCEPT ![c] = NoTimer]
    BY <1>8 DEF ScriptCancleTimer
  <2>2. c \in live
    BY <2>1, FirstOfFinds DEF FindByName, ListOK, PoolInv, TypeOK
  <2> HIDE DEF c
  <2> QED BY <2>1, <2>2 DEF Quiet, TimerMoves, connVars
<1>9. ASSUME NEW c \in Conns, NEW n \in ListenNames,
             ReadHandshake(c, n) \/ ReadShort(c, n)
      PROVE  Quiet
  BY <1>0, <1>9 DEF ReadHandshake, ReadShort, Quiet, TimerMoves
<1>10. ASSUME NEW n \in UserNames, ScriptRename(n) PROVE Quiet
  BY <1>0, <1>10 DEF ScriptRename, Quiet, TimerMoves, timerVars
<1>11. ASSUME NEW c \in Conns, Connected(c) \/ ConnError(c) \/ Read(c) PROVE Quiet
  BY <1>11 DEF Connected, ConnError, Read, Quiet, TimerMoves, connVars
<1>12. ASSUME NEW t \in Timers, TimerFire(t) PROVE Quiet
  BY <1>12 DEF TimerFire, Quiet, TimerMoves, connVars
<1>13. CASE LimitTick \/ EndScript \/ EndLimit
  BY <1>13 DEF LimitTick, EndScript, EndLimit, Quiet, TimerMoves, connVars
<1>14. ASSUME NEW s \in Slots, CreateSkip(s) \/ CreateFail(s) PROVE Quiet
  BY <1>14 DEF CreateSkip, CreateFail, Quiet, TimerMoves, connVars
<1>15. ASSUME NEW n \in Nodes, ScriptCreate(n) PROVE Quiet
  BY <1>15 DEF ScriptCreate, Quiet, TimerMoves, connVars
<1>16. CASE ScriptSendClose \/ \E k \in DOMAIN list : ScriptSendAllClose(k)
  BY <1>16 DEF ScriptSendClose, ScriptSendAllClose, MarkCloseSend, Quiet, TimerMoves
<1>17. CASE ScriptCloseAfterRead \/ UNCHANGED vars
  BY <1>17 DEF ScriptCloseAfterRead, Quiet, TimerMoves, vars, connVars, timerVars
<1> QED BY <1>1, <1>2, <1>3, <1>4, <1>5, <1>6, <1>7, <1>8, <1>9, <1>10, <1>11,
           <1>12, <1>13, <1>14, <1>15, <1>16, <1>17
        DEF Next, Network, CreateStep, Returns, Script

-----------------------------------------------------------------------------
(* No thread slot ever has two connections. *)
LEMMA OneConnStep ==
    PoolInv /\ OneConnPerThread /\ [Next]_vars => OneConnPerThread'
<1> SUFFICES ASSUME PoolInv, OneConnPerThread, [Next]_vars,
                    NEW s \in Slots, s.thread,
                    NEW c \in live', NEW d \in live',
                    name'[c] = s.name, name'[d] = s.name
             PROVE  c = d
  BY DEF OneConnPerThread
<1>0. /\ live \subseteq Conns /\ name \in [Conns -> Names]
      /\ s.name \in ConnNames /\ s.name # NoName
  BY SlotAssumption DEF PoolInv, TypeOK, ConnTypeOK, ConnNames, SlotType
<1>1. CASE Quiet
  BY <1>0, <1>1 DEF Quiet, OneConnPerThread
<1>2. CASE Inserts
  BY <1>0, <1>2 DEF Inserts, InsertConn, OneConnPerThread
<1>3. CASE Deletes
  BY <1>0, <1>3 DEF Deletes, Disconnect, DeleteConn, OneConnPerThread
<1> QED BY <1>1, <1>2, <1>3, StepKinds

THEOREM OneConnPerThreadHolds == Spec => []OneConnPerThread
<1>1. Init => OneConnPerThread
  BY DEF Init, OneConnPerThread
<1> QED BY <1>1, OneConnStep, PoolInvariant, PTL DEF Spec

(* As long as scripts do not start a timer twice, an armed timer belongs   *)
(* to an existing connection that still holds it.                          *)
THEOREM TimersOwnedHolds == ASSUME ~RestartTimers PROVE Spec => []TimersOwned
<1>1. Init => TimersOwned
  BY DEF Init, TimersOwned
<1>2. PoolInv /\ TimersOwned /\ [Next]_vars => TimersOwned'
  <2> SUFFICES ASSUME PoolInv, TimersOwned, [Next]_vars,
                      NEW t \in Timers, ctx'[t] # NoConn
               PROVE  ctx'[t] \in live' /\ timeEv'[ctx'[t]] = t
    BY DEF TimersOwned
  <2>0. /\ live \subseteq Conns
        /\ timeEv \in [Conns -> Timers \cup {NoTimer}]
        /\ ctx \in [Timers -> Conns \cup {NoConn}]
        /\ NoTimer \notin Timers
    BY SlotAssumption DEF PoolInv, TypeOK, ConnTypeOK, TimerTypeOK
  <2>1. CASE Quiet
    <3>1. live' = live
      BY <2>1 DEF Quiet
    <3>2. CASE UNCHANGED timerVars
      BY <3>1, <3>2 DEF timerVars, TimersOwned
    <3>3. ASSUME NEW c \in live, NEW u \in Timers, ArmTimer(c, u),
                 timeEv[c] = NoTimer
          PROVE  ctx'[t] \in live' /\ timeEv'[ctx'[t]] = t
      <4>1. CASE t = u
        BY <2>0, <3>1, <3>3, <4>1 DEF ArmTimer
      <4>2. CASE t # u
        <5>1. ctx'[t] = ctx[t] /\ ctx[t] \in live /\ timeEv[ctx[t]] = t
          BY <2>0, <3>3, <4>2 DEF ArmTimer, TimersOwned
        <5> QED BY <2>0, <3>1, <3>3, <5>1 DEF ArmTimer
      <4> QED BY <4>1, <4>2
    <3>4. ASSUME NEW c \in live, DisarmOwn(c),
                 timeEv' = [timeEv EXCEPT ![c] = NoTimer]
          PROVE  ctx'[t] \in live' /\ timeEv'[ctx'[t]] = t
      BY <2>0, <3>1, <3>4 DEF DisarmOwn, TimersOwned
    <3> QED BY <2>1, <3>2, <3>3, <3>4 DEF Quiet, TimerMoves
  <2>2. CASE Inserts
    <3>1. PICK c \in Conns : /\ c \notin live /\ live' = live \cup {c}
                             /\ timeEv' = [timeEv EXCEPT ![c] = NoTimer]
                             /\ ctx' = ctx
      BY <2>2 DEF Inserts, InsertConn
    <3> QED BY <2>0, <3>1 DEF TimersOwned
  <2>3. CASE Deletes
    <3>1. PICK c \in live : /\ live' = live \ {c} /\ DisarmOwn(c)
                            /\ timeEv' = [timeEv EXCEPT ![c] = NoTimer]
      BY <2>3 DEF Deletes, Disconnect, DeleteConn
    <3> QED BY <2>0, <3>1 DEF DisarmOwn, TimersOwned
  <2> QED BY <2>1, <2>2, <2>3, StepKinds
<1> QED BY <1>1, <1>2, PoolInvariant, PTL DEF Spec

(* The counts that CHECK_OBJS reports agree with the list and with the     *)
(* objects that exist.                                                     *)
THEOREM CountsAgreeHolds == Spec => []CountsAgree
<1> DEFINE CountsInv == CountsAgree /\ IsFiniteSet(live)
<1>1. Init => CountsInv
  BY FS_EmptySet DEF Init, CountsAgree
<1>2. PoolInv /\ PoolInv' /\ CountsInv /\ [Next]_vars => CountsInv'
  <2> SUFFICES ASSUME PoolInv, PoolInv', CountsInv, [Next]_vars PROVE CountsInv'
    OBVIOUS
  <2>0. /\ list \in Seq(Conns) /\ Len(list) \in Nat /\ IsFiniteSet(live)
        /\ live' = {list'[i] : i \in DOMAIN list'}
    BY LenProperties DEF PoolInv, TypeOK, ConnTypeOK, ListOK
  <2>1. CASE Quiet
    BY <2>1 DEF Quiet, CountsAgree
  <2>2. CASE Inserts
    <3>1. PICK c \in Conns : /\ c \notin live /\ live' = live \cup {c}
                             /\ list' = <<c>> \o list
                             /\ connNum' = connNum + 1 /\ objNum' = objNum + 1
      BY <2>2 DEF Inserts, InsertConn
    <3>2. Len(list') = Len(list) + 1
      BY <2>0, <3>1
    <3>3. IsFiniteSet(live') /\ Cardinality(live') = Cardinality(live) + 1
      <4>1. /\ IsFiniteSet(live \cup {c})
            /\ Cardinality(live \cup {c}) = Cardinality(live) + 1
        BY <2>0, <3>1, FS_AddElement
      <4> QED BY <3>1, <4>1
    <3>4. connNum = Len(list) /\ connNum = Cardinality(live) /\ objNum = connNum + 3
      BY DEF CountsAgree
    <3>5. /\ connNum' = Len(list') /\ connNum' = Cardinality(live')
          /\ objNum' = connNum' + 3
      <4>1. connNum' = connNum + 1 /\ objNum' = objNum + 1 /\ Len(list) \in Nat
        BY <2>0, <3>1
      <4> QED BY <4>1, <3>2, <3>3, <3>4
    <3> QED BY <2>0, <3>3, <3>5 DEF CountsAgree
  <2>3. CASE Deletes
    <3>1. PICK c \in live : DeleteConn(c)
      BY <2>3 DEF Deletes, Disconnect
    <3>2. Len(list') = Len(list) - 1
      BY <3>1, DeleteKeeps DEF PoolInv, TypeOK
    <3>3. IsFiniteSet(live') /\ Cardinality(live') = Cardinality(live) - 1
      BY <2>0, <3>1, FS_RemoveElement DEF DeleteConn
    <3>4. connNum' = connNum - 1 /\ objNum' = objNum - 1
      BY <3>1 DEF DeleteConn
    <3>5. connNum = Len(list) /\ connNum = Cardinality(live) /\ objNum = connNum + 3
      BY DEF CountsAgree
    <3>6. /\ connNum' = Len(list') /\ connNum' = Cardinality(live')
          /\ objNum' = connNum' + 3
      BY <2>0, <3>2, <3>3, <3>4, <3>5
    <3> QED BY <2>0, <3>3, <3>6 DEF CountsAgree
  <2> QED BY <2>1, <2>2, <2>3, StepKinds
<1>3. CountsInv => CountsAgree
  OBVIOUS
<1> QED BY <1>1, <1>2, <1>3, PoolInvariant, PTL DEF Spec

(* Only its own event callback deletes a connection that is not up yet. *)
THEOREM ConnectingLeavesByEventHolds == Spec => ConnectingLeavesByEvent
<1>1. PoolInv /\ [Next]_vars =>
        [\A c \in live : ~isAct[c] /\ c \notin live' => cb = "event" /\ cur = c]_vars
  BY StepKinds DEF Quiet, Inserts, InsertConn, Deletes, Disconnect, DeleteConn
<1> QED BY <1>1, PoolInvariant, PTL DEF Spec, ConnectingLeavesByEvent

-----------------------------------------------------------------------------
(* Upstream *)

(* The queue, its slot and the running scripts keep to their types. *)
QueueTypes ==
    /\ queue \in Seq(Q!Req) /\ wire \in Seq(Q!Req)
    /\ slot \in [state : Q!SlotStates, req : Q!Req \cup {Q!None}]
    /\ stack \in Seq(Q!Frame)
    /\ made \in Nat

(* What started the outermost script: an event of the upstream's           *)
(* connection while one is being handled, else the CHK_QUEUE_TIMEOUT of    *)
(* another connection's script.                                            *)
OuterOK ==
    /\ AtHub => stack # <<>> /\ stack[1].kind = IF cb = "event" THEN "error" ELSE "script"
    /\ ~AtHub /\ stack # <<>> => stack[1].kind = "timeout"
    /\ cb \in {"idle", "limit"} => stack = <<>>

UpInv == PoolInv /\ OneConnPerThread /\ QueueTypes /\ OuterOK /\ QueueHasConn

-----------------------------------------------------------------------------
(* The pool: every step of Upstream is one of the pool, or none. *)
LEMMA StepOfPool == PoolInv /\ [UpNext]_upVars => [Next]_vars
<1> SUFFICES ASSUME PoolInv, [UpNext]_upVars PROVE [Next]_vars
  OBVIOUS
<1>0. /\ live \subseteq Conns /\ UpName \in Names
      /\ live = {list[i] : i \in DOMAIN list} /\ list \in Seq(Conns)
      /\ cb \notin {"idle", "limit"} => cur \in live
  BY UpstreamAssumption DEF PoolInv, TypeOK, ConnTypeOK, ListOK, CursorOK, Names, ConnNames
<1>1. CASE PoolAlone \/ OtherReturns
  BY <1>1 DEF PoolAlone, OtherReturns, Next, Network
<1>2. CASE CreateAlone
  BY <1>2 DEF CreateAlone, Next
<1>3. CASE PoolScript
  <2>1. CASE ScriptCloseAfterRead
    BY <2>1 DEF Next, Script
  <2>2. CASE ScriptSendAllClose(Len(list))
    <3>1. cur \in live
      BY <1>0, <2>2 DEF ScriptSendAllClose, InScript
    <3>2. PICK i \in DOMAIN list : cur = list[i]
      BY <1>0, <3>1
    <3>3. Len(list) \in DOMAIN list
      BY <1>0, <3>2, LenProperties
    <3> QED BY <2>2, <3>3 DEF Next, Script
  <2> QED BY <1>3, <2>1, <2>2 DEF PoolScript
<1>4. CASE StartTimer
  BY <1>0, <1>4 DEF StartTimer, Next, Script
<1>5. CASE HubConnected
  BY <1>0, <1>5 DEF HubConnected, Connected, Next, Network
<1>6. CASE HubError \/ HubRead \/ HubDrained
  BY <1>0, <1>6 DEF HubError, HubRead, HubDrained, ConnError, Read, Drained, Next, Network
<1>7. CASE HubTime
  BY <1>7 DEF HubTime, Next
<1>8. CASE HubReturns
  BY <1>8 DEF HubReturns, Next, Returns
<1>9. CASE CancleHub
  BY <1>0, <1>9 DEF CancleHub, Next, Script
<1>10. CASE CheckTimeout \/ QueueSend \/ Ract \/ RactGoesOn \/ TimeoutEnds
            \/ ClientStep \/ NoAnswer
  BY <1>10 DEF CheckTimeout, QueueSend, Ract, RactGoesOn, TimeoutEnds, ClientStep, NoAnswer
<1>11. CASE UNCHANGED upVars
  BY <1>11 DEF upVars
<1> QED BY <1>1, <1>2, <1>3, <1>4, <1>5, <1>6, <1>7, <1>8, <1>9, <1>10, <1>11 DEF UpNext

(* So what is proved of the pool holds of it inside Upstream. *)
THEOREM UpstreamImplementsPool == UpSpec => Spec
<1>1. UpInit => Init
  BY DEF UpInit
<1>2. PoolInv /\ [Next]_vars => PoolInv'
  BY PoolInvStep
<1>3. Init => PoolInv
  BY InitPoolInv
<1> QED BY <1>1, <1>2, <1>3, StepOfPool, PTL DEF UpSpec, Spec

-----------------------------------------------------------------------------
(* The upstream's connection is the object of the pool with its name, and  *)
(* there is only one.                                                      *)
HubFacts ==
    /\ Hub = NoConn \/ (Hub \in live /\ name[Hub] = UpName)
    /\ Hub = NoConn <=> \A c \in live : name[c] # UpName

LEMMA HubIs == PoolInv => HubFacts
<1> SUFFICES ASSUME PoolInv PROVE HubFacts
  OBVIOUS
<1>1. NoConn \notin Conns /\ live \subseteq Conns
  BY SlotAssumption DEF PoolInv, TypeOK, ConnTypeOK
<1>2. ConnTypeOK /\ live = {list[i] : i \in DOMAIN list}
  BY DEF PoolInv, TypeOK, ListOK
<1>3. PICK S : S = {c \in Conns : name[c] = UpName /\ (TRUE \/ isAct[c])}
  OBVIOUS
<1>4. Hub = FirstOf(S)
  BY <1>3 DEF Hub, FindByName
<1>5. \/ Hub \in S /\ Hub \in Conns /\ \E i \in DOMAIN list : Hub = list[i]
      \/ Hub = NoConn /\ \A i \in DOMAIN list : list[i] \notin S
  BY <1>2, <1>4, FirstOfFinds
<1>6. CASE Hub \in S /\ \E i \in DOMAIN list : Hub = list[i]
  BY <1>1, <1>2, <1>3, <1>6 DEF HubFacts
<1>7. CASE Hub = NoConn /\ \A i \in DOMAIN list : list[i] \notin S
  BY <1>1, <1>2, <1>3, <1>7 DEF HubFacts
<1> QED BY <1>5, <1>6, <1>7

LEMMA HubIsNext == PoolInv' => HubFacts'
BY HubIs, PTL

LEMMA HubOnly ==
    ASSUME PoolInv, OneConnPerThread, NEW c \in live, name[c] = UpName
    PROVE  c = Hub
<1>1. \A d \in live : name[d] = UpName => c = d
  BY UpstreamAssumption DEF OneConnPerThread
<1> QED BY <1>1, HubIs DEF HubFacts

(* Is it up? *)
HubUp == \E c \in live : name[c] = UpName /\ isAct[c]
SameHub == Hub' = Hub /\ (HubUp' <=> HubUp)
NoHub == Hub = NoConn /\ ~HubUp

(* Whether a step of the pool is about the upstream's connection: not if   *)
(* it leaves the objects alone, inserts or deletes another.                *)
LEMMA HubStays ==
    ASSUME PoolInv, PoolInv', OneConnPerThread,
           \A c : c \in live' /\ name'[c] = UpName <=> c \in live /\ name[c] = UpName,
           \A c \in live : name[c] = UpName => (isAct'[c] <=> isAct[c])
    PROVE  SameHub
<1>1. HubFacts /\ HubFacts'
  BY HubIs, HubIsNext
<1>2. \A c \in live : name[c] = UpName => c = Hub
  BY HubOnly
<1>3. Hub' = Hub
  BY <1>1, <1>2 DEF HubFacts
<1> QED BY <1>3 DEF SameHub, HubUp

LEMMA Untouched ==
    ASSUME PoolInv, PoolInv', OneConnPerThread, UNCHANGED <<live, name, isAct>>
    PROVE  SameHub
BY HubStays

LEMMA OtherInserted ==
    ASSUME PoolInv, PoolInv', OneConnPerThread,
           NEW c \in Conns, NEW n \in Names, NEW node, NEW act, NEW out,
           InsertConn(c, n, node, act, out), n # UpName
    PROVE  SameHub
<1>1. /\ live \subseteq Conns /\ name \in [Conns -> Names] /\ isAct \in [Conns -> BOOLEAN]
      /\ c \notin live /\ live' = live \cup {c}
      /\ name' = [name EXCEPT ![c] = n] /\ isAct' = [isAct EXCEPT ![c] = act]
  BY DEF PoolInv, TypeOK, ConnTypeOK, InsertConn
<1> QED BY <1>1, HubStays

LEMMA OtherDeleted ==
    ASSUME PoolInv, PoolInv', OneConnPerThread, NEW c \in live, c # Hub, Disconnect(c)
    PROVE  SameHub
<1>1. /\ live \subseteq Conns /\ name \in [Conns -> Names] /\ isAct \in [Conns -> BOOLEAN]
      /\ live' = live \ {c}
      /\ name' = [name EXCEPT ![c] = NoName] /\ isAct' = [isAct EXCEPT ![c] = FALSE]
  BY DEF PoolInv, TypeOK, ConnTypeOK, Disconnect, DeleteConn
<1>2. name[c] # UpName
  BY HubOnly
<1> QED BY <1>1, <1>2, HubStays

LEMMA HubDeleted ==
    ASSUME PoolInv, PoolInv', OneConnPerThread, Hub \in live, Disconnect(Hub)
    PROVE  NoHub'
<1>1. PICK h : h = Hub
  OBVIOUS
<1>2. /\ live \subseteq Conns /\ name \in [Conns -> Names]
      /\ live' = live \ {h} /\ name' = [name EXCEPT ![h] = NoName]
  BY <1>1 DEF PoolInv, TypeOK, ConnTypeOK, Disconnect, DeleteConn
<1>3. \A c \in live : name[c] = UpName => c = h
  BY <1>1, HubOnly
<1>4. \A c \in live' : name'[c] # UpName
  BY <1>2, <1>3
<1> QED BY <1>4, HubIsNext DEF HubFacts, NoHub, HubUp

LEMMA HubInserted ==
    ASSUME PoolInv, PoolInv', Hub = NoConn,
           NEW c \in Conns, NEW node, NEW out, InsertConn(c, UpName, node, FALSE, out)
    PROVE  Hub' = c /\ ~HubUp'
<1>1. /\ live \subseteq Conns /\ name \in [Conns -> Names] /\ isAct \in [Conns -> BOOLEAN]
      /\ live' = live \cup {c}
      /\ name' = [name EXCEPT ![c] = UpName] /\ isAct' = [isAct EXCEPT ![c] = FALSE]
  BY DEF PoolInv, TypeOK, ConnTypeOK, InsertConn
<1>2. \A d \in live : name[d] # UpName
  BY HubIs DEF HubFacts
<1>3. HubFacts'
  BY HubIsNext
<1> QED BY <1>1, <1>2, <1>3 DEF HubFacts, HubUp

-----------------------------------------------------------------------------
(* The queue: what its steps do to the stack of scripts. *)
LEMMA Pushed ==
    ASSUME NEW S, NEW s \in Seq(S), NEW f \in S, NEW t, t = Append(s, f)
    PROVE  /\ t \in Seq(S) /\ t # <<>>
           /\ s = <<>> => t[1] = f
           /\ s # <<>> => t[1] = s[1]
OBVIOUS

LEMMA Front ==
    ASSUME NEW S, NEW s \in Seq(S), s # <<>>
    PROVE  /\ SubSeq(s, 1, Len(s) - 1) \in Seq(S) /\ s[Len(s)] \in S
           /\ Len(SubSeq(s, 1, Len(s) - 1)) = Len(s) - 1 /\ Len(s) \in Nat \ {0}
           /\ \A i \in 1 .. Len(s) - 1 : SubSeq(s, 1, Len(s) - 1)[i] = s[i]
<1> DEFINE n == Len(s) - 1
           t == SubSeq(s, 1, n)
<1>1. n \in Nat /\ Len(s) \in Nat \ {0} /\ s[Len(s)] \in S /\ \A i \in 1 .. n : s[i] \in S
  OBVIOUS
<1>2. /\ t \in Seq(S)
      /\ Len(t) = IF 1 <= n THEN n - 1 + 1 ELSE 0
      /\ \A i \in 1 .. n - 1 + 1 : t[i] = s[1 + i - 1]
  <2> HIDE DEF n
  <2> QED BY <1>1, SubSeqProperties
<1> HIDE DEF n, t
<1>3. t \in Seq(S) /\ Len(t) = n /\ \A i \in 1 .. n : t[i] = s[i]
  BY <1>1, <1>2
<1> QED BY <1>1, <1>3 DEF n, t

LEMMA Replaced ==
    ASSUME NEW S, NEW s \in Seq(S), s # <<>>, NEW g \in S,
           NEW t, t = Append(SubSeq(s, 1, Len(s) - 1), g)
    PROVE  /\ t \in Seq(S) /\ Len(t) = Len(s) /\ t # <<>>
           /\ IF Len(s) = 1 THEN t[1] = g ELSE t[1] = s[1]
<1>1. PICK u : u = SubSeq(s, 1, Len(s) - 1)
  OBVIOUS
<1>2. /\ u \in Seq(S) /\ Len(u) = Len(s) - 1 /\ Len(s) \in Nat \ {0}
      /\ \A i \in 1 .. Len(s) - 1 : u[i] = s[i]
  BY ONLY <1>1, s \in Seq(S), s # <<>>, Front
<1>3. t = Append(u, g)
  BY <1>1
<1> QED BY ONLY <1>2, <1>3, g \in S

LEMMA Over ==
    ASSUME NEW S, NEW s \in Seq(S), s # <<>>, NEW g \in S, NEW f \in S,
           NEW t, t = SubSeq(s, 1, Len(s) - 1) \o <<g, f>>
    PROVE  /\ t \in Seq(S) /\ t # <<>>
           /\ IF Len(s) = 1 THEN t[1] = g ELSE t[1] = s[1]
<1>1. PICK u : u = SubSeq(s, 1, Len(s) - 1)
  OBVIOUS
<1>2. /\ u \in Seq(S) /\ Len(u) = Len(s) - 1 /\ Len(s) \in Nat \ {0}
      /\ \A i \in 1 .. Len(s) - 1 : u[i] = s[i]
  BY ONLY <1>1, s \in Seq(S), s # <<>>, Front
<1>3. t = u \o <<g, f>>
  BY <1>1
<1>4. PICK v : v = <<g, f>>
  OBVIOUS
<1>5. v \in Seq(S) /\ Len(v) = 2 /\ v[1] = g /\ Len(u) \in Nat
  BY <1>2, <1>4
<1>6. /\ t \in Seq(S) /\ Len(t) = Len(u) + 2
      /\ \A i \in 1 .. Len(u) + Len(v) :
            t[i] = IF i <= Len(u) THEN u[i] ELSE v[i - Len(u)]
  BY ONLY <1>2, <1>3, <1>4, <1>5, ConcatProperties
<1>7. 1 \in 1 .. Len(u) + Len(v) /\ (Len(s) = 1 <=> Len(u) = 0) /\ (Len(s) # 1 <=> 1 <= Len(u))
  BY ONLY <1>2, <1>5
<1>8. t # <<>>
  BY ONLY <1>2, <1>6
<1>9. CASE Len(s) = 1
  <2>1. t[1] = v[1 - Len(u)] /\ Len(u) = 0
    BY ONLY <1>2, <1>6, <1>7, <1>9
  <2> QED BY ONLY <1>5, <1>6, <1>8, <1>9, <2>1
<1>10. CASE Len(s) # 1
  <2>1. t[1] = u[1] /\ 1 \in 1 .. Len(s) - 1
    BY ONLY <1>2, <1>6, <1>7, <1>10
  <2> QED BY ONLY <1>2, <1>6, <1>8, <1>10, <2>1
<1> QED BY <1>9, <1>10

LEMMA ScriptTyped ==
    ASSUME NEW kind \in {"script", "error", "timeout", "ract"}, NEW p \in Q!Package,
           NEW r \in Q!Req \cup {Q!None}
    PROVE  Q!Script(kind, p, r) \in Q!Frame /\ Q!Script(kind, p, r).kind = kind
BY DEF Q!Script, Q!Frame

(* A script starts on the idle upstream; one goes on below which another   *)
(* may have started or ended; the queue is emptied for the next object.    *)
Starts(kind) == stack = <<>> /\ stack' # <<>> /\ stack'[1].kind = kind
GoesOn == stack # <<>> /\ stack' # <<>> /\ stack'[1].kind = stack[1].kind
Emptied == queue = <<>> /\ wire = <<>> /\ slot.state = "CONNECTING"

LEMMA PushTyped ==
    ASSUME QueueTypes, NEW kind \in {"script", "error", "timeout", "ract"},
           NEW p \in Q!Package, NEW r \in Q!Req \cup {Q!None},
           Q!Push(Q!Script(kind, p, r))
    PROVE  /\ stack' \in Seq(Q!Frame)
           /\ IF stack = <<>> THEN Starts(kind) ELSE GoesOn
<1>1. PICK f : f = Q!Script(kind, p, r)
  OBVIOUS
<1>2. f \in Q!Frame /\ f.kind = kind
  BY <1>1, ScriptTyped
<1>3. stack' = Append(stack, f) /\ stack \in Seq(Q!Frame)
  BY <1>1 DEF Q!Push, QueueTypes
<1>4. PICK s, t : s = stack /\ t = stack'
  OBVIOUS
<1>5. /\ t \in Seq(Q!Frame) /\ t # <<>>
      /\ s = <<>> => t[1] = f
      /\ s # <<>> => t[1] = s[1]
  BY ONLY <1>2, <1>3, <1>4, Pushed
<1> QED BY <1>2, <1>4, <1>5 DEF Starts, GoesOn

LEMMA NonePackage == Q!None \in Q!Package /\ Q!None \in Q!Req \cup {Q!None}
BY DEF Q!Package

LEMMA ConnectedStarts ==
    ASSUME QueueTypes, Q!Connected
    PROVE  QueueTypes' /\ Starts("script") /\ up'
<1>1. Q!Push(Q!Script("script", Q!None, Q!None)) /\ stack = <<>>
  BY DEF Q!Connected, Q!Idle
<1>2. stack' \in Seq(Q!Frame) /\ Starts("script")
  BY <1>1, PushTyped, NonePackage
<1> QED BY <1>2 DEF Q!Connected, Q!queueVars, Q!clientVars, QueueTypes

LEMMA TimeTaskStarts ==
    ASSUME QueueTypes, Q!TimeTask
    PROVE  QueueTypes' /\ Starts("script") /\ up' = up
<1>1. Q!Push(Q!Script("script", Q!None, Q!None)) /\ stack = <<>>
  BY DEF Q!TimeTask, Q!Idle
<1>2. stack' \in Seq(Q!Frame) /\ Starts("script")
  BY <1>1, PushTyped, NonePackage
<1> QED BY <1>2 DEF Q!TimeTask, Q!queueVars, Q!clientVars, QueueTypes

LEMMA ErrorStarts ==
    ASSUME QueueTypes, Q!Error
    PROVE  QueueTypes' /\ Starts("error") /\ up' = up
<1>1. Q!Push(Q!Script("error", Q!None, Q!None)) /\ stack = <<>>
  BY DEF Q!Error, Q!Idle
<1>2. stack' \in Seq(Q!Frame) /\ Starts("error")
  BY <1>1, PushTyped, NonePackage
<1> QED BY <1>2 DEF Q!Error, Q!queueVars, Q!clientVars, QueueTypes

LEMMA AnswerStarts ==
    ASSUME QueueTypes, Q!Answer
    PROVE  QueueTypes' /\ Starts("script") /\ up' = up
<1>1. Q!Push(Q!Script("script", Head(wire), Q!None)) /\ stack = <<>>
  BY DEF Q!Answer, Q!Idle
<1>2. Head(wire) \in Q!Req /\ Tail(wire) \in Seq(Q!Req)
  BY DEF Q!Answer, QueueTypes
<1>3. stack' \in Seq(Q!Frame) /\ Starts("script")
  BY <1>1, <1>2, PushTyped, NonePackage DEF Q!Package
<1> QED BY <1>2, <1>3 DEF Q!Answer, Q!clientVars, QueueTypes

LEMMA CheckStarts ==
    ASSUME QueueTypes, Q!CheckTimeout
    PROVE  /\ QueueTypes' /\ up' = up
           /\ IF stack = <<>> THEN Starts("timeout") ELSE GoesOn
<1>1. Q!Push(Q!Script("timeout", Q!None, slot.req)) /\ slot.req \in Q!Req \cup {Q!None}
  BY DEF Q!CheckTimeout, QueueTypes
<1>2. stack' \in Seq(Q!Frame) /\ IF stack = <<>> THEN Starts("timeout") ELSE GoesOn
  BY <1>1, PushTyped, NonePackage
<1> QED BY <1>2 DEF Q!CheckTimeout, Q!queueVars, Q!clientVars, QueueTypes

(* What replaces the top of the stack is of the same kind. *)
LEMMA TopTyped ==
    ASSUME QueueTypes, stack # <<>>
    PROVE  Q!Top \in Q!Frame /\ Q!Top = stack[Len(stack)] /\ Len(stack) \in Nat \ {0}
BY DEF QueueTypes, Q!Top

LEMMA TopReplaced ==
    ASSUME QueueTypes, stack # <<>>, NEW g \in Q!Frame, g.kind = Q!Top.kind,
           \/ stack' = Append(Q!Below, g)
           \/ \E f \in Q!Frame : stack' = Q!Below \o <<g, f>>
    PROVE  stack' \in Seq(Q!Frame) /\ GoesOn
<1>1. PICK s, t, F : s = stack /\ t = stack' /\ F = Q!Frame
  OBVIOUS
<1>2. s \in Seq(F) /\ s # <<>> /\ g.kind = s[Len(s)].kind /\ g \in F
  BY <1>1, TopTyped DEF QueueTypes
<1>3. \/ t = Append(SubSeq(s, 1, Len(s) - 1), g)
      \/ \E f \in F : t = SubSeq(s, 1, Len(s) - 1) \o <<g, f>>
  BY <1>1 DEF Q!Below
<1>4. /\ t \in Seq(F) /\ t # <<>>
      /\ IF Len(s) = 1 THEN t[1] = g ELSE t[1] = s[1]
  <2>1. CASE t = Append(SubSeq(s, 1, Len(s) - 1), g)
    BY ONLY <1>2, <2>1, Replaced
  <2>2. CASE \E f \in F : t = SubSeq(s, 1, Len(s) - 1) \o <<g, f>>
    <3>1. PICK f \in F : t = SubSeq(s, 1, Len(s) - 1) \o <<g, f>>
      BY <2>2
    <3> QED BY ONLY <1>2, <3>1, Over
  <2> QED BY <1>3, <2>1, <2>2
<1>5. t[1].kind = s[1].kind
  BY ONLY <1>2, <1>4
<1> QED BY <1>1, <1>2, <1>4, <1>5 DEF GoesOn

LEMMA TopPopped ==
    ASSUME QueueTypes, stack # <<>>, stack' = Q!Below
    PROVE  /\ stack' \in Seq(Q!Frame)
           /\ IF Len(stack) = 1 THEN stack' = <<>> /\ Q!Top = stack[1] ELSE GoesOn
<1>1. PICK s, t, F : s = stack /\ t = stack' /\ F = Q!Frame
  OBVIOUS
<1>2. s \in Seq(F) /\ s # <<>> /\ t = SubSeq(s, 1, Len(s) - 1)
  BY <1>1 DEF Q!Below, QueueTypes
<1>3. /\ t \in Seq(F) /\ Len(t) = Len(s) - 1 /\ Len(s) \in Nat \ {0}
      /\ \A i \in 1 .. Len(s) - 1 : t[i] = s[i]
  BY ONLY <1>2, Front
<1>4. IF Len(s) = 1 THEN t = <<>> ELSE t # <<>> /\ t[1] = s[1]
  BY ONLY <1>3
<1> QED BY <1>1, <1>2, <1>3, <1>4, TopTyped DEF GoesOn

LEMMA FinishTyped ==
    ASSUME QueueTypes, NEW state \in Q!SlotStates, Q!Finish(state)
    PROVE  slot' \in [state : Q!SlotStates, req : Q!Req \cup {Q!None}]
BY DEF QueueTypes, Q!Finish

(* DO_QUEUE_SEND. *)
LEMMA SendGoesOn ==
    ASSUME QueueTypes, Q!QueueSend
    PROVE  QueueTypes' /\ GoesOn /\ up' = up
<1>1. stack # <<>> /\ queue # <<>>
  BY DEF Q!QueueSend, Q!InScript, Q!Running, Q!Idle
<1>2. Q!Top \in Q!Frame
  BY <1>1, TopTyped
<1>3. PICK g : g = [Q!Top EXCEPT !.sent = (Q!Top.kind = "timeout")]
  OBVIOUS
<1>4. g \in Q!Frame /\ g.kind = Q!Top.kind
  BY <1>2, <1>3 DEF Q!Frame
<1>5. stack' = Append(Q!Below, g)
  BY <1>3 DEF Q!QueueSend
<1>6. stack' \in Seq(Q!Frame) /\ GoesOn
  BY <1>1, <1>4, <1>5, TopReplaced
<1>7. Head(queue) \in Q!Req /\ Tail(queue) \in Seq(Q!Req)
  BY <1>1 DEF QueueTypes
<1>8. /\ queue' \in Seq(Q!Req) /\ wire' \in Seq(Q!Req)
      /\ slot' \in [state : Q!SlotStates, req : Q!Req \cup {Q!None}]
  <2>1. CASE Q!WriteOk(queue)
    <3>1. queue' = Tail(queue) /\ wire' = Append(wire, Head(queue)) /\ wire \in Seq(Q!Req)
          /\ slot' = [state |-> "SENDED", req |-> Head(queue)]
      BY <2>1 DEF Q!WriteOk, QueueTypes
    <3> QED BY <1>7, <3>1 DEF Q!SlotStates
  <2>2. CASE Q!WriteFails(queue)
    <3>1. queue' = Tail(queue) /\ wire' = wire /\ wire \in Seq(Q!Req)
          /\ slot' = [state |-> "CANCLED", req |-> Head(queue)]
      BY <2>2 DEF Q!WriteFails, QueueTypes
    <3> QED BY <1>7, <3>1 DEF Q!SlotStates
  <2> QED BY <2>1, <2>2 DEF Q!QueueSend
<1> QED BY <1>6, <1>8 DEF Q!QueueSend, Q!clientVars, QueueTypes

(* DO_QUEUE_RACT. *)
LEMMA RactGoes ==
    ASSUME QueueTypes, NEW pkg \in Q!Package, Q!Ract(pkg, "RECEIVED", FALSE)
    PROVE  QueueTypes' /\ GoesOn /\ up' = up
<1> DEFINE hit == slot.state = "SENDED" /\ Q!SrcFound(slot.req) /\ pkg # Q!Empty
           h == IF hit THEN slot.req ELSE Q!None
<1>1. stack # <<>>
  BY DEF Q!Ract, Q!InScript, Q!Running, Q!Idle
<1>2. Q!Top \in Q!Frame /\ h \in Q!Req \cup {Q!None}
  BY <1>1, TopTyped DEF QueueTypes
<1>3. PICK g, f : /\ g = [Q!Top EXCEPT !.acted = TRUE]
                  /\ f = [Q!Script("ract", pkg, h) EXCEPT !.final = "RECEIVED", !.all = FALSE]
  OBVIOUS
<1>4. stack' = Q!Below \o <<g, f>>
  BY <1>3 DEF Q!Ract
<1>5. slot' = slot \/ Q!Finish("RECEIVED")
  BY DEF Q!Ract
<1> HIDE DEF h, hit
<1>6. g \in Q!Frame /\ g.kind = Q!Top.kind
  BY <1>2, <1>3 DEF Q!Frame
<1>7. Q!Script("ract", pkg, h) \in Q!Frame
  BY <1>2, ScriptTyped
<1>8. f \in Q!Frame
  BY <1>3, <1>7 DEF Q!Frame
<1>9. stack' \in Seq(Q!Frame) /\ GoesOn
  BY <1>1, <1>4, <1>6, <1>8, TopReplaced
<1>10. slot' \in [state : Q!SlotStates, req : Q!Req \cup {Q!None}]
  BY <1>5, FinishTyped DEF QueueTypes, Q!SlotStates
<1> QED BY <1>9, <1>10 DEF Q!Ract, Q!clientVars, QueueTypes

LEMMA RactReturnGoes ==
    ASSUME QueueTypes, Q!RactReturn
    PROVE  QueueTypes' /\ GoesOn /\ up' = up
<1>1. stack # <<>>
  BY DEF Q!RactReturn, Q!Running, Q!Idle
<1>2. Q!Top \in Q!Frame
  BY <1>1, TopTyped
<1>3. PICK g : g = [Q!Top EXCEPT !.req = Q!None]
  OBVIOUS
<1>4. g \in Q!Frame /\ g.kind = Q!Top.kind /\ Q!Top.final \in Q!SlotStates
  BY <1>2, <1>3 DEF Q!Frame, Q!SlotStates
<1>5. stack' = Append(Q!Below, g)
  BY <1>3 DEF Q!RactReturn
<1>6. stack' \in Seq(Q!Frame) /\ GoesOn
  BY <1>1, <1>4, <1>5, TopReplaced
<1>7. slot' \in [state : Q!SlotStates, req : Q!Req \cup {Q!None}]
  BY <1>4, FinishTyped DEF Q!RactReturn
<1> QED BY <1>6, <1>7 DEF Q!RactReturn, Q!clientVars, QueueTypes

LEMMA RactEndGoes ==
    ASSUME QueueTypes, Q!RactEnd, stack[1].kind # "ract"
    PROVE  QueueTypes' /\ GoesOn /\ up' = up
<1>1. stack # <<>> /\ Q!Top.kind = "ract"
  BY DEF Q!RactEnd, Q!Running, Q!Idle
<1>2. stack' = Q!Below
  BY DEF Q!RactEnd
<1>3. stack' \in Seq(Q!Frame) /\ GoesOn
  BY <1>1, <1>2, TopPopped
<1>4. slot' \in [state : Q!SlotStates, req : Q!Req \cup {Q!None}]
  <2>1. slot' = [state |-> "CANCLED", req |-> Q!None] \/ slot' = slot
    BY DEF Q!RactEnd
  <2> QED BY <2>1 DEF QueueTypes, Q!SlotStates
<1> QED BY <1>3, <1>4 DEF Q!RactEnd, Q!clientVars, QueueTypes

(* conn_disconnect of the upstream. *)
LEMMA DiscardEmpties ==
    ASSUME QueueTypes, Q!Discard, made' = made, stack' \in Seq(Q!Frame)
    PROVE  QueueTypes' /\ ~up' /\ Emptied'
<1>1. /\ queue' = <<>> /\ wire' = <<>> /\ ~up'
      /\ slot' = [state |-> "CONNECTING", req |-> Q!None]
  BY DEF Q!Discard
<1> QED BY <1>1 DEF QueueTypes, Emptied, Q!SlotStates

(* The end of an upstream's script: the innermost.  The connection is      *)
(* affected by the end of _CONN_ERR only.                                  *)
LEMMA EndGoes ==
    ASSUME QueueTypes, Q!EndScript
    PROVE  /\ QueueTypes' /\ stack # <<>>
           /\ IF Len(stack) = 1 THEN stack' = <<>> /\ Q!Top = stack[1] ELSE GoesOn
           /\ IF Q!Top.kind = "error" THEN ~up' /\ Emptied' ELSE up' = up
<1>1. stack # <<>> /\ stack' = Q!Below /\ made' = made
  BY DEF Q!EndScript, Q!InScript, Q!Running, Q!Idle, Q!clientVars
<1>2. /\ stack' \in Seq(Q!Frame)
      /\ IF Len(stack) = 1 THEN stack' = <<>> /\ Q!Top = stack[1] ELSE GoesOn
  BY <1>1, TopPopped
<1>3. CASE Q!Top.kind = "script" /\ UNCHANGED <<Q!queueVars, up>>
  BY <1>1, <1>2, <1>3 DEF QueueTypes, Q!queueVars
<1>4. CASE /\ Q!Top.kind = "timeout" /\ Q!Finish("CANCLED")
           /\ UNCHANGED <<queue, wire, written, up>>
  <2>1. slot' \in [state : Q!SlotStates, req : Q!Req \cup {Q!None}]
    BY <1>4, FinishTyped DEF Q!SlotStates
  <2> QED BY <1>1, <1>2, <1>4, <2>1 DEF QueueTypes
<1>5. CASE Q!Top.kind = "error" /\ Q!Discard
  BY <1>1, <1>2, <1>5, DiscardEmpties
<1> QED BY <1>3, <1>4, <1>5 DEF Q!EndScript

LEMMA ClosedEmpties ==
    ASSUME QueueTypes, Q!Closed
    PROVE  QueueTypes' /\ ~up' /\ Emptied' /\ stack' = <<>>
<1>1. Q!Discard /\ made' = made /\ stack' = <<>>
  BY DEF Q!Closed, Q!clientVars
<1> QED BY <1>1, DiscardEmpties

(* The clients, and the silence of the peer. *)
LEMMA ClientTyped ==
    ASSUME QueueTypes, NEW c \in Clients, NEW now \in BOOLEAN,
           Q!Connect(c) \/ Q!SendMsg(c, now) \/ Q!NoAnswer
    PROVE  QueueTypes' /\ stack' = stack /\ up' = up
<1>1. CASE Q!Connect(c)
  BY <1>1 DEF Q!Connect, Q!queueVars, QueueTypes
<1>2. CASE Q!NoAnswer
  <2>1. Tail(wire) \in Seq(Q!Req)
    BY <1>2 DEF Q!NoAnswer, QueueTypes
  <2> QED BY <1>2, <2>1 DEF Q!NoAnswer, Q!clientVars, QueueTypes
<1>3. CASE Q!SendMsg(c, now)
  <2>1. PICK q : q = Append(queue, made + 1)
    OBVIOUS
  <2>2. /\ made + 1 \in Q!Req /\ made' = made + 1 /\ made' \in Nat
        /\ stack' = stack /\ up' = up
    BY <1>3, UpstreamAssumption DEF Q!SendMsg, QueueTypes, Q!Req
  <2>3. q \in Seq(Q!Req) /\ q # <<>>
    BY <2>1, <2>2 DEF QueueTypes
  <2>4. Head(q) \in Q!Req /\ Tail(q) \in Seq(Q!Req)
    BY ONLY <2>3
  <2>5. \/ queue' = q /\ UNCHANGED <<slot, wire>>
        \/ Q!WriteOk(q) \/ Q!Refuse(q) \/ Q!WriteFails(q)
    BY <1>3, <2>1 DEF Q!SendMsg, Q!PushItem
  <2>6. CASE queue' = q /\ UNCHANGED <<slot, wire>>
    BY <2>2, <2>3, <2>6 DEF QueueTypes
  <2>7. CASE Q!Refuse(q)
    BY <2>2, <2>3, <2>7 DEF QueueTypes, Q!Refuse
  <2>8. CASE Q!WriteFails(q)
    <3>1. queue' = Tail(q) /\ wire' = wire /\ slot' = [state |-> "CANCLED", req |-> Head(q)]
      BY <2>8 DEF Q!WriteFails
    <3> QED BY <2>2, <2>4, <3>1 DEF QueueTypes, Q!SlotStates
  <2>9. CASE Q!WriteOk(q)
    <3>1. /\ queue' = Tail(q) /\ wire' = Append(wire, Head(q))
          /\ slot' = [state |-> "SENDED", req |-> Head(q)]
      BY <2>9 DEF Q!WriteOk
    <3>2. wire' \in Seq(Q!Req)
      BY <2>4, <3>1 DEF QueueTypes
    <3> QED BY <2>2, <2>4, <3>1, <3>2 DEF QueueTypes, Q!SlotStates
  <2> QED BY <2>5, <2>6, <2>7, <2>8, <2>9
<1> QED BY <1>1, <1>2, <1>3

-----------------------------------------------------------------------------
(* Together *)
LEMMA QueueHasConnIs ==
    QueueHasConn <=> /\ stack # <<>> => Hub # NoConn
                     /\ up <=> HubUp
                     /\ Hub = NoConn => Emptied
BY DEF QueueHasConn, HubUp, Emptied

LEMMA QueueHasConnNext ==
    QueueHasConn' <=> /\ stack' # <<>> => Hub' # NoConn
                      /\ up' <=> HubUp'
                      /\ Hub' = NoConn => Emptied'
BY DEF QueueHasConn, HubUp, Emptied

LEMMA OuterNext ==
    OuterOK' <=>
      /\ cur' # NoConn /\ cur' = Hub' =>
           stack' # <<>> /\ stack'[1].kind = IF cb' = "event" THEN "error" ELSE "script"
      /\ ~(cur' # NoConn /\ cur' = Hub') /\ stack' # <<>> => stack'[1].kind = "timeout"
      /\ cb' \in {"idle", "limit"} => stack' = <<>>
BY DEF OuterOK, AtHub

(* A step in which the pool lets the upstream's connection be, and its     *)
(* scripts, if any run, go on.                                             *)
LEMMA GoingOnKeeps ==
    ASSUME OuterOK, QueueHasConn, SameHub, UNCHANGED <<cb, cur, up>>,
           stack' = stack \/ GoesOn,
           Hub # NoConn \/ UNCHANGED <<queue, wire, slot>>
    PROVE  OuterOK' /\ QueueHasConn'
<1>1. OuterOK'
  BY OuterNext DEF OuterOK, AtHub, SameHub, GoesOn
<1>2. QueueHasConn'
  BY QueueHasConnIs, QueueHasConnNext DEF SameHub, GoesOn, Emptied
<1> QED BY <1>1, <1>2

LEMMA UntouchedKeeps ==
    ASSUME PoolInv, PoolInv', OneConnPerThread, OuterOK, QueueHasConn,
           UNCHANGED <<live, name, isAct, cb, cur, up>>,
           stack' = stack \/ GoesOn,
           Hub # NoConn \/ UNCHANGED <<queue, wire, slot>>
    PROVE  OuterOK' /\ QueueHasConn'
BY Untouched, GoingOnKeeps

LEMMA QueueSame ==
    ASSUME QueueTypes, UNCHANGED queueVars
    PROVE  QueueTypes' /\ UNCHANGED <<queue, wire, slot, stack, up, made>>
BY DEF QueueTypes, queueVars

(* The facts that every step may use. *)
LEMMA Known ==
    ASSUME PoolInv
    PROVE  /\ NoConn \notin Conns /\ live \subseteq Conns
           /\ cur = NoConn \/ cur \in live
           /\ cb \in {"idle", "limit"} <=> cur = NoConn
           /\ NoName # UpName /\ UpName \in Names
           /\ \A s \in Slots : s.name = UpName /\ s.thread
           /\ HubFacts
BY SlotAssumption, UpstreamAssumption, HubIs
   DEF PoolInv, TypeOK, ConnTypeOK, CursorOK, Names, ConnNames

(* Steps of the pool that do not concern the queue. *)
LEMMA PoolAloneKeeps ==
    ASSUME UpInv, PoolInv', PoolAlone
    PROVE  QueueTypes' /\ OuterOK' /\ QueueHasConn'
<1> USE DEF UpInv
<1>0. /\ QueueTypes' /\ UNCHANGED <<queue, wire, slot, stack, up>> /\ stack = <<>>
  BY QueueSame DEF PoolAlone
<1>1. ASSUME NEW c \in Conns, Accept(c) PROVE OuterOK' /\ QueueHasConn'
  <2>1. InsertConn(c, NoName, NoName, TRUE, FALSE) /\ UNCHANGED <<cb, cur>>
    BY <1>1 DEF Accept, loopVars
  <2>2. NoName \in Names /\ NoName # UpName
    BY Known DEF Names
  <2>3. SameHub
    BY <2>1, <2>2, OtherInserted
  <2> QED BY <1>0, <2>1, <2>3, GoingOnKeeps
<1>2. ASSUME NEW c \in Conns, c # Hub, ConnError(c) PROVE OuterOK' /\ QueueHasConn'
  <2>1. UNCHANGED <<live, name, isAct>> /\ cb' = "event" /\ cur' = c
    BY <1>2 DEF ConnError, Enter, connVars
  <2>2. SameHub
    BY <2>1, Untouched
  <2>3. OuterOK'
    BY <1>0, <1>2, <2>1, <2>2, OuterNext DEF SameHub
  <2>4. QueueHasConn'
    BY <1>0, <2>2, QueueHasConnIs, QueueHasConnNext DEF SameHub, Emptied
  <2> QED BY <2>3, <2>4
<1>3. ASSUME NEW c \in Conns, c # Hub, Drained(c) PROVE OuterOK' /\ QueueHasConn'
  <2>1. Disconnect(c) /\ c \in live /\ UNCHANGED <<cb, cur>>
    BY <1>3 DEF Drained, loopVars
  <2>2. SameHub
    BY <1>3, <2>1, OtherDeleted
  <2> QED BY <1>0, <2>1, <2>2, GoingOnKeeps
<1>4. ASSUME LimitTick PROVE OuterOK' /\ QueueHasConn'
  <2>1. UNCHANGED <<live, name, isAct>> /\ cb' = "limit" /\ cur' = cur /\ cur = NoConn
    BY <1>4, Known DEF LimitTick, connVars, Idle
  <2>2. SameHub
    BY <2>1, Untouched
  <2>3. OuterOK'
    BY <1>0, <2>1, OuterNext
  <2>4. QueueHasConn'
    BY <1>0, <2>2, QueueHasConnIs, QueueHasConnNext DEF SameHub, Emptied
  <2> QED BY <2>3, <2>4
<1> QED BY <1>0, <1>1, <1>2, <1>3, <1>4 DEF PoolAlone

LEMMA OtherReturnsKeeps ==
    ASSUME UpInv, PoolInv', OtherReturns
    PROVE  QueueTypes' /\ OuterOK' /\ QueueHasConn'
<1> USE DEF UpInv
<1>0. /\ QueueTypes' /\ UNCHANGED <<queue, wire, slot, stack, up>> /\ stack = <<>>
      /\ ~AtHub /\ Returns
  BY QueueSame DEF OtherReturns
<1>1. SameHub /\ cur' = NoConn
  <2>1. CASE EndError
    <3>1. Disconnect(cur) /\ cur' = NoConn /\ cur \in live /\ cur # Hub
      BY <1>0, <2>1, Known DEF EndError, Leave, AtHub
    <3> QED BY <3>1, OtherDeleted
  <2>2. CASE EndRead
    <3>1. cur' = NoConn /\ cur \in live /\ cur # Hub
      BY <1>0, <2>2, Known DEF EndRead, Leave, AtHub
    <3>2. Disconnect(cur) \/ UNCHANGED <<live, name, isAct>>
      BY <2>2 DEF EndRead, connVars
    <3> QED BY <3>1, <3>2, OtherDeleted, Untouched
  <2>3. CASE EndScript \/ EndLimit
    <3>1. cur' = NoConn /\ UNCHANGED <<live, name, isAct>>
      BY <2>3 DEF EndScript, EndLimit, Leave, connVars
    <3> QED BY <3>1, Untouched
  <2> QED BY <1>0, <2>1, <2>2, <2>3 DEF Returns
<1>2. OuterOK'
  BY <1>0, <1>1, OuterNext
<1>3. QueueHasConn'
  BY <1>0, <1>1, QueueHasConnIs, QueueHasConnNext DEF SameHub, Emptied
<1> QED BY <1>0, <1>2, <1>3

(* The creation dials the upstream only when there is no connection of its *)
(* name, and then the queue is that of a new object.                       *)
LEMMA CreateAloneKeeps ==
    ASSUME UpInv, PoolInv', CreateAlone
    PROVE  QueueTypes' /\ OuterOK' /\ QueueHasConn'
<1> USE DEF UpInv
<1>0. QueueTypes' /\ UNCHANGED <<queue, wire, slot, stack, up>> /\ CreateStep
  BY QueueSame DEF CreateAlone
<1>1. ASSUME NEW s \in Slots, CreateSkip(s) \/ CreateFail(s) PROVE OuterOK' /\ QueueHasConn'
  <2>1. UNCHANGED <<live, name, isAct, cb, cur>>
    BY <1>1 DEF CreateSkip, CreateFail, connVars
  <2> QED BY <1>0, <2>1, UntouchedKeeps
<1>2. ASSUME NEW s \in Slots, NEW c \in Conns, CreateConn(s, c)
      PROVE  OuterOK' /\ QueueHasConn'
  <2>1. s.name = UpName /\ s.thread
    BY Known
  <2>2. Hub = NoConn /\ InsertConn(c, UpName, s.node, FALSE, TRUE) /\ UNCHANGED <<cb, cur>>
    BY <1>2, <2>1 DEF CreateConn, Existing, Hub
  <2>3. c \notin live /\ Hub' = c /\ ~HubUp'
    BY <2>2, HubInserted DEF InsertConn
  <2>4. stack = <<>> /\ ~up /\ c # NoConn /\ c # cur
    BY <2>2, <2>3, QueueHasConnIs, Known DEF HubFacts, HubUp
  <2>5. OuterOK'
    BY <1>0, <2>2, <2>3, <2>4, OuterNext
  <2>6. QueueHasConn'
    BY <1>0, <2>3, <2>4, QueueHasConnNext
  <2> QED BY <2>5, <2>6
<1> QED BY <1>0, <1>1, <1>2 DEF CreateStep

LEMMA PoolScriptKeeps ==
    ASSUME UpInv, PoolInv', PoolScript \/ StartTimer
    PROVE  QueueTypes' /\ OuterOK' /\ QueueHasConn'
<1>1. QueueTypes' /\ UNCHANGED <<queue, wire, slot, stack, up>>
  BY QueueSame DEF UpInv, PoolScript, StartTimer
<1>2. UNCHANGED <<live, name, isAct, cb, cur>>
  BY DEF PoolScript, StartTimer, ScriptSendAllClose, ScriptCloseAfterRead,
     ScriptStartTimer, MarkCloseSend, connVars, loopVars
<1> QED BY <1>1, <1>2, UntouchedKeeps DEF UpInv

(* A callback of the upstream's connection starts its script. *)
LEMMA HubStartsKeeps ==
    ASSUME UpInv, PoolInv', HubConnected \/ HubError \/ HubRead \/ HubTime
    PROVE  QueueTypes' /\ OuterOK' /\ QueueHasConn'
<1> USE DEF UpInv
<1>0. NoConn \notin live /\ (Hub = NoConn \/ (Hub \in live /\ name[Hub] = UpName))
  BY Known DEF HubFacts
<1>1. CASE HubConnected
  <2>1. /\ QueueTypes' /\ stack' # <<>> /\ stack'[1].kind = "script" /\ up'
    BY <1>1, ConnectedStarts DEF HubConnected, Starts
  <2>2. /\ cb' = "connect" /\ cur' = Hub /\ Hub \in live
        /\ live' = live /\ name' = name /\ isAct' = [isAct EXCEPT ![Hub] = TRUE]
    BY <1>1 DEF HubConnected, Connected, Enter
  <2>3. Hub \in Conns /\ isAct \in [Conns -> BOOLEAN]
    BY <2>2 DEF PoolInv, TypeOK, ConnTypeOK
  <2>4. HubFacts'
    BY HubIsNext
  <2>5. Hub' = Hub /\ HubUp'
    <3>1. \A c \in live : name[c] = UpName => c = Hub
      BY HubOnly
    <3>2. PICK h : h = Hub
      OBVIOUS
    <3>3. h \in live' /\ name'[h] = UpName /\ isAct'[h]
      BY <1>0, <2>2, <2>3, <3>2
    <3>4. Hub' = h
      BY <2>2, <2>4, <3>1, <3>2, <3>3 DEF HubFacts
    <3> QED BY <3>2, <3>3, <3>4 DEF HubUp
  <2>6. OuterOK'
    BY <1>0, <2>1, <2>2, <2>5, OuterNext
  <2>7. QueueHasConn'
    BY <1>0, <2>1, <2>2, <2>5, QueueHasConnNext
  <2> QED BY <2>1, <2>6, <2>7
<1>2. ASSUME NEW kind, Starts(kind), QueueTypes', up' = up, Hub \in live,
             cb' \in {"event", "read", "time"}, cur' = Hub,
             UNCHANGED <<live, name, isAct>>,
             kind = IF cb' = "event" THEN "error" ELSE "script"
      PROVE  QueueTypes' /\ OuterOK' /\ QueueHasConn'
  <2>1. SameHub
    BY <1>2, Untouched
  <2>2. OuterOK'
    BY <1>0, <1>2, <2>1, OuterNext DEF SameHub, Starts
  <2>3. QueueHasConn'
    BY <1>0, <1>2, <2>1, QueueHasConnIs, QueueHasConnNext DEF SameHub
  <2> QED BY <1>2, <2>2, <2>3
<1>3. CASE HubError
  <2>1. cb' = "event" /\ cur' = Hub /\ Hub \in live /\ UNCHANGED <<live, name, isAct>>
    BY <1>3 DEF HubError, ConnError, Enter, connVars
  <2>2. QueueTypes' /\ Starts("error") /\ up' = up
    BY <1>3, ErrorStarts DEF HubError
  <2> QED BY <1>2, <2>1, <2>2
<1>4. CASE HubRead
  <2>1. cb' = "read" /\ cur' = Hub /\ Hub \in live /\ UNCHANGED <<live, name, isAct>>
    BY <1>4 DEF HubRead, Read, Enter, connVars
  <2>2. QueueTypes' /\ Starts("script") /\ up' = up
    BY <1>4, AnswerStarts DEF HubRead
  <2> QED BY <1>2, <2>1, <2>2
<1>5. CASE HubTime
  <2>1. cb' = "time" /\ cur' = Hub /\ Hub \in live /\ UNCHANGED <<live, name, isAct>>
    BY <1>5 DEF HubTime, TimerFire, Enter, connVars
  <2>2. QueueTypes' /\ Starts("script") /\ up' = up
    BY <1>5, TimeTaskStarts DEF HubTime
  <2> QED BY <1>2, <2>1, <2>2
<1> QED BY <1>1, <1>3, <1>4, <1>5

(* The connection goes, and the queue with it. *)
LEMMA HubGoneKeeps ==
    ASSUME UpInv, PoolInv', Hub \in live, Disconnect(Hub),
           QueueTypes', ~up', Emptied', stack' = <<>>
    PROVE  OuterOK' /\ QueueHasConn'
<1>1. NoHub'
  BY HubDeleted DEF UpInv
<1>2. OuterOK'
  BY <1>1, OuterNext DEF NoHub
<1>3. QueueHasConn'
  BY <1>1, QueueHasConnNext DEF NoHub
<1> QED BY <1>2, <1>3

LEMMA HubDrainedKeeps ==
    ASSUME UpInv, PoolInv', HubDrained
    PROVE  QueueTypes' /\ OuterOK' /\ QueueHasConn'
<1>1. Hub \in live /\ Disconnect(Hub)
  BY DEF HubDrained, Drained
<1>2. QueueTypes' /\ ~up' /\ Emptied' /\ stack' = <<>>
  BY ClosedEmpties DEF HubDrained, UpInv
<1> QED BY <1>1, <1>2, HubGoneKeeps

(* CONN_OBJ_CANCLE, when no script of the upstream runs. *)
LEMMA CancleHubKeeps ==
    ASSUME UpInv, PoolInv', CancleHub, ~Careless
    PROVE  QueueTypes' /\ OuterOK' /\ QueueHasConn'
<1>1. Hub # NoConn /\ isAct[Hub] /\ stack = <<>> /\ stack' = stack /\ made' = made /\ Q!Discard
  BY DEF CancleHub
<1>2. Hub \in live
  BY <1>1, Known DEF HubFacts, UpInv
<1>3. Disconnect(Hub)
  BY <1>1 DEF CancleHub, ScriptCancle, DisconnectIfActive, Hub
<1>4. QueueTypes' /\ ~up' /\ Emptied'
  BY <1>1, DiscardEmpties DEF UpInv, QueueTypes
<1> QED BY <1>1, <1>2, <1>3, <1>4, HubGoneKeeps

(* A callback of the upstream's connection returns with its script. *)
LEMMA HubReturnsKeeps ==
    ASSUME UpInv, PoolInv', HubReturns
    PROVE  QueueTypes' /\ OuterOK' /\ QueueHasConn'
<1> USE DEF UpInv
<1>0. /\ cur = Hub /\ Hub \in live /\ Len(stack) = 1
      /\ stack[1].kind = IF cb = "event" THEN "error" ELSE "script"
  BY Known DEF HubReturns, AtHub, OuterOK
<1>1. ASSUME UNCHANGED <<live, name, isAct>>, cb # "event", cur' = NoConn, Q!EndScript
      PROVE  QueueTypes' /\ OuterOK' /\ QueueHasConn'
  <2>1. SameHub
    BY <1>1, Untouched
  <2>2. QueueTypes' /\ stack' = <<>> /\ up' = up
    BY <1>0, <1>1, EndGoes
  <2>3. Hub # NoConn
    BY <1>0, Known
  <2>4. OuterOK'
    BY <1>1, <2>2, OuterNext
  <2>5. QueueHasConn'
    BY <2>1, <2>2, <2>3, QueueHasConnIs, QueueHasConnNext DEF SameHub
  <2> QED BY <2>2, <2>4, <2>5
<1>2. CASE EndError /\ Q!EndScript
  <2>1. Disconnect(Hub) /\ cb = "event"
    BY <1>0, <1>2 DEF EndError
  <2>2. QueueTypes' /\ stack' = <<>> /\ ~up' /\ Emptied'
    BY <1>0, <1>2, <2>1, EndGoes
  <2> QED BY <1>0, <2>1, <2>2, HubGoneKeeps
<1>3. CASE EndScript /\ Q!EndScript
  <2>1. UNCHANGED <<live, name, isAct>> /\ cb # "event" /\ cur' = NoConn
    BY <1>3 DEF EndScript, Leave, connVars
  <2> QED BY <1>1, <1>3, <2>1
<1>4. CASE EndRead /\ IF closeRead[cur] THEN Q!Closed ELSE Q!EndScript
  <2>1. CASE closeRead[cur]
    <3>1. Disconnect(Hub)
      BY <1>0, <1>4, <2>1 DEF EndRead
    <3>2. QueueTypes' /\ ~up' /\ Emptied' /\ stack' = <<>>
      BY <1>4, <2>1, ClosedEmpties
    <3> QED BY <1>0, <3>1, <3>2, HubGoneKeeps
  <2>2. CASE ~closeRead[cur]
    <3>1. UNCHANGED <<live, name, isAct>> /\ cb # "event" /\ cur' = NoConn
      BY <1>4, <2>2 DEF EndRead, Leave, connVars
    <3> QED BY <1>1, <1>4, <2>2, <3>1
  <2> QED BY <2>1, <2>2
<1> QED BY <1>2, <1>3, <1>4 DEF HubReturns

(* The steps inside a script.  A timeout script that another connection's  *)
(* script has begun ends without touching the connection.                  *)
LEMMA ScriptStepKeeps ==
    ASSUME UpInv, PoolInv', QueueSend \/ Ract \/ RactGoesOn \/ CheckTimeout \/ TimeoutEnds
    PROVE  QueueTypes' /\ OuterOK' /\ QueueHasConn'
<1> USE DEF UpInv
<1>0. UNCHANGED <<live, name, isAct, cb, cur>>
  BY DEF QueueSend, Ract, RactGoesOn, CheckTimeout, TimeoutEnds, vars, connVars, loopVars
<1>1. ASSUME QueueTypes', GoesOn, up' = up
      PROVE  QueueTypes' /\ OuterOK' /\ QueueHasConn'
  <2>1. Hub # NoConn
    BY <1>1, QueueHasConnIs DEF GoesOn
  <2> QED BY <1>0, <1>1, <2>1, UntouchedKeeps
<1>2. CASE QueueSend
  BY <1>1, <1>2, SendGoesOn DEF QueueSend
<1>3. CASE Ract
  BY <1>1, <1>3, RactGoes DEF Ract
<1>4. CASE RactGoesOn
  <2>1. CASE Q!RactReturn
    BY <1>1, <2>1, RactReturnGoes
  <2>2. CASE Q!RactEnd
    <3>1. stack # <<>>
      BY <2>2 DEF Q!RactEnd, Q!Running, Q!Idle
    <3>2. stack[1].kind # "ract"
      BY <3>1 DEF OuterOK
    <3> QED BY <1>1, <2>2, <3>2, RactEndGoes
  <2> QED BY <1>4, <2>1, <2>2 DEF RactGoesOn
<1>5. SameHub
  BY <1>0, Untouched
<1>6. CASE CheckTimeout
  <2>1. /\ QueueTypes' /\ up' = up /\ Hub # NoConn /\ (AtHub <=> stack # <<>>)
        /\ IF stack = <<>> THEN Starts("timeout") ELSE GoesOn
        /\ cb \notin {"idle", "limit"}
    BY <1>6, CheckStarts DEF CheckTimeout, InScript
  <2>2. CASE stack = <<>>
    <3>1. ~AtHub /\ stack' # <<>> /\ stack'[1].kind = "timeout"
      BY <2>1, <2>2 DEF Starts
    <3>2. OuterOK'
      BY <1>0, <1>5, <2>1, <3>1, OuterNext DEF SameHub, AtHub
    <3>3. QueueHasConn'
      BY <1>5, <2>1, QueueHasConnIs, QueueHasConnNext DEF SameHub
    <3> QED BY <2>1, <3>2, <3>3
  <2> QED BY <1>1, <2>1, <2>2
<1>7. CASE TimeoutEnds
  <2>1. /\ Q!EndScript /\ Q!Top.kind = "timeout"
    BY <1>7 DEF TimeoutEnds, Q!Running
  <2>2. /\ QueueTypes' /\ stack # <<>> /\ up' = up
        /\ IF Len(stack) = 1 THEN stack' = <<>> /\ stack[1].kind = "timeout" ELSE GoesOn
    BY <2>1, EndGoes
  <2>3. CASE Len(stack) = 1
    <3>1. ~AtHub /\ Hub # NoConn
      BY <2>2, <2>3, QueueHasConnIs DEF OuterOK
    <3>2. OuterOK'
      BY <1>0, <1>5, <2>2, <2>3, <3>1, OuterNext DEF SameHub, AtHub
    <3>3. QueueHasConn'
      BY <1>5, <2>2, <2>3, <3>1, QueueHasConnIs, QueueHasConnNext DEF SameHub
    <3> QED BY <2>2, <3>2, <3>3
  <2> QED BY <1>1, <2>2, <2>3
<1> QED BY <1>2, <1>3, <1>4, <1>6, <1>7

(* The clients, and the silence of the peer. *)
LEMMA ClientStepKeeps ==
    ASSUME UpInv, PoolInv', ClientStep \/ NoAnswer
    PROVE  QueueTypes' /\ OuterOK' /\ QueueHasConn'
<1> USE DEF UpInv
<1>0. UNCHANGED <<live, name, isAct, cb, cur>>
  BY DEF ClientStep, NoAnswer, vars, connVars, loopVars
<1>1. CASE ClientStep
  <2>1. PICK c \in Clients :
          Q!Connect(c) \/ (Hub # NoConn /\ \E now \in BOOLEAN : Q!SendMsg(c, now))
    BY <1>1 DEF ClientStep
  <2>2. CASE Q!Connect(c)
    <3>1. QueueTypes' /\ stack' = stack /\ up' = up /\ UNCHANGED <<queue, wire, slot>>
      BY <2>2, ClientTyped DEF Q!Connect, Q!queueVars
    <3> QED BY <1>0, <3>1, UntouchedKeeps
  <2>3. CASE Hub # NoConn /\ \E now \in BOOLEAN : Q!SendMsg(c, now)
    <3>1. QueueTypes' /\ stack' = stack /\ up' = up
      BY <2>3, ClientTyped
    <3> QED BY <1>0, <2>3, <3>1, UntouchedKeeps
  <2> QED BY <2>1, <2>2, <2>3
<1>2. CASE NoAnswer
  <2>1. Q!NoAnswer /\ up
    BY <1>2 DEF NoAnswer, Q!NoAnswer
  <2>2. QueueTypes' /\ stack' = stack /\ up' = up
    <3>1. Tail(wire) \in Seq(Q!Req)
      BY <2>1 DEF Q!NoAnswer, QueueTypes
    <3> QED BY <2>1, <3>1 DEF Q!NoAnswer, Q!clientVars, QueueTypes
  <2>3. Hub # NoConn
    BY <2>1, QueueHasConnIs, Known DEF HubFacts, HubUp
  <2> QED BY <1>0, <2>2, <2>3, UntouchedKeeps
<1> QED BY <1>1, <1>2

LEMMA InitUpInv == UpInit => UpInv
<1> SUFFICES ASSUME UpInit PROVE UpInv
  OBVIOUS
<1>1. PoolInv /\ OneConnPerThread
  BY InitPoolInv DEF UpInit, Init, OneConnPerThread
<1>2. QueueTypes
  BY DEF UpInit, Q!Init, QueueTypes, Q!SlotStates
<1>3. live = {} /\ cb = "idle" /\ cur = NoConn /\ stack = <<>> /\ ~up /\ Emptied
  BY DEF UpInit, Init, Q!Init, Emptied
<1>4. OuterOK
  BY <1>3 DEF OuterOK, AtHub
<1>5. QueueHasConn
  BY <1>3, QueueHasConnIs DEF HubUp
<1> QED BY <1>1, <1>2, <1>4, <1>5 DEF UpInv

LEMMA UpInvStep ==
    ASSUME ~Careless
    PROVE  UpInv /\ [UpNext]_upVars => UpInv'
<1> SUFFICES ASSUME UpInv, [UpNext]_upVars PROVE UpInv'
  OBVIOUS
<1>1. PoolInv' /\ OneConnPerThread'
  BY StepOfPool, PoolInvStep, OneConnStep DEF UpInv
<1>2. QueueTypes' /\ OuterOK' /\ QueueHasConn'
  <2>1. CASE UpNext
    BY <1>1, <2>1, PoolAloneKeeps, OtherReturnsKeeps, CreateAloneKeeps, PoolScriptKeeps,
       HubStartsKeeps, HubDrainedKeeps, CancleHubKeeps, HubReturnsKeeps,
       ScriptStepKeeps, ClientStepKeeps DEF UpNext
  <2>2. CASE UNCHANGED upVars
    <3>1. UNCHANGED queueVars /\ UNCHANGED <<live, name, isAct, cb, cur>>
      BY <2>2 DEF upVars, vars, connVars, loopVars
    <3> QED BY <1>1, <3>1, QueueSame, UntouchedKeeps DEF UpInv
  <2> QED BY <2>1, <2>2
<1> QED BY <1>1, <1>2 DEF UpInv

THEOREM UpstreamInvariant == ASSUME ~Careless PROVE UpSpec => []UpInv
<1>1. UpInit => UpInv
  BY InitUpInv
<1>2. UpInv /\ [UpNext]_upVars => UpInv'
  BY UpInvStep
<1> QED BY <1>1, <1>2, PTL DEF UpSpec

(* As long as no script closes the upstream while one of the upstream's    *)
(* scripts runs, the queue and its connection belong together.             *)
THEOREM QueueHasConnHolds == ASSUME ~Careless PROVE UpSpec => []QueueHasConn
<1>1. UpInv => QueueHasConn
  BY DEF UpInv
<1> QED BY <1>1, UpstreamInvariant, PTL

-----------------------------------------------------------------------------
(* The queue: every step of Upstream is one of SendQueue, or none. *)
LEMMA StepOfQueue ==
    ASSUME ~Careless
    PROVE  UpInv /\ [UpNext]_upVars => [Q!Next]_(Q!vars)
<1> SUFFICES ASSUME UpInv, [UpNext]_upVars PROVE [Q!Next]_(Q!vars)
  OBVIOUS
<1>1. CASE UNCHANGED queueVars
  BY <1>1 DEF queueVars, Q!vars, Q!queueVars, Q!clientVars
<1>2. CASE HubConnected \/ HubError \/ HubRead \/ HubTime \/ HubDrained \/ NoAnswer
           \/ CheckTimeout
  BY <1>2 DEF HubConnected, HubError, HubRead, HubTime, HubDrained, NoAnswer,
     CheckTimeout, Q!Next, Q!Upstream
<1>3. CASE HubReturns \/ TimeoutEnds
  BY <1>3 DEF HubReturns, TimeoutEnds, Q!Next, Q!Upstream, Q!UpstreamScript
<1>4. CASE CancleHub
  <2>1. Hub # NoConn /\ isAct[Hub] /\ stack = <<>> /\ Q!Discard
        /\ UNCHANGED <<stack, status, made, owner, orphaned, calls>>
    BY <1>4 DEF CancleHub
  <2>2. up
    BY <2>1, QueueHasConnIs, Known DEF UpInv, HubFacts, HubUp
  <2>3. Q!Closed
    BY <2>1, <2>2 DEF Q!Closed, Q!clientVars
  <2> QED BY <2>3 DEF Q!Next, Q!Upstream
<1>5. CASE QueueSend \/ RactGoesOn
  BY <1>5 DEF QueueSend, RactGoesOn, Q!Next, Q!UpstreamScript
<1>6. CASE Ract
  BY <1>6 DEF Ract, Q!Next, Q!UpstreamScript
<1>7. CASE ClientStep
  BY <1>7 DEF ClientStep, Q!Next, Q!Client
<1>8. CASE PoolAlone \/ OtherReturns \/ CreateAlone \/ PoolScript \/ StartTimer
           \/ UNCHANGED upVars
  BY <1>1, <1>8 DEF PoolAlone, OtherReturns, CreateAlone, PoolScript, StartTimer, upVars
<1> QED BY <1>2, <1>3, <1>4, <1>5, <1>6, <1>7, <1>8 DEF UpNext

(* So what is proved of SendQueue, with the peer and the connection as     *)
(* they please, holds of the queue inside Upstream.                        *)
THEOREM UpstreamImplementsQueue == ASSUME ~Careless PROVE UpSpec => Q!Spec
<1>1. UpInit => Q!Init
  BY DEF UpInit
<1>2. UpInv /\ [UpNext]_upVars => [Q!Next]_(Q!vars)
  BY StepOfQueue
<1> QED BY <1>1, <1>2, UpstreamInvariant, PTL DEF UpSpec, Q!Spec
=============================================================================
