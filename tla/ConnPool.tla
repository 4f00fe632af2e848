------------------------------ MODULE ConnPool ------------------------------
(***************************************************************************)
(* The connection pool of the gateway: the objects of ConnQueue, the       *)
(* libevent callbacks that WizBase.cpp installs on them, the periodic      *)
(* reconnection task and the per-connection timers of scripts.             *)
(*                                                                         *)
(* One thread runs everything.  A callback is not one step: it runs the    *)
(* XML script of a connection, and the script calls back into the pool     *)
(* (CONN_OBJ_CREATE, CONN_OBJ_CANCLE, START_TIME_TASK, SEND_MSG, ...).     *)
(* `cb' and `cur' say which callback is running and for which connection;  *)
(* the next callback starts only when cb = "idle".                         *)
(***************************************************************************)
EXTENDS Integers, Sequences, FiniteSets

CONSTANTS
    Conns,          \* the addresses a Conn object can have (reused after delete)
    NoConn,         \* the null Conn pointer
    Timers,         \* the addresses a libevent timer can have
    NoTimer,        \* the null event pointer
    Slots,          \* the <CONNECT Method='Connect'> entries, see SlotType
    ListenNames,    \* the names of the <CONNECT Method='Listen'> nodes
    UserNames,      \* the names a script may give its connection (@_CONN_NAME)
    NoName,         \* the empty obj_name
    TimedNodes,     \* the CONNECT nodes that have a _TIME_TASK child
    MaxAccepts,     \* BOUND: accepted connections alive at a time
    RestartTimers   \* may a script start the timer of a connection that has one?

ConnNames == {s.name : s \in Slots}
Nodes == {s.node : s \in Slots} \cup ListenNames \cup {NoName}
Names == ConnNames \cup ListenNames \cup UserNames \cup {NoName}

(* A connection that the reconnection task keeps up: the obj_name it gives *)
(* the connection, the CONNECT node it comes from, and whether that node   *)
(* has the ThreadCount attribute (then there is one slot per thread).      *)
SlotType == [name : ConnNames, node : Nodes, thread : BOOLEAN]

ASSUME SlotAssumption ==
    /\ Slots \subseteq SlotType
    /\ \A s, t \in Slots : s.name = t.name => s = t
    /\ \A s \in Slots : s.thread \/ s.name = s.node
    /\ ConnNames \cap (ListenNames \cup UserNames \cup {NoName}) = {}
    /\ NoConn \notin Conns
    /\ NoTimer \notin Timers
    /\ TimedNodes \subseteq Nodes

VARIABLES
    live,       \* the Conn objects that exist
    list,       \* ConnQueue's list between its two sentinels, head first
    connNum,    \* ConnQueue::ConnNum
    objNum,     \* PUB_ObjectProcessNum
    name,       \* Conn::obj_name
    orign,      \* Conn::obj_name_orign
    isAct,      \* Conn::is_act
    outgoing,   \* is event_connect_cb (not echo_event_cb) the event callback?
    closeSend,  \* Conn::close_after_send
    closeRead,  \* Conn::close_after_read
    timeEv,     \* Conn::time_ev
    ctx,        \* the Conn an armed timer was created for (NoConn: not armed)
    cb,         \* the callback that is running
    cur,        \* the connection it runs for
    todo        \* the slots WIZBASE_create_connect_obj has still to visit

connVars == <<live, list, connNum, objNum, name, orign, isAct, outgoing,
              closeSend, closeRead>>
timerVars == <<timeEv, ctx>>
loopVars == <<cb, cur, todo>>
vars == <<connVars, timerVars, loopVars>>

Callbacks == {"idle", "limit", "connect", "read", "event", "time"}

ConnTypeOK ==
    /\ live \subseteq Conns
    /\ list \in Seq(Conns)
    /\ connNum \in Int
    /\ objNum \in Int
    /\ name \in [Conns -> Names]
    /\ orign \in [Conns -> Nodes]
    /\ isAct \in [Conns -> BOOLEAN]
    /\ outgoing \in [Conns -> BOOLEAN]
    /\ closeSend \in [Conns -> BOOLEAN]
    /\ closeRead \in [Conns -> BOOLEAN]

TimerTypeOK ==
    /\ timeEv \in [Conns -> Timers \cup {NoTimer}]
    /\ ctx \in [Timers -> Conns \cup {NoConn}]

LoopTypeOK ==
    /\ cb \in Callbacks
    /\ cur \in Conns \cup {NoConn}
    /\ todo \subseteq Slots

(* Every field keeps to the values its declaration and the configuration   *)
(* allow: in particular obj_name_orign is always the name of a node.       *)
TypeOK == ConnTypeOK /\ TimerTypeOK /\ LoopTypeOK

-----------------------------------------------------------------------------
(* ConnQueue                                                               *)

(* FindConnByObjName: the first connection of the list, from the head,     *)
(* that is in S; NoConn when there is none.                                *)
FirstOf(S) ==
    IF \E i \in DOMAIN list : list[i] \in S
    THEN list[CHOOSE i \in DOMAIN list :
                /\ list[i] \in S
                /\ \A j \in DOMAIN list : list[j] \in S => i <= j]
    ELSE NoConn

FindByName(n, any) == FirstOf({c \in Conns : name[c] = n /\ (any \/ isAct[c])})
FindByNode(n, any) == FirstOf({c \in Conns : orign[c] = n /\ (any \/ isAct[c])})

(* InsertConn, with the Conn constructor: a new object (and its            *)
(* ObjectProcess) right after the head, then the fields its two callers    *)
(* set before they return to the event loop.                               *)
InsertConn(c, n, node, act, out) ==
    /\ c \notin live
    /\ live' = live \cup {c}
    /\ list' = <<c>> \o list
    /\ connNum' = connNum + 1
    /\ objNum' = objNum + 1
    /\ name' = [name EXCEPT ![c] = n]
    /\ orign' = [orign EXCEPT ![c] = node]
    /\ isAct' = [isAct EXCEPT ![c] = act]
    /\ outgoing' = [outgoing EXCEPT ![c] = out]
    /\ closeSend' = [closeSend EXCEPT ![c] = FALSE]
    /\ closeRead' = [closeRead EXCEPT ![c] = FALSE]
    /\ timeEv' = [timeEv EXCEPT ![c] = NoTimer]

(* The list without the element at position i. *)
Cut(s, i) == [j \in 1 .. Len(s) - 1 |-> IF j < i THEN s[j] ELSE s[j + 1]]
Unlink(c) == Cut(list, CHOOSE i \in DOMAIN list : list[i] = c)

(* WIZBASE_CancleQueueTimeTask, under the test of conn_disconnect and ~Conn. *)
DisarmOwn_Forgotten(c) == ctx' = ctx
DisarmOwn(c) ==
    ctx' = [t \in Timers |-> IF t = timeEv[c] THEN NoConn ELSE ctx[t]]

(* DeleteConn and ~Conn: unlink, delete the object with its ObjectProcess, *)
(* count.  The fields of a freed object are set to a fixed value.          *)
DeleteConn_Miscounted(c) ==
    /\ live' = live \ {c}
    /\ list' = Unlink(c)
    /\ UNCHANGED connNum
    /\ objNum' = objNum - 1
DeleteConn(c) ==
    /\ live' = live \ {c}
    /\ list' = Unlink(c)
    /\ connNum' = connNum - 1
    /\ objNum' = objNum - 1

(* conn_disconnect: the bufferevent is freed (no callback of c can run any *)
(* more), the timer is cancelled, the object is deleted.                   *)
Disconnect(c) ==
    /\ DisarmOwn(c)
    /\ timeEv' = [timeEv EXCEPT ![c] = NoTimer]
    /\ DeleteConn(c)
    /\ name' = [name EXCEPT ![c] = NoName]
    /\ orign' = [orign EXCEPT ![c] = NoName]
    /\ isAct' = [isAct EXCEPT ![c] = FALSE]
    /\ outgoing' = [outgoing EXCEPT ![c] = FALSE]
    /\ closeSend' = [closeSend EXCEPT ![c] = FALSE]
    /\ closeRead' = [closeRead EXCEPT ![c] = FALSE]

(* WIZBASE_conn_disconnect: only a connection that is up. *)
DisconnectIfActive_Any(c) == Disconnect(c)
DisconnectIfActive(c) ==
    IF isAct[c] THEN Disconnect(c) ELSE UNCHANGED <<connVars, timerVars>>

-----------------------------------------------------------------------------
(* The event loop                                                          *)

Idle == cb = "idle"

Enter(kind, c) == Idle /\ cb' = kind /\ cur' = c /\ UNCHANGED todo
Leave == cb' = "idle" /\ cur' = NoConn /\ UNCHANGED todo

(* accept_conn_cb: the new connection is active and has no name yet. *)
Accept(c) ==
    /\ Idle
    /\ Cardinality({d \in live : ~outgoing[d]}) < MaxAccepts
    /\ InsertConn(c, NoName, NoName, TRUE, FALSE)
    /\ UNCHANGED <<ctx, loopVars>>

(* event_connect_cb on BEV_EVENT_CONNECTED: the connection becomes active  *)
(* and its SKHD_ACT script starts.                                         *)
Connected(c) ==
    /\ Enter("connect", c)
    /\ c \in live /\ outgoing[c] /\ ~isAct[c]
    /\ isAct' = [isAct EXCEPT ![c] = TRUE]
    /\ UNCHANGED <<live, list, connNum, objNum, name, orign, outgoing,
                   closeSend, closeRead, timerVars>>

(* event_connect_cb and echo_event_cb on an error, an end of file or a     *)
(* timeout: conn_err_node runs the error script, then the disconnection.   *)
ConnError(c) ==
    /\ Enter("event", c)
    /\ c \in live
    /\ UNCHANGED <<connVars, timerVars>>

EndError_ObjectKept ==
    /\ cb = "event" /\ todo = {}
    /\ isAct' = [isAct EXCEPT ![cur] = FALSE]
    /\ outgoing' = [outgoing EXCEPT ![cur] = FALSE]    \* its socket is gone
    /\ UNCHANGED <<live, list, connNum, objNum, name, orign, closeSend,
                   closeRead, timerVars>>
    /\ Leave
EndError ==
    /\ cb = "event" /\ todo = {}
    /\ Disconnect(cur)
    /\ Leave

(* echo_read_cb of a connection that has a name: a script step runs. *)
Read(c) ==
    /\ Enter("read", c)
    /\ c \in live /\ isAct[c] /\ name[c] # NoName
    /\ UNCHANGED <<connVars, timerVars>>

(* echo_read_cb, CASE_SKHD: the first packet of an accepted connection     *)
(* matches a Listen node, which names the connection; SKHD_ACT starts.     *)
ReadHandshake(c, n) ==
    /\ Enter("read", c)
    /\ c \in live /\ isAct[c] /\ name[c] = NoName
    /\ name' = [name EXCEPT ![c] = n]
    /\ orign' = [orign EXCEPT ![c] = n]
    /\ UNCHANGED <<live, list, connNum, objNum, isAct, outgoing, closeSend,
                   closeRead, timerVars>>

(* CASE_SKHD with fewer bytes than MinLen: InitConnParam has set both      *)
(* names, only obj_name is taken back.                                     *)
ReadShort(c, n) ==
    /\ Idle
    /\ c \in live /\ isAct[c] /\ name[c] = NoName
    /\ orign' = [orign EXCEPT ![c] = n]
    /\ UNCHANGED <<live, list, connNum, objNum, name, isAct, outgoing,
                   closeSend, closeRead, timerVars, loopVars>>

(* The end of echo_read_cb. *)
EndRead ==
    /\ cb = "read" /\ todo = {}
    /\ IF closeRead[cur] THEN Disconnect(cur)
                         ELSE UNCHANGED <<connVars, timerVars>>
    /\ Leave

(* echo_write_cb: the output buffer of c has drained. *)
Drained(c) ==
    /\ Idle
    /\ c \in live /\ isAct[c] /\ closeSend[c]
    /\ Disconnect(c)
    /\ UNCHANGED loopVars

(* ConnQueueCallback, a persistent timer: the _TIME_TASK script of the     *)
(* connection the timer was created for.                                   *)
TimerFire(t) ==
    /\ ctx[t] \in live
    /\ Enter("time", ctx[t])
    /\ UNCHANGED <<connVars, timerVars>>

EndScript ==
    /\ cb \in {"connect", "time"} /\ todo = {}
    /\ Leave
    /\ UNCHANGED <<connVars, timerVars>>

-----------------------------------------------------------------------------
(* WIZBASE_create_connect_obj, one slot at a time                          *)

(* ConnLimitCallback: all the CONNECT nodes of Method='Connect'. *)
LimitTick ==
    /\ Idle
    /\ cb' = "limit" /\ todo' = Slots
    /\ UNCHANGED <<cur, connVars, timerVars>>

EndLimit ==
    /\ cb = "limit" /\ todo = {}
    /\ Leave
    /\ UNCHANGED <<connVars, timerVars>>

(* The lookup that decides whether the slot needs a connection: by         *)
(* obj_name among all the connections for a thread slot; by                *)
(* obj_name_orign, among the active ones only, for the others.             *)
Existing_ActiveOnly(s) ==
    IF s.thread THEN FindByName(s.name, FALSE) ELSE FindByNode(s.node, FALSE)
Existing(s) ==
    IF s.thread THEN FindByName(s.name, TRUE) ELSE FindByNode(s.node, FALSE)

CreateSkip(s) ==
    /\ s \in todo
    /\ Existing(s) # NoConn
    /\ todo' = todo \ {s}
    /\ UNCHANGED <<cb, cur, connVars, timerVars>>

(* do_conntion_obj: the connection attempt starts; the object is not       *)
(* active.  InitConnParam sets both names, then the node is put right.     *)
CreateConn(s, c) ==
    /\ s \in todo
    /\ Existing(s) = NoConn
    /\ InsertConn(c, s.name, s.node, FALSE, TRUE)
    /\ todo' = todo \ {s}
    /\ UNCHANGED <<cb, cur, ctx>>

(* do_conntion_obj returns NULL: the other threads of the node are skipped. *)
CreateFail(s) ==
    /\ s \in todo
    /\ Existing(s) = NoConn
    /\ todo' = {t \in todo : t.node # s.node}
    /\ UNCHANGED <<cb, cur, connVars, timerVars>>

-----------------------------------------------------------------------------
(* What the script of the running callback may do                          *)

InScript == cb \in {"connect", "read", "event", "time"} /\ todo = {}

(* CONN_OBJ_CREATE on a CONNECT node. *)
ScriptCreate(n) ==
    /\ InScript
    /\ \E s \in Slots : s.node = n
    /\ todo' = {s \in Slots : s.node = n}
    /\ UNCHANGED <<cb, cur, connVars, timerVars>>

(* CONN_OBJ_CANCLE of another connection, by name.  (The source tells      *)
(* scripts to close their own connection with @_CLOSE_AFTER_READ.)         *)
ScriptCancle(n) ==
    /\ InScript
    /\ LET d == FindByName(n, TRUE) IN
         /\ d \notin {NoConn, cur}
         /\ DisconnectIfActive(d)
    /\ UNCHANGED loopVars

(* WIZBASE_StartQueueTimeTask: time_ev is overwritten. *)
ArmTimer(c, t) ==
    /\ ctx[t] = NoConn
    /\ \A d \in live : timeEv[d] # t
    /\ timeEv' = [timeEv EXCEPT ![c] = t]
    /\ ctx' = [ctx EXCEPT ![t] = c]

(* START_TIME_TASK. *)
ScriptStartTimer(n, t) ==
    /\ InScript
    /\ LET c == FindByName(n, TRUE) IN
         /\ c # NoConn
         /\ orign[c] \in TimedNodes
         /\ RestartTimers \/ timeEv[c] = NoTimer
         /\ ArmTimer(c, t)
    /\ UNCHANGED <<connVars, loopVars>>

(* CANCLE_TIME_TASK (registered as CANCLE_TIME_CYCLE). *)
ScriptCancleTimer(n) ==
    /\ InScript
    /\ LET c == FindByName(n, TRUE) IN
         /\ c # NoConn
         /\ timeEv[c] # NoTimer
         /\ DisarmOwn(c)
         /\ timeEv' = [timeEv EXCEPT ![c] = NoTimer]
    /\ UNCHANGED <<connVars, loopVars>>

(* SEND_MSG with CloseAfterSend to @THIS_FD: obj_send_cb2 only marks. *)
MarkCloseSend_Now(S) ==
    /\ \E c \in S : Disconnect(c)
MarkCloseSend(S) ==
    /\ closeSend' = [c \in Conns |-> closeSend[c] \/ c \in S]
    /\ UNCHANGED <<live, list, connNum, objNum, name, orign, isAct, outgoing,
                   closeRead, timerVars>>

ScriptSendClose ==
    /\ InScript
    /\ MarkCloseSend({cur})
    /\ UNCHANGED loopVars

(* The same to @ALL_CONN: the active connections, head first, up to the    *)
(* first write that fails (k = Len(list): none fails).                     *)
ScriptSendAllClose(k) ==
    /\ InScript
    /\ MarkCloseSend({list[i] : i \in {j \in 1 .. k : isAct[list[j]]}})
    /\ UNCHANGED loopVars

(* One script step of echo_read_cb is over: its @_CLOSE_AFTER_READ or       *)
(* @_CONN_NAME takes effect, and the loop may go on with a next step.      *)
ScriptCloseAfterRead ==
    /\ InScript /\ cb = "read"
    /\ closeRead' = [closeRead EXCEPT ![cur] = TRUE]
    /\ UNCHANGED <<live, list, connNum, objNum, name, orign, isAct, outgoing,
                   closeSend, timerVars, loopVars>>

ScriptRename(n) ==
    /\ InScript /\ cb = "read"
    /\ name' = [name EXCEPT ![cur] = n]
    /\ UNCHANGED <<live, list, connNum, objNum, orign, isAct, outgoing,
                   closeSend, closeRead, timerVars, loopVars>>

-----------------------------------------------------------------------------
Init ==
    /\ live = {}
    /\ list = <<>>
    /\ connNum = 0
    /\ objNum = 3       \* the two sentinels of ConnQueue, and GB_Gateway
    /\ name = [c \in Conns |-> NoName]
    /\ orign = [c \in Conns |-> NoName]
    /\ isAct = [c \in Conns |-> FALSE]
    /\ outgoing = [c \in Conns |-> FALSE]
    /\ closeSend = [c \in Conns |-> FALSE]
    /\ closeRead = [c \in Conns |-> FALSE]
    /\ timeEv = [c \in Conns |-> NoTimer]
    /\ ctx = [t \in Timers |-> NoConn]
    /\ cb = "idle"
    /\ cur = NoConn
    /\ todo = {}

Network(c) ==
    \/ Accept(c) \/ Connected(c) \/ ConnError(c) \/ Read(c) \/ Drained(c)
    \/ \E n \in ListenNames : ReadHandshake(c, n) \/ ReadShort(c, n)

Returns == EndError \/ EndRead \/ EndScript \/ EndLimit

CreateStep ==
    \E s \in Slots :
        CreateSkip(s) \/ CreateFail(s) \/ \E c \in Conns : CreateConn(s, c)

Script ==
    \/ \E n \in Nodes : ScriptCreate(n)
    \/ \E n \in Names : ScriptCancle(n) \/ ScriptCancleTimer(n)
    \/ \E n \in Names, t \in Timers : ScriptStartTimer(n, t)
    \/ ScriptSendClose
    \/ \E k \in DOMAIN list : ScriptSendAllClose(k)
    \/ ScriptCloseAfterRead
    \/ \E n \in UserNames : ScriptRename(n)

Next ==
    \/ \E c \in Conns : Network(c)
    \/ \E t \in Timers : TimerFire(t)
    \/ LimitTick
    \/ CreateStep
    \/ Returns
    \/ Script

Spec == Init /\ [][Next]_vars

-----------------------------------------------------------------------------
(* The three counts that CHECK_OBJS reports agree, and the list holds each *)
(* existing connection once: nothing is leaked, nothing is deleted twice.  *)
CountsAgree ==
    /\ connNum = Len(list)
    /\ connNum = Cardinality(live)
    /\ objNum = connNum + 3
    /\ live = {list[i] : i \in DOMAIN list}

(* A timer that can fire was created for a connection that still exists:   *)
(* ConnQueueCallback uses that pointer without looking it up.  And that    *)
(* connection still holds the timer, so that its disconnection will cancel *)
(* it.                                                                     *)
TimersOwned ==
    \A t \in Timers : ctx[t] # NoConn => ctx[t] \in live /\ timeEv[ctx[t]] = t

(* The pool never opens a second connection for a thread slot, however     *)
(* long the first one takes to connect and whoever calls the creation.     *)
OneConnPerThread ==
    \A s \in Slots : s.thread =>
        \A c, d \in live : name[c] = s.name /\ name[d] = s.name => c = d

(* A callback never returns into a connection that was deleted under it. *)
CallbackConnLive == cur # NoConn => cur \in live

(* A connection whose connect is in progress is deleted only by its own    *)
(* event callback: nothing else frees a bufferevent that libevent's        *)
(* resolver and connect still refer to.                                    *)
ConnectingLeavesByEvent ==
    [][\A c \in live : ~isAct[c] /\ c \notin live' => cb = "event" /\ cur = c]_vars

-----------------------------------------------------------------------------
(* Every thread slot is connected again and again, whatever the failures. *)
Reconnects ==
    \A s \in Slots : s.thread =>
        []<>(\E c \in live : name[c] = s.name /\ isAct[c])
=============================================================================
