------------------------------ MODULE Upstream ------------------------------
(***************************************************************************)
(* One upstream as a whole: the connection that the pool opens, loses and  *)
(* opens again (ConnPool), and the send queue inside its ObjectProcess     *)
(* (SendQueue), which is deleted with the connection.                      *)
(*                                                                         *)
(* The two share the event loop.  A callback of the upstream's connection  *)
(* starts a script of the queue and returns when that script has ended;    *)
(* while any script runs, it may use both the pool and the queue.  A       *)
(* script of another connection may check the queue's timeout, which runs  *)
(* a script of the upstream outside of its callbacks.                      *)
(***************************************************************************)
EXTENDS ConnPool

CONSTANTS
    Clients, NameOf, MaxReq,    \* of SendQueue
    UpName,     \* the obj_name of the upstream
    Careless    \* may a script close the upstream while one of its scripts runs?

ASSUME UpstreamAssumption ==
    /\ \E s \in Slots :
         Slots = {s} /\ s.thread /\ s.name = UpName /\ s.node \in TimedNodes
    /\ Careless \in BOOLEAN
    /\ MaxReq \in Nat

VARIABLES
    status, up, queue, slot, stack, made, owner, wire, orphaned, abandoned,
    written, calls

Q == INSTANCE SendQueue

queueVars == <<status, up, queue, slot, stack, made, owner, wire, orphaned,
               abandoned, written, calls>>
upVars == <<vars, queueVars>>

(* The upstream's connection. *)
Hub == FindByName(UpName, TRUE)
AtHub == cur # NoConn /\ cur = Hub

-----------------------------------------------------------------------------
(* Steps of the pool that do not concern the queue *)

PoolAlone ==
    /\ stack = <<>>
    /\ \/ \E c \in Conns \ {Hub} :
            Accept(c) \/ ConnError(c) \/ Drained(c)
       \/ LimitTick
    /\ UNCHANGED queueVars

OtherReturns ==
    /\ stack = <<>> /\ ~AtHub
    /\ Returns
    /\ UNCHANGED queueVars

CreateAlone == CreateStep /\ UNCHANGED queueVars

(* What a running script does to the pool: it marks every connection for   *)
(* CloseAfterSend, or the one it runs for for @_CLOSE_AFTER_READ.          *)
PoolScript ==
    /\ ScriptSendAllClose(Len(list)) \/ ScriptCloseAfterRead
    /\ UNCHANGED queueVars

(* The upstream's script starts its _TIME_TASK. *)
StartTimer ==
    /\ AtHub
    /\ \E t \in Timers : ScriptStartTimer(UpName, t)
    /\ UNCHANGED queueVars

-----------------------------------------------------------------------------
(* Callbacks of the upstream's connection *)

HubConnected == Connected(Hub) /\ Q!Connected
HubError == ConnError(Hub) /\ Q!Error
HubRead == Read(Hub) /\ Q!Answer
HubTime == \E t \in Timers : ctx[t] = Hub /\ TimerFire(t) /\ Q!TimeTask
HubDrained == Drained(Hub) /\ Q!Closed

(* The callback returns with its script.  The script of a new connection   *)
(* (SKHD_ACT) has started the _TIME_TASK.                                  *)
HubReturns ==
    /\ AtHub /\ Len(stack) = 1
    /\ \/ EndError /\ Q!EndScript
       \/ EndScript /\ (cb = "connect" => timeEv[cur] # NoTimer) /\ Q!EndScript
       \/ EndRead /\ IF closeRead[cur] THEN Q!Closed ELSE Q!EndScript

(* CONN_OBJ_CANCLE of the upstream by a script of another connection. *)
CancleHub ==
    /\ Hub # NoConn /\ isAct[Hub]
    /\ Careless \/ stack = <<>>
    /\ ScriptCancle(UpName)
    /\ Q!Discard
    /\ UNCHANGED <<stack, status, made, owner, orphaned, calls>>

-----------------------------------------------------------------------------
(* Steps of the queue, in a script of the upstream or of a client *)

(* CHK_QUEUE_TIMEOUT, by a script of the upstream or of another connection *)
(* that names its node.  (It finds the first connection of the node; here  *)
(* there is one.)                                                          *)
CheckTimeout ==
    /\ InScript /\ Hub # NoConn
    /\ AtHub <=> stack # <<>>
    /\ Q!CheckTimeout
    /\ UNCHANGED vars

QueueSend == InScript /\ Q!QueueSend /\ UNCHANGED vars

(* DO_QUEUE_RACT with a package; POP_ALL and the empty package are left to *)
(* SendQueue's own run.                                                    *)
Ract ==
    /\ InScript
    /\ \E pkg \in Q!Package \ {Q!Empty} : Q!Ract(pkg, "RECEIVED", FALSE)
    /\ UNCHANGED vars

RactGoesOn ==
    /\ InScript
    /\ Q!RactReturn \/ Q!RactEnd
    /\ UNCHANGED vars

(* A timeout script ends, in its caller's. *)
TimeoutEnds ==
    /\ InScript /\ Q!Running = "timeout"
    /\ Q!EndScript
    /\ UNCHANGED vars

(* A client comes up, or its SEND_MSG finds the upstream's object,         *)
(* connected or not.  The clients' own callbacks are not followed here.    *)
ClientStep ==
    /\ stack = <<>> => Idle
    /\ \E c \in Clients :
          \/ Q!Connect(c)
          \/ Hub # NoConn /\ \E now \in BOOLEAN : Q!SendMsg(c, now)
    /\ UNCHANGED vars

NoAnswer == Idle /\ Q!NoAnswer /\ UNCHANGED vars

-----------------------------------------------------------------------------
UpInit == Init /\ Q!Init

UpNext ==
    \/ PoolAlone \/ OtherReturns \/ CreateAlone \/ PoolScript \/ StartTimer
    \/ HubConnected \/ HubError \/ HubRead \/ HubTime \/ HubDrained
    \/ HubReturns \/ CancleHub
    \/ CheckTimeout \/ QueueSend \/ Ract \/ RactGoesOn \/ TimeoutEnds
    \/ ClientStep \/ NoAnswer

(* The event loop fires its timers, what a script has begun ends, and the  *)
(* _TIME_TASK checks the timeout and sends; a peer that is dialled again   *)
(* and again answers sometime.                                             *)
Fairness ==
    /\ SF_upVars(LimitTick /\ UNCHANGED queueVars)
    /\ SF_upVars(CreateAlone /\ live' # live)
    /\ SF_upVars(HubConnected)
    /\ SF_upVars(CreateAlone \/ HubReturns \/ OtherReturns \/ TimeoutEnds \/ RactGoesOn
               \/ StartTimer)
    /\ SF_upVars(HubTime) /\ SF_upVars(CheckTimeout) /\ SF_upVars(QueueSend)

UpSpec == UpInit /\ [][UpNext]_upVars
UpFairSpec == UpSpec /\ Fairness

-----------------------------------------------------------------------------
(* The queue and its connection belong together: a script of the upstream  *)
(* runs only on an object that exists, wherever it was started from; the   *)
(* queue sends exactly while the connection is up; and nothing that was    *)
(* queued for one connection is left for the next.                         *)
QueueHasConn ==
    /\ stack # <<>> => Hub # NoConn
    /\ up <=> \E c \in live : name[c] = UpName /\ isAct[c]
    /\ Hub = NoConn => queue = <<>> /\ wire = <<>> /\ slot.state = "CONNECTING"

(* However often the connection is lost and dialled again, every request   *)
(* leaves the queue.                                                       *)
Served == Q!Served

=============================================================================
