------------------------------ MODULE SendQueue ------------------------------
(***************************************************************************)
(* The send queue of one upstream connection: ObjectProcess::sendQueue,    *)
(* the slot doCellObj of the request in progress, and the calls that move  *)
(* requests through them: SEND_MSG with Queue='true', DO_QUEUE_SEND,       *)
(* DO_QUEUE_RACT and CHK_QUEUE_TIMEOUT.                                    *)
(*                                                                         *)
(* Scripts nest: the script of the upstream calls DO_QUEUE_RACT, which     *)
(* runs the _RACTIONS of the client that asked, which may send again; and  *)
(* CHK_QUEUE_TIMEOUT runs an error script of the upstream before it marks  *)
(* the slot.  `stack' holds the scripts that are running, innermost last.  *)
(* Requests are numbered in the order of the SEND_MSG calls.               *)
(***************************************************************************)
EXTENDS Integers, Sequences

CONSTANTS
    Clients,        \* the connections that send through the upstream
    NameOf,         \* their obj_name
    MaxReq          \* BOUND: requests made

ASSUME SendQueueAssumption == MaxReq \in Nat

None == 0           \* no request; as a package, a text of the script's own
Empty == -1         \* the empty package
Req == 1 .. MaxReq
Package == Req \cup {None, Empty}

SlotStates == {"CONNECTING", "SENDED", "CANCLED", "RECEIVED"}

VARIABLES
    status,     \* of a client: "new", "up" or "gone"
    up,         \* has the upstream's connect completed?
    queue,      \* sendQueue: the waiting requests, oldest first
    slot,       \* doCellObj: its send_state and the request it holds
    stack,      \* the running scripts
    made,       \* the number of requests made so far
    owner,      \* srcObj and src_conn_name of a request: the client
    wire,       \* requests the peer has got and not answered, oldest first
    orphaned,   \* requests whose client was deleted after SEND_MSG
    abandoned,  \* requests that left the slot before their answer came
    written,    \* requests written to the peer
    calls       \* the runs of _RACTIONS, oldest first

queueVars == <<queue, slot, wire, abandoned, written>>
clientVars == <<status, made, owner, orphaned>>
vars == <<queueVars, clientVars, up, stack, calls>>

(* kind: "script" any script of the upstream, "error" its _CONN_ERR,       *)
(* "timeout" the script CHK_QUEUE_TIMEOUT runs, "ract" a DO_QUEUE_RACT.    *)
(* pkg: the answer that is being handled, and what DO_QUEUE_RACT hands on. *)
(* req: of a timeout, the expired request; of a DO_QUEUE_RACT, the one     *)
(* whose _RACTIONS run.  acted, sent: has this script called               *)
(* DO_QUEUE_RACT, and has this timeout script sent?  all: POP_ALL.         *)
Frame == [kind : {"script", "error", "timeout", "ract"}, pkg : Package,
          req : Req \cup {None}, acted : BOOLEAN,
          sent : BOOLEAN, all : BOOLEAN,
          final : {"RECEIVED", "CANCLED"}]

Call == [req : Req, pkg : Package \ {Empty}, all : BOOLEAN, live : BOOLEAN]

(* The queue machinery keeps to its types. *)
TypeOK ==
    /\ status \in [Clients -> {"new", "up", "gone"}]
    /\ up \in BOOLEAN
    /\ queue \in Seq(Req) /\ wire \in Seq(Req)
    /\ slot \in [state : SlotStates, req : Req \cup {None}]
    /\ stack \in Seq(Frame)
    /\ made \in 0 .. MaxReq
    /\ owner \in [1 .. made -> Clients]
    /\ orphaned \subseteq Req /\ abandoned \subseteq Req
    /\ written \subseteq Req
    /\ calls \in Seq(Call)

-----------------------------------------------------------------------------
Idle == stack = <<>>
Top == stack[Len(stack)]
Running == IF Idle THEN "none" ELSE Top.kind
Below == SubSeq(stack, 1, Len(stack) - 1)
Push(f) == stack' = Append(stack, f)
Script(kind, p, r) == [kind |-> kind, pkg |-> p, req |-> r, acted |-> FALSE,
                       sent |-> FALSE, all |-> FALSE, final |-> "CANCLED"]

(* The upstream's own script is the innermost one. *)
InScript == Running \in {"script", "error", "timeout"}

(* Client c runs its _RACTIONS inside one of the running scripts. *)
RunsRactions(c) == \E i \in DOMAIN stack :
    stack[i].kind = "ract" /\ stack[i].req # None /\ owner[stack[i].req] = c

(* The requests that are given up when the slot is freed now: the one it   *)
(* holds, if its answer can still come, or is held by a running script     *)
(* that has not handed it on.                                              *)
GivenUp == { r \in {slot.req} :
    /\ slot.state = "SENDED"
    /\ \/ \E i \in DOMAIN wire : wire[i] = r
       \/ \E i \in DOMAIN stack : stack[i].pkg = r
    /\ ~\E i \in DOMAIN calls : calls[i].req = r /\ calls[i].pkg = r }

Finish(state) ==
    /\ slot' = [slot EXCEPT !.state = state]
    /\ abandoned' = abandoned \cup GivenUp

(* FindConnByObjName(src_conn_name) of DoQueueRcvAction: some connection   *)
(* has the name of the client that made request r.                         *)
SrcFound_Unchecked(r) == TRUE
SrcFound(r) ==
    \E c \in Clients : status[c] = "up" /\ NameOf[c] = NameOf[owner[r]]

-----------------------------------------------------------------------------
(* Clients *)

Connect(c) ==
    /\ Idle /\ status[c] = "new"
    /\ status' = [status EXCEPT ![c] = "up"]
    /\ UNCHANGED <<queueVars, up, stack, made, owner, orphaned, calls>>

(* conn_disconnect of a client, by an event of its own or a script's       *)
(* CONN_OBJ_CANCLE: nothing tells the queues its cells are in.             *)
ClientClose(c) ==
    /\ status[c] = "up" /\ ~RunsRactions(c)
    /\ status' = [status EXCEPT ![c] = "gone"]
    /\ orphaned' = orphaned \cup {r \in 1 .. made : owner[r] = c}
    /\ UNCHANGED <<queueVars, up, stack, made, owner, calls>>

PushItem_Front(q, r) == <<r>> \o q
PushItem(q, r) == Append(q, r)

(* DoQueueSendDest on the queue q.  A refusal leaves the queue as it is.   *)
Refuse(q) ==
    /\ slot.state = "SENDED"
    /\ queue' = q
    /\ UNCHANGED <<slot, wire, abandoned, written>>

Writable_Always == TRUE
Writable_AfterReceived == slot.state \in {"CONNECTING", "RECEIVED"}
Writable == slot.state # "SENDED"

WriteOk(q) ==
    /\ Writable
    /\ slot' = [state |-> "SENDED", req |-> Head(q)]
    /\ queue' = Tail(q)
    /\ wire' = Append(wire, Head(q))
    /\ written' = written \cup {Head(q)}
    /\ UNCHANGED abandoned

WriteFails(q) ==
    /\ Writable
    /\ slot' = [state |-> "CANCLED", req |-> Head(q)]
    /\ queue' = Tail(q)
    /\ UNCHANGED <<wire, written, abandoned>>

(* SEND_MSG with Queue='true': the request is queued; unless SendQueueNull *)
(* is "false" the head of the queue is sent at once.                       *)
SendMsg(c, now) ==
    /\ made < MaxReq
    /\ status[c] = "up"
    /\ IF Idle THEN TRUE
       ELSE Top.kind = "ract" /\ Top.req # None /\ owner[Top.req] = c
    /\ now => up
    /\ made' = made + 1
    /\ owner' = Append(owner, c)
    /\ LET q == PushItem(queue, made + 1) IN
         \/ /\ ~now
            /\ queue' = q
            /\ UNCHANGED <<slot, wire, abandoned, written>>
         \/ now /\ (WriteOk(q) \/ Refuse(q) \/ WriteFails(q))
    /\ UNCHANGED <<status, orphaned, up, stack, calls>>

-----------------------------------------------------------------------------
(* The upstream's events *)

(* event_connect_cb, connected: SKHD_ACT starts. *)
Connected ==
    /\ Idle /\ ~up
    /\ up' = TRUE
    /\ Push(Script("script", None, None))
    /\ UNCHANGED <<queueVars, clientVars, calls>>

(* echo_read_cb: the peer's next answer; its script starts. *)
Answer ==
    /\ Idle /\ up /\ wire # <<>>
    /\ wire' = Tail(wire)
    /\ Push(Script("script", Head(wire), None))
    /\ UNCHANGED <<queue, slot, abandoned, written, clientVars, up, calls>>

(* The peer never answers its oldest request. *)
NoAnswer ==
    /\ Idle /\ up /\ wire # <<>>
    /\ wire' = Tail(wire)
    /\ UNCHANGED <<queue, slot, abandoned, written, clientVars, up, stack, calls>>

(* A script of the upstream that no answer started, such as _TIME_TASK. *)
TimeTask ==
    /\ Idle /\ up
    /\ Push(Script("script", None, None))
    /\ UNCHANGED <<queueVars, clientVars, up, calls>>

(* conn_err_node: _CONN_ERR starts; conn_disconnect follows (EndScript).   *)
Error ==
    /\ Idle
    /\ Push(Script("error", None, None))
    /\ UNCHANGED <<queueVars, clientVars, up, calls>>

(* CHK_QUEUE_TIMEOUT finds that the time of the slot has passed.  For the  *)
(* state CONNECTING time_start and time_out were never set.                *)
CheckTimeout ==
    /\ Running \in {"none", "script"}
    /\ slot.state \in {"SENDED", "CONNECTING"}
    /\ Push(Script("timeout", None, slot.req))
    /\ UNCHANGED <<queueVars, clientVars, up, calls>>

-----------------------------------------------------------------------------
(* What a script of the upstream does *)

(* DO_QUEUE_SEND. *)
QueueSend ==
    /\ InScript /\ up /\ queue # <<>>
    /\ WriteOk(queue) \/ WriteFails(queue)
    /\ stack' = Append(Below, [Top EXCEPT !.sent = (Top.kind = "timeout")])
    /\ UNCHANGED <<clientVars, up, calls>>

(* The _RACTIONS of request r start, with the package of this script. *)
CallBack(r, pkg, all) ==
    calls' = Append(calls, [req |-> r, pkg |-> pkg, all |-> all,
                            live |-> r \notin orphaned])

(* DO_QUEUE_RACT, its first part: the request in the slot.  Its _RACTIONS  *)
(* run only on a package that is not empty.                                *)
Ract(pkg, final, all) ==
    /\ InScript /\ ~Top.acted
    /\ pkg \in {Top.pkg, Empty}
    /\ LET hit == slot.state = "SENDED" /\ SrcFound(slot.req) /\ pkg # Empty
           f == [Script("ract", pkg, IF hit THEN slot.req ELSE None)
                    EXCEPT !.final = final, !.all = all]
       IN  /\ stack' = Below \o <<[Top EXCEPT !.acted = TRUE], f>>
           /\ IF hit THEN CallBack(slot.req, pkg, FALSE) ELSE UNCHANGED calls
           /\ IF slot.state = "SENDED" /\ ~hit
              THEN Finish(final) ELSE UNCHANGED <<slot, abandoned>>
    /\ UNCHANGED <<queue, wire, written, clientVars, up>>

(* The _RACTIONS are over. *)
RactReturn_SendNext ==
    /\ Running = "ract" /\ Top.req # None
    /\ stack' = Append(Below, [Top EXCEPT !.req = None])
    /\ IF queue = <<>> THEN Finish(Top.final) /\ UNCHANGED <<queue, wire, written>>
       ELSE /\ slot' = [state |-> "SENDED", req |-> Head(queue)]
            /\ queue' = Tail(queue)
            /\ wire' = Append(wire, Head(queue))
            /\ written' = written \cup {Head(queue)}
            /\ abandoned' = abandoned \cup GivenUp
    /\ UNCHANGED <<clientVars, up, calls>>
RactReturn ==
    /\ Running = "ract" /\ Top.req # None
    /\ Finish(Top.final)
    /\ stack' = Append(Below, [Top EXCEPT !.req = None])
    /\ UNCHANGED <<queue, wire, written, clientVars, up, calls>>

(* POP_ALL: the next waiting request goes through the slot without being   *)
(* sent; an error ends the loop.                                           *)
RactNext ==
    /\ Running = "ract" /\ Top.req = None
    /\ Top.all /\ queue # <<>>
    /\ queue' = Tail(queue)
    /\ LET r == Head(queue) IN
         IF SrcFound(r) /\ Top.pkg # Empty
         THEN /\ slot' = [state |-> "SENDED", req |-> r]
              /\ stack' = Append(Below, [Top EXCEPT !.req = r])
              /\ CallBack(r, Top.pkg, TRUE)
         ELSE /\ slot' = [state |-> Top.final, req |-> r]
              /\ stack' = Append(Below, [Top EXCEPT !.all = SrcFound(r)])
              /\ UNCHANGED calls
    /\ UNCHANGED <<wire, abandoned, written, clientVars, up>>

(* The loop's last PopItem, on the empty queue, clears the slot. *)
RactEnd ==
    /\ Running = "ract" /\ Top.req = None
    /\ Top.all => queue = <<>>
    /\ slot' = IF Top.all THEN [state |-> "CANCLED", req |-> None] ELSE slot
    /\ stack' = Below
    /\ UNCHANGED <<queue, wire, abandoned, written, clientVars, up, calls>>

(* conn_disconnect of the upstream: the queue and the slot go with it, and *)
(* the next object of that name starts afresh.                             *)
Discard ==
    /\ queue' = <<>> /\ wire' = <<>> /\ abandoned' = {}
    /\ slot' = [state |-> "CONNECTING", req |-> None]
    /\ up' = FALSE
    /\ UNCHANGED written

(* The end of an upstream's script.  After a timeout script the slot is    *)
(* marked; after _CONN_ERR the upstream is deleted.                        *)
EndScript ==
    /\ InScript
    /\ stack' = Below
    /\ \/ /\ Top.kind = "script"
          /\ UNCHANGED <<queueVars, up>>
       \/ /\ Top.kind = "timeout"
          /\ Finish("CANCLED")
          /\ UNCHANGED <<queue, wire, written, up>>
       \/ /\ Top.kind = "error"
          /\ Discard
    /\ UNCHANGED <<clientVars, calls>>

(* The upstream is closed without an error: after a write (CloseAfterSend),*)
(* by CONN_OBJ_CANCLE of another connection's script, or at the end of its *)
(* own script (@_CLOSE_AFTER_READ).                                        *)
Closed ==
    /\ up
    /\ stack = <<>> \/ (Len(stack) = 1 /\ Top.kind = "script")
    /\ Discard
    /\ stack' = <<>>
    /\ UNCHANGED <<clientVars, calls>>

-----------------------------------------------------------------------------
Init ==
    /\ status = [c \in Clients |-> "new"]
    /\ up = FALSE
    /\ queue = <<>> /\ wire = <<>> /\ stack = <<>> /\ calls = <<>>
    /\ slot = [state |-> "CONNECTING", req |-> None]
    /\ made = 0 /\ owner = <<>>
    /\ orphaned = {} /\ abandoned = {} /\ written = {}

Client ==
    \E c \in Clients :
        Connect(c) \/ ClientClose(c) \/ \E now \in BOOLEAN : SendMsg(c, now)

Upstream ==
    Connected \/ Answer \/ NoAnswer \/ TimeTask \/ Error \/ CheckTimeout \/ Closed

UpstreamScript ==
    \/ QueueSend
    \/ \E pkg \in Package, final \in {"RECEIVED", "CANCLED"}, all \in BOOLEAN :
          Ract(pkg, final, all)
    \/ RactReturn \/ RactNext \/ RactEnd \/ EndScript

Next == Client \/ Upstream \/ UpstreamScript

Spec == Init /\ [][Next]_vars

-----------------------------------------------------------------------------
Increasing(s) == \A i, j \in DOMAIN s : i < j => s[i] < s[j]

(* Nothing overtakes: the queue is in the order of the SEND_MSG calls,     *)
(* everything that was sent or is in the slot is older than everything     *)
(* that waits, the peer got its requests in that order, and the _RACTIONS  *)
(* run in it too, at most once for each request, however often answers,    *)
(* timeouts and POP_ALL come.                                              *)
Ordered ==
    /\ TypeOK
    /\ Increasing(queue) /\ Increasing(wire)
    /\ \A i \in DOMAIN queue :
         /\ slot.req < queue[i]
         /\ \A r \in written : r < queue[i]
    /\ Increasing([i \in DOMAIN calls |-> calls[i].req])

(* An answer is handed to the request it answers.  It goes to a younger    *)
(* one only by POP_ALL, or after some request up to the answered one was   *)
(* given up (timeout, cancel) before its answer came; never to an older    *)
(* one.                                                                    *)
AnswerBelongs ==
    [][\A i \in DOMAIN calls' \ DOMAIN calls :
         LET k == calls'[i] IN
           k.pkg \notin {None, k.req} =>
              /\ k.pkg < k.req
              /\ k.all \/ \E a \in abandoned : a <= k.pkg]_vars

(* _RACTIONS run only on the object of a client that still exists. *)
CallsLive == \A i \in DOMAIN calls : calls[i].live

(* CHK_QUEUE_TIMEOUT cancels no other request than the one that expired,   *)
(* unless the timeout script has itself sent the next one, which is then   *)
(* cancelled in its place.                                                 *)
TimeoutHitsExpired ==
    [][Running = "timeout" /\ stack' = Below /\ slot.state = "SENDED"
         => slot.req = Top.req \/ Top.sent]_vars

-----------------------------------------------------------------------------
(* Every request leaves the queue. *)
Served == \A r \in Req :
    (\E i \in DOMAIN queue : queue[i] = r) ~> ~(\E i \in DOMAIN queue : queue[i] = r)
=============================================================================
