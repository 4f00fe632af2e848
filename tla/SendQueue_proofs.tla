--------------------------- MODULE SendQueue_proofs ---------------------------
(***************************************************************************)
(* Proofs about SendQueue: for any clients, any number of requests and any *)
(* nesting of scripts, requests go out and _RACTIONS run in the order of   *)
(* the SEND_MSG calls, an answer goes to its own request as long as none   *)
(* was given up before it, a timeout cancels the request that expired, and *)
(* with names of their own only clients that still exist are called.       *)
(***************************************************************************)
EXTENDS SendQueue, TLAPS, SequenceTheorems

(* The inductive invariant.  Requests are among those made. *)
TypeInv ==
    /\ status \in [Clients -> {"new", "up", "gone"}] /\ up \in BOOLEAN
    /\ made \in 0 .. MaxReq
    /\ owner \in Seq(Clients) /\ Len(owner) = made
    /\ queue \in Seq(1 .. made) /\ wire \in Seq(1 .. made)
    /\ slot \in [state : SlotStates, req : 0 .. made]
    /\ stack \in Seq(Frame) /\ calls \in Seq(Call)
    /\ orphaned \subseteq 1 .. made /\ abandoned \subseteq 1 .. made
    /\ written \subseteq 1 .. made

(* How scripts nest: one that an event starts, over it the script of       *)
(* CHK_QUEUE_TIMEOUT, over that a DO_QUEUE_RACT.                           *)
ShapeInv ==
    \A i \in 1 .. Len(stack) :
        /\ stack[i].kind = "ract" => i = Len(stack) /\ i > 1
        /\ stack[i].kind = "timeout" =>
             stack[i].pkg = None /\ (i = 1 \/ (i = 2 /\ stack[1].kind = "script"))
        /\ stack[i].kind \in {"script", "error"} => i = 1

(* While _RACTIONS run their request is in the slot; between two of them,  *)
(* and before the first, no answer is awaited.                             *)
Calling == Running = "ract" /\ Top.req # None
SlotInv ==
    /\ slot.state = "SENDED" => slot.req # None
    /\ Calling => slot.state = "SENDED" /\ slot.req = Top.req
    /\ Running = "ract" /\ Top.req = None => slot.state # "SENDED"

(* The slot, what was written and what was called are older than what      *)
(* waits; the slot is at the youngest that was written, and it is called   *)
(* once.                                                                   *)
Waits(q) ==
    /\ Increasing(q)
    /\ \A i \in 1 .. Len(q) :
         /\ slot.req < q[i]
         /\ \A r \in written : r < q[i]
         /\ \A k \in 1 .. Len(calls) : calls[k].req < q[i]
OrderInv ==
    /\ Waits(queue)
    /\ Increasing(wire)
    /\ \A i \in 1 .. Len(wire) : wire[i] \in written
    /\ slot.state = "SENDED" => \A r \in written : r <= slot.req

CallInv ==
    /\ \A i, j \in 1 .. Len(calls) : i < j => calls[i].req < calls[j].req
    /\ \A k \in 1 .. Len(calls) : calls[k].req <= made
    /\ slot.state = "SENDED" /\ ~Calling =>
         \A k \in 1 .. Len(calls) : calls[k].req < slot.req

(* An answer that a script has, or that was handed on, is older than those *)
(* to come.                                                                *)
AnswerInv ==
    /\ \A k \in 1 .. Len(calls) :
         calls[k].pkg \in Req =>
            calls[k].pkg \in written /\ \A j \in 1 .. Len(wire) : calls[k].pkg < wire[j]
    /\ \A i \in 1 .. Len(stack) :
         stack[i].pkg \in Req =>
            stack[i].pkg \in written /\ \A j \in 1 .. Len(wire) : stack[i].pkg < wire[j]

(* An answer that is to come, or has come and was not handed on, is that   *)
(* of the request in the slot, or one was given up.                        *)
Expected(r) == (slot.state = "SENDED" /\ slot.req = r) \/ \E a \in abandoned : a <= r
GivenInv ==
    /\ \A j \in 1 .. Len(wire) : Expected(wire[j])
    /\ \A i \in 1 .. Len(stack) :
         stack[i].pkg \in Req /\ stack[i].kind # "ract" /\ ~stack[i].acted =>
            /\ Expected(stack[i].pkg)
            /\ \A k \in 1 .. Len(calls) : calls[k].pkg # stack[i].pkg
            /\ Running = "ract" => Top.pkg # stack[i].pkg

(* A timeout script finds the request that expired, unless it has sent the *)
(* next one itself.                                                        *)
TimeoutInv ==
    \A i \in 1 .. Len(stack) :
        stack[i].kind = "timeout" /\ slot.state = "SENDED" =>
            slot.req = stack[i].req \/ stack[i].sent \/ Calling

Inv ==
    TypeInv /\ ShapeInv /\ SlotInv /\ OrderInv /\ CallInv /\ AnswerInv /\ GivenInv
      /\ TimeoutInv

(* A client of whose requests one is orphaned is gone. *)
LiveInv ==
    /\ \A r \in orphaned : status[owner[r]] = "gone"
    /\ CallsLive

-----------------------------------------------------------------------------
(* Sequences *)

LEMMA TailFacts ==
    ASSUME NEW S, NEW q \in Seq(S), q # <<>>
    PROVE  /\ Head(q) = q[1] /\ Head(q) \in S /\ Tail(q) \in Seq(S)
           /\ Len(q) \in Nat \ {0} /\ Len(Tail(q)) = Len(q) - 1
           /\ \A i \in 1 .. Len(q) - 1 : Tail(q)[i] = q[i + 1]
OBVIOUS

LEMMA AppendFacts ==
    ASSUME NEW S, NEW q \in Seq(S), NEW e \in S
    PROVE  /\ Append(q, e) \in Seq(S) /\ Append(q, e) # <<>>
           /\ Len(q) \in Nat /\ Len(Append(q, e)) = Len(q) + 1
           /\ \A i \in 1 .. Len(q) : Append(q, e)[i] = q[i]
           /\ Append(q, e)[Len(q) + 1] = e
OBVIOUS

LEMMA IncreasingIs ==
    ASSUME NEW S, NEW q \in Seq(S)
    PROVE  Increasing(q) <=> \A i, j \in 1 .. Len(q) : i < j => q[i] < q[j]
BY DEF Increasing

LEMMA IncreasingTail ==
    ASSUME NEW n \in Nat, NEW q \in Seq(1 .. n), Increasing(q), q # <<>>
    PROVE  /\ Increasing(Tail(q))
           /\ \A i \in 1 .. Len(Tail(q)) : Head(q) < Tail(q)[i]
<1> DEFINE t == Tail(q)
<1>1. /\ Head(q) = q[1] /\ t \in Seq(1 .. n) /\ Len(q) \in Nat \ {0} /\ Len(t) = Len(q) - 1
      /\ \A i \in 1 .. Len(q) - 1 : t[i] = q[i + 1]
  BY TailFacts
<1>2. \A i, j \in 1 .. Len(q) : i < j => q[i] < q[j]
  BY IncreasingIs
<1> HIDE DEF t
<1>3. ASSUME NEW i \in 1 .. Len(t) PROVE t[i] = q[i + 1] /\ i + 1 \in 1 .. Len(q)
  BY <1>1
<1>4. ASSUME NEW i \in 1 .. Len(t) PROVE q[1] < t[i]
  <2>1. 1 \in 1 .. Len(q) /\ i + 1 \in 1 .. Len(q) /\ 1 < i + 1 /\ t[i] = q[i + 1]
    BY <1>1, <1>3
  <2> QED BY <1>2, <2>1
<1>6. ASSUME NEW i \in 1 .. Len(t), NEW j \in 1 .. Len(t), i < j PROVE t[i] < t[j]
  <2>1. /\ i + 1 \in 1 .. Len(q) /\ j + 1 \in 1 .. Len(q) /\ i + 1 < j + 1
        /\ t[i] = q[i + 1] /\ t[j] = q[j + 1]
    BY <1>1, <1>3, <1>6
  <2> QED BY <1>2, <2>1
<1>5. Increasing(t)
  BY <1>1, <1>6, IncreasingIs
<1> QED BY <1>1, <1>4, <1>5 DEF t

LEMMA IncreasingAppend ==
    ASSUME NEW n \in Nat, NEW q \in Seq(1 .. n), Increasing(q), NEW e \in 1 .. n,
           \A i \in 1 .. Len(q) : q[i] < e
    PROVE  Increasing(Append(q, e))
<1> DEFINE t == Append(q, e)
<1>1. /\ t \in Seq(1 .. n) /\ Len(q) \in Nat /\ Len(t) = Len(q) + 1
      /\ \A i \in 1 .. Len(q) : t[i] = q[i]
      /\ t[Len(q) + 1] = e
  BY AppendFacts
<1>2. \A i, j \in 1 .. Len(q) : i < j => q[i] < q[j]
  BY IncreasingIs
<1> HIDE DEF t
<1>3. ASSUME NEW i \in 1 .. Len(t), NEW j \in 1 .. Len(t), i < j PROVE t[i] < t[j]
  <2>1. i \in 1 .. Len(q) /\ t[i] = q[i]
    BY <1>1, <1>3
  <2>2. CASE j \in 1 .. Len(q)
    BY <1>1, <1>2, <1>3, <2>1, <2>2
  <2>3. CASE j = Len(q) + 1
    BY <1>1, <2>1, <2>3
  <2> QED BY <1>1, <2>2, <2>3
<1> QED BY <1>1, <1>3, IncreasingIs DEF t

LEMMA SeqWider ==
    ASSUME NEW m \in Nat, NEW n \in Nat, m <= n, NEW q \in Seq(1 .. m)
    PROVE  q \in Seq(1 .. n)
<1>1. \A i \in 1 .. Len(q) : q[i] \in 1 .. n
  OBVIOUS
<1> QED BY <1>1

LEMMA FrontFacts ==
    ASSUME NEW S, NEW q \in Seq(S), q # <<>>
    PROVE  /\ SubSeq(q, 1, Len(q) - 1) \in Seq(S)
           /\ Len(SubSeq(q, 1, Len(q) - 1)) = Len(q) - 1
           /\ \A i \in 1 .. Len(q) - 1 : SubSeq(q, 1, Len(q) - 1)[i] = q[i]
<1> DEFINE n == Len(q) - 1
           t == SubSeq(q, 1, n)
<1>1. n \in Nat /\ \A i \in 1 .. n : q[i] \in S
  OBVIOUS
<1>2. /\ t \in Seq(S)
      /\ Len(t) = IF 1 <= n THEN n - 1 + 1 ELSE 0
      /\ \A i \in 1 .. n - 1 + 1 : t[i] = q[1 + i - 1]
  <2> HIDE DEF n
  <2> QED BY <1>1, SubSeqProperties
<1> HIDE DEF n, t
<1>3. t \in Seq(S) /\ Len(t) = n /\ \A i \in 1 .. n : t[i] = q[i]
  BY <1>1, <1>2
<1> QED BY <1>3 DEF n, t

LEMMA OverSeq ==
    ASSUME NEW S, NEW q \in Seq(S), NEW f \in S, NEW g \in S, NEW t, t = q \o <<f, g>>
    PROVE  /\ t \in Seq(S) /\ Len(t) = Len(q) + 2
           /\ t[Len(q) + 1] = f /\ t[Len(q) + 2] = g
           /\ \A i \in 1 .. Len(q) : t[i] = q[i]
<1>1. <<f, g>> \in Seq(S) /\ Len(<<f, g>>) = 2 /\ Len(q) \in Nat
  OBVIOUS
<1> QED BY <1>1, ConcatProperties

(* The stack: what a script leaves behind, and what replaces it. *)
LEMMA StackFacts ==
    ASSUME TypeInv, ~Idle
    PROVE  /\ Len(stack) \in Nat \ {0} /\ Top \in Frame /\ Top = stack[Len(stack)]
           /\ Below \in Seq(Frame) /\ Len(Below) = Len(stack) - 1
           /\ \A i \in 1 .. Len(stack) - 1 : Below[i] = stack[i]
<1>1. stack \in Seq(Frame) /\ Len(stack) \in Nat \ {0}
  BY DEF TypeInv, Idle
<1>2. /\ Below \in Seq(Frame) /\ Len(Below) = Len(stack) - 1
      /\ \A i \in 1 .. Len(stack) - 1 : Below[i] = stack[i]
  BY <1>1, FrontFacts DEF Below, Idle
<1> QED BY <1>1, <1>2 DEF Top

LEMMA ReplaceFacts ==
    ASSUME TypeInv, ~Idle, NEW f \in Frame, stack' = Append(Below, f)
    PROVE  /\ stack' \in Seq(Frame) /\ Len(stack') = Len(stack) /\ stack'[Len(stack)] = f
           /\ \A i \in 1 .. Len(stack) - 1 : stack'[i] = stack[i]
           /\ Len(stack) \in Nat \ {0}
           /\ ~Idle' /\ Top' = f
<1>1. /\ Below \in Seq(Frame) /\ Len(Below) = Len(stack) - 1 /\ Len(stack) \in Nat \ {0}
      /\ \A i \in 1 .. Len(stack) - 1 : Below[i] = stack[i]
  BY StackFacts
<1>2. /\ stack' \in Seq(Frame) /\ Len(stack') = Len(stack) /\ stack'[Len(stack)] = f
      /\ \A i \in 1 .. Len(stack) - 1 : stack'[i] = stack[i]
  BY <1>1, AppendFacts
<1> QED BY <1>1, <1>2 DEF Idle, Top

LEMMA PushFacts ==
    ASSUME TypeInv, NEW f \in Frame, Push(f)
    PROVE  /\ stack' \in Seq(Frame) /\ Len(stack) \in Nat /\ Len(stack') = Len(stack) + 1
           /\ stack'[Len(stack) + 1] = f
           /\ \A i \in 1 .. Len(stack) : stack'[i] = stack[i]
           /\ ~Idle' /\ Top' = f
BY DEF TypeInv, Push, Idle, Top

LEMMA OverFacts ==
    ASSUME TypeInv, ~Idle, NEW f \in Frame, NEW g \in Frame, stack' = Below \o <<f, g>>
    PROVE  /\ stack' \in Seq(Frame) /\ Len(stack) \in Nat \ {0}
           /\ Len(stack') = Len(stack) + 1
           /\ stack'[Len(stack)] = f /\ stack'[Len(stack) + 1] = g
           /\ \A i \in 1 .. Len(stack) - 1 : stack'[i] = stack[i]
           /\ ~Idle' /\ Top' = g
<1>1. /\ Below \in Seq(Frame) /\ Len(Below) = Len(stack) - 1 /\ Len(stack) \in Nat \ {0}
      /\ \A i \in 1 .. Len(stack) - 1 : Below[i] = stack[i]
  BY StackFacts
<1> HIDE DEF Below
<1>2. /\ stack' \in Seq(Frame) /\ Len(stack') = Len(stack) + 1
      /\ stack'[Len(stack)] = f /\ stack'[Len(stack) + 1] = g
      /\ \A i \in 1 .. Len(stack) - 1 : stack'[i] = stack[i]
  <2>1. /\ stack' \in Seq(Frame) /\ Len(stack') = Len(Below) + 2
        /\ stack'[Len(Below) + 1] = f /\ stack'[Len(Below) + 2] = g
        /\ \A i \in 1 .. Len(Below) : stack'[i] = Below[i]
    <3>1. PICK q : q = Below
      OBVIOUS
    <3>2. PICK t : t = stack'
      OBVIOUS
    <3>3. q \in Seq(Frame) /\ t = q \o <<f, g>>
      BY <1>1, <3>1, <3>2
    <3>4. /\ t \in Seq(Frame) /\ Len(t) = Len(q) + 2
          /\ t[Len(q) + 1] = f /\ t[Len(q) + 2] = g
          /\ \A i \in 1 .. Len(q) : t[i] = q[i]
      BY ONLY <3>3, f \in Frame, g \in Frame, OverSeq
    <3> QED BY <3>1, <3>2, <3>4
  <2> QED BY <1>1, <2>1
<1> QED BY <1>1, <1>2 DEF Idle, Top

LEMMA PopFacts ==
    ASSUME TypeInv, ~Idle, stack' = Below
    PROVE  /\ stack' \in Seq(Frame) /\ Len(stack) \in Nat \ {0}
           /\ Len(stack') = Len(stack) - 1
           /\ \A i \in 1 .. Len(stack) - 1 : stack'[i] = stack[i]
BY StackFacts

LEMMA ScriptFrame ==
    ASSUME NEW kind \in {"script", "error", "timeout", "ract"}, NEW p \in Package,
           NEW r \in Req \cup {None}
    PROVE  /\ Script(kind, p, r) \in Frame
           /\ Script(kind, p, r).kind = kind /\ Script(kind, p, r).pkg = p
           /\ Script(kind, p, r).req = r /\ ~Script(kind, p, r).acted
BY DEF Script, Frame

-----------------------------------------------------------------------------
(* The steps *)

LEMMA Types ==
    TypeInv =>
      /\ MaxReq \in Nat /\ made \in Nat /\ made <= MaxReq /\ 1 .. made \subseteq Req
      /\ Len(queue) \in Nat /\ Len(wire) \in Nat /\ Len(calls) \in Nat /\ Len(stack) \in Nat
      /\ \A i \in 1 .. Len(queue) : queue[i] \in 1 .. made
      /\ \A i \in 1 .. Len(wire) : wire[i] \in 1 .. made
      /\ \A i \in 1 .. Len(calls) : calls[i] \in Call
      /\ \A i \in 1 .. Len(stack) : stack[i] \in Frame
      /\ slot.req \in 0 .. made /\ slot.state \in SlotStates
      /\ slot = [state |-> slot.state, req |-> slot.req]
      /\ \A r \in written : r \in 1 .. made
BY SendQueueAssumption DEF TypeInv, Req

LEMMA CallTypes ==
    /\ \A k \in Call : k.req \in Req /\ k.pkg \in Req \cup {None}
    /\ \A f \in Frame : f.pkg \in Package /\ f.req \in Req \cup {None}
BY DEF Call, Frame, Package, None, Empty

(* Writing the head of a queue that is in order: requests go out in order. *)
LEMMA WriteOrder ==
    ASSUME TypeInv, OrderInv, NEW m \in Nat, made <= m, NEW q \in Seq(1 .. m), Waits(q), q # <<>>,
           WriteOk(q) \/ WriteFails(q), calls' = calls
    PROVE  /\ OrderInv'
           /\ queue' \in Seq(1 .. m) /\ wire' \in Seq(1 .. m) /\ written' \subseteq 1 .. m
           /\ slot' \in [state : SlotStates, req : 0 .. m] /\ slot'.req # None
           /\ abandoned' = abandoned /\ slot.state # "SENDED"
           /\ \A k \in 1 .. Len(calls) : calls[k].req < slot'.req
           /\ \/ wire' = wire /\ written' = written /\ slot'.state # "SENDED"
              \/ /\ wire' = Append(wire, slot'.req) /\ written' = written \cup {slot'.req}
                 /\ slot'.state = "SENDED" /\ \A r \in written : r < slot'.req
<1> DEFINE h == Head(q)
           t == Tail(q)
<1>1. /\ h = q[1] /\ h \in 1 .. m /\ t \in Seq(1 .. m) /\ Len(q) \in Nat \ {0}
      /\ Len(t) = Len(q) - 1 /\ \A i \in 1 .. Len(q) - 1 : t[i] = q[i + 1]
  BY TailFacts
<1>2. /\ Increasing(t) /\ \A i \in 1 .. Len(t) : h < t[i]
  BY IncreasingTail DEF Waits
<1>3. /\ Len(wire) \in Nat /\ wire \in Seq(1 .. m)
      /\ \A i \in 1 .. Len(wire) : wire[i] \in written
      /\ Increasing(wire) /\ written \subseteq 1 .. m
  BY SeqWider DEF OrderInv, TypeInv
<1>4. /\ slot.req < h /\ (\A r \in written : r < h)
      /\ (\A k \in 1 .. Len(calls) : calls[k].req < h)
  <2>1. 1 \in 1 .. Len(q)
    BY <1>1
  <2> QED BY <1>1, <2>1 DEF Waits
<1>5. /\ slot'.req = h /\ queue' = t /\ abandoned' = abandoned /\ slot.state # "SENDED"
      /\ slot'.state \in {"SENDED", "CANCLED"}
      /\ slot' \in [state : SlotStates, req : 0 .. m]
  BY <1>1 DEF WriteOk, WriteFails, Writable, SlotStates
<1>6. /\ \A i \in 1 .. Len(t) : \A k \in 1 .. Len(calls) : calls[k].req < t[i]
      /\ \A i \in 1 .. Len(t) : \A r \in written : r < t[i]
  <2> SUFFICES ASSUME NEW i \in 1 .. Len(t)
               PROVE  /\ \A k \in 1 .. Len(calls) : calls[k].req < t[i]
                      /\ \A r \in written : r < t[i]
    OBVIOUS
  <2>1. i + 1 \in 1 .. Len(q) /\ t[i] = q[i + 1]
    BY <1>1
  <2> QED BY <2>1 DEF Waits
<1> HIDE DEF h, t
<1>7. CASE WriteOk(q)
  <2>1. /\ wire' = Append(wire, h) /\ written' = written \cup {h} /\ slot'.state = "SENDED"
    BY <1>7 DEF WriteOk, h
  <2>2. \A i \in 1 .. Len(wire) : wire[i] < h
    BY <1>3, <1>4
  <2>3. Increasing(wire')
    BY <1>1, <1>3, <2>1, <2>2, IncreasingAppend
  <2>4. /\ wire' \in Seq(1 .. m) /\ Len(wire') = Len(wire) + 1
        /\ \A i \in 1 .. Len(wire) : wire'[i] = wire[i]
        /\ wire'[Len(wire) + 1] = h
    BY <1>1, <1>3, <2>1, AppendFacts
  <2>5. \A i \in 1 .. Len(wire') : wire'[i] \in written'
    BY <1>3, <2>1, <2>4
  <2>6. Waits(queue)'
    BY <1>1, <1>2, <1>4, <1>5, <1>6, <2>1 DEF Waits
  <2>7. \A r \in written' : r <= slot'.req
    BY <1>1, <1>3, <1>4, <1>5, <2>1
  <2>8. OrderInv'
    BY <2>1, <2>3, <2>5, <2>6, <2>7 DEF OrderInv
  <2>9. /\ wire' = Append(wire, slot'.req) /\ written' = written \cup {slot'.req}
        /\ \A r \in written : r < slot'.req
        /\ \A k \in 1 .. Len(calls) : calls[k].req < slot'.req
    BY <1>4, <1>5, <2>1
  <2>10. slot'.req # None /\ queue' \in Seq(1 .. m) /\ written' \subseteq 1 .. m
    <3>1. slot'.req # None
      BY <1>1, <1>5 DEF None
    <3>2. queue' \in Seq(1 .. m)
      BY <1>1, <1>5
    <3>3. written' \subseteq 1 .. m
      BY <1>1, <1>3, <2>1
    <3> QED BY <3>1, <3>2, <3>3
  <2>11. wire' \in Seq(1 .. m)
    BY <2>4
  <2> QED BY <1>5, <2>1, <2>8, <2>9, <2>10, <2>11
<1>8. CASE WriteFails(q)
  <2>1. /\ wire' = wire /\ written' = written /\ slot'.state # "SENDED"
    BY <1>8 DEF WriteFails
  <2>2. Waits(queue)'
    BY <1>1, <1>2, <1>4, <1>5, <1>6, <2>1 DEF Waits
  <2>3. OrderInv'
    BY <1>3, <2>1, <2>2 DEF OrderInv
  <2> QED BY <1>1, <1>3, <1>4, <1>5, <2>1, <2>3 DEF None
<1> QED BY <1>7, <1>8

(* The new request waits behind all others. *)
LEMMA PushOrder ==
    ASSUME TypeInv, OrderInv, CallInv, made < MaxReq
    PROVE  /\ PushItem(queue, made + 1) \in Seq(1 .. made + 1)
           /\ PushItem(queue, made + 1) # <<>> /\ Waits(PushItem(queue, made + 1))
<1> DEFINE q == PushItem(queue, made + 1)
<1>1. made \in Nat /\ Len(queue) \in Nat /\ queue \in Seq(1 .. made + 1)
      /\ \A i \in 1 .. Len(queue) : queue[i] \in 1 .. made
  BY Types, SeqWider DEF TypeInv
<1>2. /\ q \in Seq(1 .. made + 1) /\ q # <<>> /\ Len(q) = Len(queue) + 1
      /\ \A i \in 1 .. Len(queue) : q[i] = queue[i]
      /\ q[Len(queue) + 1] = made + 1
  BY <1>1, AppendFacts DEF PushItem
<1>3. Increasing(q)
  BY <1>1, IncreasingAppend DEF OrderInv, Waits, PushItem
<1> HIDE DEF q
<1>4. \A i \in 1 .. Len(queue) :
         /\ slot.req < q[i]
         /\ \A r \in written : r < q[i]
         /\ \A k \in 1 .. Len(calls) : calls[k].req < q[i]
  BY <1>2 DEF OrderInv, Waits
<1>5. /\ slot.req < made + 1 /\ \A r \in written : r < made + 1
      /\ \A k \in 1 .. Len(calls) : calls[k].req < made + 1
  <2>1. \A k \in 1 .. Len(calls) : calls[k].req \in Nat
    BY Types, CallTypes DEF Req
  <2> QED BY <1>1, <2>1, Types DEF CallInv
<1>6. Waits(q)
  <2> SUFFICES ASSUME NEW i \in 1 .. Len(q)
               PROVE  /\ slot.req < q[i]
                      /\ \A r \in written : r < q[i]
                      /\ \A k \in 1 .. Len(calls) : calls[k].req < q[i]
    BY <1>3 DEF Waits
  <2>1. CASE i \in 1 .. Len(queue)
    BY <1>4, <2>1
  <2>2. CASE i = Len(queue) + 1
    BY <1>2, <1>5, <2>2
  <2> QED BY <1>1, <1>2, <2>1, <2>2
<1> QED BY <1>2, <1>6 DEF q

LEMMA RunningIs ==
    /\ Running = "ract" <=> ~Idle /\ Top.kind = "ract"
    /\ InScript <=> ~Idle /\ Top.kind \in {"script", "error", "timeout"}
    /\ Running \in {"none", "script"} <=> Idle \/ Top.kind \in {"none", "script"}
    /\ Calling <=> ~Idle /\ Top.kind = "ract" /\ Top.req # None
BY DEF Running, InScript, Calling

(* The top of the stack is a frame of it, and alone if an event started it. *)
LEMMA TopIs ==
    ASSUME TypeInv, ShapeInv, ~Idle
    PROVE  /\ Len(stack) \in 1 .. Len(stack) /\ Top = stack[Len(stack)] /\ Top \in Frame
           /\ Top.kind \in {"script", "error"} => Len(stack) = 1
           /\ Top.kind = "timeout" => Top.pkg = None /\ Len(stack) <= 2
           /\ \A i \in 1 .. Len(stack) - 1 : stack[i].kind # "ract"
           /\ Top.kind = "timeout" => \A i \in 1 .. Len(stack) - 1 : stack[i].kind = "script"
<1>1. /\ Len(stack) \in Nat \ {0} /\ Top = stack[Len(stack)] /\ Top \in Frame
  BY StackFacts
<1>2. Len(stack) \in 1 .. Len(stack)
  BY <1>1
<1>3. \A i \in 1 .. Len(stack) :
        /\ stack[i].kind = "ract" => i = Len(stack) /\ i > 1
        /\ stack[i].kind = "timeout" =>
             stack[i].pkg = None /\ (i = 1 \/ (i = 2 /\ stack[1].kind = "script"))
        /\ stack[i].kind \in {"script", "error"} => i = 1
  BY DEF ShapeInv
<1>4. Top.kind \in {"script", "error"} => Len(stack) = 1
  BY ONLY <1>1, <1>2, <1>3
<1>5. Top.kind = "timeout" =>
        Top.pkg = None /\ (Len(stack) = 1 \/ (Len(stack) = 2 /\ stack[1].kind = "script"))
  BY ONLY <1>1, <1>2, <1>3
<1>6. ASSUME NEW i \in 1 .. Len(stack) - 1 PROVE stack[i].kind # "ract"
  <2>1. i \in 1 .. Len(stack) /\ i # Len(stack)
    BY ONLY <1>1
  <2> QED BY ONLY <1>3, <2>1
<1>7. ASSUME Top.kind = "timeout", NEW i \in 1 .. Len(stack) - 1
      PROVE  stack[i].kind = "script"
  <2>1. Len(stack) = 2 /\ i = 1 /\ stack[1].kind = "script"
    BY ONLY <1>1, <1>5, <1>7
  <2> QED BY ONLY <2>1
<1>8. Top.kind = "timeout" => Len(stack) <= 2
  BY ONLY <1>1, <1>5
<1> QED BY ONLY <1>1, <1>2, <1>4, <1>5, <1>6, <1>7, <1>8

LEMMA IdleIs == TypeInv => (Idle <=> Len(stack) = 0)
BY DEF TypeInv, Idle

(* Clients that come and go. *)
LEMMA ClientKeeps ==
    ASSUME Inv, NEW c \in Clients, Connect(c) \/ ClientClose(c)
    PROVE  Inv'
<1>1. UNCHANGED <<queue, slot, wire, abandoned, written, made, owner, up, stack, calls>>
  BY DEF Connect, ClientClose, queueVars
<1>2. TypeInv'
  <2>1. status' \in [Clients -> {"new", "up", "gone"}] /\ orphaned' \subseteq 1 .. made
    BY DEF Connect, ClientClose, Inv, TypeInv, queueVars
  <2> QED BY <1>1, <2>1 DEF Inv, TypeInv
<1>3. /\ UNCHANGED <<Running, Top, Calling>>
      /\ \A r : Expected(r)' <=> Expected(r)
      /\ Waits(queue)' <=> Waits(queue)
  BY <1>1 DEF Running, Top, Idle, Calling, Expected, Waits
<1> QED BY <1>1, <1>2, <1>3
        DEF Inv, ShapeInv, SlotInv, OrderInv, CallInv, AnswerInv, GivenInv, TimeoutInv

(* A script starts that no answer has started. *)
LEMMA StartKeeps ==
    ASSUME Inv, NEW kind \in {"script", "error", "timeout"}, NEW r \in Req \cup {None},
           Push(Script(kind, None, r)), up' \in BOOLEAN,
           UNCHANGED <<queueVars, clientVars, calls>>,
           IF kind = "timeout" THEN r = slot.req /\ Running \in {"none", "script"} ELSE Idle
    PROVE  Inv'
<1> DEFINE f == Script(kind, None, r)
           n == Len(stack)
<1>0. /\ TypeInv /\ ShapeInv /\ SlotInv /\ OrderInv /\ CallInv /\ AnswerInv /\ GivenInv
      /\ TimeoutInv
      /\ UNCHANGED <<queue, slot, wire, abandoned, written, status, made, owner, orphaned, calls>>
  BY DEF Inv, queueVars, clientVars
<1>1. f \in Frame /\ f.kind = kind /\ f.pkg = None /\ f.req = r
  BY ScriptFrame DEF Package
<1>2. /\ stack' \in Seq(Frame) /\ n \in Nat /\ Len(stack') = n + 1 /\ stack'[n + 1] = f
      /\ \A i \in 1 .. n : stack'[i] = stack[i]
      /\ ~Idle' /\ Top' = f
  BY <1>0, <1>1, PushFacts
<1> HIDE DEF f
<1>3. n = 0 \/ (n = 1 /\ stack[1].kind = "script" /\ kind = "timeout")
  <2>1. CASE Idle
    BY <1>0, <2>1, IdleIs
  <2>2. CASE ~Idle
    <3>1. kind = "timeout" /\ Top.kind \in {"none", "script"}
      BY <2>2, RunningIs
    <3>2. Top.kind = "script"
      BY <1>0, <2>2, <3>1, TopIs DEF Frame
    <3> QED BY <1>0, <2>2, <3>1, <3>2, TopIs
  <2> QED BY <2>1, <2>2
<1>4. Running # "ract" /\ ~Calling
  BY <1>0, RunningIs
<1>5. Running' = kind /\ ~Calling' /\ kind # "ract"
  BY <1>1, <1>2 DEF Running, Calling
<1>6. /\ \A x : Expected(x)' <=> Expected(x)
      /\ Waits(queue)' <=> Waits(queue)
  BY <1>0 DEF Expected, Waits
<1>7. TypeInv'
  BY <1>0, <1>2 DEF TypeInv
<1>8. ShapeInv'
  BY <1>0, <1>1, <1>2, <1>3 DEF ShapeInv
<1>9. SlotInv' /\ OrderInv' /\ CallInv'
  BY <1>0, <1>4, <1>5, <1>6 DEF SlotInv, OrderInv, CallInv
<1>10. None \notin Req
  BY DEF None, Req
<1>11. AnswerInv'
  BY <1>0, <1>1, <1>2, <1>10 DEF AnswerInv
<1>12. GivenInv'
  <2>1. \A i \in 1 .. Len(stack') :
           stack'[i].pkg \in Req => i \in 1 .. n /\ stack'[i] = stack[i]
    BY <1>1, <1>2, <1>10
  <2> QED BY <1>0, <1>5, <1>6, <2>1 DEF GivenInv
<1>13. TimeoutInv'
  BY <1>0, <1>1, <1>2, <1>4, <1>5 DEF TimeoutInv
<1> QED BY <1>7, <1>8, <1>9, <1>11, <1>12, <1>13 DEF Inv

(* The oldest answer comes, or will not come. *)
LEMMA AnswerKeeps ==
    ASSUME Inv, Answer \/ NoAnswer
    PROVE  Inv'
<1> DEFINE h == Head(wire)
           t == Tail(wire)
           f == Script("script", h, None)
<1>0. /\ TypeInv /\ ShapeInv /\ SlotInv /\ OrderInv /\ CallInv /\ AnswerInv /\ GivenInv
      /\ TimeoutInv
      /\ UNCHANGED <<queue, slot, abandoned, written, status, made, owner, orphaned, calls, up>>
      /\ Idle /\ wire' = t /\ wire # <<>>
  BY DEF Inv, Answer, NoAnswer, clientVars
<1>1. /\ h = wire[1] /\ h \in 1 .. made /\ t \in Seq(1 .. made) /\ Len(wire) \in Nat \ {0}
      /\ Len(t) = Len(wire) - 1 /\ \A i \in 1 .. Len(wire) - 1 : t[i] = wire[i + 1]
  BY <1>0, TailFacts DEF TypeInv
<1>2. Increasing(t) /\ \A j \in 1 .. Len(t) : h < t[j]
  BY <1>0, Types, IncreasingTail DEF OrderInv, TypeInv
<1>3. 1 \in 1 .. Len(wire) /\ \A j \in 1 .. Len(t) : j + 1 \in 1 .. Len(wire)
  BY <1>1
<1>4. /\ h \in written /\ Expected(h) /\ h \in Req
      /\ \A k \in 1 .. Len(calls) : calls[k].pkg \in Req => calls[k].pkg < h
  BY <1>0, <1>1, <1>3, Types DEF OrderInv, GivenInv, AnswerInv
<1>5. f \in Frame /\ f.kind = "script" /\ f.pkg = h /\ f.req = None /\ ~f.acted
  BY <1>4, ScriptFrame DEF Package
<1> HIDE DEF h, t, f
<1>6. stack' = stack \/ Push(f)
  BY DEF Answer, NoAnswer, f, h
<1>7. /\ Len(stack) = 0
      /\ \/ stack' = stack
         \/ /\ Len(stack') = 1 /\ stack'[1] = f /\ stack' \in Seq(Frame) /\ Top' = f /\ ~Idle'
  BY <1>0, <1>5, <1>6, PushFacts, IdleIs
<1>8. /\ Running # "ract" /\ ~Calling /\ Running' # "ract" /\ ~Calling'
  BY <1>0, <1>5, <1>7 DEF Running, Calling, Idle
<1>9. /\ \A x : Expected(x)' <=> Expected(x)
      /\ Waits(queue)' <=> Waits(queue)
  BY <1>0 DEF Expected, Waits
<1>10. TypeInv'
  BY <1>0, <1>1, <1>7 DEF TypeInv
<1>11. ShapeInv' /\ TimeoutInv'
  BY <1>0, <1>5, <1>7 DEF ShapeInv, TimeoutInv
<1>12. SlotInv' /\ CallInv'
  BY <1>0, <1>8 DEF SlotInv, CallInv
<1>13. OrderInv'
  BY <1>0, <1>1, <1>2, <1>3, <1>9 DEF OrderInv
<1>14. AnswerInv'
  <2>1. \A k \in 1 .. Len(calls) :
           calls[k].pkg \in Req =>
             calls[k].pkg \in written /\ \A j \in 1 .. Len(t) : calls[k].pkg < t[j]
    BY <1>0, <1>1, <1>3 DEF AnswerInv
  <2> QED BY <1>0, <1>2, <1>4, <1>5, <1>7, <2>1 DEF AnswerInv
<1>15. GivenInv'
  <2>1. \A j \in 1 .. Len(t) : Expected(t[j])
    BY <1>0, <1>1, <1>3 DEF GivenInv
  <2>2. \A k \in 1 .. Len(calls) : calls[k].pkg # h
    BY <1>4, <1>1, Types, <1>0
  <2> QED BY <1>0, <1>4, <1>5, <1>7, <1>8, <1>9, <2>1, <2>2 DEF GivenInv
<1> QED BY <1>10, <1>11, <1>12, <1>13, <1>14, <1>15 DEF Inv

(* What is written now is answered later than all that came before. *)
LEMMA WrittenAnswers ==
    ASSUME TypeInv, AnswerInv, GivenInv, slot.state # "SENDED",
           calls' = calls, abandoned' = abandoned, stack' \in Seq(Frame),
           \A i \in 1 .. Len(stack') : i \in 1 .. Len(stack) /\ stack'[i].pkg = stack[i].pkg,
           slot'.req \in Nat,
           \/ wire' = wire /\ written' = written /\ slot'.state # "SENDED"
           \/ /\ wire' = Append(wire, slot'.req) /\ written' = written \cup {slot'.req}
              /\ slot'.state = "SENDED" /\ \A r \in written : r < slot'.req
    PROVE  AnswerInv' /\ \A j \in 1 .. Len(wire') : Expected(wire[j])'
<1>1. \A j \in 1 .. Len(wire) : \E a \in abandoned : a <= wire[j]
  BY DEF GivenInv, Expected
<1>2. \A j \in 1 .. Len(wire') :
         \/ j \in 1 .. Len(wire) /\ wire'[j] = wire[j]
         \/ wire'[j] = slot'.req /\ slot'.state = "SENDED" /\ \A r \in written : r < wire'[j]
  <2>1. CASE wire' = wire
    BY <2>1
  <2>2. CASE wire' # wire
    <3>1. wire \in Seq(Nat) /\ wire' = Append(wire, slot'.req)
      BY <2>2 DEF TypeInv
    <3>2. /\ Len(wire) \in Nat /\ Len(wire') = Len(wire) + 1
          /\ \A i \in 1 .. Len(wire) : wire'[i] = wire[i]
          /\ wire'[Len(wire) + 1] = slot'.req
      BY <3>1, AppendFacts
    <3> QED BY <2>2, <3>2
  <2> QED BY <2>1, <2>2
<1>3. written \subseteq written'
  OBVIOUS
<1>4. AnswerInv'
  BY <1>2, <1>3 DEF AnswerInv
<1>5. \A j \in 1 .. Len(wire') : Expected(wire[j])'
  BY <1>1, <1>2 DEF Expected
<1> QED BY <1>4, <1>5

(* SEND_MSG: the new request is the youngest. *)
LEMMA SendKeeps ==
    ASSUME Inv, NEW c \in Clients, NEW now \in BOOLEAN, SendMsg(c, now)
    PROVE  Inv'
<1> DEFINE q == PushItem(queue, made + 1)
<1>0. /\ TypeInv /\ ShapeInv /\ SlotInv /\ OrderInv /\ CallInv /\ AnswerInv /\ GivenInv
      /\ TimeoutInv
      /\ UNCHANGED <<status, orphaned, up, stack, calls>>
      /\ made < MaxReq /\ made' = made + 1 /\ owner' = Append(owner, c)
      /\ Idle \/ Calling
  BY DEF Inv, SendMsg, Calling, Running
<1>1. /\ q \in Seq(1 .. made + 1) /\ q # <<>> /\ Waits(q)
  BY <1>0, PushOrder
<1>2. /\ made \in Nat /\ MaxReq \in Nat /\ owner' \in Seq(Clients) /\ Len(owner') = made'
      /\ made' \in 0 .. MaxReq /\ 1 .. made \subseteq 1 .. made'
  <2>1. made \in Nat /\ MaxReq \in Nat /\ made' \in 0 .. MaxReq /\ 1 .. made \subseteq 1 .. made'
    BY <1>0, Types
  <2>2. owner' \in Seq(Clients) /\ Len(owner') = Len(owner) + 1 /\ Len(owner) = made
    BY <1>0, AppendFacts DEF TypeInv
  <2> QED BY <1>0, <2>1, <2>2
<1>3. \/ queue' = q /\ UNCHANGED <<slot, wire, abandoned, written>>
      \/ WriteOk(q) \/ WriteFails(q)
  BY DEF SendMsg, Refuse
<1> HIDE DEF q
<1>4. UNCHANGED <<Running, Top, Calling>>
  BY <1>0 DEF Running, Top, Idle, Calling
<1>5. CASE queue' = q /\ UNCHANGED <<slot, wire, abandoned, written>>
  <2>1. /\ \A x : Expected(x)' <=> Expected(x)
        /\ Waits(queue)'
    BY <1>0, <1>1, <1>5 DEF Expected, Waits
  <2>2. wire \in Seq(1 .. made')
    BY <1>0, <1>2, SeqWider DEF TypeInv
  <2>3. slot \in [state : SlotStates, req : 0 .. made'] 
    BY <1>0, <1>2 DEF TypeInv
  <2>4. TypeInv'
    BY <1>0, <1>1, <1>2, <1>5, <2>2, <2>3 DEF TypeInv
  <2>5. CallInv'
    <3>1. \A k \in 1 .. Len(calls) : calls[k].req \in Nat
      BY <1>0, Types, CallTypes DEF Req
    <3> QED BY <1>0, <1>2, <1>4, <1>5, <3>1 DEF CallInv
  <2> QED BY <1>0, <1>4, <1>5, <2>1, <2>4, <2>5
          DEF Inv, ShapeInv, SlotInv, OrderInv, AnswerInv, GivenInv, TimeoutInv
<1>6. CASE WriteOk(q) \/ WriteFails(q)
  <2>1. slot.state # "SENDED"
    BY <1>6 DEF WriteOk, WriteFails, Writable
  <2>2. Idle /\ Len(stack) = 0 /\ ~Calling /\ Running # "ract"
    BY <1>0, <2>1, IdleIs DEF SlotInv, Running
  <2>3. /\ OrderInv'
        /\ queue' \in Seq(1 .. made') /\ wire' \in Seq(1 .. made') /\ written' \subseteq 1 .. made'
        /\ slot' \in [state : SlotStates, req : 0 .. made'] /\ slot'.req # None
        /\ abandoned' = abandoned
        /\ \A k \in 1 .. Len(calls) : calls[k].req < slot'.req
        /\ \/ wire' = wire /\ written' = written /\ slot'.state # "SENDED"
           \/ /\ wire' = Append(wire, slot'.req) /\ written' = written \cup {slot'.req}
              /\ slot'.state = "SENDED" /\ \A r \in written : r < slot'.req
    <3>1. made' \in Nat /\ made <= made' /\ q \in Seq(1 .. made')
      BY <1>0, <1>1, <1>2
    <3> QED BY <1>0, <1>1, <1>6, <3>1, WriteOrder
  <2>4. TypeInv'
    BY <1>0, <1>2, <2>3 DEF TypeInv
  <2>5. CallInv'
    <3>1. \A k \in 1 .. Len(calls) : calls[k].req \in Nat
      BY <1>0, Types, CallTypes DEF Req
    <3> QED BY <1>0, <1>2, <2>3, <3>1 DEF CallInv
  <2>6. AnswerInv' /\ \A j \in 1 .. Len(wire') : Expected(wire[j])'
    BY <1>0, <2>1, <2>2, <2>3, WrittenAnswers
  <2>7. ShapeInv' /\ SlotInv' /\ GivenInv' /\ TimeoutInv'
    <3>1. ShapeInv' /\ TimeoutInv'
      BY <1>0, <2>2 DEF ShapeInv, TimeoutInv
    <3>2. SlotInv'
      BY <1>4, <2>2, <2>3 DEF SlotInv
    <3>3. GivenInv'
      BY <1>0, <2>2, <2>6 DEF GivenInv
    <3> QED BY <3>1, <3>2, <3>3
  <2> QED BY <2>3, <2>4, <2>5, <2>6, <2>7 DEF Inv
<1> QED BY <1>3, <1>5, <1>6

(* DO_QUEUE_SEND: the script that sends has been on top all the time. *)
LEMMA QueueSendKeeps ==
    ASSUME Inv, QueueSend
    PROVE  Inv'
<1> DEFINE n == Len(stack)
           f == [Top EXCEPT !.sent = (Top.kind = "timeout")]
<1>0. /\ TypeInv /\ ShapeInv /\ SlotInv /\ OrderInv /\ CallInv /\ AnswerInv /\ GivenInv
      /\ TimeoutInv
      /\ UNCHANGED <<status, made, owner, orphaned, up, calls>>
      /\ ~Idle /\ Top.kind \in {"script", "error", "timeout"} /\ queue # <<>>
      /\ WriteOk(queue) \/ WriteFails(queue)
      /\ stack' = Append(Below, f)
  BY RunningIs DEF Inv, QueueSend, clientVars
<1>1. /\ Top = stack[n] /\ Top \in Frame /\ \A i \in 1 .. n - 1 : stack[i].kind # "ract"
      /\ Top.kind \in {"script", "error"} => n = 1
      /\ Top.kind = "timeout" => \A i \in 1 .. n - 1 : stack[i].kind = "script"
  BY <1>0, TopIs
<1>2. /\ f \in Frame /\ f.kind = Top.kind /\ f.pkg = Top.pkg /\ f.req = Top.req
      /\ f.acted = Top.acted /\ (Top.kind = "timeout" => f.sent)
  BY <1>1 DEF Frame
<1> HIDE DEF f
<1>3. /\ stack' \in Seq(Frame) /\ Len(stack') = n /\ stack'[n] = f
      /\ \A i \in 1 .. n - 1 : stack'[i] = stack[i]
      /\ n \in Nat \ {0} /\ ~Idle' /\ Top' = f
  BY <1>0, <1>2, ReplaceFacts
<1>4. \A i \in 1 .. n : /\ stack'[i].kind = stack[i].kind /\ stack'[i].pkg = stack[i].pkg
                        /\ stack'[i].acted = stack[i].acted
                        /\ stack[i].kind = "timeout" => i = n
  BY <1>0, <1>1, <1>2, <1>3
<1>5. /\ Running # "ract" /\ ~Calling /\ Running' # "ract" /\ ~Calling'
  BY <1>0, <1>2, <1>3 DEF Running, Calling
<1>6. /\ OrderInv' /\ slot.state # "SENDED"
      /\ queue' \in Seq(1 .. made) /\ wire' \in Seq(1 .. made) /\ written' \subseteq 1 .. made
      /\ slot' \in [state : SlotStates, req : 0 .. made] /\ slot'.req # None
      /\ abandoned' = abandoned
      /\ \A k \in 1 .. Len(calls) : calls[k].req < slot'.req
      /\ \/ wire' = wire /\ written' = written /\ slot'.state # "SENDED"
         \/ /\ wire' = Append(wire, slot'.req) /\ written' = written \cup {slot'.req}
            /\ slot'.state = "SENDED" /\ \A r \in written : r < slot'.req
  <2>1. made \in Nat /\ queue \in Seq(1 .. made) /\ Waits(queue)
    BY <1>0, Types DEF TypeInv, OrderInv
  <2>2. calls' = calls
    BY <1>0
  <2> QED BY <1>0, <2>1, <2>2, WriteOrder
<1>7. TypeInv'
  BY <1>0, <1>3, <1>6 DEF TypeInv
<1>8. ShapeInv'
  <2>1. stack'[1].kind = stack[1].kind
    BY <1>3, <1>4
  <2> QED BY <1>0, <1>3, <1>4, <2>1 DEF ShapeInv
<1>9. SlotInv' /\ CallInv'
  BY <1>0, <1>5, <1>6 DEF SlotInv, CallInv
<1>10. AnswerInv' /\ \A j \in 1 .. Len(wire') : Expected(wire[j])'
  <2>1. \A i \in 1 .. Len(stack') : i \in 1 .. Len(stack) /\ stack'[i].pkg = stack[i].pkg
    BY <1>3, <1>4
  <2>2. slot'.req \in Nat /\ calls' = calls
    BY <1>0, <1>6
  <2> QED BY <1>0, <1>3, <1>6, <2>1, <2>2, WrittenAnswers
<1>11. GivenInv'
  <2>1. ASSUME NEW p \in Req, Expected(p) PROVE Expected(p)'
    BY <1>6, <2>1 DEF Expected
  <2>2. \A i \in 1 .. Len(stack') : stack'[i].pkg = stack[i].pkg
          /\ stack'[i].kind = stack[i].kind /\ stack'[i].acted = stack[i].acted
    BY <1>3, <1>4
  <2>3. ASSUME NEW i \in 1 .. Len(stack'), stack'[i].pkg \in Req,
               stack'[i].kind # "ract", ~stack'[i].acted
        PROVE  /\ Expected(stack[i].pkg)'
               /\ \A k \in 1 .. Len(calls') : calls'[k].pkg # stack'[i].pkg
    <3> DEFINE p == stack[i].pkg
    <3>1. p = stack'[i].pkg /\ p \in Req /\ Expected(p)
          /\ \A k \in 1 .. Len(calls) : calls[k].pkg # p
      BY <1>0, <1>3, <2>2, <2>3 DEF GivenInv
    <3>2. \E a \in abandoned' : a <= stack'[i].pkg
      BY <1>6, <3>1 DEF Expected
    <3> QED BY <1>0, <3>1, <3>2 DEF Expected
  <2> QED BY <1>5, <1>10, <2>3 DEF GivenInv
<1>12. TimeoutInv'
  <2>1. \A i \in 1 .. Len(stack') : stack'[i].kind = "timeout" => stack'[i].sent
    BY <1>1, <1>2, <1>3, <1>4
  <2> QED BY <2>1 DEF TimeoutInv
<1> QED BY <1>6, <1>7, <1>8, <1>9, <1>10, <1>11, <1>12 DEF Inv

(* The slot is freed: the answers to come, and those that scripts have,    *)
(* are of requests that were given up before or are given up now.          *)
LEMMA FinishGivesUp ==
    ASSUME TypeInv, SlotInv, AnswerInv, GivenInv, NEW state \in {"RECEIVED", "CANCLED"}, Finish(state)
    PROVE  /\ slot' = [state |-> state, req |-> slot.req] /\ slot'.state = state
           /\ slot'.req = slot.req /\ abandoned' \subseteq 1 .. made /\ abandoned \subseteq abandoned'
           /\ \A j \in 1 .. Len(wire) : \E a \in abandoned' : a <= wire[j]
           /\ \A i \in 1 .. Len(stack) :
                stack[i].pkg \in Req /\ stack[i].kind # "ract" /\ ~stack[i].acted =>
                  \E a \in abandoned' : a <= stack[i].pkg
<1>1. /\ slot' = [state |-> state, req |-> slot.req] /\ slot'.state = state
      /\ slot'.req = slot.req /\ abandoned' = abandoned \cup GivenUp
  BY Types DEF Finish
<1>2. DOMAIN wire = 1 .. Len(wire) /\ DOMAIN stack = 1 .. Len(stack)
      /\ DOMAIN calls = 1 .. Len(calls)
  BY DEF TypeInv
<1>3. \A r \in GivenUp : r = slot.req /\ r \in 1 .. made
  <2>1. \A r \in GivenUp : r = slot.req /\ slot.state = "SENDED"
    BY DEF GivenUp
  <2> QED BY <2>1, Types DEF SlotInv, None
<1>4. ASSUME NEW r \in Req, Expected(r),
             \/ \E j \in 1 .. Len(wire) : wire[j] = r
             \/ \E i \in 1 .. Len(stack) : stack[i].pkg = r,
             \A k \in 1 .. Len(calls) : calls[k].pkg # r
      PROVE  \E a \in abandoned' : a <= r
  <2>1. CASE slot.state = "SENDED" /\ slot.req = r
    <3>1. r \in GivenUp
      BY <1>2, <1>4, <2>1 DEF GivenUp
    <3>2. r <= r
      BY DEF Req
    <3> QED BY <1>1, <3>1, <3>2
  <2>2. CASE \E a \in abandoned : a <= r
    BY <1>1, <2>2
  <2> QED BY <1>4, <2>1, <2>2 DEF Expected
<1>5. ASSUME NEW j \in 1 .. Len(wire) PROVE \E a \in abandoned' : a <= wire[j]
  <2>1. wire[j] \in 1 .. made /\ wire[j] \in Req
    BY Types
  <2>2. \A k \in 1 .. Len(calls) : calls[k].pkg # wire[j]
    BY <2>1 DEF AnswerInv
  <2> QED BY <1>4, <2>1, <2>2 DEF GivenInv
<1>6. ASSUME NEW i \in 1 .. Len(stack), stack[i].pkg \in Req, stack[i].kind # "ract",
             ~stack[i].acted
      PROVE  \E a \in abandoned' : a <= stack[i].pkg
  BY <1>4, <1>6 DEF GivenInv
<1> QED BY <1>1, <1>3, <1>5, <1>6 DEF TypeInv

(* The slot is freed, and no _RACTIONS run. *)
LEMMA FinishKeeps ==
    ASSUME Inv, NEW state \in {"RECEIVED", "CANCLED"}, Finish(state),
           UNCHANGED <<queue, wire, written, status, made, owner, orphaned, up, calls>>,
           stack' \in Seq(Frame), ShapeInv', ~Calling',
           \A i \in 1 .. Len(stack') :
              stack'[i].pkg \in Req =>
                \E j \in 1 .. Len(stack) :
                   /\ stack[j].pkg = stack'[i].pkg
                   /\ stack'[i].kind # "ract" /\ ~stack'[i].acted =>
                        /\ stack[j].kind # "ract" /\ ~stack[j].acted
                        /\ Running' = "ract" => Top'.pkg # stack'[i].pkg
    PROVE  Inv'
<1>0. /\ TypeInv /\ ShapeInv /\ SlotInv /\ OrderInv /\ CallInv /\ AnswerInv /\ GivenInv
      /\ TimeoutInv
  BY DEF Inv
<1>1. /\ slot' = [state |-> state, req |-> slot.req] /\ slot'.state = state
      /\ slot'.req = slot.req /\ abandoned' \subseteq 1 .. made /\ abandoned \subseteq abandoned'
      /\ \A j \in 1 .. Len(wire) : \E a \in abandoned' : a <= wire[j]
      /\ \A i \in 1 .. Len(stack) :
           stack[i].pkg \in Req /\ stack[i].kind # "ract" /\ ~stack[i].acted =>
             \E a \in abandoned' : a <= stack[i].pkg
  BY <1>0, FinishGivesUp
<1>2. slot'.state # "SENDED"
  BY <1>1
<1>3. TypeInv'
  <2>1. slot' \in [state : SlotStates, req : 0 .. made]
    BY <1>0, <1>1, Types DEF SlotStates
  <2> QED BY <1>0, <1>1, <2>1 DEF TypeInv
<1>4. SlotInv' /\ CallInv' /\ TimeoutInv'
  BY <1>0, <1>2 DEF SlotInv, CallInv, TimeoutInv, Calling
<1>5. Waits(queue)'
  BY <1>0, <1>1 DEF OrderInv, Waits
<1>6. OrderInv'
  BY <1>0, <1>2, <1>5 DEF OrderInv
<1>7. AnswerInv'
  <2>1. ASSUME NEW i \in 1 .. Len(stack'), stack'[i].pkg \in Req
        PROVE  /\ stack'[i].pkg \in written
               /\ \A j \in 1 .. Len(wire) : stack'[i].pkg < wire[j]
    <3>1. PICK j \in 1 .. Len(stack) : stack[j].pkg = stack'[i].pkg
      BY <2>1
    <3> QED BY <1>0, <2>1, <3>1 DEF AnswerInv
  <2> QED BY <1>0, <2>1 DEF AnswerInv
<1>8. GivenInv'
  <2>1. \A j \in 1 .. Len(wire') : Expected(wire[j])'
    BY <1>1 DEF Expected
  <2>2. ASSUME NEW i \in 1 .. Len(stack'), stack'[i].pkg \in Req,
               stack'[i].kind # "ract", ~stack'[i].acted
        PROVE  /\ Expected(stack[i].pkg)'
               /\ \A k \in 1 .. Len(calls') : calls'[k].pkg # stack'[i].pkg
               /\ Running' = "ract" => Top'.pkg # stack'[i].pkg
    <3>1. PICK j \in 1 .. Len(stack) :
            /\ stack[j].pkg = stack'[i].pkg /\ stack[j].kind # "ract" /\ ~stack[j].acted
            /\ Running' = "ract" => Top'.pkg # stack'[i].pkg
      BY <2>2
    <3>2. \E a \in abandoned' : a <= stack'[i].pkg
      BY <1>1, <2>2, <3>1
    <3>3. \A k \in 1 .. Len(calls) : calls[k].pkg # stack'[i].pkg
      BY <1>0, <2>2, <3>1 DEF GivenInv
    <3> QED BY <3>1, <3>2, <3>3 DEF Expected
  <2> QED BY <2>1, <2>2 DEF GivenInv
<1> QED BY <1>3, <1>4, <1>6, <1>7, <1>8 DEF Inv

(* What DO_QUEUE_RACT finds on the stack and leaves there. *)
LEMMA RactStack ==
    ASSUME TypeInv, ShapeInv, NEW pkg \in {Top.pkg, Empty}, NEW final \in {"RECEIVED", "CANCLED"},
           NEW all \in BOOLEAN, NEW r \in Req \cup {None}, InScript, ~Top.acted,
           stack' = Below \o <<[Top EXCEPT !.acted = TRUE],
                               [Script("ract", pkg, r) EXCEPT !.final = final, !.all = all]>>
    PROVE  /\ stack' \in Seq(Frame) /\ ShapeInv' /\ Running' = "ract" /\ Running # "ract" /\ ~Idle
           /\ Len(stack') = Len(stack) + 1 /\ Len(stack) \in 1 .. Len(stack)
           /\ Top = stack[Len(stack)] /\ Top \in Frame
           /\ Top'.pkg = pkg /\ Top'.req = r /\ stack'[Len(stack) + 1] = Top'
           /\ Top'.kind = "ract"
           /\ \A i \in 1 .. Len(stack) :
                /\ stack'[i].kind = stack[i].kind /\ stack'[i].pkg = stack[i].pkg
                /\ stack'[i].req = stack[i].req /\ stack'[i].sent = stack[i].sent
                /\ stack[i].kind # "ract"
                /\ stack[i].pkg \in Req /\ ~stack'[i].acted =>
                     ~stack[i].acted /\ stack[i].pkg # Top.pkg /\ stack[i].pkg # pkg
           /\ pkg \in Package /\ pkg # Empty => pkg = Top.pkg
<1> DEFINE n == Len(stack)
           f == [Top EXCEPT !.acted = TRUE]
           g == [Script("ract", pkg, r) EXCEPT !.final = final, !.all = all]
<1>1. ~Idle /\ Top.kind \in {"script", "error", "timeout"} /\ Running # "ract"
  BY RunningIs
<1>2. /\ n \in 1 .. n /\ Top = stack[n] /\ Top \in Frame
      /\ Top.kind \in {"script", "error"} => n = 1
      /\ Top.kind = "timeout" => Top.pkg = None /\ n <= 2
      /\ \A i \in 1 .. n - 1 : stack[i].kind # "ract"
      /\ Top.kind = "timeout" => \A i \in 1 .. n - 1 : stack[i].kind = "script"
  BY <1>1, TopIs
<1>3. /\ f \in Frame /\ f.kind = Top.kind /\ f.pkg = Top.pkg /\ f.req = Top.req
      /\ f.acted = TRUE /\ f.sent = Top.sent
  BY <1>2 DEF Frame
<1>4. pkg \in Package
  BY <1>2 DEF Frame, Package
<1>5. g \in Frame /\ g.kind = "ract" /\ g.pkg = pkg /\ g.req = r
  BY <1>4 DEF Frame, Script
<1> HIDE DEF f, g
<1>6. /\ stack' \in Seq(Frame) /\ n \in Nat \ {0} /\ Len(stack') = n + 1
      /\ stack'[n] = f /\ stack'[n + 1] = g
      /\ \A i \in 1 .. n - 1 : stack'[i] = stack[i]
      /\ ~Idle' /\ Top' = g
  <2>1. stack' = Below \o <<f, g>>
    BY DEF f, g
  <2> QED BY <1>1, <1>3, <1>5, <2>1, OverFacts
<1>7. ASSUME NEW i \in 1 .. n
      PROVE  /\ stack'[i].kind = stack[i].kind /\ stack'[i].pkg = stack[i].pkg
             /\ stack'[i].req = stack[i].req /\ stack'[i].sent = stack[i].sent
             /\ stack[i].kind # "ract"
             /\ stack[i].pkg \in Req /\ ~stack'[i].acted =>
                  ~stack[i].acted /\ stack[i].pkg # Top.pkg /\ stack[i].pkg # pkg
  <2>1. CASE i = n
    BY <1>1, <1>2, <1>3, <1>6, <2>1
  <2>2. CASE i \in 1 .. n - 1
    <3>1. stack'[i] = stack[i] /\ Top.kind = "timeout" /\ Top.pkg = None
      BY <1>1, <1>2, <1>6, <2>2
    <3>2. None \notin Req /\ Empty \notin Req
      BY DEF None, Empty, Req
    <3> QED BY <1>2, <2>2, <3>1, <3>2
  <2> QED BY <1>6, <2>1, <2>2
<1>8. ShapeInv'
  <2>1. 1 \in 1 .. n
    BY <1>6
  <2>2. stack'[1].kind = stack[1].kind
    BY <1>7, <2>1
  <2>3. ASSUME NEW i \in 1 .. n
        PROVE  /\ stack'[i].kind # "ract"
               /\ stack'[i].kind = "timeout" =>
                    stack'[i].pkg = None /\ (i = 1 \/ (i = 2 /\ stack'[1].kind = "script"))
               /\ stack'[i].kind \in {"script", "error"} => i = 1
    BY <1>7, <2>2 DEF ShapeInv
  <2>4. \A i \in 1 .. Len(stack') :
           i \in 1 .. n \/ (i = Len(stack') /\ i > 1 /\ stack'[i].kind = "ract")
    BY <1>5, <1>6
  <2> QED BY <2>3, <2>4 DEF ShapeInv
<1>9. Running' = "ract"
  BY <1>5, <1>6 DEF Running
<1> QED BY <1>1, <1>2, <1>4, <1>5, <1>6, <1>7, <1>8, <1>9

(* DO_QUEUE_RACT: the answer goes to the request in the slot, or the slot  *)
(* is freed.                                                               *)
LEMMA RactKeeps ==
    ASSUME Inv, NEW pkg \in Package, NEW final \in {"RECEIVED", "CANCLED"},
           NEW all \in BOOLEAN, Ract(pkg, final, all)
    PROVE  Inv'
<1> PICK hit \in BOOLEAN : hit <=> slot.state = "SENDED" /\ SrcFound(slot.req) /\ pkg # Empty
  OBVIOUS
<1> PICK r : r = IF hit THEN slot.req ELSE None
  OBVIOUS
<1> DEFINE n == Len(stack)
           m == Len(calls)
<1>0. /\ TypeInv /\ ShapeInv /\ SlotInv /\ OrderInv /\ CallInv /\ AnswerInv /\ GivenInv
      /\ TimeoutInv
      /\ UNCHANGED <<queue, wire, written, status, made, owner, orphaned, up>>
      /\ InScript /\ ~Top.acted /\ pkg \in {Top.pkg, Empty}
      /\ stack' = Below \o <<[Top EXCEPT !.acted = TRUE],
                             [Script("ract", pkg, r) EXCEPT !.final = final, !.all = all]>>
      /\ IF hit THEN CallBack(slot.req, pkg, FALSE) ELSE UNCHANGED calls
      /\ IF slot.state = "SENDED" /\ ~hit
         THEN Finish(final) ELSE UNCHANGED <<slot, abandoned>>
  BY DEF Inv, Ract, clientVars
<1>1. r \in Req \cup {None}
  <2>1. TypeInv /\ r = IF hit THEN slot.req ELSE None
    BY <1>0
  <2>2. slot.req \in 0 .. made /\ 1 .. made \subseteq Req /\ made \in Nat
    BY ONLY <2>1, Types
  <2>3. slot.req \in Req \cup {None}
    BY ONLY <2>2 DEF None
  <2> QED BY <2>1, <2>3
<1>2. /\ stack' \in Seq(Frame) /\ ShapeInv' /\ Running' = "ract" /\ Running # "ract" /\ ~Idle
      /\ Len(stack') = n + 1 /\ n \in 1 .. n
      /\ Top = stack[n] /\ Top \in Frame
      /\ Top'.pkg = pkg /\ Top'.req = r /\ stack'[n + 1] = Top' /\ Top'.kind = "ract"
      /\ \A i \in 1 .. n :
           /\ stack'[i].kind = stack[i].kind /\ stack'[i].pkg = stack[i].pkg
           /\ stack'[i].req = stack[i].req /\ stack'[i].sent = stack[i].sent
           /\ stack[i].kind # "ract"
           /\ stack[i].pkg \in Req /\ ~stack'[i].acted =>
                ~stack[i].acted /\ stack[i].pkg # Top.pkg /\ stack[i].pkg # pkg
      /\ pkg \in Package /\ pkg # Empty => pkg = Top.pkg
  <2>1. /\ TypeInv /\ ShapeInv /\ pkg \in {Top.pkg, Empty} /\ final \in {"RECEIVED", "CANCLED"}
        /\ all \in BOOLEAN /\ InScript /\ ~Top.acted
        /\ stack' = Below \o <<[Top EXCEPT !.acted = TRUE],
                               [Script("ract", pkg, r) EXCEPT !.final = final, !.all = all]>>
    BY <1>0
  <2> QED BY ONLY <1>1, <2>1, RactStack
<1>3. /\ ~Calling /\ (Calling' <=> r # None)
  BY <1>2 DEF Calling
<1>4. Empty \notin Req /\ None \notin Req
  BY DEF Empty, None, Req
<1>5. \A i \in 1 .. n + 1 :
         /\ stack'[i].pkg \in Req =>
              \E j \in 1 .. n :
                 /\ stack[j].pkg = stack'[i].pkg
                 /\ stack'[i].kind # "ract" /\ ~stack'[i].acted =>
                      stack[j].kind # "ract" /\ ~stack[j].acted
         /\ stack'[i].pkg \in Req /\ stack'[i].kind # "ract" /\ ~stack'[i].acted =>
              /\ i \in 1 .. n /\ stack[i].kind # "ract" /\ ~stack[i].acted
              /\ stack[i].pkg = stack'[i].pkg /\ stack'[i].pkg # pkg /\ stack'[i].pkg # Top.pkg
  <2> SUFFICES ASSUME NEW i \in 1 .. n + 1, stack'[i].pkg \in Req
               PROVE  /\ \E j \in 1 .. n :
                           /\ stack[j].pkg = stack'[i].pkg
                           /\ stack'[i].kind # "ract" /\ ~stack'[i].acted =>
                                stack[j].kind # "ract" /\ ~stack[j].acted
                      /\ stack'[i].kind # "ract" /\ ~stack'[i].acted =>
                           /\ i \in 1 .. n /\ stack[i].kind # "ract" /\ ~stack[i].acted
                           /\ stack[i].pkg = stack'[i].pkg /\ stack'[i].pkg # pkg
                           /\ stack'[i].pkg # Top.pkg
    OBVIOUS
  <2>1. CASE i \in 1 .. n
    BY <1>2, <2>1
  <2>2. CASE i = n + 1
    BY <1>2, <1>4, <2>2
  <2> QED BY <1>2, <2>1, <2>2
<1>6. CASE slot.state = "SENDED" /\ ~hit
  <2>1. r = None /\ ~Calling' /\ calls' = calls /\ Finish(final)
    BY <1>0, <1>3, <1>6
  <2>2. \A i \in 1 .. Len(stack') :
          stack'[i].pkg \in Req =>
            \E j \in 1 .. Len(stack) :
               /\ stack[j].pkg = stack'[i].pkg
               /\ stack'[i].kind # "ract" /\ ~stack'[i].acted =>
                    /\ stack[j].kind # "ract" /\ ~stack[j].acted
                    /\ Running' = "ract" => Top'.pkg # stack'[i].pkg
    BY <1>2, <1>5
  <2> QED BY <1>0, <1>2, <2>1, <2>2, FinishKeeps
<1>7. CASE ~(slot.state = "SENDED" /\ ~hit)
  <2>1. UNCHANGED <<slot, abandoned>>
    BY <1>0, <1>7
  <2>2. \A x : Expected(x)' <=> Expected(x)
    BY <2>1 DEF Expected
  <2>3. SlotInv'
    BY <1>0, <1>2, <1>3, <1>7, <2>1 DEF SlotInv, Calling
  <2>4. TimeoutInv'
    <3>1. \A i \in 1 .. n : stack[i].kind = "timeout" /\ slot.state = "SENDED" =>
              slot.req = stack[i].req \/ stack[i].sent
      BY <1>0, <1>3 DEF TimeoutInv
    <3>2. \A i \in 1 .. n + 1 : stack'[i].kind = "timeout" => i \in 1 .. n
      BY <1>2
    <3> QED BY <1>2, <2>1, <3>1, <3>2 DEF TimeoutInv
  <2>5. \A i \in 1 .. n + 1 : stack'[i].pkg \in Req =>
           stack'[i].pkg \in written /\ \A j \in 1 .. Len(wire) : stack'[i].pkg < wire[j]
    BY <1>0, <1>5 DEF AnswerInv
  <2>6. CASE ~hit
    <3>1. calls' = calls
      BY <1>0, <2>6
    <3>2. Waits(queue)' <=> Waits(queue)
      BY <1>0, <2>1, <3>1 DEF Waits
    <3>3. TypeInv'
      BY <1>0, <1>2, <2>1, <3>1 DEF TypeInv
    <3>4. OrderInv' /\ CallInv'
      BY <1>0, <1>3, <2>1, <3>1, <3>2 DEF OrderInv, CallInv
    <3>5. AnswerInv'
      BY <1>0, <1>2, <2>5, <3>1 DEF AnswerInv
    <3>6. GivenInv'
      <4>1. ASSUME NEW i \in 1 .. n + 1, stack'[i].pkg \in Req,
                   stack'[i].kind # "ract", ~stack'[i].acted
            PROVE  /\ Expected(stack[i].pkg)'
                   /\ \A k \in 1 .. m : calls[k].pkg # stack'[i].pkg
                   /\ Top'.pkg # stack'[i].pkg
        <5>1. /\ i \in 1 .. n /\ stack[i].kind # "ract" /\ ~stack[i].acted
              /\ stack[i].pkg = stack'[i].pkg /\ stack'[i].pkg # pkg
          BY <1>5, <4>1
        <5>2. Expected(stack[i].pkg) /\ \A k \in 1 .. m : calls[k].pkg # stack[i].pkg
          BY <1>0, <4>1, <5>1 DEF GivenInv
        <5> QED BY <1>2, <2>1, <5>1, <5>2 DEF Expected
      <4>2. \A j \in 1 .. Len(wire') : Expected(wire[j])'
        BY <1>0, <2>1 DEF GivenInv, Expected
      <4> QED BY <1>2, <3>1, <4>1, <4>2 DEF GivenInv
    <3> QED BY <1>2, <2>3, <2>4, <3>3, <3>4, <3>5, <3>6 DEF Inv
  <2>7. CASE hit
    <3> PICK k : k = [req |-> slot.req, pkg |-> pkg, all |-> FALSE,
                      live |-> slot.req \notin orphaned]
      OBVIOUS
    <3>1. /\ calls' = Append(calls, k) /\ slot.state = "SENDED" /\ slot.req \in Req
          /\ pkg \in Package \ {Empty}
      <4>1. slot.state = "SENDED" /\ pkg # Empty
        BY <2>7
      <4>2. slot.req \in Req
        BY <1>0, <4>1, Types DEF SlotInv, None
      <4> QED BY <1>0, <2>7, <4>1, <4>2 DEF CallBack
    <3>2. k \in Call /\ k.req = slot.req /\ k.pkg = pkg
      BY <3>1 DEF Call
    <3>3. /\ calls' \in Seq(Call) /\ m \in Nat /\ Len(calls') = m + 1 /\ calls'[m + 1] = k
          /\ \A i \in 1 .. m : calls'[i] = calls[i]
      BY <1>0, <3>1, <3>2, AppendFacts DEF TypeInv
    <3>4. Calling'
      BY <1>3, <2>7, <3>1, <1>4
    <3>5. TypeInv'
      BY <1>0, <1>2, <2>1, <3>3 DEF TypeInv
    <3>6. \A i \in 1 .. m + 1 : i \in 1 .. m \/ (i = m + 1 /\ calls'[i].req = slot.req
                                                    /\ calls'[i].pkg = pkg)
      BY <3>2, <3>3
    <3>7. Waits(queue)'
      <4>1. \A i \in 1 .. Len(queue), j \in 1 .. m + 1 : calls'[j].req < queue[i]
        BY <1>0, <3>3, <3>6 DEF OrderInv, Waits
      <4> QED BY <1>0, <2>1, <3>3, <4>1 DEF OrderInv, Waits
    <3>8. OrderInv'
      BY <1>0, <2>1, <3>7 DEF OrderInv
    <3>9. CallInv'
      <4>1. \A i \in 1 .. m : calls[i].req < slot.req
        BY <1>0, <1>3, <3>1 DEF CallInv
      <4>2. ASSUME NEW i \in 1 .. m + 1, NEW j \in 1 .. m + 1, i < j
            PROVE  calls'[i].req < calls'[j].req
        <5>1. i \in 1 .. m /\ calls'[i] = calls[i]
          BY <3>3, <4>2
        <5>2. CASE j \in 1 .. m
          BY <1>0, <3>3, <4>2, <5>1, <5>2 DEF CallInv
        <5>3. CASE j = m + 1
          BY <3>6, <4>1, <5>1, <5>3, <3>3
        <5> QED BY <3>3, <5>2, <5>3
      <4>3. \A i \in 1 .. m + 1 : calls'[i].req <= made
        <5>1. TypeInv /\ \A i \in 1 .. m : calls[i].req <= made
          BY <1>0 DEF CallInv
        <5>2. slot.req <= made
          BY ONLY <5>1, Types
        <5> QED BY <3>3, <3>6, <5>1, <5>2
      <4> QED BY <1>0, <3>3, <3>4, <4>2, <4>3 DEF CallInv
    <3>10. pkg \in Req => pkg \in written /\ \A j \in 1 .. Len(wire) : pkg < wire[j]
      BY <1>0, <1>2, <3>1 DEF AnswerInv
    <3>11. AnswerInv'
      <4>1. ASSUME NEW i \in 1 .. m + 1, calls'[i].pkg \in Req
            PROVE  /\ calls'[i].pkg \in written
                   /\ \A j \in 1 .. Len(wire) : calls'[i].pkg < wire[j]
        BY <1>0, <3>3, <3>6, <3>10, <4>1 DEF AnswerInv
      <4> QED BY <1>0, <1>2, <2>5, <3>3, <4>1 DEF AnswerInv
    <3>12. GivenInv'
      <4>1. ASSUME NEW i \in 1 .. n + 1, stack'[i].pkg \in Req,
                   stack'[i].kind # "ract", ~stack'[i].acted
            PROVE  /\ Expected(stack[i].pkg)'
                   /\ \A j \in 1 .. m + 1 : calls'[j].pkg # stack'[i].pkg
                   /\ Top'.pkg # stack'[i].pkg
        <5>1. /\ i \in 1 .. n /\ stack[i].kind # "ract" /\ ~stack[i].acted
              /\ stack[i].pkg = stack'[i].pkg /\ stack'[i].pkg # pkg
          BY <1>5, <4>1
        <5>2. Expected(stack[i].pkg) /\ \A j \in 1 .. m : calls[j].pkg # stack[i].pkg
          BY <1>0, <4>1, <5>1 DEF GivenInv
        <5>3. \A j \in 1 .. m + 1 : calls'[j].pkg # stack'[i].pkg
          BY <3>3, <3>6, <5>1, <5>2
        <5> QED BY <1>2, <2>1, <5>1, <5>2, <5>3 DEF Expected
      <4>2. \A j \in 1 .. Len(wire') : Expected(wire[j])'
        BY <1>0, <2>1 DEF GivenInv, Expected
      <4> QED BY <1>2, <3>3, <4>1, <4>2 DEF GivenInv
    <3> QED BY <1>2, <2>3, <2>4, <3>5, <3>8, <3>9, <3>11, <3>12 DEF Inv
  <2> QED BY <2>6, <2>7
<1> QED BY <1>6, <1>7

(* The script on top is over: none is left that runs _RACTIONS. *)
LEMMA PopStack ==
    ASSUME TypeInv, ShapeInv, ~Idle, stack' = Below
    PROVE  /\ stack' \in Seq(Frame) /\ ShapeInv' /\ Running' # "ract" /\ ~Calling'
           /\ \A i \in 1 .. Len(stack') : i \in 1 .. Len(stack) /\ stack'[i] = stack[i]
           /\ \A i \in 1 .. Len(stack') : stack'[i].kind # "ract"
<1> DEFINE n == Len(stack)
<1>1. /\ stack' \in Seq(Frame) /\ n \in Nat \ {0} /\ Len(stack') = n - 1
      /\ \A i \in 1 .. n - 1 : stack'[i] = stack[i]
  BY PopFacts
<1>2. \A i \in 1 .. n - 1 : i \in 1 .. n /\ stack[i].kind # "ract"
  BY <1>1 DEF ShapeInv
<1>3. ShapeInv'
  <2>1. ASSUME NEW i \in 1 .. n - 1
        PROVE  /\ stack'[i].kind # "ract"
               /\ stack'[i].kind = "timeout" =>
                    stack'[i].pkg = None /\ (i = 1 \/ (i = 2 /\ stack'[1].kind = "script"))
               /\ stack'[i].kind \in {"script", "error"} => i = 1
    <3>1. 1 \in 1 .. n - 1 /\ i \in 1 .. n
      BY <1>1
    <3> QED BY <1>1, <1>2, <3>1 DEF ShapeInv
  <2> QED BY <1>1, <2>1 DEF ShapeInv
<1>4. Running' # "ract"
  <2>1. CASE stack' = <<>>
    BY <2>1 DEF Running, Idle
  <2>2. CASE stack' # <<>>
    <3>1. Len(stack') \in 1 .. n - 1
      BY <1>1, <2>2
    <3> QED BY <1>1, <1>2, <3>1 DEF Running, Idle, Top
  <2> QED BY <2>1, <2>2
<1> QED BY <1>1, <1>2, <1>3, <1>4 DEF Calling

(* A DO_QUEUE_RACT that goes on. *)
LEMMA RactTop ==
    ASSUME TypeInv, ShapeInv, Running = "ract", NEW f \in Frame, f.kind = "ract",
           stack' = Append(Below, f)
    PROVE  /\ stack' \in Seq(Frame) /\ ShapeInv' /\ Running' = "ract" /\ Top' = f
           /\ Len(stack') = Len(stack) /\ Len(stack) \in 1 .. Len(stack) /\ stack'[Len(stack)] = f
           /\ \A i \in 1 .. Len(stack) - 1 :
                stack'[i] = stack[i] /\ i \in 1 .. Len(stack) /\ stack[i].kind # "ract"
           /\ Top = stack[Len(stack)] /\ Top \in Frame /\ Top.kind = "ract" /\ Len(stack) > 1
<1> DEFINE n == Len(stack)
<1>1. ~Idle /\ Top.kind = "ract"
  BY RunningIs
<1>2. /\ n \in 1 .. n /\ Top = stack[n] /\ Top \in Frame /\ n > 1
  BY <1>1, TopIs DEF ShapeInv
<1>3. /\ stack' \in Seq(Frame) /\ Len(stack') = n /\ stack'[n] = f
      /\ \A i \in 1 .. n - 1 : stack'[i] = stack[i]
      /\ n \in Nat \ {0} /\ ~Idle' /\ Top' = f
  BY <1>1, ReplaceFacts
<1>4. \A i \in 1 .. n - 1 : i \in 1 .. n /\ stack[i].kind # "ract"
  BY <1>3 DEF ShapeInv
<1>5. Running' = "ract"
  BY <1>3 DEF Running
<1>6. ShapeInv'
  <2>1. ASSUME NEW i \in 1 .. n - 1
        PROVE  /\ stack'[i].kind # "ract"
               /\ stack'[i].kind = "timeout" =>
                    stack'[i].pkg = None /\ (i = 1 \/ (i = 2 /\ stack'[1].kind = "script"))
               /\ stack'[i].kind \in {"script", "error"} => i = 1
    <3>1. 1 \in 1 .. n - 1 /\ i \in 1 .. n
      BY <1>3
    <3> QED BY <1>3, <1>4, <3>1 DEF ShapeInv
  <2>2. \A i \in 1 .. n : i \in 1 .. n - 1 \/ (i = n /\ i > 1 /\ stack'[i].kind = "ract")
    BY <1>2, <1>3
  <2> QED BY <1>3, <2>1, <2>2 DEF ShapeInv
<1> QED BY <1>1, <1>2, <1>3, <1>4, <1>5, <1>6

(* The _RACTIONS are over, and the slot is freed. *)
LEMMA RactReturnKeeps ==
    ASSUME Inv, RactReturn
    PROVE  Inv'
<1> DEFINE n == Len(stack)
           f == [Top EXCEPT !.req = None]
<1>0. /\ TypeInv /\ ShapeInv /\ GivenInv
      /\ UNCHANGED <<queue, wire, written, status, made, owner, orphaned, up, calls>>
      /\ Running = "ract" /\ Finish(Top.final) /\ stack' = Append(Below, f)
  BY DEF Inv, RactReturn, clientVars
<1>1. Top \in Frame /\ Top.kind = "ract"
  BY <1>0, RunningIs, TopIs
<1>2. /\ f \in Frame /\ f.kind = "ract" /\ f.pkg = Top.pkg /\ f.req = None
      /\ Top.final \in {"RECEIVED", "CANCLED"}
  BY <1>1 DEF Frame
<1> HIDE DEF f
<1>3. /\ stack' \in Seq(Frame) /\ ShapeInv' /\ Running' = "ract" /\ Top' = f
      /\ Len(stack') = n /\ n \in 1 .. n /\ stack'[n] = f
      /\ \A i \in 1 .. n - 1 : stack'[i] = stack[i] /\ i \in 1 .. n /\ stack[i].kind # "ract"
      /\ Top = stack[n]
  BY <1>0, <1>2, RactTop
<1>4. ~Calling'
  BY <1>2, <1>3 DEF Calling
<1>5. \A i \in 1 .. Len(stack') :
        stack'[i].pkg \in Req =>
          \E j \in 1 .. Len(stack) :
             /\ stack[j].pkg = stack'[i].pkg
             /\ stack'[i].kind # "ract" /\ ~stack'[i].acted =>
                  /\ stack[j].kind # "ract" /\ ~stack[j].acted
                  /\ Running' = "ract" => Top'.pkg # stack'[i].pkg
  <2> SUFFICES ASSUME NEW i \in 1 .. n, stack'[i].pkg \in Req
               PROVE  /\ stack[i].pkg = stack'[i].pkg
                      /\ stack'[i].kind # "ract" /\ ~stack'[i].acted =>
                           /\ stack[i].kind # "ract" /\ ~stack[i].acted
                           /\ Top'.pkg # stack'[i].pkg
    BY <1>3
  <2>1. CASE i = n
    BY <1>2, <1>3, <2>1
  <2>2. CASE i \in 1 .. n - 1
    BY <1>0, <1>2, <1>3, <2>2 DEF GivenInv
  <2> QED BY <1>3, <2>1, <2>2
<1> QED BY ONLY Inv, <1>0, <1>2, <1>3, <1>4, <1>5, FinishKeeps

(* A script ends: the slot stays, or it is freed by CHK_QUEUE_TIMEOUT, or  *)
(* the upstream is gone.                                                   *)
LEMMA DiscardKeeps ==
    ASSUME Inv, Discard, stack' = <<>>, UNCHANGED <<clientVars, calls>>
    PROVE  Inv'
<1>0. /\ TypeInv /\ CallInv /\ AnswerInv
      /\ UNCHANGED <<status, made, owner, orphaned, calls, written>>
      /\ queue' = <<>> /\ wire' = <<>> /\ abandoned' = {} /\ stack' = <<>> /\ up' = FALSE
      /\ slot'.state = "CONNECTING" /\ slot'.req = None /\ slot' = [state |-> "CONNECTING", req |-> None]
  BY DEF Inv, Discard, clientVars
<1>1. Len(queue') = 0 /\ Len(wire') = 0 /\ Len(stack') = 0
  BY <1>0
<1>2. Running' = "none" /\ ~Calling'
  BY <1>0 DEF Running, Idle, Calling
<1>3. TypeInv'
  <2>1. slot' \in [state : SlotStates, req : 0 .. made]
    BY <1>0, Types DEF SlotStates, None
  <2>2. queue' \in Seq(1 .. made) /\ wire' \in Seq(1 .. made) /\ stack' \in Seq(Frame)
    BY <1>0
  <2>3. abandoned' \subseteq 1 .. made /\ up' \in BOOLEAN
    BY <1>0
  <2>4. /\ status \in [Clients -> {"new", "up", "gone"}] /\ made \in 0 .. MaxReq
        /\ owner \in Seq(Clients) /\ Len(owner) = made /\ calls \in Seq(Call)
        /\ orphaned \subseteq 1 .. made /\ written \subseteq 1 .. made
    BY <1>0 DEF TypeInv
  <2>5. UNCHANGED <<status, made, owner, orphaned, calls, written>>
    BY <1>0
  <2> QED BY ONLY <2>1, <2>2, <2>3, <2>4, <2>5 DEF TypeInv
<1>4. Increasing(queue)' /\ Increasing(wire)'
  BY <1>0 DEF Increasing
<1>5. OrderInv'
  BY <1>0, <1>1, <1>4 DEF OrderInv, Waits
<1>6. ShapeInv' /\ SlotInv' /\ CallInv' /\ AnswerInv' /\ GivenInv' /\ TimeoutInv'
  BY <1>0, <1>1, <1>2 DEF ShapeInv, SlotInv, CallInv, AnswerInv, GivenInv, TimeoutInv
<1> QED BY <1>3, <1>5, <1>6 DEF Inv

LEMMA EndKeeps ==
    ASSUME Inv, EndScript
    PROVE  Inv'
<1> DEFINE n == Len(stack)
<1>0. /\ TypeInv /\ ShapeInv /\ SlotInv /\ OrderInv /\ CallInv /\ AnswerInv /\ GivenInv
      /\ TimeoutInv /\ UNCHANGED <<status, made, owner, orphaned, calls>>
      /\ InScript /\ stack' = Below
  BY DEF Inv, EndScript, clientVars
<1>1. ~Idle /\ Running # "ract" /\ ~Calling
  BY <1>0, RunningIs
<1>2. /\ stack' \in Seq(Frame) /\ ShapeInv' /\ Running' # "ract" /\ ~Calling'
      /\ \A i \in 1 .. Len(stack') : i \in 1 .. n /\ stack'[i] = stack[i]
      /\ \A i \in 1 .. Len(stack') : stack'[i].kind # "ract"
  BY <1>0, <1>1, PopStack
<1>3. CASE Top.kind = "script" /\ UNCHANGED <<queueVars, up>>
  <2>1. UNCHANGED <<queue, slot, wire, abandoned, written, up>>
    BY <1>3 DEF queueVars
  <2>2. /\ \A x : Expected(x)' <=> Expected(x)
        /\ Waits(queue)' <=> Waits(queue)
    BY <1>0, <2>1 DEF Expected, Waits
  <2>3. TypeInv'
    BY <1>0, <1>2, <2>1 DEF TypeInv
  <2>4. SlotInv' /\ OrderInv' /\ CallInv'
    BY <1>0, <1>1, <1>2, <2>1, <2>2 DEF SlotInv, OrderInv, CallInv
  <2>5. AnswerInv' /\ TimeoutInv'
    BY <1>0, <1>1, <1>2, <2>1 DEF AnswerInv, TimeoutInv
  <2>6. GivenInv'
    BY <1>0, <1>2, <2>1, <2>2 DEF GivenInv
  <2> QED BY <1>2, <2>3, <2>4, <2>5, <2>6 DEF Inv
<1>4. CASE Top.kind = "timeout" /\ Finish("CANCLED") /\ UNCHANGED <<queue, wire, written, up>>
  <2>1. \A i \in 1 .. Len(stack') :
          stack'[i].pkg \in Req =>
            \E j \in 1 .. Len(stack) :
               /\ stack[j].pkg = stack'[i].pkg
               /\ stack'[i].kind # "ract" /\ ~stack'[i].acted =>
                    /\ stack[j].kind # "ract" /\ ~stack[j].acted
                    /\ Running' = "ract" => Top'.pkg # stack'[i].pkg
    BY <1>2
  <2> QED BY ONLY Inv, <1>0, <1>2, <1>4, <2>1, FinishKeeps
<1>5. CASE Top.kind = "error" /\ Discard
  <2>1. n = 1
    BY <1>0, <1>1, <1>5, TopIs
  <2>2. stack' = <<>>
    BY <1>0, <1>1, <2>1, PopFacts
  <2> QED BY <1>0, <1>5, <2>2, DiscardKeeps DEF clientVars
<1> QED BY <1>3, <1>4, <1>5 DEF EndScript

LEMMA ClosedKeeps ==
    ASSUME Inv, Closed
    PROVE  Inv'
BY DiscardKeeps DEF Closed

(* POP_ALL: the next request goes through the slot. *)
LEMMA RactNextKeeps ==
    ASSUME Inv, RactNext
    PROVE  Inv'
<1> DEFINE n == Len(stack)
           m == Len(calls)
           r == Head(queue)
           t == Tail(queue)
<1>0. /\ TypeInv /\ ShapeInv /\ SlotInv /\ OrderInv /\ CallInv /\ AnswerInv /\ GivenInv
      /\ TimeoutInv
      /\ UNCHANGED <<wire, abandoned, written, status, made, owner, orphaned, up>>
      /\ Running = "ract" /\ Top.req = None /\ queue # <<>> /\ queue' = t
  BY DEF Inv, RactNext, clientVars
<1>1. /\ Top \in Frame /\ Top.kind = "ract" /\ ~Calling /\ slot.state # "SENDED"
      /\ Top = stack[n] /\ n \in 1 .. n
  BY <1>0, RunningIs, TopIs DEF SlotInv
<1>2. /\ r = queue[1] /\ r \in 1 .. made /\ t \in Seq(1 .. made) /\ Len(queue) \in Nat \ {0}
      /\ Len(t) = Len(queue) - 1 /\ \A i \in 1 .. Len(queue) - 1 : t[i] = queue[i + 1]
  BY <1>0, TailFacts DEF TypeInv
<1>3. Increasing(t) /\ \A j \in 1 .. Len(t) : r < t[j]
  <2>1. made \in Nat /\ queue \in Seq(1 .. made) /\ Increasing(queue)
    BY <1>0, Types DEF OrderInv, Waits, TypeInv
  <2> QED BY <1>0, <2>1, IncreasingTail
<1>4. /\ slot.req < r /\ (\A x \in written : x < r) /\ (\A k \in 1 .. m : calls[k].req < r)
      /\ \A i \in 1 .. Len(t) :
            /\ \A x \in written : x < t[i]
            /\ \A k \in 1 .. m : calls[k].req < t[i]
  <2>1. 1 \in 1 .. Len(queue) /\ \A i \in 1 .. Len(t) : i + 1 \in 1 .. Len(queue) /\ t[i] = queue[i + 1]
    BY <1>2
  <2> QED BY <1>0, <1>2, <2>1 DEF OrderInv, Waits
<1>5. r \in Req /\ r # None /\ m \in Nat
  <2>1. TypeInv
    BY <1>0
  <2>2. 1 .. made \subseteq Req /\ made \in Nat /\ Len(calls) \in Nat
    BY ONLY <2>1, Types
  <2> QED BY <1>2, <2>2 DEF None
<1> HIDE DEF r, t
<1>6. \A j \in 1 .. Len(wire') : Expected(wire[j])'
  BY <1>0, <1>1 DEF GivenInv, Expected
<1>7. ASSUME NEW f \in Frame, f.kind = "ract", f.pkg = Top.pkg, stack' = Append(Below, f),
             slot'.req = r, slot' \in [state : SlotStates, req : 0 .. made],
             \/ slot'.state = "SENDED" /\ f.req = r
                /\ \E k \in Call : k.req = r /\ k.pkg = Top.pkg /\ calls' = Append(calls, k)
             \/ slot'.state # "SENDED" /\ f.req = None /\ calls' = calls
      PROVE  Inv'
  <2>1. /\ stack' \in Seq(Frame) /\ ShapeInv' /\ Running' = "ract" /\ Top' = f
        /\ Len(stack') = n /\ stack'[n] = f
        /\ \A i \in 1 .. n - 1 : stack'[i] = stack[i] /\ i \in 1 .. n /\ stack[i].kind # "ract"
    BY <1>0, <1>7, RactTop
  <2>2. Calling' <=> slot'.state = "SENDED"
    BY <1>5, <1>7, <2>1 DEF Calling
  <2>3. /\ calls' \in Seq(Call) /\ Len(calls') \in Nat /\ m <= Len(calls')
        /\ \A i \in 1 .. m : calls'[i] = calls[i]
        /\ \A i \in 1 .. Len(calls') :
              i \in 1 .. m \/ (i = m + 1 /\ calls'[i].req = r /\ calls'[i].pkg = Top.pkg)
    <3>1. CASE calls' = calls
      BY <1>0, <1>5, <3>1 DEF TypeInv
    <3>2. CASE \E k \in Call : k.req = r /\ k.pkg = Top.pkg /\ calls' = Append(calls, k)
      <4>1. PICK k \in Call : k.req = r /\ k.pkg = Top.pkg /\ calls' = Append(calls, k)
        BY <3>2
      <4>2. /\ calls' \in Seq(Call) /\ Len(calls') = m + 1 /\ calls'[m + 1] = k
            /\ \A i \in 1 .. m : calls'[i] = calls[i]
        BY <1>0, <4>1, AppendFacts DEF TypeInv
      <4> QED BY <1>5, <4>1, <4>2
    <3> QED BY <1>7, <3>1, <3>2
  <2>4. TypeInv'
    BY <1>0, <1>2, <1>7, <2>1, <2>3 DEF TypeInv
  <2>5. SlotInv'
    BY <1>5, <1>7, <2>1, <2>2 DEF SlotInv, Calling
  <2>6. Waits(queue)'
    <3>1. \A i \in 1 .. Len(t), k \in 1 .. Len(calls') : calls'[k].req < t[i]
      BY <1>3, <1>4, <2>3
    <3> QED BY <1>0, <1>3, <1>4, <1>7, <3>1 DEF Waits
  <2>7. OrderInv'
    <3>1. \A x \in written : x <= r
      BY <1>0, <1>2, <1>4 DEF TypeInv
    <3> QED BY <1>0, <1>7, <2>6, <3>1 DEF OrderInv
  <2>8. CallInv'
    <3>1. ASSUME NEW i \in 1 .. Len(calls'), NEW j \in 1 .. Len(calls'), i < j
          PROVE  calls'[i].req < calls'[j].req
      <4>1. i \in 1 .. m /\ calls'[i] = calls[i]
        BY <2>3, <3>1
      <4>2. CASE j \in 1 .. m
        BY <1>0, <2>3, <3>1, <4>1, <4>2 DEF CallInv
      <4>3. CASE j = m + 1
        BY <1>4, <1>5, <2>3, <4>1, <4>3
      <4> QED BY <2>3, <4>2, <4>3
    <3>2. \A i \in 1 .. Len(calls') : calls'[i].req <= made
      <4>1. r <= made /\ \A i \in 1 .. m : calls[i].req <= made
        BY <1>0, <1>2 DEF CallInv
      <4> QED BY <2>3, <4>1
    <3> QED BY <1>0, <2>2, <3>1, <3>2 DEF CallInv
  <2>9. AnswerInv'
    <3>1. Top.pkg \in Req => Top.pkg \in written /\ \A j \in 1 .. Len(wire) : Top.pkg < wire[j]
      BY <1>0, <1>1 DEF AnswerInv
    <3>2. ASSUME NEW i \in 1 .. Len(calls'), calls'[i].pkg \in Req
          PROVE  /\ calls'[i].pkg \in written
                 /\ \A j \in 1 .. Len(wire) : calls'[i].pkg < wire[j]
      BY <1>0, <2>3, <3>1, <3>2 DEF AnswerInv
    <3>3. ASSUME NEW i \in 1 .. n, stack'[i].pkg \in Req
          PROVE  /\ stack'[i].pkg \in written
                 /\ \A j \in 1 .. Len(wire) : stack'[i].pkg < wire[j]
      <4>1. stack'[i].pkg = stack[i].pkg
        <5>1. CASE i = n
          BY <1>1, <1>7, <2>1, <5>1
        <5>2. CASE i # n
          <6>1. i \in 1 .. n - 1
            BY <1>1, <5>2
          <6> QED BY <2>1, <6>1
        <5> QED BY <5>1, <5>2
      <4> QED BY <1>0, <3>3, <4>1 DEF AnswerInv
    <3> QED BY <1>0, <2>1, <3>2, <3>3 DEF AnswerInv
  <2>10. GivenInv'
    <3>1. ASSUME NEW i \in 1 .. n, stack'[i].pkg \in Req, stack'[i].kind # "ract", ~stack'[i].acted
          PROVE  /\ Expected(stack[i].pkg)'
                 /\ \A j \in 1 .. Len(calls') : calls'[j].pkg # stack'[i].pkg
                 /\ Top'.pkg # stack'[i].pkg
      <4>1. i \in 1 .. n - 1 /\ stack'[i] = stack[i]
        BY <1>1, <1>7, <2>1, <3>1
      <4>2. /\ Expected(stack[i].pkg) /\ \A j \in 1 .. m : calls[j].pkg # stack[i].pkg
            /\ Top.pkg # stack[i].pkg
        BY <1>0, <3>1, <4>1 DEF GivenInv
      <4>3. \E a \in abandoned : a <= stack[i].pkg
        BY <1>1, <4>2 DEF Expected
      <4> QED BY <1>0, <1>7, <2>1, <2>3, <4>1, <4>2, <4>3 DEF Expected
    <3> QED BY <1>6, <2>1, <3>1 DEF GivenInv
  <2>11. TimeoutInv'
    BY <2>2 DEF TimeoutInv
  <2> QED BY <2>1, <2>4, <2>5, <2>7, <2>8, <2>9, <2>10, <2>11 DEF Inv
<1>8. CASE SrcFound(r) /\ Top.pkg # Empty
  <2> DEFINE f == [Top EXCEPT !.req = r]
  <2>1. f \in Frame /\ f.kind = "ract" /\ f.pkg = Top.pkg /\ f.req = r
    BY <1>1, <1>5 DEF Frame
  <2>2. /\ slot' = [state |-> "SENDED", req |-> r] /\ stack' = Append(Below, f)
        /\ CallBack(r, Top.pkg, TRUE)
    BY <1>8 DEF RactNext, r
  <2> HIDE DEF f
  <2>3. slot'.state = "SENDED" /\ slot'.req = r /\ slot' \in [state : SlotStates, req : 0 .. made]
    BY <1>2, <2>2 DEF SlotStates
  <2>4. \E k \in Call : k.req = r /\ k.pkg = Top.pkg /\ calls' = Append(calls, k)
    <3> PICK k : k = [req |-> r, pkg |-> Top.pkg, all |-> TRUE, live |-> r \notin orphaned]
      OBVIOUS
    <3>1. Top.pkg \in Package \ {Empty}
      BY <1>1, <1>8 DEF Frame
    <3>2. k \in Call /\ k.req = r /\ k.pkg = Top.pkg
      BY <1>5, <3>1 DEF Call
    <3> QED BY <2>2, <3>2 DEF CallBack
  <2> QED BY <1>7, <2>1, <2>2, <2>3, <2>4
<1>9. CASE ~(SrcFound(r) /\ Top.pkg # Empty)
  <2> DEFINE f == [Top EXCEPT !.all = SrcFound(r)]
  <2>1. f \in Frame /\ f.kind = "ract" /\ f.pkg = Top.pkg /\ f.req = None
    <3>1. SrcFound(r) \in BOOLEAN
      BY DEF SrcFound
    <3> QED BY <1>0, <1>1, <3>1 DEF Frame
  <2>2. /\ slot' = [state |-> Top.final, req |-> r] /\ stack' = Append(Below, f) /\ calls' = calls
    BY <1>9 DEF RactNext, r
  <2> HIDE DEF f
  <2>3. /\ slot'.state # "SENDED" /\ slot'.req = r
        /\ slot' \in [state : SlotStates, req : 0 .. made]
    BY <1>1, <1>2, <2>2 DEF SlotStates, Frame
  <2> QED BY <1>7, <2>1, <2>2, <2>3
<1> QED BY <1>8, <1>9

(* The call is over; after POP_ALL the slot is empty. *)
LEMMA RactEndKeeps ==
    ASSUME Inv, RactEnd
    PROVE  Inv'
<1> DEFINE n == Len(stack)
<1>0. /\ TypeInv /\ ShapeInv /\ SlotInv /\ OrderInv /\ CallInv /\ AnswerInv /\ GivenInv
      /\ TimeoutInv
      /\ UNCHANGED <<queue, wire, abandoned, written, status, made, owner, orphaned, up, calls>>
      /\ Running = "ract" /\ Top.req = None /\ stack' = Below
      /\ slot' = slot \/ (slot' = [state |-> "CANCLED", req |-> None] /\ queue = <<>>)
  BY DEF Inv, RactEnd, clientVars
<1>1. ~Idle /\ ~Calling /\ slot.state # "SENDED"
  BY <1>0, RunningIs DEF SlotInv
<1>2. /\ stack' \in Seq(Frame) /\ ShapeInv' /\ Running' # "ract" /\ ~Calling'
      /\ \A i \in 1 .. Len(stack') : i \in 1 .. n /\ stack'[i] = stack[i]
  BY <1>0, <1>1, PopStack
<1>3. slot'.state # "SENDED" /\ slot' \in [state : SlotStates, req : 0 .. made]
  <2>1. TypeInv
    BY <1>0
  <2>2. made \in Nat /\ slot \in [state : SlotStates, req : 0 .. made]
    BY ONLY <2>1, Types DEF TypeInv
  <2> QED BY <1>0, <1>1, <2>2 DEF SlotStates, None
<1>4. TypeInv'
  BY <1>0, <1>2, <1>3 DEF TypeInv
<1>5. SlotInv' /\ CallInv' /\ TimeoutInv'
  BY <1>0, <1>2, <1>3 DEF SlotInv, CallInv, TimeoutInv
<1>6. Waits(queue)'
  <2>1. CASE slot' = slot
    BY <1>0, <2>1 DEF OrderInv, Waits
  <2>2. CASE queue = <<>>
    BY <1>0, <2>2 DEF OrderInv, Waits
  <2> QED BY <1>0, <2>1, <2>2
<1>7. OrderInv'
  BY <1>0, <1>3, <1>6 DEF OrderInv
<1>8. AnswerInv'
  BY <1>0, <1>2 DEF AnswerInv
<1>9. GivenInv'
  <2>1. \A x : Expected(x) => Expected(x)'
    BY <1>0, <1>1 DEF Expected
  <2> QED BY <1>0, <1>2, <2>1 DEF GivenInv
<1> QED BY <1>2, <1>4, <1>5, <1>7, <1>8, <1>9 DEF Inv

-----------------------------------------------------------------------------
LEMMA InitInv == Init => Inv
<1> SUFFICES ASSUME Init PROVE Inv
  OBVIOUS
<1>1. /\ MaxReq \in Nat /\ made = 0 /\ owner = <<>> /\ queue = <<>> /\ wire = <<>> /\ stack = <<>>
      /\ calls = <<>> /\ orphaned = {} /\ abandoned = {} /\ written = {} /\ up = FALSE
      /\ slot = [state |-> "CONNECTING", req |-> None] /\ status = [c \in Clients |-> "new"]
  BY SendQueueAssumption DEF Init
<1>2. /\ Len(queue) = 0 /\ Len(wire) = 0 /\ Len(stack) = 0 /\ Len(calls) = 0
      /\ slot.state = "CONNECTING" /\ slot.req = None
  BY <1>1
<1>3. TypeInv
  <2>1. slot \in [state : SlotStates, req : 0 .. made]
    BY <1>1 DEF SlotStates, None
  <2>2. status \in [Clients -> {"new", "up", "gone"}] /\ made \in 0 .. MaxReq /\ up \in BOOLEAN
    <3>1. status \in [Clients -> {"new", "up", "gone"}]
      BY <1>1
    <3>2. made \in 0 .. MaxReq
      BY ONLY <1>1
    <3> QED BY <1>1, <3>1, <3>2
  <2>3. owner \in Seq(Clients) /\ Len(owner) = made
    BY <1>1
  <2>4. /\ queue \in Seq(1 .. made) /\ wire \in Seq(1 .. made) /\ stack \in Seq(Frame)
        /\ calls \in Seq(Call)
    BY <1>1
  <2>5. orphaned \subseteq 1 .. made /\ abandoned \subseteq 1 .. made /\ written \subseteq 1 .. made
    BY <1>1, Zenon
  <2> QED BY <2>1, <2>2, <2>3, <2>4, <2>5 DEF TypeInv
<1>4. Running = "none" /\ ~Calling
  BY <1>1 DEF Running, Idle, Calling
<1>5. Increasing(queue) /\ Increasing(wire)
  BY <1>1 DEF Increasing
<1>6. OrderInv
  BY <1>2, <1>5 DEF OrderInv, Waits
<1> QED BY <1>2, <1>3, <1>4, <1>6
        DEF Inv, ShapeInv, SlotInv, CallInv, AnswerInv, GivenInv, TimeoutInv

LEMMA NextKeeps == Inv /\ [Next]_vars => Inv'
<1> SUFFICES ASSUME Inv, [Next]_vars PROVE Inv'
  OBVIOUS
<1>1. CASE Client
  BY <1>1, ClientKeeps, SendKeeps DEF Client
<1>2. CASE Upstream
  <2>1. None \in Req \cup {None} /\ slot.req \in Req \cup {None}
    <3>1. TypeInv
      BY DEF Inv
    <3>2. slot.req \in 0 .. made /\ 1 .. made \subseteq Req /\ made \in Nat
      BY ONLY <3>1, Types
    <3> QED BY <3>2 DEF None
  <2>2. CASE Connected
    <3>1. /\ Push(Script("script", None, None)) /\ Idle /\ up' \in BOOLEAN
          /\ UNCHANGED <<queueVars, clientVars, calls>>
      BY <2>2 DEF Connected
    <3> QED BY <2>1, <3>1, StartKeeps
  <2>3. CASE TimeTask
    <3>1. /\ Push(Script("script", None, None)) /\ Idle /\ up' \in BOOLEAN
          /\ UNCHANGED <<queueVars, clientVars, calls>>
      BY <2>3 DEF TimeTask, Inv, TypeInv
    <3> QED BY <2>1, <3>1, StartKeeps
  <2>4. CASE Error
    <3>1. /\ Push(Script("error", None, None)) /\ Idle /\ up' \in BOOLEAN
          /\ UNCHANGED <<queueVars, clientVars, calls>>
      BY <2>4 DEF Error, Inv, TypeInv
    <3> QED BY <2>1, <3>1, StartKeeps
  <2>5. CASE CheckTimeout
    <3>1. /\ Push(Script("timeout", None, slot.req)) /\ Running \in {"none", "script"}
          /\ up' \in BOOLEAN /\ UNCHANGED <<queueVars, clientVars, calls>>
      BY <2>5 DEF CheckTimeout, Inv, TypeInv
    <3> QED BY <2>1, <3>1, StartKeeps
  <2> QED BY <1>2, <2>2, <2>3, <2>4, <2>5, AnswerKeeps, ClosedKeeps DEF Upstream
<1>3. CASE UpstreamScript
  BY <1>3, QueueSendKeeps, RactKeeps, RactReturnKeeps, RactNextKeeps, RactEndKeeps, EndKeeps
     DEF UpstreamScript
<1>4. CASE UNCHANGED vars
  <2>1. UNCHANGED <<queue, slot, wire, abandoned, written, status, made, owner, orphaned,
                    up, stack, calls>>
    BY <1>4 DEF vars, queueVars, clientVars
  <2>2. /\ UNCHANGED <<Running, Top, Calling>>
        /\ \A r : Expected(r)' <=> Expected(r)
        /\ Waits(queue)' <=> Waits(queue)
    BY <2>1 DEF Running, Top, Idle, Calling, Expected, Waits
  <2> QED BY <2>1, <2>2
          DEF Inv, TypeInv, ShapeInv, SlotInv, OrderInv, CallInv, AnswerInv, GivenInv, TimeoutInv
<1> QED BY <1>1, <1>2, <1>3, <1>4 DEF Next

(* What every reachable state of the queue, the slot and the running       *)
(* scripts of an upstream satisfies.                                       *)
THEOREM SendQueueInvariant == Spec => []Inv
BY InitInv, NextKeeps, PTL DEF Spec

(* Nothing overtakes: requests wait, go out and are called back in the     *)
(* order of the SEND_MSG calls, and are called back once at most.          *)
THEOREM OrderedHolds == Spec => []Ordered
<1>1. Inv => Ordered
  <2> SUFFICES ASSUME Inv PROVE Ordered
    OBVIOUS
  <2>1. TypeInv /\ OrderInv /\ CallInv
    BY DEF Inv
  <2>2. made \in Nat /\ 1 .. made \subseteq Req /\ slot.req \in 0 .. made
    BY ONLY <2>1, Types
  <2>3. TypeOK
    <3>1. queue \in Seq(Req) /\ wire \in Seq(Req)
      BY <2>1, <2>2 DEF TypeInv
    <3>2. slot \in [state : SlotStates, req : Req \cup {None}]
      BY <2>1, <2>2 DEF TypeInv, None
    <3>3. owner \in [1 .. made -> Clients]
      BY <2>1 DEF TypeInv
    <3>4. orphaned \subseteq Req /\ abandoned \subseteq Req /\ written \subseteq Req
      BY <2>1, <2>2 DEF TypeInv
    <3> QED BY <2>1, <3>1, <3>2, <3>3, <3>4 DEF TypeInv, TypeOK
  <2>4. DOMAIN queue = 1 .. Len(queue) /\ DOMAIN calls = 1 .. Len(calls)
    BY <2>1 DEF TypeInv
  <2>5. Increasing([i \in DOMAIN calls |-> calls[i].req])
    BY <2>1, <2>4 DEF CallInv, Increasing
  <2> QED BY <2>1, <2>3, <2>4, <2>5 DEF OrderInv, Waits, Ordered
<1> QED BY <1>1, SendQueueInvariant, PTL

(* An answer goes to the request it answers, or to a younger one after     *)
(* some request up to it was given up or by POP_ALL; never to an older one. *)
THEOREM AnswerBelongsHolds == Spec => AnswerBelongs
<1> DEFINE New == \A i \in DOMAIN calls' \ DOMAIN calls :
         LET k == calls'[i] IN
           k.pkg \notin {None, k.req} =>
              /\ k.pkg < k.req
              /\ k.all \/ \E a \in abandoned : a <= k.pkg
<1>1. Inv /\ [Next]_vars => [New]_vars
  <2> SUFFICES ASSUME Inv, Next PROVE New
    OBVIOUS
  <2>1. /\ TypeInv /\ ShapeInv /\ SlotInv /\ OrderInv /\ AnswerInv /\ GivenInv
        /\ calls \in Seq(Call)
    BY DEF Inv, TypeInv
  <2>2. ASSUME NEW r, NEW pkg, NEW all \in BOOLEAN, CallBack(r, pkg, all),
               pkg \notin {None, r} =>
                 /\ pkg < r
                 /\ all \/ \E a \in abandoned : a <= pkg
        PROVE  New
    <3> PICK k : k = [req |-> r, pkg |-> pkg, all |-> all, live |-> r \notin orphaned]
      OBVIOUS
    <3>1. k.req = r /\ k.pkg = pkg /\ k.all = all /\ calls' = Append(calls, k)
      BY <2>2 DEF CallBack
    <3>2. \A i \in DOMAIN calls' \ DOMAIN calls : calls'[i] = k
      BY <2>1, <3>1
    <3> QED BY <2>2, <3>1, <3>2
  <2>3. CASE calls' = calls
    BY <2>3
  <2>4. CASE \E pkg \in Package, final \in {"RECEIVED", "CANCLED"}, all \in BOOLEAN :
               Ract(pkg, final, all)
    <3>1. PICK pkg \in Package, final \in {"RECEIVED", "CANCLED"}, all \in BOOLEAN :
                 Ract(pkg, final, all)
      BY <2>4
    <3>2. CASE calls' = calls
      BY <3>2
    <3>3. CASE calls' # calls
      <4>1. /\ CallBack(slot.req, pkg, FALSE) /\ slot.state = "SENDED" /\ pkg # Empty
            /\ pkg \in {Top.pkg, Empty} /\ InScript /\ ~Top.acted
        BY <3>1, <3>3 DEF Ract
      <4>2. /\ ~Idle /\ Top.kind # "ract" /\ pkg = Top.pkg
            /\ Len(stack) \in 1 .. Len(stack) /\ Top = stack[Len(stack)]
        BY <2>1, <4>1, RunningIs, TopIs
      <4>3. ASSUME pkg \notin {None, slot.req}
            PROVE  pkg < slot.req /\ \E a \in abandoned : a <= pkg
        <5>1. pkg \in Req
          BY <4>1, <4>3, <3>1 DEF Package
        <5>2. pkg \in written /\ Expected(pkg)
          BY <2>1, <4>1, <4>2, <5>1 DEF AnswerInv, GivenInv
        <5>3. pkg <= slot.req
          BY <2>1, <4>1, <5>2 DEF OrderInv
        <5>4. slot.req \in Nat /\ pkg \in Nat
          BY <2>1, <5>1 DEF TypeInv, Req
        <5> QED BY <4>3, <5>2, <5>3, <5>4 DEF Expected
      <4> QED BY <2>2, <4>1, <4>3
    <3> QED BY <3>2, <3>3
  <2>5. CASE RactNext
    <3>1. CASE calls' = calls
      BY <3>1
    <3>2. CASE calls' # calls
      <4>1. /\ CallBack(Head(queue), Top.pkg, TRUE) /\ Top.pkg # Empty
            /\ queue # <<>> /\ Running = "ract"
        BY <2>5, <3>2 DEF RactNext
      <4>2. /\ ~Idle /\ Len(stack) \in 1 .. Len(stack) /\ Top = stack[Len(stack)]
            /\ Top \in Frame
        BY <2>1, <4>1, RunningIs, TopIs
      <4>3. Head(queue) = queue[1] /\ 1 \in 1 .. Len(queue)
        BY <2>1, <4>1 DEF TypeInv
      <4>4. Top.pkg \notin {None, Head(queue)} => Top.pkg < Head(queue)
        <5>1. Top.pkg \in Package
          BY <4>2 DEF Frame
        <5>2. Top.pkg # None => Top.pkg \in Req
          BY <4>1, <5>1 DEF Package
        <5>3. Top.pkg \in Req => Top.pkg \in written
          BY <2>1, <4>2 DEF AnswerInv
        <5> QED BY <2>1, <4>3, <5>2, <5>3 DEF OrderInv, Waits
      <4> QED BY <2>2, <4>1, <4>4
    <3> QED BY <3>1, <3>2
  <2> QED BY <2>3, <2>4, <2>5
          DEF Next, Client, Connect, ClientClose, SendMsg, Upstream, Connected, Answer, NoAnswer,
              TimeTask, Error, CheckTimeout, Closed, UpstreamScript, QueueSend, RactReturn,
              RactEnd, EndScript
<1> QED BY <1>1, SendQueueInvariant, PTL DEF Spec, AnswerBelongs

(* CHK_QUEUE_TIMEOUT cancels the request that expired, or the one that its *)
(* own script has sent.                                                    *)
THEOREM TimeoutHitsExpiredHolds == Spec => TimeoutHitsExpired
<1>1. Inv => (Running = "timeout" /\ slot.state = "SENDED" => slot.req = Top.req \/ Top.sent)
  <2> SUFFICES ASSUME Inv, Running = "timeout", slot.state = "SENDED"
               PROVE  slot.req = Top.req \/ Top.sent
    OBVIOUS
  <2>1. ~Idle /\ Top.kind = "timeout" /\ ~Calling
    BY DEF Running, Calling
  <2>2. Len(stack) \in 1 .. Len(stack) /\ Top = stack[Len(stack)]
    BY <2>1, TopIs DEF Inv
  <2> QED BY <2>1, <2>2 DEF Inv, TimeoutInv
<1>2. Inv /\ [Next]_vars =>
        [Running = "timeout" /\ stack' = Below /\ slot.state = "SENDED"
           => slot.req = Top.req \/ Top.sent]_vars
  BY <1>1
<1> QED BY <1>2, SendQueueInvariant, PTL DEF Spec, TimeoutHitsExpired

-----------------------------------------------------------------------------
(* Clients with names of their own *)

LEMMA LiveKeeps ==
    ASSUME \A c, d \in Clients : NameOf[c] = NameOf[d] => c = d
    PROVE  Inv /\ LiveInv /\ [Next]_vars => LiveInv'
<1> SUFFICES ASSUME Inv, LiveInv, [Next]_vars PROVE LiveInv'
  OBVIOUS
<1>1. /\ TypeInv /\ SlotInv /\ owner \in Seq(Clients) /\ Len(owner) = made
      /\ calls \in Seq(Call) /\ orphaned \subseteq 1 .. made /\ made \in Nat
      /\ queue \in Seq(1 .. made) /\ status \in [Clients -> {"new", "up", "gone"}]
  BY SendQueueAssumption DEF Inv, TypeInv
<1>2. /\ \A r \in orphaned : status[owner[r]] = "gone"
      /\ \A i \in 1 .. Len(calls) : calls[i].live
  BY <1>1 DEF LiveInv, CallsLive
<1>3. ASSUME NEW r \in 1 .. made, SrcFound(r) PROVE r \notin orphaned
  <2>1. PICK c \in Clients : status[c] = "up" /\ NameOf[c] = NameOf[owner[r]]
    BY <1>3 DEF SrcFound
  <2>2. owner[r] \in Clients
    BY <1>1
  <2> QED BY <1>2, <2>1, <2>2
<1>4. CASE calls' = calls /\ UNCHANGED <<status, owner, orphaned>>
  BY <1>4 DEF LiveInv, CallsLive
<1>5. ASSUME NEW r \in 1 .. made, NEW pkg, NEW all, CallBack(r, pkg, all), SrcFound(r),
             UNCHANGED <<status, owner, orphaned>>
      PROVE  LiveInv'
  <2> PICK k : k = [req |-> r, pkg |-> pkg, all |-> all, live |-> r \notin orphaned]
    OBVIOUS
  <2>1. k.live = (r \notin orphaned) /\ calls' = Append(calls, k)
    BY <1>5 DEF CallBack
  <2>2. r \notin orphaned
    BY <1>3, <1>5
  <2>3. k.live
    BY <2>1, <2>2, Zenon
  <2>4. \A i \in DOMAIN calls' : calls'[i] = k \/ (i \in 1 .. Len(calls) /\ calls'[i] = calls[i])
    BY <1>1, <2>1
  <2> QED BY <1>2, <1>5, <2>3, <2>4 DEF LiveInv, CallsLive
<1>6. CASE \E c \in Clients : Connect(c) \/ ClientClose(c) \/ \E now \in BOOLEAN : SendMsg(c, now)
  <2>1. PICK c \in Clients : Connect(c) \/ ClientClose(c) \/ \E now \in BOOLEAN : SendMsg(c, now)
    BY <1>6
  <2>2. calls' = calls
    BY <2>1 DEF Connect, ClientClose, SendMsg
  <2>3. CASE Connect(c)
    <3>1. \A r \in orphaned : owner[r] \in Clients
      <4>1. \A r \in 1 .. made : owner[r] \in Clients
        BY <1>1
      <4> QED BY <1>1, <4>1
    <3>2. /\ status[c] = "new" /\ status' = [status EXCEPT ![c] = "up"]
          /\ orphaned' = orphaned /\ owner' = owner
      BY <2>3 DEF Connect
    <3> QED BY <1>1, <1>2, <2>2, <3>1, <3>2 DEF LiveInv, CallsLive
  <2>4. CASE ClientClose(c)
    <3>1. \A r \in 1 .. made : owner[r] \in Clients
      BY <1>1
    <3>2. /\ status' = [status EXCEPT ![c] = "gone"] /\ owner' = owner
          /\ orphaned' = orphaned \cup {r \in 1 .. made : owner[r] = c}
      BY <2>4 DEF ClientClose
    <3> QED BY <1>1, <1>2, <2>2, <3>1, <3>2 DEF LiveInv, CallsLive
  <2>5. CASE \E now \in BOOLEAN : SendMsg(c, now)
    <3>1. owner' = Append(owner, c) /\ UNCHANGED <<status, orphaned>>
      BY <2>5 DEF SendMsg
    <3>2. \A r \in 1 .. made : owner'[r] = owner[r]
      BY <1>1, <3>1
    <3> QED BY <1>1, <1>2, <2>2, <3>1, <3>2 DEF LiveInv, CallsLive
  <2> QED BY <2>1, <2>3, <2>4, <2>5
<1>7. CASE \E pkg \in Package, final \in {"RECEIVED", "CANCLED"}, all \in BOOLEAN :
             Ract(pkg, final, all)
  <2>1. PICK pkg \in Package, final \in {"RECEIVED", "CANCLED"}, all \in BOOLEAN :
               Ract(pkg, final, all)
    BY <1>7
  <2>2. UNCHANGED <<status, owner, orphaned>>
    BY <2>1 DEF Ract, clientVars
  <2>3. CASE slot.state = "SENDED" /\ SrcFound(slot.req) /\ pkg # Empty
    <3>1. CallBack(slot.req, pkg, FALSE)
      BY <2>1, <2>3 DEF Ract
    <3>2. slot.req \in 0 .. made /\ slot.req # None
      BY <1>1, <2>3 DEF TypeInv, SlotInv
    <3>3. slot.req \in 1 .. made
      BY <1>1, <3>2 DEF None
    <3> QED BY <1>5, <2>2, <2>3, <3>1, <3>3
  <2>4. CASE ~(slot.state = "SENDED" /\ SrcFound(slot.req) /\ pkg # Empty)
    <3>1. calls' = calls
      BY <2>1, <2>4 DEF Ract
    <3> QED BY <1>4, <2>2, <3>1
  <2> QED BY <2>3, <2>4
<1>8. CASE RactNext
  <2>1. UNCHANGED <<status, owner, orphaned>> /\ queue # <<>>
    BY <1>8 DEF RactNext, clientVars
  <2>2. Head(queue) \in 1 .. made
    BY <1>1, <2>1
  <2>3. CASE SrcFound(Head(queue)) /\ Top.pkg # Empty
    <3>1. CallBack(Head(queue), Top.pkg, TRUE)
      BY <1>8, <2>3 DEF RactNext
    <3> QED BY <1>5, <2>1, <2>2, <2>3, <3>1
  <2>4. CASE ~(SrcFound(Head(queue)) /\ Top.pkg # Empty)
    <3>1. calls' = calls
      BY <1>8, <2>4 DEF RactNext
    <3> QED BY <1>4, <2>1, <3>1
  <2> QED BY <2>3, <2>4
<1>9. CASE UNCHANGED vars
  BY <1>4, <1>9 DEF vars, clientVars
<1> QED BY <1>4, <1>6, <1>7, <1>8, <1>9
        DEF Next, Client, clientVars, Upstream, Connected, Answer, NoAnswer,
            TimeTask, Error, CheckTimeout, Closed, UpstreamScript, QueueSend, RactReturn,
            RactEnd, EndScript

(* When no two clients have the same name, _RACTIONS run only on a client  *)
(* that still exists.                                                      *)
THEOREM CallsLiveHolds ==
    ASSUME \A c, d \in Clients : NameOf[c] = NameOf[d] => c = d
    PROVE  Spec => []CallsLive
<1>1. Init => LiveInv
  BY DEF Init, LiveInv, CallsLive
<1>2. Inv /\ LiveInv /\ [Next]_vars => LiveInv'
  BY LiveKeeps
<1>3. LiveInv => CallsLive
  BY DEF LiveInv
<1> QED BY <1>1, <1>2, <1>3, SendQueueInvariant, PTL DEF Spec
=============================================================================
