------------------------------ MODULE Routing ------------------------------
(***************************************************************************)
(* Routing packets between gateways: CASE_ROUTING_PROCESS and              *)
(* CASE_ROUTING_ERROR of echo_read_cb, at every gateway of a network.      *)
(*                                                                         *)
(* A packet carries a path of names and dest_point, the place in the path  *)
(* where it is.  A gateway sends it on through its connection that has the *)
(* next name of the path; when there is none it sends an error back along  *)
(* the path.  A connection has the name of the gateway at its other end,   *)
(* as the configuration must see to for a path to mean anything.  Places   *)
(* in a path are counted from 1 here, from 0 in the code.                  *)
(***************************************************************************)
EXTENDS Integers, Sequences, FiniteSets

CONSTANTS
    Gateways,
    Links,          \* the pairs of gateways that may have a connection
    Paths,          \* the paths scripts send to
    NoAct,          \* a path without "?action"
    Acts,           \* the actions named behind the "?" of a path
    KnownActs,      \* the actions the destinations have a step for
    SendAct,        \* <<g, h>>: g's CONNECT node for h has a SEND_ACT step
    MaxReq          \* BOUND: packets sent by scripts

Pairs == Links \cup {<<l[2], l[1]>> : l \in Links}

ASSUME RoutingAssumption ==
    /\ Links \subseteq Gateways \X Gateways
    /\ Paths \subseteq Seq(Gateways) \ {<<>>}
    /\ NoAct \notin Acts /\ KnownActs \subseteq Acts
    /\ SendAct \subseteq Pairs
    /\ MaxReq \in Nat

Req == 1 .. MaxReq

(* What is under way: whose request it is, the path, the place in it, and  *)
(* whether it is the error string that CASE_ROUTING_ERROR made.            *)
Packet == [req : Req, path : Seq(Gateways), point : Nat,
           act : Acts \cup {NoAct}, error : BOOLEAN]

VARIABLES
    conns,      \* <<g, h>>: gateway g has an active connection named h
    wire,       \* packets written and not read: <<from, to, packet>>
    work,       \* rsend_str of the callback that is running: <<gateway, packet>>
    sent,       \* history: the path of each request
    handled,    \* history: where packets came to a script: <<name, packet>>
    broken      \* history: has a connection been lost?

vars == <<conns, wire, work, sent, handled, broken>>

(* Packets keep to their type; a gateway works on one packet at a time.    *)
TypeOK ==
    /\ conns \subseteq Pairs
    /\ \A w \in wire : <<w[1], w[2]>> \in Pairs /\ w[3] \in Packet
    /\ \A w \in work : w[1] \in Gateways /\ w[2] \in Packet
    /\ \A v, w \in work : v[1] = w[1] => v = w
    /\ sent \in Seq(Paths) /\ Len(sent) <= MaxReq
    /\ \A h \in handled : h[1] \in Gateways /\ h[2] \in Packet
    /\ broken \in BOOLEAN

-----------------------------------------------------------------------------
Idle(g) == \A w \in work : w[1] # g

AtEnd_Early(p) == p.point >= Len(p.path) - 1
AtEnd(p) == p.point = Len(p.path)
NextName(p) == p.path[p.point + 1]

(* buffer_case_dest_to_src: the path back from place i. *)
PathBack(path, i) == [k \in 1 .. i |-> path[i + 1 - k]]

(* WIZBASE_create_routing_packet for the error string. *)
ErrorOf_SamePath(p, i) == [p EXCEPT !.act = NoAct, !.error = TRUE]
ErrorOf(p, i) ==
    [p EXCEPT !.path = PathBack(p.path, i), !.point = 1, !.act = NoAct,
              !.error = TRUE]

-----------------------------------------------------------------------------
(* A script leaves '@_SYS_ROUTING' in @_NEXT_STEP and a packet in          *)
(* @_RSEND_STRING: CASE_RSEND_STEP.  The path begins with the gateway.     *)
RsendStep(path, act) ==
    /\ Len(sent) < MaxReq
    /\ Idle(path[1])
    /\ work' = work \cup {<<path[1], [req |-> Len(sent) + 1, path |-> path,
                           point |-> 1, act |-> act, error |-> FALSE]>>}
    /\ sent' = Append(sent, path)
    /\ UNCHANGED <<conns, wire, handled, broken>>

(* CASE_ROUTING_STEP and CASE_LOAD_PACKET: a packet has been read. *)
Read(w) ==
    /\ w \in wire /\ Idle(w[2])
    /\ wire' = wire \ {w}
    /\ work' = work \cup {<<w[2], w[3]>>}
    /\ UNCHANGED <<conns, sent, handled, broken>>

(* The peer may have lost a connection that is still active here. *)
Write(g, h, p) ==
    wire' = IF <<h, g>> \in conns THEN wire \cup {<<g, h, p>>} ELSE wire

(* CASE_ROUTING_PROCESS, not at the end, and the next name is known. *)
Forward_SamePoint(g, p) ==
    /\ <<g, p>> \in work /\ ~AtEnd(p)
    /\ <<g, NextName(p)>> \in conns
    /\ work' = work \ {<<g, p>>}
    /\ Write(g, NextName(p), p)
    /\ UNCHANGED <<conns, sent, handled, broken>>
Forward_Twice(g, p) ==
    /\ <<g, p>> \in work /\ ~AtEnd(p)
    /\ <<g, NextName(p)>> \in conns
    /\ work' = work \ {<<g, p>>}
    /\ LET q == [p EXCEPT !.point = p.point + 1] IN
         /\ handled' = IF AtEnd(q) /\ <<g, NextName(p)>> \in SendAct
                       THEN handled \cup {<<NextName(p), q>>} ELSE handled
         /\ Write(g, NextName(p), q)
    /\ UNCHANGED <<conns, sent, broken>>
Forward(g, p) ==
    /\ <<g, p>> \in work /\ ~AtEnd(p)
    /\ <<g, NextName(p)>> \in conns
    /\ work' = work \ {<<g, p>>}
    /\ LET q == [p EXCEPT !.point = p.point + 1] IN
         IF AtEnd(q) /\ <<g, NextName(p)>> \in SendAct
         THEN handled' = handled \cup {<<NextName(p), q>>} /\ UNCHANGED wire
         ELSE Write(g, NextName(p), q) /\ UNCHANGED handled
    /\ UNCHANGED <<conns, sent, broken>>

(* CASE_ROUTING_PROCESS and CASE_ROUTING_ERROR: it is not known. *)
NoNode_Dropped(g, p) ==
    /\ <<g, p>> \in work /\ ~AtEnd(p)
    /\ <<g, NextName(p)>> \notin conns
    /\ work' = work \ {<<g, p>>}
    /\ UNCHANGED <<conns, wire, sent, handled, broken>>
NoNode(g, p) ==
    /\ <<g, p>> \in work /\ ~AtEnd(p)
    /\ <<g, NextName(p)>> \notin conns
    /\ work' = (work \ {<<g, p>>}) \cup {<<g, ErrorOf(p, p.point)>>}
    /\ UNCHANGED <<conns, wire, sent, handled, broken>>

(* CASE_ROUTING_PROCESS at the end, with an action that is no step.        *)
NoAction(g, p) ==
    /\ <<g, p>> \in work /\ AtEnd(p)
    /\ p.act \notin KnownActs \cup {NoAct}
    /\ work' = (work \ {<<g, p>>}) \cup {<<g, ErrorOf(p, Len(p.path))>>}
    /\ UNCHANGED <<conns, wire, sent, handled, broken>>

(* CASE_ROUTING_PROCESS at the end: the step is run (CASE_PROCESS). *)
Process(g, p) ==
    /\ <<g, p>> \in work /\ AtEnd(p)
    /\ p.act \in KnownActs \cup {NoAct}
    /\ work' = work \ {<<g, p>>}
    /\ handled' = handled \cup {<<g, p>>}
    /\ UNCHANGED <<conns, wire, sent, broken>>

-----------------------------------------------------------------------------
(* Connections: both ends come up together; each is lost by itself, with   *)
(* what it has not read.                                                   *)
ConnUp(l) ==
    /\ {l, <<l[2], l[1]>>} \cap conns = {}
    /\ conns' = conns \cup {l, <<l[2], l[1]>>}
    /\ UNCHANGED <<wire, work, sent, handled, broken>>

ConnLost(l) ==
    /\ l \in conns /\ Idle(l[1])
    /\ conns' = conns \ {l}
    /\ wire' = {w \in wire : <<w[2], w[1]>> # l}
    /\ broken' = TRUE
    /\ UNCHANGED <<work, sent, handled>>

Init ==
    /\ conns = {} /\ wire = {} /\ work = {}
    /\ sent = <<>> /\ handled = {} /\ broken = FALSE

Gateway ==
    \/ \E path \in Paths, act \in Acts \cup {NoAct} : RsendStep(path, act)
    \/ \E w \in wire : Read(w)
    \/ \E w \in work : Forward(w[1], w[2]) \/ NoNode(w[1], w[2])
    \/ \E w \in work : NoAction(w[1], w[2]) \/ Process(w[1], w[2])

Connections == \E l \in Pairs : ConnUp(l) \/ ConnLost(l)

Next == Gateway \/ Connections

Spec == Init /\ [][Next]_vars

-----------------------------------------------------------------------------
UnderWay == {w[3] : w \in wire} \cup {w[2] : w \in work}

(* dest_point tells the truth: a gateway works on a packet only at the     *)
(* place of the path that has its name, and a packet on its way to a       *)
(* gateway is at that place.                                               *)
AtItsPlace ==
    /\ \A w \in wire : w[3].point <= Len(w[3].path) /\ w[3].path[w[3].point] = w[2]
    /\ \A w \in work : w[2].point <= Len(w[2].path) /\ w[2].path[w[2].point] = w[1]

(* A request comes to a script of the last gateway of its path only, an    *)
(* error string to a gateway of the path only.                             *)
AtDestination ==
    \A h \in handled :
        IF h[2].error THEN \E i \in DOMAIN sent[h[2].req] : sent[h[2].req][i] = h[1]
                      ELSE h[1] = sent[h[2].req][Len(sent[h[2].req])]

(* A request has one end: it is handled, or its sender gets one error      *)
(* string, never both or twice.                                            *)
OneEnd ==
    \A r \in DOMAIN sent :
        Cardinality({p \in UnderWay : p.req = r})
          + Cardinality({h \in handled : h[2].req = r}) <= 1

(* While no connection is lost nothing is dropped without a word: every    *)
(* request is under way or has come to its end, and its errors have come   *)
(* back to the gateway that sent it.                                       *)
NothingLost ==
    ~broken =>
      /\ \A r \in DOMAIN sent :
           \/ \E p \in UnderWay : p.req = r
           \/ \E h \in handled : h[2].req = r
      /\ \A h \in handled : h[2].error => h[1] = Head(sent[h[2].req])

(* The gateways go on, and connections carry what was written to them.     *)
FairSpec ==
    /\ Spec
    /\ WF_vars(\E w \in wire : Read(w))
    /\ WF_vars(\E w \in work : Forward(w[1], w[2]) \/ NoNode(w[1], w[2]))
    /\ WF_vars(\E w \in work : NoAction(w[1], w[2]) \/ Process(w[1], w[2]))

(* No packet and no error string is sent round for ever. *)
Settles == \A r \in Req :
    (\E p \in UnderWay : p.req = r) ~> ~(\E p \in UnderWay : p.req = r)
=============================================================================
