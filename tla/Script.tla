------------------------------- MODULE Script -------------------------------
(***************************************************************************)
(* The interpreter of scripts: the nodes that steer (ACTIONS, CALL, FOR,   *)
(* SWITCH, BREAK) and the one map of names through which a script passes   *)
(* parameters and counters, the object's AddParas.  It outlives scripts,   *)
(* and whoever puts a name into it has to take it out again.               *)
(*                                                                         *)
(* A script is whatever its author wrote: while the body of a node runs,   *)
(* any node may come next.  A node is a frame of `stack' while its body    *)
(* runs.  Nodes that work on objects (SET_OBJ, SEND, DB_WRITE ...) leave   *)
(* the map and the stack as they are; the one that is modelled collects    *)
(* the bytes that arrived in the object that <FOR Type="CUT_LEN"> cuts.    *)
(* A byte is <<packet, place>>; the first of a packet is its length field. *)
(***************************************************************************)
EXTENDS Integers, Sequences, FiniteSets, FiniteSetsExt, SequencesExt, Functions

CONSTANTS
    Calls,      \* the CALL nodes of the configuration
    FuncOf,     \* the function each of them names; Anon: it has ActCBID instead
    Anon,       \* the empty func_name
    Args,       \* what the parameters of a call may be
    Steps,      \* Step of <FOR Type="FROM_TO">
    MaxTo,      \* bound: To of a FROM_TO, number of items of a list
    Packets,    \* the lengths of the packets that arrive
    MaxDepth,   \* bound: nesting
    MaxActs,    \* bound: nodes a script runs through
    Careless    \* calls within a call of the same name, cuts within a cut

ASSUME ScriptAssumption ==
    /\ DOMAIN FuncOf = Calls /\ MaxTo \in Nat /\ Steps \subseteq Nat \ {0}
    /\ Packets \in Seq(Nat \ {0}) /\ MaxDepth \in Nat \ {0} /\ MaxActs \in Nat
    /\ Careless \in BOOLEAN

VARIABLES
    stack,      \* the nodes whose bodies run, the outermost first
    paras,      \* AddParas: what {@_...} stands for
    input,      \* the bytes that no script has collected yet
    kept,       \* the object CutObj
    handled,    \* history: the packets that a cut has run its body for
    acts        \* nodes this script has run through

scriptVars == <<stack, paras, input, kept, handled, acts>>

Running == stack # <<>>
Top == Last(stack)
Below == Front(stack)

Callbacks == {n \in Calls : FuncOf[n] = Anon}

(* The names in the map; k is the stack_num of a loop, "" being 0. *)
ArgOf(f) == <<"arg", f>>    \* {@_f_attr}
CBID(f) == <<"cbid", f>>    \* {@_f_CBID}
Num(k) == <<"num", k>>      \* {@_FOR_NUM_k}
Value(k) == <<"value", k>>  \* {@_FOR_VALUE_k}

Insert(p, name, value) ==                           \* map::insert: keeps what is there
    [x \in DOMAIN p \cup {name} |-> IF x \in DOMAIN p THEN p[x] ELSE value]
Erase(p, names) == Restrict(p, DOMAIN p \ names)

(* The first stack_num whose counter is not in the map. *)
Slot_First == 0
Slot == Min({k \in 0 .. MaxDepth : Num(k) \notin DOMAIN paras})

Bytes(n) == [i \in 1 .. Packets[n] |-> <<n, i>>]
Stream == FlattenSeq([n \in DOMAIN Packets |-> Bytes(n)])

(* The node on top has its body run: any node may come next. *)
InBody ==
    /\ Running
    /\ \/ Top.kind \in {"block", "case", "call"}
       \/ Top.kind \in {"range", "list", "cut"} /\ Top.body
(* FOR is about to test whether there is another turn. *)
AtTest(kinds) == Running /\ Top.kind \in kinds /\ ~Top.body

Open(kind) == {j \in DOMAIN stack : stack[j].kind = kind}
CallsOf(f) == {j \in Open("call") : stack[j].f = f}

ScriptInit ==
    /\ stack = <<>> /\ paras = <<>> /\ acts = 0
    /\ input = Stream /\ kept = <<>> /\ handled = <<>>

-----------------------------------------------------------------------------
(* A script and the nodes of a body *)

(* GoAction: a packet or a timer starts the script of a step. *)
GoAction ==
    /\ ~Running
    /\ stack' = <<[kind |-> "block"]>> /\ acts' = 0
    /\ UNCHANGED <<paras, input, kept, handled>>

(* ParseAction comes to another node, its Test holds. *)
Node == InBody /\ acts < MaxActs /\ acts' = acts + 1
Enter(frame) == Len(stack) < MaxDepth /\ stack' = Append(stack, frame)

Actions ==
    /\ Node /\ Enter([kind |-> "block"])
    /\ UNCHANGED <<paras, input, kept, handled>>

(* SET_OBJ appends what was received to the object that is cut. *)
Collect(n) ==
    /\ Careless \/ Open("cut") = {}
    /\ Node
    /\ kept' = kept \o SubSeq(input, 1, n) /\ input' = SubSeq(input, n + 1, Len(input))
    /\ UNCHANGED <<stack, paras, handled>>

(* The attributes of the node go into the map, then its CBID. *)
WithCall(n, arg) ==
    LET f == FuncOf[n]
    IN  Insert(Erase(Insert(paras, ArgOf(f), arg), {CBID(f)}), CBID(f), n)

(* CALL Function="f". *)
Call(n, arg) ==
    /\ n \notin Callbacks
    /\ Careless \/ CallsOf(FuncOf[n]) = {}
    /\ Node
    /\ Enter([kind |-> "call", node |-> n, f |-> FuncOf[n], arg |-> arg,
              of |-> FuncOf[n], then |-> n])
    /\ paras' = WithCall(n, arg)
    /\ UNCHANGED <<input, kept, handled>>

(* CALL ActCBID="{@_g_CBID}": the body is THEN of the CALL that names g. *)
Callback(n, g, arg) ==
    /\ n \in Callbacks /\ CBID(g) \in DOMAIN paras
    /\ Careless \/ CallsOf(Anon) = {}
    /\ Node
    /\ Enter([kind |-> "call", node |-> n, f |-> Anon, arg |-> arg,
              of |-> g, then |-> paras[CBID(g)]])
    /\ paras' = WithCall(n, arg)
    /\ UNCHANGED <<input, kept, handled>>

(* The function has returned: its parameters leave the map. *)
CallEnd ==
    /\ InBody /\ Top.kind = "call"
    /\ stack' = Below
    /\ paras' = Erase(paras, {ArgOf(Top.f), CBID(Top.f)})
    /\ UNCHANGED <<input, kept, handled, acts>>

BlockEnd ==
    /\ InBody /\ Top.kind \in {"block", "case"}
    /\ stack' = Below
    /\ UNCHANGED <<paras, input, kept, handled, acts>>

-----------------------------------------------------------------------------
(* SWITCH *)

Switch(deep) ==
    /\ Node /\ Enter([kind |-> "switch", deep |-> deep])
    /\ UNCHANGED <<paras, input, kept, handled>>

AtCase == Running /\ Top.kind = "switch" /\ acts < MaxActs /\ acts' = acts + 1

(* A CASE whose test holds.  When its body has ended the next CASE is      *)
(* tested.                                                                 *)
CaseTrue ==
    /\ AtCase /\ Enter([kind |-> "case"])
    /\ UNCHANGED <<paras, input, kept, handled>>

(* DEFAULT ends the SWITCH; with Type="Deep" it does nothing. *)
Default ==
    /\ AtCase /\ ~Top.deep
    /\ stack' = Append(Below, [kind |-> "block"])
    /\ UNCHANGED <<paras, input, kept, handled>>

(* BREAK ends the body it is in, as its end does.  Only a CASE looks at    *)
(* that result (in a Deep one the BREAK beside ACTIONS counts, which is a  *)
(* SwitchEnd here).                                                        *)
Break ==
    /\ InBody /\ Top.kind = "case" /\ ~Last(Below).deep
    /\ stack' = Front(Below)
    /\ UNCHANGED <<paras, input, kept, handled, acts>>

SwitchEnd ==
    /\ Running /\ Top.kind = "switch"
    /\ stack' = Below
    /\ UNCHANGED <<paras, input, kept, handled, acts>>

-----------------------------------------------------------------------------
(* FOR *)

(* A loop starts with the first counter that is free. *)
For(kind, to, step) ==
    /\ Node
    /\ Enter([kind |-> kind, slot |-> Slot, i |-> 1, to |-> to, step |-> step,
              body |-> FALSE])
    /\ UNCHANGED <<paras, input, kept, handled>>

(* FROM_TO, from 1. *)
ForRange(to, step) == For("range", to, step)
(* LEN_BIN, BEGIN_END, SPLIT and the node sets: `to' items. *)
ForList(to) == For("list", to, 1)

ForNext ==
    /\ AtTest({"range", "list"}) /\ Top.i <= Top.to
    /\ stack' = Append(Below, [Top EXCEPT !.body = TRUE])
    /\ paras' = IF Top.kind = "range"
                THEN Insert(paras, Num(Top.slot), Top.i)
                ELSE Insert(Insert(paras, Value(Top.slot), Top.i), Num(Top.slot), Top.i)
    /\ UNCHANGED <<input, kept, handled, acts>>

ForTurnEnd_NoStep ==
    /\ InBody /\ Top.kind \in {"range", "list"}
    /\ stack' = Append(Below, [Top EXCEPT !.body = FALSE])
    /\ paras' = Erase(paras, {Num(Top.slot), Value(Top.slot)})
    /\ UNCHANGED <<input, kept, handled, acts>>
ForTurnEnd ==
    /\ InBody /\ Top.kind \in {"range", "list"}
    /\ stack' = Append(Below, [Top EXCEPT !.body = FALSE, !.i = @ + Top.step])
    /\ paras' = Erase(paras, {Num(Top.slot), Value(Top.slot)})
    /\ UNCHANGED <<input, kept, handled, acts>>

(* Past the end, or BreakTest holds. *)
ForEnd ==
    /\ AtTest({"range", "list"})
    /\ Top.i > Top.to \/ Top.kind = "range"
    /\ stack' = Below
    /\ UNCHANGED <<paras, input, kept, handled, acts>>

(* CUT_LEN with LenStart and LenLen. *)
ForCut ==
    /\ Careless \/ Open("cut") = {}
    /\ Node
    /\ Enter([kind |-> "cut", slot |-> Slot, i |-> 0, buff |-> kept, packet |-> 0,
              body |-> FALSE])
    /\ UNCHANGED <<paras, input, kept, handled>>

(* The whole packet in front of a buffer that is longer than the length    *)
(* field, or none.                                                         *)
FrontLen(buff) == Packets[Head(buff)[1]]
IsWhole(buff) == Len(buff) > 1 /\ Len(buff) >= FrontLen(buff)

CutNext ==
    /\ AtTest({"cut"}) /\ IsWhole(Top.buff)
    /\ LET packet == Head(Top.buff)[1]
           rest == SubSeq(Top.buff, FrontLen(Top.buff) + 1, Len(Top.buff))
       IN  /\ stack' = Append(Below, [Top EXCEPT !.body = TRUE, !.buff = rest,
                                                 !.packet = packet])
           /\ paras' = Insert(Insert(paras, Value(Top.slot), packet), Num(Top.slot), Top.i)
           /\ handled' = Append(handled, packet)
    /\ UNCHANGED <<input, kept, acts>>

CutTurnEnd ==
    /\ InBody /\ Top.kind = "cut"
    /\ stack' = Append(Below, [Top EXCEPT !.body = FALSE, !.i = @ + 1])
    /\ paras' = Erase(paras, {Num(Top.slot), Value(Top.slot)})
    /\ UNCHANGED <<input, kept, handled, acts>>

(* No whole packet is left, or BreakTest holds: the rest is written back. *)
CutEnd_NotWrittenBack ==
    /\ AtTest({"cut"})
    /\ stack' = Below
    /\ UNCHANGED <<paras, input, kept, handled, acts>>
CutEnd ==
    /\ AtTest({"cut"})
    /\ kept' = Top.buff /\ stack' = Below
    /\ UNCHANGED <<paras, input, handled, acts>>

-----------------------------------------------------------------------------
(* What the running script does next; any node may be the last of its body. *)
Continue ==
    \/ \E n \in 1 .. Len(input) : Collect(n)
    \/ \E n \in Calls, arg \in Args : Call(n, arg)
    \/ \E n \in Calls, g \in Range(FuncOf), arg \in Args : Callback(n, g, arg)
    \/ \E deep \in BOOLEAN : Switch(deep)
    \/ \E to \in 0 .. MaxTo, step \in Steps : ForRange(to, step)
    \/ \E to \in 0 .. MaxTo : ForList(to)
    \/ Actions \/ CallEnd \/ BlockEnd \/ CaseTrue \/ Default \/ Break \/ SwitchEnd
    \/ ForNext \/ ForTurnEnd \/ ForEnd \/ ForCut \/ CutNext \/ CutTurnEnd \/ CutEnd

ScriptNext == GoAction \/ Continue
ScriptSpec == ScriptInit /\ [][ScriptNext]_scriptVars
(* The interpreter runs until the script ends. *)
ScriptFairSpec == ScriptSpec /\ WF_scriptVars(Continue)

-----------------------------------------------------------------------------
(* What the body of a node must find in the map: names with their values. *)
Entries(frame) ==
    CASE frame.kind = "call" ->
            {<<ArgOf(frame.f), frame.arg>>, <<CBID(frame.f), frame.node>>}
      [] frame.kind = "range" /\ frame.body -> {<<Num(frame.slot), frame.i>>}
      [] frame.kind = "list" /\ frame.body ->
            {<<Num(frame.slot), frame.i>>, <<Value(frame.slot), frame.i>>}
      [] frame.kind = "cut" /\ frame.body ->
            {<<Num(frame.slot), frame.i>>, <<Value(frame.slot), frame.packet>>}
      [] OTHER -> {}
Own(frame) == {e[1] : e \in Entries(frame)}

Names == Range(FuncOf)
Frames ==
    [kind : {"block", "case"}] \cup [kind : {"switch"}, deep : BOOLEAN]
    \cup [kind : {"call"}, node : Calls, f : Names, arg : Args, of : Names, then : Calls]
    \cup [kind : {"range", "list"}, slot : 0 .. MaxDepth, i : Nat, to : 0 .. MaxTo,
          step : Steps \cup {1}, body : BOOLEAN]
    \cup [kind : {"cut"}, slot : 0 .. MaxDepth, i : Nat, buff : Seq(Range(Stream)),
          packet : 0 .. Len(Packets), body : BOOLEAN]

(* Frames keep to their kinds, and the bytes are bytes of the packets. *)
FramesOK ==
    /\ stack \in Seq(Frames) /\ Len(stack) <= MaxDepth
    /\ input \in Seq(Range(Stream)) /\ kept \in Seq(Range(Stream))
    /\ handled \in Seq(DOMAIN Packets) /\ acts \in 0 .. MaxActs

(* However calls, loops and callbacks nest, and whichever BREAK ends them, *)
(* the names of the one map are those of the nodes whose bodies run: each  *)
(* finds the values it was given, no two share a name, a callback runs     *)
(* THEN of the innermost call of its function, and nothing is left behind  *)
(* that would hide the parameters of a later call (insert overwrites       *)
(* nothing) or take a later loop's name.                                   *)
OwnParas ==
    /\ FramesOK
    /\ DOMAIN paras = UNION {Own(stack[j]) : j \in DOMAIN stack}
    /\ \A j \in DOMAIN stack :
        /\ \A e \in Entries(stack[j]) : paras[e[1]] = e[2]
        /\ \A k \in DOMAIN stack \ {j} : Own(stack[j]) \cap Own(stack[k]) = {}
        /\ stack[j].kind = "call" /\ stack[j].f = Anon =>
            \E k \in CallsOf(stack[j].of) : k < j /\ stack[j].then = stack[k].node

(* The bytes that wait to be cut: the loop's own copy while a cut runs. *)
Waiting == IF Open("cut") = {} THEN kept ELSE stack[Max(Open("cut"))].buff

(* However the bytes arrive and wherever a cut is broken off, every packet *)
(* is handled once, whole and in order: what was handled, what waits for   *)
(* the next cut and what has not come yet are the packets that were sent.  *)
CutOnce == FlattenSeq([h \in DOMAIN handled |-> Bytes(handled[h])]) \o Waiting \o input = Stream

(* Every script ends. *)
Ends == Running ~> ~Running
=============================================================================
