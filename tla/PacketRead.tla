----------------------------- MODULE PacketRead -----------------------------
(***************************************************************************)
(* echo_read_cb of WizBase.cpp: how the bytes of one connection become the *)
(* packets that scripts run on.                                            *)
(*                                                                         *)
(* The bytes of a stream of packets arrive in chunks of any size.  The     *)
(* callback runs a loop over conn->case_step, one case an action here, and *)
(* leaves the loop ("while_break") with case_step and buffer kept for the  *)
(* next chunk.  A byte is a number; the marker "@~@" of a routing packet,  *)
(* a MatchStr and an EndHex are one byte each.  A length stands at the      *)
(* byte LenAt of a packet, where the Len expressions of the two nodes,     *)
(* SKHD_ACT and the start step, and the routing header have it.            *)
(***************************************************************************)
EXTENDS Integers, Sequences, SequencesExt

CONSTANTS
    Confs,          \* configurations and what their peers send, see Attributes
    LenAt,          \* where the length stands in a packet
    AtMark,         \* "@~@"
    MatchMark,      \* MatchStr of the Listen node
    EndMark,        \* EndHex
    ReadMax,        \* sizeof(data)
    IntWidth,       \* 2^32, the width of int
    SizeWidth,      \* 2^64, the width of size_t
    NaN,            \* STRING_Helper::NaN
    MaxReloads      \* BOUND: reloads

Nodes == {"skhd", "step"}

(* A configuration of a connection:                                        *)
(*   accepted     it is an accepted one, which has no name yet             *)
(*   defaultConn  there is a CONNECT of Type DEFAULT_CONN                  *)
(*   skhd, step   the attributes of SKHD_ACT and of the start steps: are   *)
(*                there Len and EndHex, and MinLen                         *)
(*   begin        BeginHex of the start step, <<>> if it has none          *)
(*   known        the first bytes for which there is a start step          *)
(*   maxArrive    the most bytes that are added before the callback runs   *)
(*   reloads      what scripts put into @_RELOAD_STRING                    *)
(*   streams      what the peer may send: sequences of items               *)
Attributes == [len : BOOLEAN, end : BOOLEAN, minLen : Nat \ {0}]

VARIABLES
    conf,       \* the configuration
    stream,     \* the items the peer sends
    net,        \* the bytes that have not arrived
    input,      \* the bufferevent's input buffer
    buffer,     \* conn->buffer
    named,      \* does the connection have an obj_name?
    caseStep,   \* conn->case_step
    procStep,   \* conn->proc_step: which node or special step
    head,       \* the first byte of @_INPUT_STRING when a step is looked for
    packetLen,  \* conn->packet_len
    closeRead,  \* conn->close_after_read
    running,    \* is the callback in its loop?
    closed,     \* has the connection been disconnected?
    loaded,     \* history: the packets handed to scripts and to routing
    due         \* history: the packets that are to be handed over

loopVars == <<caseStep, procStep, head, packetLen, closeRead, running, named>>
readVars == <<conf, stream, net, input, buffer, loopVars, closed, loaded, due>>

Cases == {"START", "SKHD", "ROUTING_STEP", "NORMAL_STEP", "LOAD_PACKET",
          "PROCESS", "RSEND_STEP", "NEXT_STEP", "ROUTING_PROCESS", "END"}
Steps == Nodes \cup {"", "routing", "rtest", "rsend", "reload"}

(* The loop keeps to its cases and its counters to their widths. *)
ReadTypeOK ==
    /\ conf \in Confs /\ stream \in conf.streams
    /\ caseStep \in Cases /\ procStep \in Steps
    /\ packetLen \in 0 .. SizeWidth - 1
    /\ {closeRead, running, named, closed} \subseteq BOOLEAN
    /\ named \/ (conf.accepted /\ loaded = <<>>)

-----------------------------------------------------------------------------
(* What a node's attributes say of a buffer *)

(* int x = NaN, size_t y = x. *)
AsInt(n) == IF n < IntWidth \div 2 THEN n ELSE n - IntWidth
AsSize(i) == i % SizeWidth

IsDigit(b) == b < 10

(* Parse(Len) on @_INPUT_STRING, and ParseInt. *)
ParseLen(buf) ==
    AsSize(AsInt(IF Len(buf) >= LenAt /\ IsDigit(buf[LenAt])
                 THEN buf[LenAt] ELSE NaN))

PacketLenEnd == NaN - 1

(* packet_len of a node.  (Len was parsed when it equals NaN.) *)
FrameLen(node, buf) ==
    LET len == IF conf[node].len THEN ParseLen(buf) ELSE 0
    IN  IF len = 0 /\ conf[node].end THEN PacketLenEnd ELSE len

(* string::find, from 0; -1 for npos. *)
Find(buf, b) ==
    IF Contains(buf, b)
    THEN (CHOOSE i \in DOMAIN buf :
            buf[i] = b /\ \A j \in 1 .. i - 1 : buf[j] # b) - 1
    ELSE -1

CheckConn(buf) ==
    LET pos == Find(buf, MatchMark)
    IN  IF pos < 0 /\ conf.defaultConn THEN 0 ELSE pos

Erase(buf, n) == SubSeq(buf, n + 1, Len(buf))

(* string::erase(0, pos - 1), for pos > 0. *)
Trim(buf, pos) == IF pos > 0 THEN Erase(buf, pos - 1) ELSE buf

-----------------------------------------------------------------------------
(* What a peer sends *)

ItemSet == [junk : BOOLEAN, bytes : Seq(Nat) \ {<<>>}]
Bytes(items) == FlattenSeq([i \in DOMAIN items |-> items[i].bytes])
Packets(items) ==
    FlattenSeq([i \in DOMAIN items |-> IF items[i].junk THEN <<>> ELSE <<items[i].bytes>>])

(* There is a start step for every byte that a packet could begin with. *)
Known(c, items) == \A i \in DOMAIN items : ToSet(items[i].bytes) \subseteq c.known

(* A packet has its length at LenAt, one that an int holds, or EndHex at   *)
(* its end and nowhere else.                                               *)
HasLen(x) ==
    /\ LenAt <= Len(x) /\ x[LenAt] = Len(x)
    /\ Len(x) < IntWidth \div 2 /\ Len(x) < PacketLenEnd
Cut(node, x) ==
    /\ node.minLen <= Len(x)
    /\ IF node.len THEN LenAt <= node.minLen /\ HasLen(x) /\ IsDigit(Len(x))
                   ELSE node.end /\ Len(x) <= PacketLenEnd /\ Find(x, EndMark) = Len(x) - 1
Routed(x) == x[1] = AtMark /\ HasLen(x)
Normal(c, x) ==
    /\ x[1] # AtMark /\ Cut(c.step, x)
    /\ IsPrefix(c.begin, x) /\ Len(c.begin) <= c.step.minLen

(* No packet could begin at byte j of the first item. *)
Inside(c, items, j) ==
    /\ items[1].bytes[j] # AtMark
    /\ ~IsPrefix(c.begin, Erase(Bytes(items), j - 1))

(* What the first item is.  No "@~@" comes behind bytes that are skipped,  *)
(* and where bytes can get lost with the buffer, no packet looks like      *)
(* another one from its second byte on.                                    *)
First(c, known, items) ==
    LET x == items[1].bytes
    IN  IF items[1].junk
        THEN /\ \A j \in DOMAIN x : Inside(c, items, j)
             /\ Len(items) > 1 => items[2].bytes[1] # AtMark
        ELSE /\ Normal(c, x) \/ (known /\ Routed(x))
             /\ known \/ \A j \in 2 .. Len(x) : Inside(c, items, j)

(* The first packet of who connects has MatchStr at its first or second    *)
(* byte; for DEFAULT_CONN, there may be none at all.                       *)
Handshake(c, items) ==
    LET x == items[1].bytes
    IN  /\ ~items[1].junk /\ Cut(c.skhd, x)
        /\ \/ Find(x, MatchMark) \in {0, 1}
           \/ c.defaultConn /\ ~Contains(Bytes(items), MatchMark)

From(items, i) == SubSeq(items, i, Len(items))
Framed(c, items) ==
    /\ items \in Seq(ItemSet)
    /\ c.accepted /\ items # <<>> => Handshake(c, items)
    /\ \A i \in DOMAIN items :
            (i = 1 /\ c.accepted) \/ First(c, Known(c, items), From(items, i))
    /\ c.reloads # {} => Known(c, items)

ASSUME ReadAssumption ==
    /\ \A c \in Confs :
         /\ {c.accepted, c.defaultConn} \subseteq BOOLEAN
         /\ {c.skhd, c.step} \subseteq Attributes
         /\ c.begin \in Seq(Nat) /\ c.maxArrive \in Nat \ {0}
         /\ \A p \in c.reloads :
                /\ p \in Seq(Nat) \ {<<>>} /\ ToSet(p) \subseteq c.known
                /\ Normal(c, p) \/ Routed(p)
         /\ \A items \in c.streams : Framed(c, items)
    /\ {LenAt, ReadMax} \subseteq Nat \ {0}
    /\ IntWidth \in Nat \ {0, 1} /\ NaN \in IntWidth \div 2 .. IntWidth - 1
    /\ SizeWidth \in Nat /\ SizeWidth >= IntWidth

-----------------------------------------------------------------------------
(* bufferevent_read *)
ReadInput ==
    LET n == IF Len(input) < ReadMax THEN Len(input) ELSE ReadMax
    IN  /\ buffer' = buffer \o SubSeq(input, 1, n)
        /\ input' = Erase(input, n)

(* libevent adds a chunk to the input buffer and calls the callback. *)
Arrive(n) ==
    /\ ~running /\ ~closed
    /\ n \in 1 .. Len(net)
    /\ input' = input \o SubSeq(net, 1, n)
    /\ net' = Erase(net, n)
    /\ running' = TRUE
    /\ UNCHANGED <<conf, stream, buffer, named, caseStep, procStep, head, packetLen,
                   closeRead, closed, loaded, due>>

In(case) == running /\ caseStep = case

(* `while_break = true', and what follows the loop. *)
Break ==
    /\ running' = FALSE
    /\ closed' = closeRead
Continue == running' = TRUE /\ UNCHANGED closed

(* Too few bytes: back to CASE_START, now or with the next chunk. *)
ReadOn_NoBreak == caseStep' = "START" /\ Continue
ReadOn ==
    /\ caseStep' = "START"
    /\ IF input = <<>> THEN Break ELSE Continue

CaseStart ==
    /\ In("START")
    /\ ReadInput
    /\ IF buffer' = <<>>
       THEN Break /\ UNCHANGED <<caseStep, head, packetLen>>
       ELSE /\ Continue
            /\ head' = buffer'[1]
            /\ packetLen' = 0
            /\ caseStep' = IF ~named THEN "SKHD"
                           ELSE IF buffer'[1] = AtMark THEN "ROUTING_STEP"
                           ELSE "NORMAL_STEP"
    /\ UNCHANGED <<conf, stream, net, named, procStep, closeRead, loaded, due>>

(* CASE_SKHD: no CONNECT node matches. *)
SkhdNoMatch ==
    /\ In("SKHD") /\ CheckConn(buffer) < 0
    /\ ReadOn
    /\ UNCHANGED <<conf, stream, net, input, buffer, named, head, procStep, packetLen,
                   closeRead, loaded, due>>

(* CASE_SKHD: a node matches.  Len is parsed on the buffer as it was. *)
Skhd ==
    /\ In("SKHD") /\ CheckConn(buffer) >= 0
    /\ buffer' = Trim(buffer, CheckConn(buffer))
    /\ procStep' = "skhd"
    /\ LET len == FrameLen("skhd", buffer) IN
         \/ /\ Len(buffer') < conf.skhd.minLen
            /\ named' = FALSE /\ caseStep' = "START" /\ Break
            /\ UNCHANGED packetLen
         \/ /\ Len(buffer') >= conf.skhd.minLen
            /\ packetLen' = len
            /\ named' = (len # NaN)
            /\ caseStep' = IF len = NaN THEN "END" ELSE "LOAD_PACKET"
            /\ Continue
    /\ UNCHANGED <<conf, stream, net, input, head, closeRead, loaded, due>>

(* CASE_ROUTING_STEP. *)
RoutingStep ==
    /\ In("ROUTING_STEP")
    /\ procStep' = "routing"
    /\ IF Len(buffer) >= LenAt
       THEN packetLen' = buffer[LenAt] /\ caseStep' = "LOAD_PACKET" /\ Continue
       ELSE ReadOn /\ UNCHANGED packetLen
    /\ UNCHANGED <<conf, stream, net, input, buffer, named, head, closeRead, loaded, due>>

(* CASE_NORMAL_STEP: no start step for this buffer, and no DEFAULT_STEP. *)
NormalNoStep ==
    /\ In("NORMAL_STEP") /\ head \notin conf.known
    /\ procStep' = "" /\ caseStep' = "END" /\ Continue
    /\ UNCHANGED <<conf, stream, net, input, buffer, named, head, packetLen, closeRead,
                   loaded, due>>

StepFound ==
    /\ In("NORMAL_STEP")
    /\ head \in conf.known
    /\ procStep' = "step"

TooShort == Len(buffer) < conf.step.minLen

NormalShort ==
    /\ StepFound /\ TooShort
    /\ ReadOn
    /\ UNCHANGED <<conf, stream, net, input, buffer, named, head, packetLen, closeRead,
                   loaded, due>>

(* The head is wrong: one byte further. *)
NormalSkip ==
    /\ StepFound /\ ~TooShort
    /\ ~IsPrefix(conf.begin, buffer)
    /\ buffer' = Erase(buffer, 1)
    /\ UNCHANGED <<conf, stream, net, input, named, head, caseStep, packetLen, closeRead,
                   running, closed, loaded, due>>

NormalFrame ==
    /\ StepFound /\ ~TooShort
    /\ IsPrefix(conf.begin, buffer)
    /\ packetLen' = FrameLen("step", buffer)
    /\ caseStep' = IF packetLen' = NaN THEN "END" ELSE "LOAD_PACKET"
    /\ Continue
    /\ UNCHANGED <<conf, stream, net, input, buffer, named, head, closeRead, loaded, due>>

(* CASE_LOAD_PACKET: the length, when EndHex has come. *)
LoadLen ==
    IF packetLen = PacketLenEnd /\ Contains(buffer, EndMark)
    THEN Find(buffer, EndMark) + 1 ELSE packetLen

(* CASE_LOAD_PACKET: not all of it is there. *)
LoadMore ==
    /\ In("LOAD_PACKET")
    /\ LoadLen # 0 /\ Len(buffer) < LoadLen
    /\ IF input = <<>> THEN Break /\ UNCHANGED <<input, buffer>>
                       ELSE Continue /\ ReadInput
    /\ UNCHANGED <<conf, stream, net, named, head, caseStep, procStep, packetLen,
                   closeRead, loaded, due>>

(* CASE_LOAD_PACKET: the packet is handed over; Len 0 is the whole buffer. *)
Load ==
    /\ In("LOAD_PACKET")
    /\ LoadLen = 0 \/ Len(buffer) >= LoadLen
    /\ packetLen' = LoadLen
    /\ loaded' = Append(loaded,
                        IF LoadLen = 0 THEN buffer ELSE SubSeq(buffer, 1, LoadLen))
    /\ caseStep' = IF procStep = "routing" THEN "ROUTING_PROCESS" ELSE "PROCESS"
    /\ Continue
    /\ UNCHANGED <<conf, stream, net, input, buffer, named, head, procStep, closeRead, due>>

-----------------------------------------------------------------------------
(* CASE_PROCESS: the script of the step; what it leaves in @_NEXT_STEP and *)
(* in @_CLOSE_AFTER_READ.                                                  *)
CaseProcess(next, close) ==
    /\ In("PROCESS")
    /\ procStep' = next
    /\ closeRead' = (closeRead \/ close)
    /\ caseStep' = CASE next \in {"", "skhd"} -> "END"
                     [] next = "rsend" -> "RSEND_STEP"
                     [] OTHER -> "NEXT_STEP"
    /\ Continue
    /\ UNCHANGED <<conf, stream, net, input, buffer, named, head, packetLen, loaded, due>>

(* CASE_RSEND_STEP: is there a @_RSEND_STRING? *)
CaseRsendStep(set) ==
    /\ In("RSEND_STEP")
    /\ caseStep' = IF set THEN "ROUTING_PROCESS" ELSE "END"
    /\ Continue
    /\ UNCHANGED <<conf, stream, net, input, buffer, named, head, procStep, packetLen,
                   closeRead, loaded, due>>

(* CASE_NEXT_STEP: a step the script named, or one whose Test succeeds. *)
NextStep(found) ==
    /\ In("NEXT_STEP")
    /\ procStep \in {"step", "rtest"} /\ (procStep = "step" => found)
    /\ procStep' = IF found THEN "step" ELSE ""
    /\ caseStep' = IF found THEN "PROCESS" ELSE "END"
    /\ Continue
    /\ UNCHANGED <<conf, stream, net, input, buffer, named, head, packetLen, closeRead,
                   loaded, due>>

(* CASE_NEXT_STEP with @_SYS_RELOAD: the string goes into the buffer behind *)
(* the packet.                                                             *)
Reload_AtEnd(p) ==
    /\ In("NEXT_STEP") /\ procStep = "reload"
    /\ buffer' = buffer \o p
    /\ due' = InsertAt(due, Len(loaded) + 1, p)
    /\ caseStep' = "END" /\ Continue
    /\ UNCHANGED <<conf, stream, net, input, named, head, procStep, packetLen, closeRead,
                   loaded>>
Reload(p) ==
    /\ In("NEXT_STEP") /\ procStep = "reload"
    /\ buffer' = SubSeq(buffer, 1, packetLen) \o p \o Erase(buffer, packetLen)
    /\ due' = InsertAt(due, Len(loaded) + 1, p)
    /\ caseStep' = "END" /\ Continue
    /\ UNCHANGED <<conf, stream, net, input, named, head, procStep, packetLen, closeRead,
                   loaded>>

(* CASE_ROUTING_PROCESS: at the destination a step runs, else the packet   *)
(* is forwarded or dropped.                                                *)
RoutingProcess(here) ==
    /\ In("ROUTING_PROCESS")
    /\ procStep' = IF here THEN "step" ELSE procStep
    /\ caseStep' = IF here THEN "PROCESS" ELSE "END"
    /\ Continue
    /\ UNCHANGED <<conf, stream, net, input, buffer, named, head, packetLen, closeRead,
                   loaded, due>>

(* CASE_END. *)
CaseEnd_NoLoop ==
    /\ In("END")
    /\ buffer' = IF packetLen = 0 THEN <<>> ELSE Erase(buffer, packetLen)
    /\ caseStep' = "START" /\ procStep' = "" /\ Break
    /\ UNCHANGED <<conf, stream, net, input, named, head, packetLen, closeRead, loaded, due>>
CaseEnd ==
    /\ In("END")
    /\ buffer' = IF packetLen = 0 THEN <<>> ELSE Erase(buffer, packetLen)
    /\ caseStep' = "START" /\ procStep' = ""
    /\ IF buffer' = <<>> THEN Break ELSE Continue
    /\ UNCHANGED <<conf, stream, net, input, named, head, packetLen, closeRead, loaded, due>>

-----------------------------------------------------------------------------
ReadInit ==
    /\ conf \in Confs /\ stream \in conf.streams
    /\ net = Bytes(stream) /\ due = Packets(stream)
    /\ input = <<>> /\ buffer = <<>> /\ loaded = <<>>
    /\ named = ~conf.accepted /\ head = NaN
    /\ caseStep = "START" /\ procStep = "" /\ packetLen = 0
    /\ closeRead = FALSE /\ running = FALSE /\ closed = FALSE

Frame ==
    \/ CaseStart \/ SkhdNoMatch \/ Skhd \/ RoutingStep
    \/ NormalNoStep \/ NormalShort \/ NormalSkip \/ NormalFrame
    \/ LoadMore \/ Load

MayReload == Len(due) - Len(Packets(stream)) < MaxReloads

ScriptNext == {"", "skhd", "step", "rtest", "rsend"}
                \cup (IF conf.reloads # {} /\ MayReload THEN {"reload"} ELSE {})

Script ==
    \/ \E next \in ScriptNext, close \in BOOLEAN : CaseProcess(next, close)
    \/ \E yes \in BOOLEAN :
          CaseRsendStep(yes) \/ NextStep(yes) \/ RoutingProcess(yes)
    \/ \E p \in conf.reloads : Reload(p)

ReadNext == (\E n \in 1 .. conf.maxArrive : Arrive(n)) \/ Frame \/ Script \/ CaseEnd

ReadSpec == ReadInit /\ [][ReadNext]_readVars

-----------------------------------------------------------------------------
Dispatched == Known(conf, stream)

(* However the bytes arrive, the packets that are handed over are those    *)
(* that were sent, whole, each once and in their order; a reloaded string  *)
(* comes before the packets that arrived behind it.  When a start step is  *)
(* missing and bytes are lost with the buffer, packets may be left out,    *)
(* but what is handed over is still a packet that was sent.  The loop      *)
(* keeps to its cases and its lengths to their width meanwhile.            *)
Exact ==
    /\ ReadTypeOK
    /\ Dispatched => IsPrefix(loaded, due)
    /\ \E f \in [DOMAIN loaded -> DOMAIN due] :
        /\ \A i \in DOMAIN loaded : loaded[i] = due[f[i]]
        /\ \A i, j \in DOMAIN loaded : i < j => f[i] < f[j]

(* When the callback has returned, every packet that has arrived whole has *)
(* been handed over: none waits for the bytes of the next one.  (Unless    *)
(* more arrives at once than one bufferevent_read takes, as with TLS.)     *)
Prompt ==
    Dispatched /\ conf.maxArrive <= ReadMax /\ ~running /\ ~closed =>
        \A i \in DOMAIN stream :
            Len(Bytes(SubSeq(stream, 1, i))) + Len(net) <= Len(Bytes(stream)) =>
                Len(loaded) >= Len(Packets(SubSeq(stream, 1, i)))
                                + Len(due) - Len(Packets(stream))

(* The cases follow each other; scripts end, and do not go on to a next    *)
(* step for ever.                                                          *)
FairRead == ReadSpec /\ WF_readVars(Frame \/ Script \/ CaseEnd)
                 /\ SF_readVars(\E close \in BOOLEAN : CaseProcess("", close))

(* The callback returns to the event loop. *)
Returns == running ~> ~running
=============================================================================
