---------------------------- MODULE MCPacketRead ----------------------------
(* Short streams for PacketRead.  Bytes below 10 are lengths; the others   *)
(* are marks and data.                                                     *)
EXTENDS PacketRead

B == 10     X == 11     At == 12     M == 13     E == 14     d == 15

Item(bytes) == [junk |-> FALSE, bytes |-> bytes]
Junk(bytes) == [junk |-> TRUE, bytes |-> bytes]

AnyByte == 0 .. 15
Marked(min) == [len |-> FALSE, end |-> TRUE, minLen |-> min]
Counted(min) == [len |-> TRUE, end |-> FALSE, minLen |-> min]

\* Packets with a length; the payload of Long looks like a begin.
Short == Item(<<B, X, 4, d>>)
Long == Item(<<B, X, 5, B, X>>)
Empty == Item(<<B, X, 3>>)
Route == Item(<<At, d, 4, d>>)

LenConf ==
    [accepted |-> FALSE, defaultConn |-> FALSE,
     skhd |-> Counted(3), step |-> Counted(3),
     begin |-> <<B, X>>, known |-> AnyByte, maxArrive |-> ReadMax,
     reloads |-> {},
     streams |-> { <<Short, Long, Empty>>, <<Long, Route, Short, Route>>,
                   <<Junk(<<X, d>>), Long, Junk(<<d, B>>), Short>> }]

\* Bytes no start step is for, in reads smaller than what arrives.
JunkConf ==
    [LenConf EXCEPT !.accepted = TRUE, !.defaultConn = TRUE,
                    !.known = AnyByte \ {X}, !.maxArrive = ReadMax + 2,
                    !.streams =
        { <<Short, Junk(<<X, d>>), Short, Empty, Short>>,
          <<Empty, Junk(<<X>>), Short, Short>> }]

\* A handshake that does not match, or is not whole, at first.
HandConf ==
    [LenConf EXCEPT !.accepted = TRUE, !.streams =
        { <<Item(<<M, d, 4, d>>), Short, Short>>,
          <<Item(<<d, M, 3>>), Junk(<<d>>), Empty>> }]

\* Packets with an end, a handshake, reloads.
EndConf ==
    [LenConf EXCEPT !.accepted = TRUE, !.begin = <<>>,
                    !.skhd = Marked(1), !.step = Marked(1),
                    !.reloads = {<<X, E>>}, !.streams =
        { <<Item(<<M, E>>), Item(<<d, d, E>>), Item(<<d, E>>)>>,
          <<Item(<<d, M, d, E>>), Item(<<E>>), Item(<<d, E>>)>> }]

AllConfs == {LenConf, JunkConf, HandConf, EndConf}
=============================================================================
