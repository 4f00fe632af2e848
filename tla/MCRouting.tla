----------------------------- MODULE MCRouting -----------------------------
(* Three gateways in a row, paths there and to a gateway that is not next. *)
EXTENDS Routing

Row == {"a", "b", "c"}
RowLinks == {<<"a", "b">>, <<"b", "c">>}
RowPaths == {<<"a", "b", "c">>, <<"c", "b">>, <<"a", "c">>}
TwoActs == {"get", "nothing"}
GetOnly == {"get"}
ToA == {<<"b", "a">>}
=============================================================================
