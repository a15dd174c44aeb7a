---------------------------- MODULE MCPingCommand ----------------------------
(* PingCommand with two folders and two Pings.                               *)
EXTENDS PingCommand

CONSTANTS f1, f2, p1, p2

TwoFolders == {f1, f2}
FirstOnly  == {f1}
TwoPings   == {p1, p2}
BothOrFirst == [p \in TwoPings |-> IF p = p1 THEN {f1, f2} ELSE {f1}]
OddInFirst == [u \in Uids |-> IF u % 2 = 1 THEN f1 ELSE f2]
AllInFirst == [u \in Uids |-> f1]
=============================================================================
