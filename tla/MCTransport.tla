---------------------------- MODULE MCTransport ----------------------------
(***************************************************************************)
(* The pair of peers on small instances: who writes, and what.             *)
(***************************************************************************)
EXTENDS Transport

LoWrites == [h \in {Lo, Hi} |-> IF h = Lo THEN MaxMsg ELSE 0]
HiWrites == [h \in {Lo, Hi} |-> IF h = Hi THEN MaxMsg ELSE 0]

AcceptThenMsg == <<"friendAccept", "msg">>
MsgThenControl == <<"msg", "control">>
NoMsgs == <<>>
ThreeMsgs == <<"msg", "msg", "msg">>
=============================================================================
