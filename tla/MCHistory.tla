----------------------------- MODULE MCHistory -----------------------------
(* Constants of the run of History: a friend request with its text, which  *)
(* may be delivered twice, an ordinary message of the same peer, and with  *)
(* another peer a post to a room and a message of our user.                *)
EXTENDS History, TLC

CONSTANTS alice, bob, ask, text, photo, ours

Parties == [m \in {ask, text, photo, ours} |-> IF m \in {ask, text} THEN alice ELSE bob]
Copies == [m \in {ask, text, photo, ours} |-> IF m = ask THEN 2 ELSE 1]
=============================================================================
