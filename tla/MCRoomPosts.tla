---------------------------- MODULE MCRoomPosts ----------------------------
(* Constants of the runs of RoomPosts: the members a and b, friends of     *)
(* each other and of the owner o; a says something and offers a file, the  *)
(* owner says something too.                                               *)
EXTENDS RoomPosts, TLC

CONSTANTS o, a, b, text, file, reply

Befriended == {{o, a}, {o, b}, {a, b}}
Authors == text :> a @@ file :> a @@ reply :> o
=============================================================================
