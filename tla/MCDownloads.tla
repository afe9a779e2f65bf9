---------------------------- MODULE MCDownloads ----------------------------
(* Constants of the run of Downloads: f and g have the same name, g and h  *)
(* the same sender; h is offered without a size.                           *)
EXTENDS Downloads, TLC

CONSTANTS f, g, h

Senders == f :> "a" @@ g :> "b" @@ h :> "b"
Paths == f :> "x" @@ g :> "x" @@ h :> "y"
Offered == f :> 2 @@ g :> 1 @@ h :> 0
Sizes == f :> 2 @@ g :> 1 @@ h :> 2
Clicks == f :> 2 @@ g :> 1 @@ h :> 1
=============================================================================
