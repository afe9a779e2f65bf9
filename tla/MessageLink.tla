----------------------------- MODULE MessageLink -----------------------------
(***************************************************************************)
(* What the connection manager promises the rest of the daemon about the   *)
(* payloads handed to _write, whatever sockets come and go underneath:     *)
(*   - a payload is taken in order, and held or put on its way;            *)
(*   - held payloads leave the hold oldest first: none is put on its way   *)
(*     while an older one stays behind;                                    *)
(*   - one on its way arrives at most once or is lost;                     *)
(*   - arrival and loss are final.                                         *)
(* It does not promise delivery (sent is not acknowledged), nor the order  *)
(* of arrival (two sockets can be read at once).                           *)
(***************************************************************************)
EXTENDS Integers, Sequences

CONSTANTS Hosts, Msg

VARIABLES
  stage,    \* stage[h][m]: where the m-th payload of h is
  log       \* log[h]: the payloads of h that arrived, in order of arrival

Stages == {"new", "held", "sent", "arrived", "gone"}

LinkInit ==
  /\ stage = [h \in Hosts |-> [m \in Msg |-> "new"]]
  /\ log = [h \in Hosts |-> <<>>]

At(h, st) == {m \in Msg : stage[h][m] = st}

(* The next payload is taken; it does not overtake a held one. *)
Accept(h) ==
  /\ \E m \in At(h, "new"), to \in {"held", "sent", "gone"} :
       /\ \A n \in At(h, "new") : m <= n
       /\ to = "sent" => At(h, "held") = {}
       /\ stage' = [stage EXCEPT ![h][m] = to]
  /\ UNCHANGED log

(* Some held payloads leave the hold, the oldest first. *)
Release(h) ==
  /\ \E sent \in SUBSET At(h, "held"), lost \in SUBSET At(h, "held") :
       LET stay == At(h, "held") \ (sent \union lost) IN
       /\ sent \intersect lost = {}
       /\ \A m \in sent, n \in stay : m < n
       /\ stage' = [stage EXCEPT ![h] = [m \in Msg |->
                      IF m \in sent THEN "sent" ELSE IF m \in lost THEN "gone" ELSE @[m]]]
  /\ UNCHANGED log

Arrive(h) ==
  \E m \in At(h, "sent") :
    /\ stage' = [stage EXCEPT ![h][m] = "arrived"]
    /\ log' = [log EXCEPT ![h] = Append(@, m)]

Lose(h) ==
  /\ \E lost \in SUBSET At(h, "sent") :
       stage' = [stage EXCEPT ![h] = [m \in Msg |-> IF m \in lost THEN "gone" ELSE @[m]]]
  /\ UNCHANGED log

LinkNext == \E h \in Hosts : Accept(h) \/ Release(h) \/ Arrive(h) \/ Lose(h)

LinkSpec == LinkInit /\ [][LinkNext]_<<stage, log>>
=============================================================================
