------------------------------ MODULE UdpSeen ------------------------------
(***************************************************************************)
(* The replay memory of the friend handshake (server.py): a signed packet  *)
(* is good inside its validity window, and a nonce once honoured is        *)
(* remembered, in memory and in a file, until its packet has expired.      *)
(*                                                                         *)
(* One receiver.  A packet stands for its (sender, nonce) pair; the        *)
(* network may deliver it late, repeatedly or never, so a packet once sent *)
(* can always arrive.  _udp_listener is one thread: it tests the window,   *)
(* verifies the signature (which takes time) and then asks the memory,     *)
(* each with a reading of the clock of its own.                            *)
(***************************************************************************)
EXTENDS Integers

CONSTANTS
  Packets,    \* genuine packets, each with a nonce of its own
  Validity,   \* _UDP_SIG_VALIDITY
  Slack,      \* _UDP_SIG_CLOCK_SLACK
  MaxClock,   \* bound: the receiver's clock
  MaxFault    \* bound: restarts, failed or damaged files, clock set back

ASSUME TimesAreNat == Validity \in Nat \ {0} /\ Slack \in Nat
ASSUME BoundsAreNat == MaxClock \in Nat /\ MaxFault \in Nat

VARIABLES
  clock,      \* time.time() of the receiver
  sent,       \* packets on the network
  iat,        \* iat[p]: issuance instant signed into p (the sender's clock)
  sentAt,     \* history: the receiver's clock when p was sent
  checking,   \* {p}: p's window was found good, its nonce not yet asked
  seen,       \* STATE.udp_seen (its values are the signed exp)
  loaded,     \* STATE.udp_seen_loaded
  disk,       \* the entries of UDP_SEEN_PATH
  honoured,   \* history: how often p was honoured
  forgotten,  \* history: the memory of p was lost in a way the code accepts
  stepped,    \* history: the receiver's clock was set back
  faults

vars == <<clock, sent, iat, sentAt, checking, seen, loaded, disk, honoured,
          forgotten, stepped, faults>>

Init ==
  /\ clock = Slack
  /\ sent = {}
  /\ iat = [p \in Packets |-> 0]
  /\ sentAt = [p \in Packets |-> 0]
  /\ checking = {}
  /\ seen = {}
  /\ loaded = FALSE
  /\ disk = {}
  /\ honoured = [p \in Packets |-> 0]
  /\ forgotten = {}
  /\ stepped = FALSE
  /\ faults = 0

(* _send_udp_friend_packet: exp is always one validity after iat.          *)
Exp(p) == iat[p] + Validity

InWindow_NoSlack(p) == clock <= Exp(p) /\ clock >= iat[p]
(* The tests of _verify_udp_friend_packet on the signed instants.          *)
InWindow(p) ==
  /\ Exp(p) > iat[p]
  /\ Exp(p) <= iat[p] + Validity + Slack
  /\ clock <= Exp(p) + Slack
  /\ clock >= iat[p] - Slack

Unexpired_NoSlack(S) == {p \in S : Exp(p) >= clock}
(* What a pruning keeps: entries whose packet can still be in its window.  *)
Unexpired(S) == {p \in S : Exp(p) + Slack >= clock}

(* The memory as the next check will find it (_udp_seen_load is lazy).     *)
Known == IF loaded THEN seen ELSE disk

Sent(p) == p \in sent
Honoured == {p \in Packets : honoured[p] > 0}

----------------------------------------------------------------------------
(* A host signs and sends p; its clock may be off by the slack.            *)
Send(p, skew) ==
  /\ ~Sent(p)
  /\ sent' = sent \union {p}
  /\ iat' = [iat EXCEPT ![p] = clock + skew]
  /\ sentAt' = [sentAt EXCEPT ![p] = clock]
  /\ UNCHANGED <<clock, checking, seen, loaded, disk, honoured, forgotten,
                 stepped, faults>>

(* A copy of p arrives and its window is good; any other copy is dropped.  *)
Receive(p) ==
  /\ checking = {}
  /\ Sent(p)
  /\ InWindow(p)
  /\ checking' = {p}
  /\ UNCHANGED <<clock, sent, iat, sentAt, seen, loaded, disk, honoured,
                 forgotten, stepped, faults>>

(* _udp_seen_check finds the nonce: a replay.                              *)
Replay(p) ==
  /\ checking = {p}
  /\ p \in Unexpired(Known)
  /\ seen' = Unexpired(Known)
  /\ loaded' = TRUE
  /\ checking' = {}
  /\ UNCHANGED <<clock, sent, iat, sentAt, disk, honoured, forgotten, stepped,
                 faults>>

(* _udp_seen_check records the nonce and saves the map, if it can; the     *)
(* handler then acts on the packet.                                        *)
Honour(p) ==
  /\ checking = {p}
  /\ p \notin Unexpired(Known)
  /\ seen' = Unexpired(Known) \union {p}
  /\ loaded' = TRUE
  /\ checking' = {}
  /\ honoured' = [honoured EXCEPT ![p] = @ + 1]
  /\ forgotten' = forgotten \union (Known \intersect {p})
  /\ \/ disk' = seen' /\ UNCHANGED faults
     \/ faults < MaxFault /\ faults' = faults + 1 /\ UNCHANGED disk
  /\ UNCHANGED <<clock, sent, iat, sentAt, stepped>>

(* The daemon is restarted: memory is gone, the file remains.              *)
Restart ==
  /\ faults < MaxFault
  /\ faults' = faults + 1
  /\ forgotten' = forgotten \union (Known \ disk)
  /\ checking' = {}
  /\ seen' = {}
  /\ loaded' = FALSE
  /\ UNCHANGED <<clock, sent, iat, sentAt, disk, honoured, stepped>>

(* The file is damaged: it will load empty.                                *)
Damage ==
  /\ faults < MaxFault
  /\ faults' = faults + 1
  /\ disk' = {}
  /\ forgotten' = IF loaded THEN forgotten ELSE forgotten \union disk
  /\ UNCHANGED <<clock, sent, iat, sentAt, checking, seen, loaded, honoured,
                 stepped>>

Tick ==
  /\ clock < MaxClock
  /\ clock' = clock + 1
  /\ UNCHANGED <<sent, iat, sentAt, checking, seen, loaded, disk, honoured,
                 forgotten, stepped, faults>>

(* The receiver's clock is set back: a pruned packet may be good again.    *)
StepBack ==
  /\ faults < MaxFault
  /\ faults' = faults + 1
  /\ clock > 0
  /\ clock' = clock - 1
  /\ stepped' = TRUE
  /\ forgotten' = forgotten \union (Honoured \ Known)
  /\ UNCHANGED <<sent, iat, sentAt, checking, seen, loaded, disk, honoured>>

Next ==
  \/ \E p \in Packets, skew \in -Slack..Slack : Send(p, skew)
  \/ \E p \in Packets : Receive(p) \/ Replay(p) \/ Honour(p)
  \/ Restart \/ Damage \/ Tick \/ StepBack

Spec == Init /\ [][Next]_vars

----------------------------------------------------------------------------
TypeOK ==
  /\ clock \in 0..(MaxClock + Slack)
  /\ sent \subseteq Packets
  /\ iat \in [Packets -> Int]
  /\ sentAt \in [Packets -> Nat]
  /\ checking \subseteq sent
  /\ seen \subseteq Packets
  /\ loaded \in BOOLEAN
  /\ disk \subseteq Packets
  /\ honoured \in [Packets -> Nat]
  /\ forgotten \subseteq Packets
  /\ stepped \in BOOLEAN
  /\ faults \in 0..MaxFault

(* A packet is honoured at most once, over pruning, restarts and any       *)
(* number of copies, unless its memory was lost: a save that failed or a   *)
(* file that was damaged before a restart, a clock set back over a pruned  *)
(* entry, or an entry that expired while its own copy was being verified.  *)
HonouredOnce == \A p \in Packets \ forgotten : honoured[p] <= 1

(* Neither the window nor the memory refuses a genuine packet: one that    *)
(* comes within the validity from a sender whose clock is off by no more   *)
(* than the slack passes the window, and the memory holds no packet that   *)
(* was not honoured.                                                       *)
GenuineAccepted ==
  \A p \in sent :
     /\ ~stepped /\ clock - sentAt[p] <= Validity => InWindow(p)
     /\ p \in Known => p \in Honoured
=============================================================================
