---------------------------- MODULE UdpSeenProofs ----------------------------
(***************************************************************************)
(* For every validity, slack, set of packets and bound: a nonce is         *)
(* honoured once unless its memory was lost, and a genuine packet is not   *)
(* refused.                                                                *)
(***************************************************************************)
EXTENDS UdpSeen, TLAPS

(* The type invariant of the replay memory (server.py 1174-1320).          *)
LEMMA TypeInit == Init => TypeOK
<1> SUFFICES ASSUME Init
             PROVE  TypeOK
  OBVIOUS
<1>1. clock \in 0..(MaxClock + Slack) /\ faults \in 0..MaxFault
  BY TimesAreNat, BoundsAreNat DEF TimesAreNat, BoundsAreNat, Init
<1>2. iat \in [Packets -> Int] /\ sentAt \in [Packets -> Nat] /\ honoured \in [Packets -> Nat]
  BY DEF Init
<1>3. loaded \in BOOLEAN /\ stepped \in BOOLEAN
  BY DEF Init
<1>4. sent \subseteq Packets /\ checking \subseteq sent /\ seen \subseteq Packets
      /\ disk \subseteq Packets /\ forgotten \subseteq Packets
  BY DEF Init
<1> QED
  BY <1>1, <1>2, <1>3, <1>4 DEF TypeOK

LEMMA TypeStep == TypeOK /\ [Next]_vars => TypeOK'
<1> SUFFICES ASSUME TypeOK, [Next]_vars
             PROVE  TypeOK'
  OBVIOUS
<1> USE TimesAreNat, BoundsAreNat DEF TimesAreNat, BoundsAreNat
<1>1. ASSUME NEW p \in Packets, NEW skew \in -Slack..Slack, Send(p, skew)
      PROVE  TypeOK'
  <2>1. clock + skew \in Int /\ clock \in Nat
    BY DEF TypeOK
  <2> QED
    BY <1>1, <2>1 DEF Send, TypeOK
<1>2. ASSUME NEW p \in Packets, Receive(p)
      PROVE  TypeOK'
  BY <1>2 DEF Receive, Sent, TypeOK
<1>3. ASSUME NEW p \in Packets, Replay(p)
      PROVE  TypeOK'
  BY <1>3 DEF Replay, Known, Unexpired, TypeOK
<1>4. ASSUME NEW p \in Packets, Honour(p)
      PROVE  TypeOK'
  <2>1. Unexpired(Known) \subseteq Packets
    BY DEF Known, Unexpired, TypeOK
  <2>2. seen' \subseteq Packets /\ disk' \subseteq Packets
    BY <1>4, <2>1 DEF Honour, TypeOK
  <2>3. honoured' \in [Packets -> Nat]
    BY <1>4 DEF Honour, TypeOK
  <2>4. forgotten' \subseteq Packets
    BY <1>4 DEF Honour, TypeOK
  <2>5. faults' \in 0..MaxFault
    BY <1>4 DEF Honour, TypeOK
  <2> QED
    BY <1>4, <2>2, <2>3, <2>4, <2>5 DEF Honour, TypeOK
<1>5. CASE Restart
  <2>1. forgotten' \subseteq Packets
    BY <1>5 DEF Restart, Known, TypeOK
  <2>2. loaded' \in BOOLEAN
    BY <1>5 DEF Restart
  <2> QED
    BY <1>5, <2>1, <2>2 DEF Restart, TypeOK
<1>6. CASE Damage
  BY <1>6 DEF Damage, TypeOK
<1>7. CASE Tick
  BY <1>7 DEF Tick, TypeOK
<1>8. CASE StepBack
  BY <1>8 DEF StepBack, Honoured, Known, TypeOK
<1>9. CASE UNCHANGED vars
  BY <1>9 DEF vars, TypeOK
<1> QED
  BY <1>1, <1>2, <1>3, <1>4, <1>5, <1>6, <1>7, <1>8, <1>9 DEF Next

(* Every reachable state of the replay memory is well typed.               *)
THEOREM TypeCorrect == Spec => []TypeOK
BY TypeInit, TypeStep, PTL DEF Spec

----------------------------------------------------------------------------
(* What makes HonouredOnce inductive: an honoured nonce whose memory was   *)
(* not lost is remembered until its packet can no longer be in its window, *)
(* and one that is being checked has not been pruned since.                *)
Remembered ==
  \A p \in Packets \ forgotten :
    honoured[p] >= 1 => p \in Known \/ clock > Exp(p) + Slack
CheckedIsKnown ==
  \A p \in checking \ forgotten : honoured[p] >= 1 => p \in Known
OnlySent == \A p \in Packets : honoured[p] >= 1 => p \in sent
OnceInv == HonouredOnce /\ Remembered /\ CheckedIsKnown /\ OnlySent

(* A pruning forgets expired packets only.                                 *)
LEMMA PruneExpired ==
  ASSUME TypeOK, NEW p \in Packets, p \in Known, p \notin Unexpired(Known)
  PROVE  clock > Exp(p) + Slack
<1>1. clock \in Int /\ iat[p] \in Int /\ Validity \in Int /\ Slack \in Int
  BY TimesAreNat, BoundsAreNat DEF TimesAreNat, BoundsAreNat, TypeOK
<1> QED
  BY <1>1 DEF Unexpired, Exp

(* A packet in its window is not expired.                                  *)
LEMMA WindowUnexpired ==
  ASSUME TypeOK, NEW p \in Packets, InWindow(p)
  PROVE  ~(clock > Exp(p) + Slack)
<1>1. clock \in Int /\ iat[p] \in Int /\ Validity \in Int /\ Slack \in Int
  BY TimesAreNat, BoundsAreNat DEF TimesAreNat, BoundsAreNat, TypeOK
<1> QED
  BY <1>1 DEF InWindow, Exp

LEMMA OnceInit == Init => OnceInv
BY DEF Init, OnceInv, HonouredOnce, Remembered, CheckedIsKnown, OnlySent

LEMMA OnceStep == TypeOK /\ OnceInv /\ [Next]_vars => OnceInv'
<1> SUFFICES ASSUME TypeOK, OnceInv, [Next]_vars
             PROVE  OnceInv'
  OBVIOUS
<1> USE DEF OnceInv
<1>1. ASSUME NEW p \in Packets, NEW skew \in -Slack..Slack, Send(p, skew)
      PROVE  OnceInv'
  <2>1. honoured' = honoured /\ forgotten' = forgotten /\ Known' = Known
        /\ checking' = checking /\ clock' = clock /\ sent \subseteq sent'
    BY <1>1 DEF Send, Known
  <2>2. ASSUME NEW q \in Packets, honoured[q] >= 1
        PROVE  Exp(q)' = Exp(q)
    <3>1. q # p
      BY <1>1, <2>2 DEF Send, Sent, OnlySent
    <3> QED
      BY <1>1, <2>2, <3>1 DEF Send, Exp, TypeOK
  <2>3. Remembered'
    BY <2>1, <2>2 DEF Remembered
  <2> QED
    BY <2>1, <2>3 DEF HonouredOnce, CheckedIsKnown, OnlySent
<1>2. ASSUME NEW p \in Packets, Receive(p)
      PROVE  OnceInv'
  <2>1. UNCHANGED <<clock, sent, iat, honoured, forgotten>> /\ Known' = Known
    BY <1>2 DEF Receive, Known
  <2>2. CheckedIsKnown'
    <3>1. ~(clock > Exp(p) + Slack)
      BY <1>2, WindowUnexpired DEF Receive
    <3> QED
      BY <1>2, <2>1, <3>1 DEF Receive, CheckedIsKnown, Remembered
  <2> QED
    BY <2>1, <2>2 DEF HonouredOnce, Remembered, OnlySent, Exp
<1>3. ASSUME NEW p \in Packets, Replay(p)
      PROVE  OnceInv'
  <2>1. UNCHANGED <<clock, sent, iat, honoured, forgotten>> /\ checking' = {}
        /\ Known' = Unexpired(Known)
    BY <1>3 DEF Replay, Known
  <2>2. Remembered'
    BY <2>1, PruneExpired DEF Remembered, Exp
  <2> QED
    BY <2>1, <2>2 DEF HonouredOnce, CheckedIsKnown, OnlySent
<1>4. ASSUME NEW p \in Packets, Honour(p)
      PROVE  OnceInv'
  <2>1. UNCHANGED <<clock, sent, iat>> /\ checking' = {} /\ p \in sent
        /\ Known' = Unexpired(Known) \union {p}
        /\ forgotten' = forgotten \union (Known \intersect {p})
    BY <1>4 DEF Honour, Known, TypeOK
  <2>2. \A q \in Packets : honoured'[q] = IF q = p THEN honoured[p] + 1 ELSE honoured[q]
    BY <1>4 DEF Honour, TypeOK
  <2>3. p \notin forgotten' => honoured[p] = 0
    <3>1. p \in checking /\ honoured[p] \in Nat
      BY <1>4 DEF Honour, TypeOK
    <3> QED
      BY <2>1, <3>1 DEF CheckedIsKnown
  <2>4. HonouredOnce'
    BY <2>1, <2>2, <2>3 DEF HonouredOnce
  <2>5. Remembered'
    BY <2>1, <2>2, PruneExpired DEF Remembered, Exp
  <2>6. OnlySent'
    BY <2>1, <2>2 DEF OnlySent
  <2> QED
    BY <2>1, <2>4, <2>5, <2>6 DEF CheckedIsKnown
<1>5. CASE Restart
  <2>1. UNCHANGED <<clock, sent, iat, honoured>> /\ checking' = {} /\ Known' = disk
        /\ forgotten' = forgotten \union (Known \ disk)
    BY <1>5 DEF Restart, Known
  <2>2. HonouredOnce' /\ OnlySent' /\ CheckedIsKnown'
    BY <2>1 DEF HonouredOnce, OnlySent, CheckedIsKnown
  <2>3. Remembered'
    BY <2>1 DEF Remembered, Exp
  <2> QED
    BY <2>2, <2>3
<1>6. CASE Damage
  <2>1. UNCHANGED <<clock, sent, iat, honoured, checking>> /\ forgotten \subseteq forgotten'
        /\ \A q \in Known : q \in Known' \/ q \in forgotten'
    BY <1>6 DEF Damage, Known
  <2>2. HonouredOnce' /\ OnlySent' /\ CheckedIsKnown'
    BY <2>1 DEF HonouredOnce, OnlySent, CheckedIsKnown
  <2>3. Remembered'
    BY <2>1 DEF Remembered, Exp
  <2> QED
    BY <2>2, <2>3
<1>7. CASE Tick
  <2>1. UNCHANGED <<sent, iat, honoured, checking, forgotten>> /\ Known' = Known
        /\ clock' = clock + 1
    BY <1>7 DEF Tick, Known
  <2>2. HonouredOnce' /\ OnlySent' /\ CheckedIsKnown'
    BY <2>1 DEF HonouredOnce, OnlySent, CheckedIsKnown
  <2>3. \A q \in Packets : clock > Exp(q) + Slack => clock' > Exp(q)' + Slack
    BY <2>1, TimesAreNat, BoundsAreNat DEF TimesAreNat, BoundsAreNat, Exp, TypeOK
  <2>4. Remembered'
    BY <2>1, <2>3 DEF Remembered
  <2> QED
    BY <2>2, <2>4
<1>8. CASE StepBack
  <2>1. UNCHANGED <<sent, iat, honoured, checking>> /\ Known' = Known
        /\ forgotten' = forgotten \union (Honoured \ Known)
    BY <1>8 DEF StepBack, Known
  <2>2. HonouredOnce' /\ OnlySent' /\ CheckedIsKnown'
    BY <2>1 DEF HonouredOnce, OnlySent, CheckedIsKnown
  <2>3. Remembered'
    BY <2>1 DEF Remembered, Honoured, TypeOK
  <2> QED
    BY <2>2, <2>3
<1>9. CASE UNCHANGED vars
  BY <1>9 DEF vars, HonouredOnce, Remembered, CheckedIsKnown, OnlySent, Known, Exp
<1> QED
  BY <1>1, <1>2, <1>3, <1>4, <1>5, <1>6, <1>7, <1>8, <1>9 DEF Next

(* A packet is honoured at most once unless the memory of it was lost      *)
(* (_udp_seen_check with its pruning, its file and restarts).              *)
THEOREM OnceCorrect == Spec => []HonouredOnce
<1>1. TypeOK /\ OnceInv /\ [Next]_vars => TypeOK' /\ OnceInv'
  BY TypeStep, OnceStep
<1>2. OnceInv => HonouredOnce
  BY DEF OnceInv
<1> QED
  BY <1>1, <1>2, TypeInit, OnceInit, PTL DEF Spec

----------------------------------------------------------------------------
(* What makes GenuineAccepted inductive: every entry, in memory or in the  *)
(* file, was honoured; a signed instant is within the slack of the sending *)
(* and, unless the clock was set back, the sending is past.                *)
OnlyHonoured == seen \subseteq Honoured /\ disk \subseteq Honoured
SignedNear ==
  \A p \in sent : iat[p] - Slack <= sentAt[p] /\ sentAt[p] <= iat[p] + Slack
SentBefore == ~stepped => \A p \in sent : sentAt[p] <= clock
GenuineInv == OnlyHonoured /\ SignedNear /\ SentBefore

LEMMA GenuineInit == Init => GenuineInv
BY DEF Init, GenuineInv, OnlyHonoured, SignedNear, SentBefore

LEMMA GenuineStep == TypeOK /\ GenuineInv /\ [Next]_vars => GenuineInv'
<1> SUFFICES ASSUME TypeOK, GenuineInv, [Next]_vars
             PROVE  GenuineInv'
  OBVIOUS
<1> USE DEF GenuineInv
<1>1. ASSUME NEW p \in Packets, NEW skew \in -Slack..Slack, Send(p, skew)
      PROVE  GenuineInv'
  <2>1. clock \in Int /\ skew \in Int /\ -Slack <= skew /\ skew <= Slack /\ Slack \in Int
    BY TimesAreNat, BoundsAreNat DEF TimesAreNat, BoundsAreNat, TypeOK
  <2>2. iat'[p] = clock + skew /\ sentAt'[p] = clock /\ clock' = clock /\ stepped' = stepped
    BY <1>1 DEF Send, TypeOK
  <2>3. \A q \in sent : q # p /\ iat'[q] = iat[q] /\ sentAt'[q] = sentAt[q]
    BY <1>1 DEF Send, Sent, TypeOK
  <2>4. sent' = sent \union {p}
    BY <1>1 DEF Send
  <2>5. SignedNear'
    BY <2>1, <2>2, <2>3, <2>4 DEF SignedNear
  <2>6. SentBefore'
    BY <2>1, <2>2, <2>3, <2>4 DEF SentBefore
  <2>7. OnlyHonoured'
    BY <1>1 DEF Send, OnlyHonoured, Honoured
  <2> QED
    BY <2>5, <2>6, <2>7
<1>2. ASSUME NEW p \in Packets, Receive(p)
      PROVE  GenuineInv'
  BY <1>2 DEF Receive, OnlyHonoured, Honoured, SignedNear, SentBefore
<1>3. ASSUME NEW p \in Packets, Replay(p)
      PROVE  GenuineInv'
  <2>1. OnlyHonoured'
    BY <1>3 DEF Replay, OnlyHonoured, Honoured, Unexpired, Known
  <2> QED
    BY <1>3, <2>1 DEF Replay, SignedNear, SentBefore
<1>4. ASSUME NEW p \in Packets, Honour(p)
      PROVE  GenuineInv'
  <2>1. \A q \in Packets : honoured'[q] = IF q = p THEN honoured[p] + 1 ELSE honoured[q]
    BY <1>4 DEF Honour, TypeOK
  <2>2. honoured \in [Packets -> Nat]
    BY DEF TypeOK
  <2>3. Honoured' = Honoured \union {p}
    BY <2>1, <2>2 DEF Honoured
  <2>4. Unexpired(Known) \subseteq Honoured
    BY DEF Unexpired, Known, OnlyHonoured
  <2>5. OnlyHonoured'
    BY <1>4, <2>3, <2>4 DEF Honour, OnlyHonoured
  <2> QED
    BY <1>4, <2>5 DEF Honour, SignedNear, SentBefore
<1>5. CASE Restart
  BY <1>5 DEF Restart, OnlyHonoured, Honoured, SignedNear, SentBefore
<1>6. CASE Damage
  BY <1>6 DEF Damage, OnlyHonoured, Honoured, SignedNear, SentBefore
<1>7. CASE Tick
  <2>1. clock' = clock + 1 /\ UNCHANGED <<sent, sentAt, iat, stepped, seen, disk, honoured>>
    BY <1>7 DEF Tick
  <2>2. clock \in Int /\ \A q \in sent : sentAt[q] \in Int
    BY BoundsAreNat, TimesAreNat DEF BoundsAreNat, TimesAreNat, TypeOK
  <2>3. SentBefore'
    BY <2>1, <2>2 DEF SentBefore
  <2> QED
    BY <2>1, <2>3 DEF OnlyHonoured, Honoured, SignedNear
<1>8. CASE StepBack
  BY <1>8 DEF StepBack, OnlyHonoured, Honoured, SignedNear, SentBefore
<1>9. CASE UNCHANGED vars
  BY <1>9 DEF vars, OnlyHonoured, Honoured, SignedNear, SentBefore
<1> QED
  BY <1>1, <1>2, <1>3, <1>4, <1>5, <1>6, <1>7, <1>8, <1>9 DEF Next

LEMMA GenuineImplied == TypeOK /\ GenuineInv => GenuineAccepted
<1> SUFFICES ASSUME TypeOK, GenuineInv, NEW p \in sent
             PROVE  /\ ~stepped /\ clock - sentAt[p] <= Validity => InWindow(p)
                    /\ p \in Known => p \in Honoured
  BY DEF GenuineAccepted
<1>1. /\ clock \in Int /\ iat[p] \in Int /\ sentAt[p] \in Int
      /\ Validity \in Int /\ Validity > 0 /\ Slack \in Int /\ Slack >= 0
  BY TimesAreNat, BoundsAreNat DEF TimesAreNat, BoundsAreNat, TypeOK
<1>2. iat[p] - Slack <= sentAt[p] /\ sentAt[p] <= iat[p] + Slack
  BY DEF GenuineInv, SignedNear
<1>3. ASSUME ~stepped, clock - sentAt[p] <= Validity
      PROVE  InWindow(p)
  <2>1. sentAt[p] <= clock
    BY <1>3 DEF GenuineInv, SentBefore
  <2> QED
    BY <1>1, <1>2, <1>3, <2>1 DEF InWindow, Exp
<1>4. p \in Known => p \in Honoured
  BY DEF GenuineInv, OnlyHonoured, Known
<1> QED
  BY <1>3, <1>4

(* Neither the window nor the memory refuses a genuine packet that comes   *)
(* in time (_verify_udp_friend_packet, _udp_seen_check).                   *)
THEOREM GenuineCorrect == Spec => []GenuineAccepted
<1>1. TypeOK /\ GenuineInv /\ [Next]_vars => TypeOK' /\ GenuineInv'
  BY TypeStep, GenuineStep
<1> QED
  BY <1>1, TypeInit, GenuineInit, GenuineImplied, PTL DEF Spec
=============================================================================
