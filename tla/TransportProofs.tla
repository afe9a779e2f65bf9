--------------------------- MODULE TransportProofs ---------------------------
(***************************************************************************)
(* The connection manager, for every pair of hosts and every value of the  *)
(* bounds.  The first part is about the sockets: type correctness and what *)
(* a slot and the hold promise.  The second is about the payloads: the     *)
(* order in which they leave the hold, the sockets a side may give up,     *)
(* that each payload is in one place only, and that the connection manager *)
(* implements MessageLink.                                                 *)
(***************************************************************************)
EXTENDS Transport, FiniteSetTheorems, TLAPS

(* Writing frames on a socket keeps every wire a sequence of frames.       *)
LEMMA CarryType ==
  ASSUME NEW w \in [Sock -> [Hosts -> Seq(Frame)]],
         NEW s \in Sock, NEW h \in Hosts, NEW fs \in Seq(Frame)
  PROVE  Carry(w, s, h, fs) \in [Sock -> [Hosts -> Seq(Frame)]]
<1>1. Other(h) \in Hosts
  BY DEF Other, Hosts
<1>2. w[s][Other(h)] \o fs \in Seq(Frame)
  BY <1>1
<1> QED
  BY <1>1, <1>2 DEF Carry

(* What is due for writing is a sequence of payloads.                      *)
LEMMA PendingType ==
  ASSUME TypeOK, NEW h \in Hosts, NEW q \in Pending(h)
  PROVE  q \in Seq(Msg)
<1>1. PICK f \in Ascending(Due(h)) : q = [i \in DOMAIN f |-> hold[h][f[i]]]
  BY DEF Pending
<1>2. hold[h] \in Seq(Msg) /\ Len(hold[h]) \in Nat
  BY DEF TypeOK
<1>3. Due(h) \subseteq 1..Len(hold[h])
  BY DEF Due
<1>4. IsFiniteSet(Due(h))
  <2>1. IsFiniteSet(1..Len(hold[h]))
    BY <1>2, FS_Interval
  <2> QED
    BY <1>3, <2>1, FS_Subset
<1>5. Cardinality(Due(h)) \in Nat
  BY <1>4, FS_CardinalityType
<1>6. f \in [1..Cardinality(Due(h)) -> Due(h)]
  BY DEF Ascending
<1>7. \A i \in DOMAIN f : hold[h][f[i]] \in Msg
  BY <1>2, <1>3, <1>6
<1>8. q \in [1..Cardinality(Due(h)) -> Msg]
  BY <1>1, <1>6, <1>7
<1> QED
  BY <1>5, <1>8

LEMMA DataFramesType ==
  ASSUME NEW ms \in Seq(Msg)
  PROVE  DataFrames(ms) \in Seq(Frame)
<1>1. \A i \in 1..Len(ms) : DataFrame(ms[i]) \in Frame
  BY DEF DataFrame, Frame, Data
<1> QED
  BY <1>1 DEF DataFrames

LEMMA MidsOfType ==
  ASSUME NEW ms \in Seq(Msg)
  PROVE  MidsOf(ms) \subseteq Msg
BY DEF MidsOf

(* Adopting a socket keeps the types of everything it assigns.             *)
LEMMA AdoptType ==
  ASSUME TypeOK, NEW h \in Hosts, NEW s \in Sock,
         NEW w \in [Sock -> [Hosts -> Seq(Frame)]], Adopt(h, s, w)
  PROVE  /\ slot' \in [Hosts -> Sock \union {None}]
         /\ hold' \in [Hosts -> Seq(Msg)]
         /\ sentMids' \in [Hosts -> SUBSET Msg]
         /\ put' \in [Hosts -> SUBSET Msg]
         /\ end' \in [Sock -> [Hosts -> EndStates]]
         /\ wire' \in [Sock -> [Hosts -> Seq(Frame)]]
<1>1. PICK q \in Pending(h) : \E k \in 0..Len(q) : AdoptWriting(h, s, w, q, k)
  BY DEF Adopt
<1>k. PICK k \in 0..Len(q) : AdoptWriting(h, s, w, q, k)
  BY <1>1
<1>2. q \in Seq(Msg)
  BY PendingType
<1>3. SubSeq(q, 1, k) \in Seq(Msg) /\ Len(SubSeq(q, 1, k)) = k
  BY <1>2
<1>4. wire' \in [Sock -> [Hosts -> Seq(Frame)]]
  BY <1>k, <1>3, DataFramesType, CarryType DEF AdoptWriting
<1>5. sentMids' \in [Hosts -> SUBSET Msg]
  BY <1>k, <1>3, MidsOfType DEF AdoptWriting, TypeOK
<1>6. put' \in [Hosts -> SUBSET Msg]
  <2>1. \A i \in 1..k : SubSeq(q, 1, k)[i] \in Msg
    BY <1>3
  <2> QED
    BY <1>k, <2>1 DEF AdoptWriting, TypeOK
<1>7. hold' \in [Hosts -> Seq(Msg)]
  <2>1. StillHeld(q, k) \in Seq(Msg)
    BY <1>2 DEF StillHeld
  <2> QED
    BY <1>k, <2>1 DEF AdoptWriting, TypeOK
<1>8. end' \in [Sock -> [Hosts -> EndStates]]
  BY <1>k DEF AdoptWriting, TypeOK, EndStates
<1>9. slot' \in [Hosts -> Sock \union {None}]
  BY <1>k DEF AdoptWriting, TypeOK
<1> QED
  BY <1>4, <1>5, <1>6, <1>7, <1>8, <1>9

LEMMA DispatchType ==
  ASSUME TypeOK, NEW h \in Hosts, NEW m \in Msg, Dispatch(h, m)
  PROVE  delivered' \in [Hosts -> Seq(Msg)]
<1>1. Append(delivered[h], m) \in Seq(Msg)
  BY DEF TypeOK
<1> QED
  BY <1>1 DEF Dispatch, TypeOK

LEMMA RestType ==
  ASSUME TypeOK, NEW h \in Hosts, NEW s \in Sock, wire[s][h] # <<>>
  PROVE  /\ Rest(s, h) \in [Sock -> [Hosts -> Seq(Frame)]]
         /\ Head(wire[s][h]) \in Frame
<1>1. wire[s][h] \in Seq(Frame)
  BY DEF TypeOK
<1>2. Head(wire[s][h]) \in Frame /\ Tail(wire[s][h]) \in Seq(Frame)
  BY <1>1
<1> QED
  BY <1>2 DEF Rest, TypeOK

LEMMA HeadDataType ==
  ASSUME TypeOK, NEW h \in Hosts, NEW s \in Sock, Next1(s, h, "data")
  PROVE  Head(wire[s][h]).m \in Msg
<1>1. Head(wire[s][h]) \in Frame
  BY RestType DEF Next1
<1>2. Head(wire[s][h]).k = "data"
  BY DEF Next1
<1> QED
  BY <1>1, <1>2 DEF Frame, Control, Data

LEMMA FrameTypes ==
  /\ <<Identity>> \in Seq(Frame)
  /\ <<Challenge>> \in Seq(Frame)
  /\ <<Proof>> \in Seq(Frame)
  /\ \A m \in Msg : <<DataFrame(m)>> \in Seq(Frame)
<1>1. Identity \in Frame /\ Challenge \in Frame /\ Proof \in Frame
  BY DEF Identity, Challenge, Proof, Frame, Control
<1>2. \A m \in Msg : DataFrame(m) \in Frame
  BY DEF DataFrame, Frame, Data
<1> QED
  BY <1>1, <1>2

-----------------------------------------------------------------------------
(* Every operation keeps the types.                                        *)
LEMMA TypeStep == TypeOK /\ [Next]_vars => TypeOK'
<1> SUFFICES ASSUME TypeOK, [Next]_vars PROVE TypeOK'
  OBVIOUS
<1>o. \A h \in Hosts : Other(h) \in Hosts
  BY DEF Other, Hosts
<1>b. MaxMsg \in Nat /\ MaxFault \in Nat /\ Quota \in [Hosts -> 0..MaxMsg]
  BY BoundsAreNat, QuotaType DEF Hosts
<1>1. ASSUME NEW h \in Hosts, Write(h) PROVE TypeOK'
  <2> DEFINE m == asked[h] + 1
  <2>0. asked[h] < Quota[h] /\ asked' = [asked EXCEPT ![h] = @ + 1]
    BY <1>1 DEF Write
  <2>1. m \in Msg /\ asked' \in [Hosts -> 0..MaxMsg]
    <3>1. asked \in [Hosts -> 0..MaxMsg]
      BY DEF TypeOK
    <3> QED
      BY <1>b, <2>0, <3>1 DEF Msg
  <2>2. <<m>> \in Seq(Msg) /\ Append(hold[h], m) \in Seq(Msg)
    BY <2>1 DEF TypeOK
  <2>3. hold' \in [Hosts -> Seq(Msg)]
    BY <1>1, <2>2 DEF Write, WriteSent, WriteFailed, WriteNoSocket, HoldBack, TypeOK
  <2>4. CASE WriteSent(h, m)
    <3>1. slot[h] \in Sock
      BY <2>4 DEF WriteSent, TypeOK
    <3>2. wire' \in [Sock -> [Hosts -> Seq(Frame)]]
      BY <2>1, <2>4, <3>1, FrameTypes, CarryType DEF WriteSent, TypeOK
    <3>3. sentMids' \in [Hosts -> SUBSET Msg] /\ put' \in [Hosts -> SUBSET Msg]
      BY <2>1, <2>2, <2>4, MidsOfType DEF WriteSent, TypeOK
    <3> QED
      BY <1>1, <2>1, <2>3, <2>4, <3>2, <3>3 DEF Write, WriteSent, TypeOK
  <2>5. CASE WriteFailed(h, m)
    <3>1. slot[h] \in Sock
      BY <2>5 DEF WriteFailed, TypeOK
    <3>2. end' \in [Sock -> [Hosts -> EndStates]]
      BY <2>5, <3>1 DEF WriteFailed, TypeOK, EndStates
    <3> QED
      BY <1>1, <2>1, <2>3, <2>5, <3>2 DEF Write, WriteFailed, HoldBack, TypeOK
  <2>6. CASE WriteNoSocket(h, m)
    BY <1>1, <2>1, <2>3, <2>6 DEF Write, WriteNoSocket, HoldBack, TypeOK
  <2> QED
    BY <1>1, <2>4, <2>5, <2>6 DEF Write
<1>2. ASSUME NEW h \in Hosts, DialStart(h) PROVE TypeOK'
  BY <1>2 DEF DialStart, connVars, sockVars, TypeOK
<1>3. ASSUME NEW h \in Hosts, DialFail(h) PROVE TypeOK'
  BY <1>3 DEF DialFail, connVars, sockVars, TypeOK
<1>4. ASSUME NEW h \in Hosts, DialConnect(h) PROVE TypeOK'
  <2>1. PICK s \in Sock :
          /\ dialer' = [dialer EXCEPT ![s] = h]
          /\ fresh' = [fresh EXCEPT ![h] = s]
          /\ end' = [end EXCEPT ![s] = [x \in Hosts |-> "open"]]
          /\ wire' = [wire EXCEPT ![s][Other(h)] = <<Identity>>]
          /\ reader' = [reader EXCEPT ![s] = [x \in Hosts |-> IF x = h THEN "none" ELSE "idle"]]
          /\ cut' = cut \ {s}
    BY <1>4 DEF DialConnect
  <2>2. wire' \in [Sock -> [Hosts -> Seq(Frame)]]
    BY <1>o, <2>1, FrameTypes DEF TypeOK
  <2> QED
    BY <1>4, <2>1, <2>2 DEF DialConnect, connVars, TypeOK, EndStates, ReaderStates
<1>5. ASSUME NEW h \in Hosts, DialAdopt(h) PROVE TypeOK'
  <2>1. fresh[h] \in Sock
    BY <1>5 DEF DialAdopt, TypeOK
  <2>2. wire \in [Sock -> [Hosts -> Seq(Frame)]] /\ Adopt(h, fresh[h], wire)
    BY <1>5 DEF DialAdopt, TypeOK
  <2> HIDE DEF Adopt
  <2> QED
    BY <1>5, <2>1, <2>2, AdoptType DEF DialAdopt, TypeOK, ReaderStates
<1>6. ASSUME NEW h \in Hosts, DialDiscard(h) PROVE TypeOK'
  <2>1. fresh[h] \in Sock
    BY <1>6 DEF DialDiscard, TypeOK
  <2> QED
    BY <1>6, <2>1 DEF DialDiscard, connVars, TypeOK, EndStates, ReaderStates
<1>7. ASSUME NEW h \in Hosts, NEW s \in Sock, Read(h, s) \/ ReaderBreaks(h, s)
      PROVE  TypeOK'
  <2>1. CASE ReadIdentity(h, s)
    <3>1. wire' \in [Sock -> [Hosts -> Seq(Frame)]]
      BY <2>1, RestType, FrameTypes, CarryType DEF ReadIdentity, Next1
    <3> QED
      BY <2>1, <3>1 DEF ReadIdentity, connVars, dialVars, TypeOK, ReaderStates
  <2>2. CASE ReadChallenge(h, s)
    <3>1. wire' \in [Sock -> [Hosts -> Seq(Frame)]]
      BY <2>2, RestType, FrameTypes, CarryType DEF ReadChallenge, Next1
    <3> QED
      BY <2>2, <3>1 DEF ReadChallenge, connVars, dialVars, TypeOK
  <2>3. CASE ReadProof(h, s)
    <3>1. Rest(s, h) \in [Sock -> [Hosts -> Seq(Frame)]]
      BY <2>3, RestType DEF ReadProof, Next1
    <3>2. UNCHANGED <<dialing, fresh, online, dialer, cut, deferred, asked,
                      delivered, overflow, faults>>
      BY <2>3 DEF ReadProof, dialVars
    <3>3. reader' \in [Sock -> [Hosts -> ReaderStates]]
      <4>1. \E st \in ReaderStates : reader' = [reader EXCEPT ![s][h] = st]
        BY <2>3 DEF ReadProof, ReaderStates
      <4> QED
        BY <4>1 DEF TypeOK
    <3>4. CASE Adopts(h, Other(h))
      <4>1. Adopt(h, s, Rest(s, h))
        BY <2>3, <3>4 DEF ReadProof
      <4> QED
        BY <3>1, <3>2, <3>3, <4>1, AdoptType DEF TypeOK
    <3>5. CASE ~Adopts(h, Other(h))
      <4>1. wire' = Rest(s, h) /\ UNCHANGED <<connVars, end>>
        BY <2>3, <3>5 DEF ReadProof
      <4> QED
        BY <3>1, <3>2, <3>3, <4>1 DEF connVars, TypeOK
    <3> QED
      BY <3>4, <3>5
  <2>4. CASE ReadEarly(h, s)
    <3>1. Rest(s, h) \in [Sock -> [Hosts -> Seq(Frame)]]
      BY <2>4, RestType DEF ReadEarly, Next1
    <3>2. Append(deferred[s], Head(wire[s][h]).m) \in Seq(Msg)
      BY <2>4, HeadDataType DEF ReadEarly, TypeOK
    <3> QED
      BY <2>4, <3>1, <3>2 DEF ReadEarly, connVars, dialVars, TypeOK
  <2>5. CASE ReadTooEarly(h, s)
    BY <2>5 DEF ReadTooEarly, connVars, dialVars, TypeOK, EndStates, ReaderStates
  <2>6. CASE ReadDeferred(h, s)
    <3>1. Head(deferred[s]) \in Msg /\ Tail(deferred[s]) \in Seq(Msg)
      BY <2>6 DEF ReadDeferred, TypeOK
    <3>2. delivered' \in [Hosts -> Seq(Msg)]
      BY <2>6, <3>1, DispatchType DEF ReadDeferred
    <3> QED
      BY <2>6, <3>1, <3>2 DEF ReadDeferred, connVars, dialVars, TypeOK
  <2>7. CASE ReadData(h, s)
    <3>1. Rest(s, h) \in [Sock -> [Hosts -> Seq(Frame)]]
      BY <2>7, RestType DEF ReadData, Next1
    <3>2. delivered' \in [Hosts -> Seq(Msg)]
      BY <2>7, HeadDataType, DispatchType DEF ReadData
    <3> QED
      BY <2>7, <3>1, <3>2 DEF ReadData, connVars, dialVars, TypeOK
  <2>8. CASE ReadEnd(h, s) \/ ReaderBreaks(h, s)
    <3>1. faults' \in 0..MaxFault
      BY <2>8, <1>b DEF ReadEnd, ReaderBreaks, Disturb, TypeOK
    <3>2. ReaderEnds(h, s)
      BY <2>8 DEF ReadEnd, ReaderBreaks
    <3> QED
      BY <3>1, <3>2 DEF ReaderEnds, dialVars, TypeOK, EndStates, ReaderStates
  <2> QED
    BY <1>7, <2>1, <2>2, <2>3, <2>4, <2>5, <2>6, <2>7, <2>8 DEF Read
<1>8. ASSUME NEW s \in Sock, Cut(s) PROVE TypeOK'
  BY <1>8, <1>b DEF Cut, Disturb, connVars, dialVars, sockVars, TypeOK
<1>9. ASSUME NEW h \in Hosts, Expire(h) PROVE TypeOK'
  BY <1>9, <1>b DEF Expire, Disturb, DropConn, dialVars, TypeOK, EndStates
<1>10. ASSUME NEW h \in Hosts, GoOffline(h) PROVE TypeOK'
  BY <1>10, <1>b DEF GoOffline, Disturb, DropConn, dialVars, TypeOK, EndStates
<1>11. ASSUME NEW h \in Hosts, GoOnline(h) PROVE TypeOK'
  BY <1>11 DEF GoOnline, connVars, dialVars, sockVars, TypeOK
<1>12. CASE UNCHANGED vars
  BY <1>12 DEF vars, TypeOK
<1> QED
  BY <1>1, <1>2, <1>3, <1>4, <1>5, <1>6, <1>7, <1>8, <1>9, <1>10, <1>11, <1>12
  DEF Next, Dial

(* Every variable of the connection manager keeps its type.                *)
THEOREM TypeCorrect == Spec => []TypeOK
<1>1. Init => TypeOK
  <2> SUFFICES ASSUME Init PROVE TypeOK
    OBVIOUS
  <2>1. /\ slot \in [Hosts -> Sock \union {None}]
        /\ hold \in [Hosts -> Seq(Msg)]
        /\ sentMids \in [Hosts -> SUBSET Msg]
        /\ dialing \in [Hosts -> BOOLEAN]
        /\ fresh \in [Hosts -> Sock \union {None}]
        /\ online \in [Hosts -> BOOLEAN]
    BY DEF Init
  <2>2. /\ dialer \in [Sock -> Hosts \union {None}]
        /\ end \in [Sock -> [Hosts -> EndStates]]
        /\ reader \in [Sock -> [Hosts -> ReaderStates]]
        /\ cut \in SUBSET Sock
    BY DEF Init, EndStates, ReaderStates
  <2>3. wire \in [Sock -> [Hosts -> Seq(Frame)]] /\ deferred \in [Sock -> Seq(Msg)]
    BY DEF Init
  <2>4. asked \in [Hosts -> 0..MaxMsg] /\ faults \in 0..MaxFault
    <3>1. 0 \in 0..MaxMsg /\ 0 \in 0..MaxFault
      BY BoundsAreNat
    <3> QED
      BY <3>1 DEF Init
  <2>5. put \in [Hosts -> SUBSET Msg]
    BY DEF Init
  <2>6. delivered \in [Hosts -> Seq(Msg)]
    BY DEF Init
  <2>7. overflow \in BOOLEAN
    BY DEF Init
  <2> QED
    BY <2>1, <2>2, <2>3, <2>4, <2>5, <2>6, <2>7 DEF TypeOK
<1>2. TypeOK /\ [Next]_vars => TypeOK'
  BY TypeStep
<1> QED
  BY <1>1, <1>2, PTL DEF Spec

-----------------------------------------------------------------------------
(***************************************************************************)
(* The slot invariants.  ConnInv is inductive: a slot's socket is one its  *)
(* owner adopted (so its reader is "ok" or "out"), while the sockets that  *)
(* are closed from outside their reader are slots, never the ones still    *)
(* being set up; hence the end a socket is adopted with is open, and the   *)
(* flush under the same lock either empties the hold or breaks that end.   *)
(***************************************************************************)
SlotInv == SlotHasReader /\ SlotEndOpen /\ FreshUnread /\ UnprovenOpen /\ HoldDrained

(* Adopting a socket whose end is open and which is not the slot yet.      *)
LEMMA AdoptStep ==
  ASSUME TypeOK, SlotInv, NEW h \in Hosts, NEW s \in Sock, NEW w,
         Adopt(h, s, w), end[s][h] = "open",
         reader[s][h] \in {"none", "challenged"}
  PROVE  /\ slot' = [slot EXCEPT ![h] = s]
         /\ end'[s][h] \in {"open", "broken"}
         /\ hold'[h] # <<>> => end'[s][h] = "broken"
         /\ \A x \in Hosts : x # h => hold'[x] = hold[x]
         /\ \A t \in Sock, x \in Hosts :
              <<t, x>> # <<s, h>> /\ <<t, x>> # <<slot[h], h>> => end'[t][x] = end[t][x]
         /\ end' \in [Sock -> [Hosts -> EndStates]]
<1>1. PICK q \in Pending(h) : \E k \in 0..Len(q) : AdoptWriting(h, s, w, q, k)
  BY DEF Adopt
<1>2. PICK k \in 0..Len(q) : AdoptWriting(h, s, w, q, k)
  BY <1>1
<1>3. q \in Seq(Msg) /\ Len(q) \in Nat
  BY PendingType
<1>4. /\ slot' = [slot EXCEPT ![h] = s]
      /\ hold' = [hold EXCEPT ![h] = StillHeld(q, k)]
      /\ end' = [x \in Sock |->
                   IF x = slot[h] THEN [end[x] EXCEPT ![h] = "closed"]
                   ELSE IF x = s /\ k < Len(q) THEN [end[x] EXCEPT ![h] = "broken"]
                   ELSE end[x]]
  BY <1>2 DEF AdoptWriting
<1>5. slot[h] # s
  BY DEF SlotInv, SlotHasReader, None, Sock
<1>6. end'[s] = IF k < Len(q) THEN [end[s] EXCEPT ![h] = "broken"] ELSE end[s]
  BY <1>4, <1>5
<1>7. end'[s][h] = IF k < Len(q) THEN "broken" ELSE "open"
  BY <1>6 DEF TypeOK
<1>8. hold'[h] = StillHeld(q, k)
  BY <1>4 DEF TypeOK
<1>9. hold'[h] # <<>> => end'[s][h] = "broken"
  BY <1>3, <1>7, <1>8 DEF StillHeld
<1>10. \A x \in Hosts : x # h => hold'[x] = hold[x]
  BY <1>4 DEF TypeOK
<1>11. \A t \in Sock, x \in Hosts :
         <<t, x>> # <<s, h>> /\ <<t, x>> # <<slot[h], h>> => end'[t][x] = end[t][x]
  BY <1>4 DEF TypeOK
<1>12. end' \in [Sock -> [Hosts -> EndStates]]
  BY <1>4 DEF TypeOK, EndStates
<1> QED
  BY <1>4, <1>7, <1>9, <1>10, <1>11, <1>12

(* A step that adopts s at h and settles reader[s][h] keeps the slot       *)
(* invariants, whatever else it does to h's fresh socket.                  *)
LEMMA AdoptKeeps ==
  ASSUME TypeOK, TypeOK', SlotInv, NEW h \in Hosts, NEW s \in Sock, NEW w,
         Adopt(h, s, w), end[s][h] = "open",
         reader[s][h] \in {"none", "challenged"},
         NEW st \in {"ok", "out"}, reader' = [reader EXCEPT ![s][h] = st],
         \A x \in Hosts : fresh'[x] # None => fresh'[x] = fresh[x] /\ <<fresh[x], x>> # <<s, h>>
  PROVE  SlotInv'
<1>1. /\ slot' = [slot EXCEPT ![h] = s]
      /\ end'[s][h] \in {"open", "broken"}
      /\ hold'[h] # <<>> => end'[s][h] = "broken"
      /\ \A x \in Hosts : x # h => hold'[x] = hold[x]
      /\ \A t \in Sock, x \in Hosts :
           <<t, x>> # <<s, h>> /\ <<t, x>> # <<slot[h], h>> => end'[t][x] = end[t][x]
  BY AdoptStep
<1>2. /\ reader'[s][h] = st
      /\ \A t \in Sock, x \in Hosts : <<t, x>> # <<s, h>> => reader'[t][x] = reader[t][x]
  BY DEF TypeOK
<1>3. slot'[h] = s /\ \A x \in Hosts : x # h => slot'[x] = slot[x]
  BY <1>1 DEF TypeOK
<1>4. SlotHasReader'
  <2> SUFFICES ASSUME NEW x \in Hosts, slot'[x] # None
               PROVE  reader'[slot'[x]][x] \in {"ok", "out"}
    BY DEF SlotHasReader
  <2>1. CASE x = h
    BY <1>2, <1>3, <2>1
  <2>2. CASE x # h
    <3>1. slot'[x] = slot[x] /\ slot[x] \in Sock
      BY <1>3, <2>2 DEF TypeOK
    <3>2. reader'[slot[x]][x] = reader[slot[x]][x]
      BY <1>2, <2>2, <3>1
    <3> QED
      BY <3>1, <3>2 DEF SlotInv, SlotHasReader
  <2> QED
    BY <2>1, <2>2
<1>5. SlotEndOpen'
  <2> SUFFICES ASSUME NEW x \in Hosts, slot'[x] # None
               PROVE  end'[slot'[x]][x] \in {"open", "broken"}
    BY DEF SlotEndOpen
  <2>1. CASE x = h
    BY <1>1, <1>3, <2>1
  <2>2. CASE x # h
    <3>1. slot'[x] = slot[x] /\ slot[x] \in Sock
      BY <1>3, <2>2 DEF TypeOK
    <3>2. end'[slot[x]][x] = end[slot[x]][x]
      BY <1>1, <2>2, <3>1
    <3> QED
      BY <3>1, <3>2 DEF SlotInv, SlotEndOpen
  <2> QED
    BY <2>1, <2>2
<1>6. FreshUnread'
  <2> SUFFICES ASSUME NEW x \in Hosts, fresh'[x] # None
               PROVE  reader'[fresh'[x]][x] = "none" /\ end'[fresh'[x]][x] = "open"
    BY DEF FreshUnread
  <2>1. fresh'[x] = fresh[x] /\ fresh[x] \in Sock /\ <<fresh[x], x>> # <<s, h>>
    BY DEF TypeOK
  <2>2. reader[fresh[x]][x] = "none" /\ end[fresh[x]][x] = "open"
    BY <2>1 DEF SlotInv, FreshUnread
  <2>3. <<fresh[x], x>> # <<slot[h], h>>
    BY <2>1, <2>2 DEF SlotInv, SlotHasReader
  <2> QED
    BY <1>1, <1>2, <2>1, <2>2, <2>3
<1>7. UnprovenOpen'
  <2> SUFFICES ASSUME NEW x \in Hosts, NEW t \in Sock, reader'[t][x] \in {"idle", "challenged"}
               PROVE  end'[t][x] = "open"
    BY DEF UnprovenOpen
  <2>1. <<t, x>> # <<s, h>>
    BY <1>2
  <2>2. reader[t][x] \in {"idle", "challenged"}
    BY <1>2, <2>1
  <2>3. <<t, x>> # <<slot[h], h>>
    BY <2>2 DEF SlotInv, SlotHasReader, None, Sock
  <2>4. end[t][x] = "open"
    BY <2>2 DEF SlotInv, UnprovenOpen
  <2> QED
    BY <1>1, <2>1, <2>3, <2>4
<1>8. HoldDrained'
  <2> SUFFICES ASSUME NEW x \in Hosts, slot'[x] # None, hold'[x] # <<>>
               PROVE  end'[slot'[x]][x] = "broken"
    BY DEF HoldDrained
  <2>1. CASE x = h
    BY <1>1, <1>3, <2>1
  <2>2. CASE x # h
    BY <1>1, <1>3, <2>2 DEF SlotInv, HoldDrained, TypeOK
  <2> QED
    BY <2>1, <2>2
<1> QED
  BY <1>4, <1>5, <1>6, <1>7, <1>8 DEF SlotInv

(* A step that closes the end (s, h), marks its reader, and leaves no slot *)
(* or fresh socket referring to it, keeps the slot invariants.             *)
LEMMA CloseKeeps ==
  ASSUME TypeOK, SlotInv, NEW h \in Hosts, NEW s \in Sock,
         UNCHANGED hold,
         end' = [end EXCEPT ![s][h] = "closed"],
         reader' = [reader EXCEPT ![s][h] = "done"],
         \A x \in Hosts : slot'[x] # None => slot'[x] = slot[x] /\ <<slot[x], x>> # <<s, h>>,
         \A x \in Hosts : fresh'[x] # None => fresh'[x] = fresh[x] /\ <<fresh[x], x>> # <<s, h>>
  PROVE  SlotInv'
<1>1. \A t \in Sock, x \in Hosts : <<t, x>> # <<s, h>> =>
        end'[t][x] = end[t][x] /\ reader'[t][x] = reader[t][x]
  BY DEF TypeOK
<1>2. reader'[s][h] = "done"
  BY DEF TypeOK
<1>3. \A x \in Hosts : slot'[x] # None =>
        /\ slot'[x] = slot[x]
        /\ end'[slot[x]][x] = end[slot[x]][x]
        /\ reader'[slot[x]][x] = reader[slot[x]][x]
  BY <1>1 DEF TypeOK
<1>4. \A x \in Hosts : fresh'[x] # None =>
        /\ fresh'[x] = fresh[x]
        /\ end'[fresh[x]][x] = end[fresh[x]][x]
        /\ reader'[fresh[x]][x] = reader[fresh[x]][x]
  BY <1>1 DEF TypeOK
<1>5. SlotHasReader' /\ SlotEndOpen' /\ HoldDrained'
  BY <1>3 DEF SlotInv, SlotHasReader, SlotEndOpen, HoldDrained
<1>6. FreshUnread'
  BY <1>4 DEF SlotInv, FreshUnread
<1>7. UnprovenOpen'
  BY <1>1, <1>2 DEF SlotInv, UnprovenOpen
<1> QED
  BY <1>5, <1>6, <1>7 DEF SlotInv

(* _drop_conn and a failed write: the slot is emptied and its end closed.  *)
LEMMA DropKeeps ==
  ASSUME TypeOK, SlotInv, NEW h \in Hosts, UNCHANGED <<reader, fresh>>,
         \A x \in Hosts : x # h => hold'[x] = hold[x],
         slot' = [slot EXCEPT ![h] = None],
         end' = IF slot[h] = None THEN end ELSE [end EXCEPT ![slot[h]][h] = "closed"]
  PROVE  SlotInv'
<1>1. \A t \in Sock, x \in Hosts : <<t, x>> # <<slot[h], h>> => end'[t][x] = end[t][x]
  BY DEF TypeOK
<1>2. slot'[h] = None /\ \A x \in Hosts : x # h => slot'[x] = slot[x]
  BY DEF TypeOK
<1>3. \A x \in Hosts : slot'[x] # None =>
        x # h /\ slot'[x] = slot[x] /\ end'[slot[x]][x] = end[slot[x]][x]
  BY <1>1, <1>2 DEF TypeOK
<1>4. SlotHasReader' /\ SlotEndOpen' /\ HoldDrained'
  BY <1>3 DEF SlotInv, SlotHasReader, SlotEndOpen, HoldDrained
<1>5. \A x \in Hosts : fresh[x] # None => <<fresh[x], x>> # <<slot[h], h>>
  BY DEF SlotInv, SlotHasReader, FreshUnread
<1>6. FreshUnread'
  <2> SUFFICES ASSUME NEW x \in Hosts, fresh[x] # None
               PROVE  reader[fresh[x]][x] = "none" /\ end'[fresh[x]][x] = "open"
    BY DEF FreshUnread
  <2>1. fresh[x] \in Sock
    BY DEF TypeOK
  <2>2. end'[fresh[x]][x] = end[fresh[x]][x]
    BY <1>1, <1>5, <2>1
  <2> QED
    BY <2>2 DEF SlotInv, FreshUnread
<1>7. \A t \in Sock, x \in Hosts : reader[t][x] \in {"idle", "challenged"}
        => <<t, x>> # <<slot[h], h>>
  BY DEF SlotInv, SlotHasReader, None, Sock
<1>8. UnprovenOpen'
  BY <1>1, <1>7 DEF SlotInv, UnprovenOpen
<1> QED
  BY <1>4, <1>6, <1>8 DEF SlotInv

(* Every operation keeps the slot invariants.                              *)
LEMMA SlotStep == TypeOK /\ TypeOK' /\ SlotInv /\ [Next]_vars => SlotInv'
<1> SUFFICES ASSUME TypeOK, TypeOK', SlotInv, [Next]_vars PROVE SlotInv'
  OBVIOUS
<1>o. \A h \in Hosts : Other(h) \in Hosts /\ Other(h) # h
  BY HostsDiffer DEF Other, Hosts
<1>u. ASSUME UNCHANGED <<slot, hold, fresh, end, reader>> PROVE SlotInv'
  BY <1>u DEF SlotInv, SlotHasReader, SlotEndOpen, FreshUnread, UnprovenOpen, HoldDrained
<1>f. \A x \in Hosts, t \in Sock : slot[x] # None /\ reader[t][x] \notin {"ok", "out"}
        => slot[x] # t
  BY DEF SlotInv, SlotHasReader
<1>1. ASSUME NEW h \in Hosts, Write(h) PROVE SlotInv'
  <2> DEFINE m == asked[h] + 1
  <2>1. UNCHANGED <<fresh, reader>>
    BY <1>1 DEF Write
  <2>2. CASE WriteSent(h, m)
    BY <1>u, <2>1, <2>2 DEF WriteSent
  <2>3. \A x \in Hosts : x # h => hold'[x] = hold[x]
    BY <1>1 DEF Write, WriteSent, WriteFailed, WriteNoSocket, HoldBack, TypeOK
  <2>4. CASE WriteFailed(h, m)
    BY <2>1, <2>3, <2>4, DropKeeps DEF WriteFailed
  <2>5. CASE WriteNoSocket(h, m)
    <3>1. slot[h] = None /\ UNCHANGED <<slot, end>>
      BY <2>5 DEF WriteNoSocket
    <3>2. HoldDrained'
      BY <2>3, <3>1 DEF SlotInv, HoldDrained
    <3> QED
      BY <2>1, <3>1, <3>2 DEF SlotInv, SlotHasReader, SlotEndOpen, FreshUnread, UnprovenOpen
  <2> QED
    BY <1>1, <2>2, <2>4, <2>5 DEF Write
<1>2. ASSUME NEW h \in Hosts, DialStart(h) \/ DialFail(h) PROVE SlotInv'
  BY <1>2, <1>u DEF DialStart, DialFail, connVars, sockVars
<1>3. ASSUME NEW h \in Hosts, DialConnect(h) PROVE SlotInv'
  <2>1. PICK s \in Sock :
          /\ Free(s)
          /\ fresh' = [fresh EXCEPT ![h] = s]
          /\ end' = [end EXCEPT ![s] = [x \in Hosts |-> "open"]]
          /\ reader' = [reader EXCEPT ![s] = [x \in Hosts |-> IF x = h THEN "none" ELSE "idle"]]
    BY <1>3 DEF DialConnect
  <2>2. UNCHANGED <<slot, hold>>
    BY <1>3 DEF DialConnect, connVars
  <2>3. \A x \in Hosts : end'[s][x] = "open"
    BY <2>1 DEF TypeOK
  <2>4. \A t \in Sock : t # s => end'[t] = end[t] /\ reader'[t] = reader[t]
    BY <2>1 DEF TypeOK
  <2>5. \A x \in Hosts : slot[x] # s /\ fresh[x] # s
    BY <2>1 DEF SlotInv, SlotHasReader, Free, Hosts, None, Sock
  <2>6. SlotHasReader' /\ SlotEndOpen' /\ HoldDrained'
    BY <2>2, <2>4, <2>5 DEF SlotInv, SlotHasReader, SlotEndOpen, HoldDrained, TypeOK
  <2>7. FreshUnread'
    <3> SUFFICES ASSUME NEW x \in Hosts, fresh'[x] # None
                 PROVE  reader'[fresh'[x]][x] = "none" /\ end'[fresh'[x]][x] = "open"
      BY DEF FreshUnread
    <3>1. CASE x = h
      <4>1. fresh'[x] = s
        BY <2>1, <3>1 DEF TypeOK
      <4>2. reader'[s][x] = "none"
        BY <2>1, <3>1 DEF TypeOK
      <4> QED
        BY <2>3, <4>1, <4>2
    <3>2. CASE x # h
      <4>1. fresh'[x] = fresh[x] /\ fresh[x] \in Sock /\ fresh[x] # s
        BY <2>1, <2>5, <3>2 DEF TypeOK
      <4> QED
        BY <2>4, <4>1 DEF SlotInv, FreshUnread
    <3> QED
      BY <3>1, <3>2
  <2>8. UnprovenOpen'
    BY <2>3, <2>4 DEF SlotInv, UnprovenOpen
  <2> QED
    BY <2>6, <2>7, <2>8 DEF SlotInv
<1>4. ASSUME NEW h \in Hosts, DialAdopt(h) PROVE SlotInv'
  <2> DEFINE s == fresh[h]
  <2>1. s \in Sock /\ reader[s][h] = "none" /\ end[s][h] = "open"
    BY <1>4 DEF DialAdopt, SlotInv, FreshUnread, TypeOK
  <2>2. Adopt(h, s, wire) /\ reader' = [reader EXCEPT ![s][h] = "out"]
    BY <1>4 DEF DialAdopt
  <2>3. \A x \in Hosts : fresh'[x] # None => fresh'[x] = fresh[x] /\ <<fresh[x], x>> # <<s, h>>
    BY <1>4 DEF DialAdopt, TypeOK
  <2> HIDE DEF s
  <2> QED
    BY <2>1, <2>2, <2>3, AdoptKeeps
<1>5. ASSUME NEW h \in Hosts, DialDiscard(h) PROVE SlotInv'
  <2> DEFINE s == fresh[h]
  <2>1. s \in Sock /\ reader[s][h] = "none"
    BY <1>5 DEF DialDiscard, SlotInv, FreshUnread, TypeOK
  <2>2. /\ UNCHANGED <<slot, hold>>
        /\ end' = [end EXCEPT ![s][h] = "closed"]
        /\ reader' = [reader EXCEPT ![s][h] = "done"]
    BY <1>5 DEF DialDiscard, connVars
  <2>3. \A x \in Hosts : slot'[x] # None => slot'[x] = slot[x] /\ <<slot[x], x>> # <<s, h>>
    BY <1>f, <2>1, <2>2
  <2>4. \A x \in Hosts : fresh'[x] # None => fresh'[x] = fresh[x] /\ <<fresh[x], x>> # <<s, h>>
    BY <1>5 DEF DialDiscard, TypeOK
  <2> HIDE DEF s
  <2> QED
    BY <2>1, <2>2, <2>3, <2>4, CloseKeeps
<1>6. ASSUME NEW h \in Hosts, NEW s \in Sock, Read(h, s) \/ ReaderBreaks(h, s)
      PROVE  SlotInv'
  <2>f. ASSUME reader[s][h] # "none", UNCHANGED fresh
        PROVE  \A x \in Hosts : fresh'[x] # None =>
                 fresh'[x] = fresh[x] /\ <<fresh[x], x>> # <<s, h>>
    BY <2>f DEF SlotInv, FreshUnread
  <2>1. CASE ReadIdentity(h, s)
    <3>1. UNCHANGED <<slot, hold, fresh, end>>
      BY <2>1 DEF ReadIdentity, connVars, dialVars
    <3>2. /\ reader[s][h] = "idle" /\ reader'[s][h] = "challenged"
          /\ \A t \in Sock, x \in Hosts : <<t, x>> # <<s, h>> => reader'[t][x] = reader[t][x]
      BY <2>1 DEF ReadIdentity, TypeOK
    <3>3. \A x \in Hosts : slot[x] # None =>
            slot[x] \in Sock /\ reader'[slot[x]][x] = reader[slot[x]][x]
      BY <1>f, <3>2 DEF TypeOK
    <3>4. \A x \in Hosts : fresh[x] # None =>
            fresh[x] \in Sock /\ reader'[fresh[x]][x] = reader[fresh[x]][x]
      BY <3>2 DEF SlotInv, FreshUnread, TypeOK
    <3>5. SlotHasReader' /\ SlotEndOpen' /\ HoldDrained'
      BY <3>1, <3>3 DEF SlotInv, SlotHasReader, SlotEndOpen, HoldDrained
    <3>6. FreshUnread'
      BY <3>1, <3>4 DEF SlotInv, FreshUnread
    <3>7. UnprovenOpen'
      BY <3>1, <3>2 DEF SlotInv, UnprovenOpen
    <3> QED
      BY <3>5, <3>6, <3>7 DEF SlotInv
  <2>2. CASE ReadChallenge(h, s)
    BY <1>u, <2>2 DEF ReadChallenge, connVars, dialVars
  <2>3. CASE ReadProof(h, s)
    <3>1. reader[s][h] = "challenged" /\ end[s][h] = "open" /\ UNCHANGED fresh
      BY <2>3 DEF ReadProof, dialVars, SlotInv, UnprovenOpen
    <3>2. CASE Adopts(h, Other(h))
      <4>1. Adopt(h, s, Rest(s, h)) /\ reader' = [reader EXCEPT ![s][h] = "ok"]
        BY <2>3, <3>2 DEF ReadProof
      <4> QED
        BY <2>f, <3>1, <4>1, AdoptKeeps
    <3>3. CASE ~Adopts(h, Other(h))
      <4>1. UNCHANGED <<slot, hold, end>> /\ reader' = [reader EXCEPT ![s][h] = "standby"]
        BY <2>3, <3>3 DEF ReadProof, connVars
      <4>2. /\ reader'[s][h] = "standby"
            /\ \A t \in Sock, x \in Hosts : <<t, x>> # <<s, h>> => reader'[t][x] = reader[t][x]
        BY <4>1 DEF TypeOK
      <4>3. \A x \in Hosts : slot[x] # None =>
              slot[x] \in Sock /\ reader'[slot[x]][x] = reader[slot[x]][x]
        BY <1>f, <3>1, <4>2 DEF TypeOK
      <4>4. \A x \in Hosts : fresh[x] # None =>
              fresh[x] \in Sock /\ reader'[fresh[x]][x] = reader[fresh[x]][x]
        BY <3>1, <4>2 DEF SlotInv, FreshUnread, TypeOK
      <4>5. SlotHasReader' /\ SlotEndOpen' /\ HoldDrained'
        BY <4>1, <4>3 DEF SlotInv, SlotHasReader, SlotEndOpen, HoldDrained
      <4>6. FreshUnread'
        BY <3>1, <4>1, <4>4 DEF SlotInv, FreshUnread
      <4>7. UnprovenOpen'
        BY <4>1, <4>2 DEF SlotInv, UnprovenOpen
      <4> QED
        BY <4>5, <4>6, <4>7 DEF SlotInv
    <3> QED
      BY <3>2, <3>3
  <2>4. CASE ReadEarly(h, s)
    BY <1>u, <2>4 DEF ReadEarly, connVars, dialVars
  <2>5. CASE ReadTooEarly(h, s)
    <3>1. /\ reader[s][h] \in {"idle", "challenged"} /\ UNCHANGED <<slot, hold, fresh>>
          /\ end' = [end EXCEPT ![s][h] = "closed"]
          /\ reader' = [reader EXCEPT ![s][h] = "done"]
      BY <2>5 DEF ReadTooEarly, connVars, dialVars
    <3>2. \A x \in Hosts : slot'[x] # None => slot'[x] = slot[x] /\ <<slot[x], x>> # <<s, h>>
      BY <1>f, <3>1
    <3> QED
      BY <2>f, <3>1, <3>2, CloseKeeps
  <2>6. CASE ReadDeferred(h, s)
    BY <1>u, <2>6 DEF ReadDeferred, connVars, dialVars
  <2>7. CASE ReadData(h, s)
    BY <1>u, <2>7 DEF ReadData, connVars, dialVars
  <2>8. CASE ReadEnd(h, s) \/ ReaderBreaks(h, s)
    <3>1. /\ reader[s][h] # "none" /\ UNCHANGED <<hold, fresh>>
          /\ end' = [end EXCEPT ![s][h] = "closed"]
          /\ reader' = [reader EXCEPT ![s][h] = "done"]
          /\ slot' = IF OwnsSlot(h, s) THEN [slot EXCEPT ![h] = None] ELSE slot
      BY <2>8 DEF ReadEnd, ReaderBreaks, ReaderEnds, dialVars
    <3>2. slot[h] = s => OwnsSlot(h, s)
      BY DEF OwnsSlot, SlotInv, SlotHasReader, None, Sock
    <3>3. \A x \in Hosts : slot'[x] # None => slot'[x] = slot[x] /\ <<slot[x], x>> # <<s, h>>
      BY <3>1, <3>2 DEF TypeOK
    <3> QED
      BY <2>f, <3>1, <3>3, CloseKeeps
  <2> QED
    BY <1>6, <2>1, <2>2, <2>3, <2>4, <2>5, <2>6, <2>7, <2>8 DEF Read
<1>7. ASSUME NEW s \in Sock, Cut(s) PROVE SlotInv'
  BY <1>u, <1>7 DEF Cut, connVars, dialVars, sockVars
<1>8. ASSUME NEW h \in Hosts, Expire(h) \/ GoOffline(h) PROVE SlotInv'
  BY <1>8, DropKeeps DEF Expire, GoOffline, DropConn, dialVars
<1>9. ASSUME NEW h \in Hosts, GoOnline(h) PROVE SlotInv'
  BY <1>u, <1>9 DEF GoOnline, connVars, dialVars, sockVars
<1>10. CASE UNCHANGED vars
  BY <1>u, <1>10 DEF vars
<1> QED
  BY <1>1, <1>2, <1>3, <1>4, <1>5, <1>6, <1>7, <1>8, <1>9, <1>10 DEF Next, Dial

(* The active socket always has a live reader at our end, and no payload   *)
(* is left in the hold behind a socket that works.                         *)
THEOREM SlotCorrect == Spec => [](SlotHasReader /\ HoldDrained)
<1>1. Init => SlotInv
  BY DEF Init, SlotInv, SlotHasReader, SlotEndOpen, FreshUnread, UnprovenOpen, HoldDrained
<1>2. TypeOK /\ TypeOK' /\ SlotInv /\ [Next]_vars => SlotInv'
  BY SlotStep
<1>3. SlotInv => SlotHasReader /\ HoldDrained
  BY DEF SlotInv
<1> QED
  BY <1>1, <1>2, <1>3, TypeCorrect, PTL DEF Spec

(* The second of them by itself: _maybe_set_active leaves nothing in the   *)
(* hold of a socket that can be written to.                                *)
THEOREM HoldCorrect == Spec => []HoldDrained
<1>1. SlotHasReader /\ HoldDrained => HoldDrained
  OBVIOUS
<1> QED
  BY <1>1, SlotCorrect, PTL

-----------------------------------------------------------------------------
(***************************************************************************)
(* The payloads.                                                           *)
(***************************************************************************)

LEMMA OtherHost ==
  \A h \in Hosts : Other(h) \in Hosts /\ Other(h) # h /\ Other(Other(h)) = h
BY HostsDiffer DEF Other, Hosts

-----------------------------------------------------------------------------
(***************************************************************************)
(* Order.  The hold is ascending, everything in it and everything written  *)
(* was asked for, and what sent_mids remembers was written.                *)
(***************************************************************************)
HoldOrdered ==
  \A h \in Hosts :
    /\ \A i, j \in 1..Len(hold[h]) : i < j => hold[h][i] < hold[h][j]
    /\ \A i \in 1..Len(hold[h]) : hold[h][i] <= asked[h]
    /\ \A m \in put[h] : m <= asked[h]
    /\ sentMids[h] \subseteq put[h]

(* What is due is an ascending part of the hold.                           *)
LEMMA PendingOrdered ==
  ASSUME TypeOK, HoldOrdered, NEW h \in Hosts, NEW q \in Pending(h)
  PROVE  /\ q \in Seq(Msg)
         /\ \A i, j \in 1..Len(q) : i < j => q[i] < q[j]
         /\ \A i \in 1..Len(q) : q[i] \in Elems(hold[h])
<1>1. PICK f \in Ascending(Due(h)) : q = [i \in DOMAIN f |-> hold[h][f[i]]]
  BY DEF Pending
<1>2. hold[h] \in Seq(Msg) /\ Len(hold[h]) \in Nat
  BY DEF TypeOK
<1>3. Due(h) \subseteq 1..Len(hold[h])
  BY DEF Due
<1>4. q \in Seq(Msg)
  BY PendingType
<1>5. f \in [1..Cardinality(Due(h)) -> Due(h)]
      /\ \A i, j \in DOMAIN f : i < j => f[i] < f[j]
  BY DEF Ascending
<1>6. DOMAIN f = 1..Len(q)
  BY <1>1, <1>4
<1>7. \A i \in 1..Len(q) : f[i] \in 1..Len(hold[h]) /\ q[i] = hold[h][f[i]]
  BY <1>1, <1>3, <1>5, <1>6
<1>8. \A i, j \in 1..Len(q) : i < j => q[i] < q[j]
  <2> SUFFICES ASSUME NEW i \in 1..Len(q), NEW j \in 1..Len(q), i < j
               PROVE  q[i] < q[j]
    OBVIOUS
  <2>1. f[i] < f[j]
    BY <1>5, <1>6
  <2>2. hold[h][f[i]] < hold[h][f[j]]
    BY <1>7, <2>1 DEF HoldOrdered
  <2> QED
    BY <1>7, <2>2
<1> QED
  BY <1>4, <1>7, <1>8 DEF Elems

(* What adopting a socket does to the payloads of h: q is what was due, in *)
(* order, its first k are written, and at most one stays in the hold.      *)
Flushes(h, s, w, q, k) ==
  /\ \A i, j \in 1..Len(q) : i < j => q[i] < q[j]
  /\ \A i \in 1..Len(q) : q[i] \in Elems(hold[h])
  /\ SubSeq(q, 1, k) \in Seq(Msg) /\ Len(SubSeq(q, 1, k)) = k
  /\ \A i \in 1..k : SubSeq(q, 1, k)[i] = q[i]
  /\ wire' = Carry(w, s, h, DataFrames(SubSeq(q, 1, k)))
  /\ put' = [put EXCEPT ![h] = @ \union {q[i] : i \in 1..k}]
  /\ hold' = [hold EXCEPT ![h] = StillHeld(q, k)]
  /\ sentMids' = [sentMids EXCEPT ![h] = @ \union MidsOf(SubSeq(q, 1, k))]
  /\ k > 0 => SendMaySucceed(s, h)

LEMMA AdoptMoves ==
  ASSUME TypeOK, HoldOrdered, NEW h \in Hosts, NEW s \in Sock, NEW w, Adopt(h, s, w)
  PROVE  \E q \in Seq(Msg) : \E k \in 0..Len(q) : Flushes(h, s, w, q, k)
<1>1. PICK q \in Pending(h) : \E k \in 0..Len(q) :
        (k > 0 => SendMaySucceed(s, h)) /\ AdoptWriting(h, s, w, q, k)
  BY DEF Adopt
<1>2. PICK k \in 0..Len(q) : (k > 0 => SendMaySucceed(s, h)) /\ AdoptWriting(h, s, w, q, k)
  BY <1>1
<1>3. /\ q \in Seq(Msg)
      /\ \A i, j \in 1..Len(q) : i < j => q[i] < q[j]
      /\ \A i \in 1..Len(q) : q[i] \in Elems(hold[h])
  BY PendingOrdered
<1>4. /\ SubSeq(q, 1, k) \in Seq(Msg) /\ Len(SubSeq(q, 1, k)) = k
      /\ \A i \in 1..k : SubSeq(q, 1, k)[i] = q[i]
  BY <1>3
<1>5. {SubSeq(q, 1, k)[i] : i \in 1..k} = {q[i] : i \in 1..k}
  BY <1>4
<1>6. /\ wire' = Carry(w, s, h, DataFrames(SubSeq(q, 1, k)))
      /\ sentMids' = [sentMids EXCEPT ![h] = @ \union MidsOf(SubSeq(q, 1, k))]
      /\ hold' = [hold EXCEPT ![h] = StillHeld(q, k)]
  BY <1>2 DEF AdoptWriting
<1>7. put' = [put EXCEPT ![h] = @ \union {q[i] : i \in 1..k}]
  BY <1>2, <1>5 DEF AdoptWriting
<1> QED
  BY <1>2, <1>3, <1>4, <1>6, <1>7 DEF Flushes

(* A flush keeps the order.                                                *)
LEMMA AdoptOrdered ==
  ASSUME TypeOK, HoldOrdered, WrittenInOrder, NEW h \in Hosts, NEW s \in Sock,
         NEW w, Adopt(h, s, w), UNCHANGED asked
  PROVE  HoldOrdered' /\ WrittenInOrder'
<1>0. PICK q \in Seq(Msg) : \E k \in 0..Len(q) : Flushes(h, s, w, q, k)
  BY AdoptMoves
<1>k. PICK k \in 0..Len(q) : Flushes(h, s, w, q, k)
  BY <1>0
<1>1. /\ \A i, j \in 1..Len(q) : i < j => q[i] < q[j]
      /\ \A i \in 1..Len(q) : q[i] \in Elems(hold[h])
      /\ SubSeq(q, 1, k) \in Seq(Msg) /\ Len(SubSeq(q, 1, k)) = k
      /\ \A i \in 1..k : SubSeq(q, 1, k)[i] = q[i]
      /\ put' = [put EXCEPT ![h] = @ \union {q[i] : i \in 1..k}]
      /\ hold' = [hold EXCEPT ![h] = StillHeld(q, k)]
      /\ sentMids' = [sentMids EXCEPT ![h] = @ \union MidsOf(SubSeq(q, 1, k))]
  BY <1>k DEF Flushes
<1>2. \A x \in Hosts : x # h =>
        put'[x] = put[x] /\ hold'[x] = hold[x] /\ sentMids'[x] = sentMids[x]
  BY <1>1 DEF TypeOK
<1>3. /\ put'[h] = put[h] \union {q[i] : i \in 1..k}
      /\ hold'[h] = StillHeld(q, k)
      /\ sentMids'[h] = sentMids[h] \union MidsOf(SubSeq(q, 1, k))
  BY <1>1 DEF TypeOK
<1>4. MidsOf(SubSeq(q, 1, k)) \subseteq {q[i] : i \in 1..k}
  BY <1>1 DEF MidsOf
<1>5. \A i \in 1..Len(q) : q[i] <= asked[h] /\ q[i] \in Msg
  BY <1>1 DEF HoldOrdered, Elems
<1>6. \/ hold'[h] = <<>>
      \/ k < Len(q) /\ hold'[h] = <<q[k + 1]>> /\ k + 1 \in 1..Len(q)
  BY <1>1, <1>3 DEF StillHeld
<1>7. \A i \in 1..Len(hold'[h]) : k + 1 \in 1..Len(q) /\ i = 1 /\ hold'[h][i] = q[k + 1]
  <2>1. CASE hold'[h] = <<>>
    <3>1. Len(hold'[h]) = 0
      BY <2>1
    <3> QED
      BY <3>1
  <2>2. CASE hold'[h] = <<q[k + 1]>> /\ k + 1 \in 1..Len(q)
    <3>1. Len(hold'[h]) = 1 /\ hold'[h][1] = q[k + 1]
      BY <2>2
    <3> QED
      BY <2>2, <3>1
  <2> QED
    BY <1>6, <2>1, <2>2
<1>8. \A i \in 1..Len(q), m \in put[h] : m < q[i]
  BY <1>1 DEF WrittenInOrder, Elems
<1>9. HoldOrdered'
  BY <1>2, <1>3, <1>4, <1>5, <1>7 DEF HoldOrdered
<1>10. \A m \in put'[h], i \in 1..Len(hold'[h]) : m < hold'[h][i]
  <2> SUFFICES ASSUME NEW m \in put'[h], NEW i \in 1..Len(hold'[h])
               PROVE  m < hold'[h][i]
    OBVIOUS
  <2>1. k + 1 \in 1..Len(q) /\ hold'[h][i] = q[k + 1]
    BY <1>7
  <2>2. CASE m \in put[h]
    BY <1>8, <2>1, <2>2
  <2>3. CASE m \notin put[h]
    <3>1. PICK j \in 1..k : m = q[j]
      BY <1>3, <2>3
    <3>2. j \in 1..Len(q) /\ j < k + 1
      BY <1>1, <2>1
    <3> QED
      BY <1>1, <2>1, <3>1, <3>2
  <2> QED
    BY <2>2, <2>3
<1>11. WrittenInOrder'
  BY <1>2, <1>10 DEF WrittenInOrder
<1> QED
  BY <1>9, <1>11

OrderInv == HoldOrdered /\ WrittenInOrder

(* A payload that cannot be sent is the newest: it goes to the end.        *)
LEMMA HoldBackOrdered ==
  ASSUME TypeOK, OrderInv, NEW h \in Hosts, asked[h] + 1 \in Msg,
         asked' = [asked EXCEPT ![h] = @ + 1], HoldBack(h, asked[h] + 1)
  PROVE  OrderInv'
<1> DEFINE m == asked[h] + 1
<1>1. /\ hold' = IF Holdable(m) THEN [hold EXCEPT ![h] = Append(@, m)] ELSE hold
      /\ UNCHANGED <<sentMids, put>>
  BY DEF HoldBack
<1>2. \A x \in Hosts : x # h => hold'[x] = hold[x] /\ asked'[x] = asked[x]
  BY <1>1 DEF TypeOK
<1>3. /\ hold[h] \in Seq(Msg) /\ asked[h] \in Nat /\ asked'[h] = asked[h] + 1
      /\ put[h] \subseteq Msg /\ m = asked[h] + 1 /\ m \in Msg
  <2>1. asked \in [Hosts -> 0..MaxMsg] /\ MaxMsg \in Nat
    BY BoundsAreNat DEF TypeOK
  <2> QED
    BY <2>1 DEF TypeOK
<1>4. hold'[h] = hold[h] \/ hold'[h] = Append(hold[h], m)
  BY <1>1 DEF TypeOK
<1> HIDE DEF m
<1>5. /\ \A i, j \in 1..Len(hold[h]) : i < j => hold[h][i] < hold[h][j]
      /\ \A i \in 1..Len(hold[h]) : hold[h][i] <= asked[h] /\ hold[h][i] \in Msg
      /\ \A n \in put[h] : n <= asked[h] /\ n \in Msg
      /\ \A n \in put[h], i \in 1..Len(hold[h]) : n < hold[h][i]
  BY <1>3 DEF OrderInv, HoldOrdered, WrittenInOrder
<1>6. CASE hold'[h] = hold[h]
  <2>1. \A i \in 1..Len(hold'[h]) : hold'[h][i] <= asked'[h]
    BY <1>3, <1>5, <1>6 DEF Msg
  <2>2. \A n \in put[h] : n <= asked'[h]
    BY <1>3, <1>5 DEF Msg
  <2> QED
    BY <1>1, <1>2, <1>6, <2>1, <2>2 DEF OrderInv, HoldOrdered, WrittenInOrder, TypeOK
<1>7. CASE hold'[h] = Append(hold[h], m)
  <2>1. Len(hold'[h]) = Len(hold[h]) + 1 /\ Len(hold[h]) \in Nat
    BY <1>3, <1>7
  <2>2. \A i \in 1..Len(hold'[h]) :
          hold'[h][i] = IF i \in 1..Len(hold[h]) THEN hold[h][i] ELSE m
    BY <1>3, <1>7
  <2>n. /\ \A i \in 1..Len(hold[h]) : hold[h][i] < m
        /\ \A n \in put[h] : n < m
    BY <1>3, <1>5 DEF Msg
  <2>3. \A i, j \in 1..Len(hold'[h]) : i < j => hold'[h][i] < hold'[h][j]
    <3> SUFFICES ASSUME NEW i \in 1..Len(hold'[h]), NEW j \in 1..Len(hold'[h]), i < j
                 PROVE  hold'[h][i] < hold'[h][j]
      OBVIOUS
    <3>1. i \in 1..Len(hold[h])
      BY <2>1
    <3>2. hold'[h][i] = hold[h][i]
      BY <2>2, <3>1
    <3>3. CASE j \in 1..Len(hold[h])
      BY <1>5, <2>2, <3>1, <3>2, <3>3
    <3>4. CASE j \notin 1..Len(hold[h])
      BY <2>2, <2>n, <3>1, <3>2, <3>4
    <3> QED
      BY <3>3, <3>4
  <2>4. \A i \in 1..Len(hold'[h]) : hold'[h][i] <= asked'[h]
    BY <1>3, <1>5, <2>1, <2>2 DEF Msg
  <2>5. \A n \in put[h] : n <= asked'[h]
    BY <1>3, <1>5 DEF Msg
  <2>6. \A n \in put[h], i \in 1..Len(hold'[h]) : n < hold'[h][i]
    BY <1>5, <2>2, <2>n
  <2> QED
    BY <1>1, <1>2, <2>3, <2>4, <2>5, <2>6 DEF OrderInv, HoldOrdered, WrittenInOrder
<1> QED
  BY <1>4, <1>6, <1>7

(* Every operation keeps the order.                                        *)
LEMMA OrderStep == TypeOK /\ SlotInv /\ OrderInv /\ [Next]_vars => OrderInv'
<1> SUFFICES ASSUME TypeOK, SlotInv, OrderInv, [Next]_vars PROVE OrderInv'
  OBVIOUS
<1>u. ASSUME UNCHANGED <<hold, put, sentMids, asked>> PROVE OrderInv'
  BY <1>u DEF OrderInv, HoldOrdered, WrittenInOrder
<1>1. ASSUME NEW h \in Hosts, Write(h) PROVE OrderInv'
  <2> DEFINE m == asked[h] + 1
  <2>1. m \in Msg /\ asked' = [asked EXCEPT ![h] = @ + 1]
    <3>1. asked[h] < Quota[h] /\ asked' = [asked EXCEPT ![h] = @ + 1]
      BY <1>1 DEF Write
    <3>2. asked[h] \in 0..MaxMsg /\ Quota[h] \in 0..MaxMsg /\ MaxMsg \in Nat
      BY QuotaType, BoundsAreNat DEF TypeOK, Hosts
    <3> QED
      BY <3>1, <3>2 DEF Msg
  <2>2. CASE HoldBack(h, m)
    BY <2>1, <2>2, HoldBackOrdered
  <2>3. CASE WriteSent(h, m)
    <3>1. slot[h] # None /\ end[slot[h]][h] = "open"
      BY <2>3 DEF WriteSent, SendMaySucceed
    <3>2. hold[h] = <<>>
      BY <3>1 DEF SlotInv, HoldDrained
    <3>3. /\ put'[h] = put[h] \union {m}
          /\ sentMids'[h] = sentMids[h] \union MidsOf(<<m>>)
          /\ asked'[h] = m
          /\ hold' = hold
      BY <2>1, <2>3 DEF WriteSent, TypeOK
    <3>4. \A x \in Hosts : x # h =>
            put'[x] = put[x] /\ sentMids'[x] = sentMids[x] /\ asked'[x] = asked[x]
      BY <2>1, <2>3 DEF WriteSent, TypeOK
    <3>5. MidsOf(<<m>>) \subseteq {m}
      BY DEF MidsOf
    <3>6. \A n \in put'[h] : n <= m
      <4>1. \A n \in put[h] : n \in Msg /\ n <= asked[h]
        BY DEF OrderInv, HoldOrdered, TypeOK
      <4>2. asked[h] \in Int
        BY BoundsAreNat DEF TypeOK
      <4> QED
        BY <3>3, <4>1, <4>2 DEF Msg
    <3>7. \A i \in 1..Len(hold[h]) : FALSE
      BY <3>2
    <3> HIDE DEF m
    <3> QED
      BY <3>3, <3>4, <3>5, <3>6, <3>7 DEF OrderInv, HoldOrdered, WrittenInOrder
  <2> QED
    BY <1>1, <2>2, <2>3 DEF Write, WriteFailed, WriteNoSocket
<1>2. ASSUME NEW h \in Hosts, DialAdopt(h) PROVE OrderInv'
  <2>1. fresh[h] \in Sock /\ Adopt(h, fresh[h], wire) /\ UNCHANGED asked
    BY <1>2 DEF DialAdopt, TypeOK
  <2> HIDE DEF Adopt
  <2> QED
    BY <2>1, AdoptOrdered DEF OrderInv
<1>3. ASSUME NEW h \in Hosts, NEW s \in Sock, ReadProof(h, s) PROVE OrderInv'
  <2>1. CASE Adopts(h, Other(h))
    <3>1. Adopt(h, s, Rest(s, h)) /\ UNCHANGED asked
      BY <1>3, <2>1 DEF ReadProof
    <3> QED
      BY <3>1, AdoptOrdered DEF OrderInv
  <2>2. CASE ~Adopts(h, Other(h))
    BY <1>3, <1>u, <2>2 DEF ReadProof, connVars
  <2> QED
    BY <2>1, <2>2
<1>4. ASSUME NEW h \in Hosts,
             DialStart(h) \/ DialFail(h) \/ DialConnect(h) \/ DialDiscard(h)
      PROVE  OrderInv'
  BY <1>4, <1>u DEF DialStart, DialFail, DialConnect, DialDiscard, connVars
<1>5. ASSUME NEW h \in Hosts, NEW s \in Sock, Read(h, s) \/ ReaderBreaks(h, s), ~ReadProof(h, s)
      PROVE  OrderInv'
  BY <1>5, <1>u DEF Read, ReadIdentity, ReadChallenge, ReadEarly, ReadTooEarly,
     ReadDeferred, ReadData, ReadEnd, ReaderBreaks, ReaderEnds, connVars
<1>6. ASSUME NEW s \in Sock, Cut(s) PROVE OrderInv'
  BY <1>6, <1>u DEF Cut, connVars
<1>7. ASSUME NEW h \in Hosts, Expire(h) \/ GoOffline(h) \/ GoOnline(h) PROVE OrderInv'
  BY <1>7, <1>u DEF Expire, GoOffline, GoOnline, connVars
<1>8. CASE UNCHANGED vars
  BY <1>8, <1>u DEF vars
<1> QED
  BY <1>1, <1>2, <1>3, <1>4, <1>5, <1>6, <1>7, <1>8 DEF Next, Dial

LEMMA SlotInvariant == Spec => []SlotInv
<1>1. Init => SlotInv
  BY DEF Init, SlotInv, SlotHasReader, SlotEndOpen, FreshUnread, UnprovenOpen, HoldDrained
<1>2. TypeOK /\ TypeOK' /\ SlotInv /\ [Next]_vars => SlotInv'
  BY SlotStep
<1> QED
  BY <1>1, <1>2, TypeCorrect, PTL DEF Spec

(* Everything ever written is older than everything held.                  *)
THEOREM OrderCorrect == Spec => []WrittenInOrder
<1>1. Init => OrderInv
  BY BoundsAreNat DEF Init, OrderInv, HoldOrdered, WrittenInOrder
<1>2. TypeOK /\ SlotInv /\ OrderInv /\ [Next]_vars => OrderInv'
  BY OrderStep
<1>3. OrderInv => WrittenInOrder
  BY DEF OrderInv
<1> QED
  BY <1>1, <1>2, <1>3, TypeCorrect, SlotInvariant, PTL DEF Spec

-----------------------------------------------------------------------------
(***************************************************************************)
(* Who dialed what: an inbound reader reads a socket the other side        *)
(* dialed, an outbound one and the fresh socket are our own dials, and     *)
(* payloads are deferred only while the acceptor's reader is alive.        *)
(***************************************************************************)
Inbound == {"idle", "challenged", "ok", "standby"}
ReaderDialer ==
  \A h \in Hosts, s \in Sock :
    /\ reader[s][h] \in Inbound => dialer[s] = Other(h)
    /\ reader[s][h] = "out" => dialer[s] = h
FreshDialer == \A h \in Hosts : fresh[h] # None => dialer[fresh[h]] = h
DeferredOwned ==
  \A s \in Sock : deferred[s] # <<>> => \E h \in Hosts : reader[s][h] \in Inbound

DialerInv == ReaderDialer /\ FreshDialer /\ DeferredOwned

(* A reader that moves from one inbound state to another, or ends while    *)
(* nothing is deferred for it, changes nothing of this.                    *)
LEMMA ReaderMoves ==
  ASSUME TypeOK, DialerInv, NEW h \in Hosts, NEW s \in Sock, NEW st \in ReaderStates,
         reader' = [reader EXCEPT ![s][h] = st],
         UNCHANGED dialer,
         st \in Inbound => reader[s][h] \in Inbound,
         st = "out" => dialer[s] = h,
         \A x \in Hosts : fresh'[x] \in {None, fresh[x]},
         \A t \in Sock : deferred'[t] # <<>> =>
            deferred[t] # <<>> /\ (t = s /\ reader[s][h] \in Inbound => st \in Inbound)
  PROVE  DialerInv'
<1>1. reader'[s][h] = st
      /\ \A t \in Sock, x \in Hosts : <<t, x>> # <<s, h>> => reader'[t][x] = reader[t][x]
  BY DEF TypeOK
<1>2. ReaderDialer'
  BY <1>1 DEF DialerInv, ReaderDialer
<1>3. FreshDialer'
  BY DEF DialerInv, FreshDialer
<1>4. DeferredOwned'
  <2> SUFFICES ASSUME NEW t \in Sock, deferred'[t] # <<>>
               PROVE  \E x \in Hosts : reader'[t][x] \in Inbound
    BY DEF DeferredOwned
  <2>1. PICK x \in Hosts : reader[t][x] \in Inbound
    BY DEF DialerInv, DeferredOwned
  <2>2. CASE <<t, x>> = <<s, h>>
    BY <1>1, <2>1, <2>2
  <2>3. CASE <<t, x>> # <<s, h>>
    BY <1>1, <2>1, <2>3
  <2> QED
    BY <2>2, <2>3
<1> QED
  BY <1>2, <1>3, <1>4 DEF DialerInv

LEMMA DialerStep == TypeOK /\ SlotInv /\ DialerInv /\ [Next]_vars => DialerInv'
<1> SUFFICES ASSUME TypeOK, SlotInv, DialerInv, [Next]_vars PROVE DialerInv'
  OBVIOUS
<1>u. ASSUME UNCHANGED <<reader, dialer, fresh, deferred>> PROVE DialerInv'
  BY <1>u DEF DialerInv, ReaderDialer, FreshDialer, DeferredOwned
<1>1. ASSUME NEW h \in Hosts, Write(h) PROVE DialerInv'
  BY <1>1, <1>u DEF Write
<1>2. ASSUME NEW h \in Hosts, DialStart(h) \/ DialFail(h) PROVE DialerInv'
  BY <1>2, <1>u DEF DialStart, DialFail, sockVars
<1>3. ASSUME NEW h \in Hosts, DialConnect(h) PROVE DialerInv'
  <2>1. PICK s \in Sock :
          /\ Free(s)
          /\ dialer' = [dialer EXCEPT ![s] = h]
          /\ fresh' = [fresh EXCEPT ![h] = s]
          /\ reader' = [reader EXCEPT ![s] = [x \in Hosts |-> IF x = h THEN "none" ELSE "idle"]]
    BY <1>3 DEF DialConnect
  <2>2. UNCHANGED deferred
    BY <1>3 DEF DialConnect
  <2>3. /\ \A x \in Hosts : reader'[s][x] = IF x = h THEN "none" ELSE "idle"
        /\ \A t \in Sock : t # s => reader'[t] = reader[t] /\ dialer'[t] = dialer[t]
        /\ dialer'[s] = h
    BY <2>1 DEF TypeOK
  <2>4. ReaderDialer'
    <3> SUFFICES ASSUME NEW x \in Hosts, NEW t \in Sock
                 PROVE  /\ reader'[t][x] \in Inbound => dialer'[t] = Other(x)
                        /\ reader'[t][x] = "out" => dialer'[t] = x
      BY DEF ReaderDialer
    <3>1. CASE t = s
      <4>1. x # h => h = Other(x)
        BY HostsDiffer DEF Other, Hosts
      <4> QED
        BY <2>3, <3>1, <4>1 DEF Inbound
    <3>2. CASE t # s
      BY <2>3, <3>2 DEF DialerInv, ReaderDialer
    <3> QED
      BY <3>1, <3>2
  <2>5. FreshDialer'
    <3> SUFFICES ASSUME NEW x \in Hosts, fresh'[x] # None PROVE dialer'[fresh'[x]] = x
      BY DEF FreshDialer
    <3>1. CASE x = h
      BY <2>1, <2>3, <3>1 DEF TypeOK
    <3>2. CASE x # h
      <4>1. fresh'[x] = fresh[x] /\ fresh[x] \in Sock /\ fresh[x] # s
        BY <2>1, <3>2 DEF Free, Hosts, TypeOK
      <4> QED
        BY <2>3, <4>1 DEF DialerInv, FreshDialer
    <3> QED
      BY <3>1, <3>2
  <2>6. DeferredOwned'
    <3> SUFFICES ASSUME NEW t \in Sock, deferred[t] # <<>>
                 PROVE  \E x \in Hosts : reader'[t][x] \in Inbound
      BY <2>2 DEF DeferredOwned
    <3>1. PICK x \in Hosts : reader[t][x] \in Inbound
      BY DEF DialerInv, DeferredOwned
    <3>2. t # s
      BY <2>1, <3>1 DEF Free, Inbound
    <3> QED
      BY <2>3, <3>1, <3>2
  <2> QED
    BY <2>4, <2>5, <2>6 DEF DialerInv
<1>4. ASSUME NEW h \in Hosts, DialAdopt(h) PROVE DialerInv'
  <2>1. /\ fresh[h] \in Sock /\ dialer[fresh[h]] = h /\ reader[fresh[h]][h] = "none"
        /\ reader' = [reader EXCEPT ![fresh[h]][h] = "out"]
        /\ UNCHANGED <<dialer, deferred>>
        /\ \A x \in Hosts : fresh'[x] \in {None, fresh[x]}
    BY <1>4 DEF DialAdopt, DialerInv, FreshDialer, SlotInv, FreshUnread, TypeOK
  <2> QED
    BY <2>1, ReaderMoves DEF Inbound, ReaderStates
<1>5. ASSUME NEW h \in Hosts, DialDiscard(h) PROVE DialerInv'
  <2>1. /\ fresh[h] \in Sock /\ reader[fresh[h]][h] = "none"
        /\ reader' = [reader EXCEPT ![fresh[h]][h] = "done"]
        /\ UNCHANGED <<dialer, deferred>>
        /\ \A x \in Hosts : fresh'[x] \in {None, fresh[x]}
    BY <1>5 DEF DialDiscard, SlotInv, FreshUnread, TypeOK
  <2> QED
    BY <2>1, ReaderMoves DEF Inbound, ReaderStates
<1>6. ASSUME NEW h \in Hosts, NEW s \in Sock, Read(h, s) \/ ReaderBreaks(h, s)
      PROVE  DialerInv'
  <2>1. CASE ReadIdentity(h, s)
    BY <2>1, ReaderMoves DEF ReadIdentity, dialVars, Inbound, ReaderStates
  <2>2. CASE ReadChallenge(h, s) \/ ReadData(h, s)
    BY <2>2, <1>u DEF ReadChallenge, ReadData, dialVars
  <2>3. CASE ReadProof(h, s)
    <3>1. \E st \in {"ok", "standby"} : reader' = [reader EXCEPT ![s][h] = st]
      BY <2>3 DEF ReadProof
    <3>2. reader[s][h] = "challenged" /\ UNCHANGED <<dialer, deferred, fresh>>
      BY <2>3 DEF ReadProof, dialVars
    <3> QED
      BY <3>1, <3>2, ReaderMoves DEF Inbound, ReaderStates
  <2>4. CASE ReadEarly(h, s)
    <3>1. /\ reader[s][h] \in Inbound
          /\ UNCHANGED <<reader, dialer, fresh>>
          /\ \A t \in Sock : t # s => deferred'[t] = deferred[t]
      BY <2>4 DEF ReadEarly, dialVars, Inbound, TypeOK
    <3> QED
      BY <3>1 DEF DialerInv, ReaderDialer, FreshDialer, DeferredOwned
  <2>5. CASE ReadTooEarly(h, s)
    <3>1. /\ reader' = [reader EXCEPT ![s][h] = "done"]
          /\ UNCHANGED <<dialer, fresh>>
          /\ \A t \in Sock : deferred'[t] # <<>> => deferred[t] # <<>> /\ t # s
      BY <2>5 DEF ReadTooEarly, dialVars, TypeOK
    <3>2. \A t \in Sock : deferred'[t] # <<>> =>
            deferred[t] # <<>> /\ (t = s /\ reader[s][h] \in Inbound => "done" \in Inbound)
      BY <3>1
    <3>3. "done" \notin Inbound /\ "done" \in ReaderStates
      BY DEF Inbound, ReaderStates
    <3> QED
      BY <3>1, <3>2, <3>3, ReaderMoves
  <2>6. CASE ReadDeferred(h, s)
    <3>1. /\ reader[s][h] \in Inbound
          /\ UNCHANGED <<reader, dialer, fresh>>
          /\ \A t \in Sock : t # s => deferred'[t] = deferred[t]
      BY <2>6 DEF ReadDeferred, dialVars, Inbound, TypeOK
    <3> QED
      BY <3>1 DEF DialerInv, ReaderDialer, FreshDialer, DeferredOwned
  <2>7. CASE ReadEnd(h, s) \/ ReaderBreaks(h, s)
    <3>1. /\ reader' = [reader EXCEPT ![s][h] = "done"]
          /\ UNCHANGED <<dialer, fresh>>
          /\ deferred' = IF dialer[s] = h THEN deferred ELSE [deferred EXCEPT ![s] = <<>>]
      BY <2>7 DEF ReadEnd, ReaderBreaks, ReaderEnds, dialVars
    <3>2. reader[s][h] \in Inbound => dialer[s] # h
      BY OtherHost DEF DialerInv, ReaderDialer
    <3>3. \A t \in Sock : deferred'[t] # <<>> =>
            deferred[t] # <<>> /\ (t = s => dialer[s] = h)
      BY <3>1 DEF TypeOK
    <3>4. \A t \in Sock : deferred'[t] # <<>> =>
            deferred[t] # <<>> /\ (t = s /\ reader[s][h] \in Inbound => "done" \in Inbound)
      BY <3>2, <3>3
    <3>5. "done" \notin Inbound /\ "done" \in ReaderStates
      BY DEF Inbound, ReaderStates
    <3> QED
      BY <3>1, <3>4, <3>5, ReaderMoves
  <2> QED
    BY <1>6, <2>1, <2>2, <2>3, <2>4, <2>5, <2>6, <2>7 DEF Read
<1>7. ASSUME NEW s \in Sock, Cut(s) PROVE DialerInv'
  BY <1>7, <1>u DEF Cut, dialVars, sockVars
<1>8. ASSUME NEW h \in Hosts, Expire(h) \/ GoOffline(h) \/ GoOnline(h) PROVE DialerInv'
  BY <1>8, <1>u DEF Expire, GoOffline, GoOnline, dialVars, sockVars
<1>9. CASE UNCHANGED vars
  BY <1>9, <1>u DEF vars
<1> QED
  BY <1>1, <1>2, <1>3, <1>4, <1>5, <1>6, <1>7, <1>8, <1>9 DEF Next, Dial

LEMMA DialerInvariant == Spec => []DialerInv
<1>1. Init => DialerInv
  BY DEF Init, DialerInv, ReaderDialer, FreshDialer, DeferredOwned, Inbound
<1>2. TypeOK /\ SlotInv /\ DialerInv /\ [Next]_vars => DialerInv'
  BY DialerStep
<1> QED
  BY <1>1, <1>2, TypeCorrect, SlotInvariant, PTL DEF Spec

(***************************************************************************)
(* A side gives up a working socket only for one the keeper dialed, or     *)
(* because it expired the peer, went offline or lost the socket's reader.  *)
(***************************************************************************)
Kept(h) ==
  slot[h] # None /\ end[slot[h]][h] = "open" /\ ~Gone(slot[h], h)
    => \/ slot'[h] = slot[h]
       \/ slot'[h] # None /\ dialer[slot'[h]] = Keeper
       \/ Expire(h) \/ GoOffline(h) \/ ReaderBreaks(h, slot[h])

(* A socket is adopted in place of another only if the keeper dialed it.   *)
LEMMA AdoptGives ==
  ASSUME TypeOK, NEW h \in Hosts, NEW x \in Hosts, NEW s \in Sock, NEW w,
         Adopt(x, s, w), NEW i \in Hosts, Adopts(x, i), dialer[s] = i
  PROVE  Kept(h)
<1>1. slot' = [slot EXCEPT ![x] = s]
  BY DEF Adopt, AdoptWriting
<1>2. CASE x = h
  BY <1>1, <1>2 DEF Kept, Adopts, TypeOK, None, Sock
<1>3. CASE x # h
  BY <1>1, <1>3 DEF Kept, TypeOK
<1> QED
  BY <1>2, <1>3

LEMMA KeptStep ==
  ASSUME TypeOK, DialerInv, [Next]_vars, NEW h \in Hosts
  PROVE  Kept(h)
<1>u. ASSUME slot'[h] = slot[h] PROVE Kept(h)
  BY <1>u DEF Kept
<1>1. ASSUME NEW x \in Hosts, Write(x) PROVE Kept(h)
  <2>1. CASE slot'[h] = slot[h]
    BY <1>u, <2>1
  <2>2. CASE slot'[h] # slot[h]
    <3>1. x = h /\ SendMayFail(slot[h], h)
      BY <1>1, <2>2 DEF Write, WriteSent, WriteNoSocket, WriteFailed, TypeOK
    <3> QED
      BY <3>1 DEF Kept, SendMayFail
  <2> QED
    BY <2>1, <2>2
<1>2. ASSUME NEW x \in Hosts, DialAdopt(x) PROVE Kept(h)
  <2>1. fresh[x] \in Sock /\ dialer[fresh[x]] = x /\ Adopts(x, x) /\ Adopt(x, fresh[x], wire)
    BY <1>2 DEF DialAdopt, DialerInv, FreshDialer, TypeOK
  <2> HIDE DEF Adopt, Adopts
  <2> QED
    BY <2>1, AdoptGives
<1>3. ASSUME NEW x \in Hosts, NEW s \in Sock, ReadProof(x, s) PROVE Kept(h)
  <2>1. CASE Adopts(x, Other(x))
    <3>1. /\ Adopt(x, s, Rest(s, x)) /\ dialer[s] = Other(x) /\ Other(x) \in Hosts
      BY <1>3, <2>1, OtherHost DEF ReadProof, DialerInv, ReaderDialer, Inbound
    <3> HIDE DEF Adopt, Adopts
    <3> QED
      BY <2>1, <3>1, AdoptGives
  <2>2. CASE ~Adopts(x, Other(x))
    BY <1>3, <1>u, <2>2 DEF ReadProof, connVars
  <2> QED
    BY <2>1, <2>2
<1>4. ASSUME NEW x \in Hosts, NEW s \in Sock, ReadEnd(x, s) \/ ReaderBreaks(x, s)
      PROVE  Kept(h)
  <2>1. CASE slot'[h] = slot[h]
    BY <1>u, <2>1
  <2>2. CASE slot'[h] # slot[h]
    <3>1. x = h /\ slot[h] = s
      BY <1>4, <2>2 DEF ReadEnd, ReaderBreaks, ReaderEnds, OwnsSlot, TypeOK
    <3>2. ReaderBreaks(h, slot[h]) \/ Gone(slot[h], h) \/ end[slot[h]][h] # "open"
      BY <1>4, <3>1 DEF ReadEnd
    <3> QED
      BY <3>2 DEF Kept
  <2> QED
    BY <2>1, <2>2
<1>5. ASSUME NEW x \in Hosts, Expire(x) \/ GoOffline(x) PROVE Kept(h)
  <2>1. CASE x = h
    BY <1>5, <2>1 DEF Kept
  <2>2. CASE x # h
    <3>1. slot'[h] = slot[h]
      BY <1>5, <2>2 DEF Expire, GoOffline, DropConn, TypeOK
    <3> QED
      BY <1>u, <3>1
  <2> QED
    BY <2>1, <2>2
<1>6. ASSUME NEW x \in Hosts,
             DialStart(x) \/ DialFail(x) \/ DialConnect(x) \/ DialDiscard(x) \/ GoOnline(x)
      PROVE  Kept(h)
  BY <1>6, <1>u DEF DialStart, DialFail, DialConnect, DialDiscard, GoOnline, connVars
<1>7. ASSUME NEW x \in Hosts, NEW s \in Sock, Read(x, s), ~ReadProof(x, s), ~ReadEnd(x, s)
      PROVE  Kept(h)
  BY <1>7, <1>u DEF Read, ReadIdentity, ReadChallenge, ReadEarly, ReadTooEarly,
     ReadDeferred, ReadData, connVars
<1>8. ASSUME NEW s \in Sock, Cut(s) PROVE Kept(h)
  BY <1>8, <1>u DEF Cut, connVars
<1>9. CASE UNCHANGED vars
  BY <1>9, <1>u DEF vars
<1> QED
  BY <1>1, <1>2, <1>3, <1>4, <1>5, <1>6, <1>7, <1>8, <1>9 DEF Next, Dial

(* A working active socket is given up only for one the keeper dialed, at  *)
(* an expiry, when going offline, or with its own reader.                  *)
THEOREM SocketKept == Spec => LiveSocketKept
<1>1. TypeOK /\ DialerInv /\ [Next]_vars => \A h \in Hosts : Kept(h)
  BY KeptStep
<1>2. (\A h \in Hosts : Kept(h)) =>
        \A h \in Hosts :
          LET s == slot[h] IN
          s # None /\ end[s][h] = "open" /\ ~Gone(s, h)
            => \/ slot'[h] = s
               \/ slot'[h] # None /\ dialer[slot'[h]] = Keeper
               \/ Expire(h) \/ GoOffline(h) \/ ReaderBreaks(h, s)
  BY DEF Kept
<1> QED
  BY <1>1, <1>2, TypeCorrect, DialerInvariant, PTL DEF Spec, LiveSocketKept

-----------------------------------------------------------------------------
(***************************************************************************)
(* Sequences of frames and of payloads.                                    *)
(***************************************************************************)
DataOf(q) == {m \in Msg : DataFrame(m) \in Elems(q)}
Distinct(q) == \A i, j \in 1..Len(q) : q[i] = q[j] => i = j
DistinctData(q) == \A i, j \in 1..Len(q) : q[i].k = "data" /\ q[i] = q[j] => i = j

(* A data frame is its payload.                                            *)
LEMMA FramePayload ==
  /\ \A m \in Msg : DataFrame(m) \in Frame /\ DataFrame(m).k = "data" /\ DataFrame(m).m = m
  /\ \A f \in Frame : f.k = "data" => f.m \in Msg /\ f = DataFrame(f.m)
BY DEF DataFrame, Frame, Data, Control

LEMMA AppendElems ==
  ASSUME NEW q \in Seq(Msg), NEW m \in Msg
  PROVE  /\ Elems(Append(q, m)) = Elems(q) \union {m}
         /\ Distinct(q) /\ m \notin Elems(q) => Distinct(Append(q, m))
<1>1. /\ Len(Append(q, m)) = Len(q) + 1 /\ Len(q) \in Nat
      /\ \A i \in 1..Len(q) : Append(q, m)[i] = q[i]
      /\ Append(q, m)[Len(q) + 1] = m
  OBVIOUS
<1>2. Elems(Append(q, m)) \subseteq Elems(q) \union {m}
  BY <1>1 DEF Elems
<1>3. Elems(q) \union {m} \subseteq Elems(Append(q, m))
  <2>1. \A i \in 1..Len(q) : i \in 1..Len(Append(q, m)) /\ q[i] = Append(q, m)[i]
    BY <1>1
  <2>2. Len(q) + 1 \in 1..Len(Append(q, m))
    BY <1>1
  <2> QED
    BY <1>1, <2>1, <2>2 DEF Elems
<1>4. ASSUME Distinct(q), m \notin Elems(q) PROVE Distinct(Append(q, m))
  <2> SUFFICES ASSUME NEW i \in 1..Len(Append(q, m)), NEW j \in 1..Len(Append(q, m)),
                      Append(q, m)[i] = Append(q, m)[j]
               PROVE  i = j
    BY DEF Distinct
  <2>1. \A l \in 1..Len(q) : Append(q, m)[l] # m
    BY <1>1, <1>4 DEF Elems
  <2>2. CASE i \in 1..Len(q) /\ j \in 1..Len(q)
    BY <1>1, <1>4, <2>2 DEF Distinct
  <2>3. CASE i \in 1..Len(q) /\ j \notin 1..Len(q)
    BY <1>1, <2>1, <2>3
  <2>4. CASE i \notin 1..Len(q) /\ j \in 1..Len(q)
    BY <1>1, <2>1, <2>4
  <2>5. CASE i \notin 1..Len(q) /\ j \notin 1..Len(q)
    BY <1>1, <2>5
  <2> QED
    BY <2>2, <2>3, <2>4, <2>5
<1> QED
  BY <1>2, <1>3, <1>4

LEMMA TailPlaces ==
  ASSUME NEW S, NEW q \in Seq(S), q # <<>>
  PROVE  /\ Tail(q) \in Seq(S) /\ Head(q) = q[1] /\ Len(q) \in Nat \ {0}
         /\ Len(Tail(q)) = Len(q) - 1
         /\ \A i \in 1..Len(Tail(q)) : Tail(q)[i] = q[i + 1] /\ i + 1 \in 2..Len(q)
         /\ Elems(q) = Elems(Tail(q)) \union {Head(q)}
<1>1. /\ Tail(q) \in Seq(S) /\ Head(q) = q[1] /\ Len(q) \in Nat \ {0}
      /\ Len(Tail(q)) = Len(q) - 1
  OBVIOUS
<1>2. \A i \in 1..Len(Tail(q)) : Tail(q)[i] = q[i + 1] /\ i + 1 \in 2..Len(q)
  BY <1>1
<1>3. Elems(Tail(q)) \union {Head(q)} \subseteq Elems(q)
  BY <1>1, <1>2 DEF Elems
<1>4. Elems(q) \subseteq Elems(Tail(q)) \union {Head(q)}
  <2> SUFFICES ASSUME NEW i \in 1..Len(q), i # 1
               PROVE  q[i] \in Elems(Tail(q))
    BY <1>1 DEF Elems
  <2>1. i - 1 \in 1..Len(Tail(q)) /\ q[i] = Tail(q)[i - 1]
    BY <1>1
  <2> QED
    BY <2>1 DEF Elems
<1> QED
  BY <1>1, <1>2, <1>3, <1>4

LEMMA TailDistinct ==
  ASSUME NEW q \in Seq(Msg), q # <<>>, Distinct(q)
  PROVE  Distinct(Tail(q)) /\ Elems(Tail(q)) = Elems(q) \ {Head(q)}
<1>1. /\ Head(q) = q[1] /\ Len(q) \in Nat \ {0}
      /\ \A i \in 1..Len(Tail(q)) : Tail(q)[i] = q[i + 1] /\ i + 1 \in 2..Len(q)
      /\ Elems(q) = Elems(Tail(q)) \union {Head(q)}
  BY TailPlaces
<1>2. Head(q) \notin Elems(Tail(q))
  <2>1. \A i \in 2..Len(q) : i \in 1..Len(q) /\ q[i] # q[1]
    BY <1>1 DEF Distinct
  <2> QED
    BY <1>1, <2>1 DEF Elems
<1>3. Distinct(Tail(q))
  <2> SUFFICES ASSUME NEW i \in 1..Len(Tail(q)), NEW j \in 1..Len(Tail(q)),
                      Tail(q)[i] = Tail(q)[j]
               PROVE  i = j
    BY DEF Distinct
  <2>1. q[i + 1] = q[j + 1] /\ i + 1 \in 1..Len(q) /\ j + 1 \in 1..Len(q)
    BY <1>1
  <2>2. i + 1 = j + 1
    BY <2>1 DEF Distinct
  <2> QED
    BY <2>2
<1> QED
  BY <1>1, <1>2, <1>3

(* The same of a wire: a control frame taken off it moves no payload.      *)
LEMMA TailData ==
  ASSUME NEW q \in Seq(Frame), q # <<>>, DistinctData(q)
  PROVE  /\ DistinctData(Tail(q))
         /\ Head(q).k # "data" => DataOf(Tail(q)) = DataOf(q)
         /\ Head(q).k = "data" => /\ Head(q).m \in DataOf(q)
                                  /\ DataOf(Tail(q)) = DataOf(q) \ {Head(q).m}
<1>1. /\ Tail(q) \in Seq(Frame) /\ Head(q) = q[1] /\ Len(q) \in Nat \ {0}
      /\ \A i \in 1..Len(Tail(q)) : Tail(q)[i] = q[i + 1] /\ i + 1 \in 2..Len(q)
      /\ Elems(q) = Elems(Tail(q)) \union {Head(q)}
  BY TailPlaces
<1>2. DistinctData(Tail(q))
  <2> SUFFICES ASSUME NEW i \in 1..Len(Tail(q)), NEW j \in 1..Len(Tail(q)),
                      Tail(q)[i].k = "data", Tail(q)[i] = Tail(q)[j]
               PROVE  i = j
    BY DEF DistinctData
  <2>1. /\ q[i + 1].k = "data" /\ q[i + 1] = q[j + 1]
        /\ i + 1 \in 1..Len(q) /\ j + 1 \in 1..Len(q)
    BY <1>1
  <2>2. i + 1 = j + 1
    BY <2>1 DEF DistinctData
  <2> QED
    BY <2>2
<1>3. ASSUME Head(q).k # "data" PROVE DataOf(Tail(q)) = DataOf(q)
  <2>1. \A m \in Msg : DataFrame(m) # Head(q)
    BY <1>3, FramePayload
  <2> QED
    BY <1>1, <2>1 DEF DataOf
<1>4. ASSUME Head(q).k = "data"
      PROVE  Head(q).m \in DataOf(q) /\ DataOf(Tail(q)) = DataOf(q) \ {Head(q).m}
  <2>1. Head(q) \in Frame
    BY <1>1
  <2>2. Head(q).m \in Msg /\ Head(q) = DataFrame(Head(q).m)
    BY <1>4, <2>1, FramePayload
  <2>3. \A i \in 2..Len(q) : i \in 1..Len(q) /\ q[1] # q[i]
    BY <1>1, <1>4 DEF DistinctData
  <2>4. Head(q) \notin Elems(Tail(q))
    BY <1>1, <2>3 DEF Elems
  <2>5. \A m \in Msg : DataFrame(m) = Head(q) <=> m = Head(q).m
    BY <2>2, FramePayload
  <2> QED
    BY <1>1, <2>2, <2>4, <2>5 DEF DataOf
<1> QED
  BY <1>2, <1>3, <1>4

LEMMA CatData ==
  ASSUME NEW q \in Seq(Frame), NEW fs \in Seq(Frame)
  PROVE  /\ DataOf(q \o fs) = DataOf(q) \union DataOf(fs)
         /\ DistinctData(q) /\ DistinctData(fs) /\ DataOf(q) \intersect DataOf(fs) = {}
              => DistinctData(q \o fs)
<1>1. /\ q \o fs \in Seq(Frame) /\ Len(q \o fs) = Len(q) + Len(fs)
      /\ Len(q) \in Nat /\ Len(fs) \in Nat
      /\ \A i \in 1..Len(q) : (q \o fs)[i] = q[i]
      /\ \A i \in 1..Len(q \o fs) : i \notin 1..Len(q) =>
           i - Len(q) \in 1..Len(fs) /\ (q \o fs)[i] = fs[i - Len(q)]
  OBVIOUS
<1>2. Elems(q \o fs) = Elems(q) \union Elems(fs)
  <2>1. Elems(q \o fs) \subseteq Elems(q) \union Elems(fs)
    BY <1>1 DEF Elems
  <2>2. \A i \in 1..Len(q) : i \in 1..Len(q \o fs) /\ q[i] = (q \o fs)[i]
    BY <1>1
  <2>3. \A i \in 1..Len(fs) : i + Len(q) \in 1..Len(q \o fs) /\ fs[i] = (q \o fs)[i + Len(q)]
    BY <1>1
  <2>4. Elems(q) \union Elems(fs) \subseteq Elems(q \o fs)
    BY <2>2, <2>3 DEF Elems
  <2> QED
    BY <2>1, <2>4
<1>3. DataOf(q \o fs) = DataOf(q) \union DataOf(fs)
  BY <1>2 DEF DataOf
<1>4. ASSUME DistinctData(q), DistinctData(fs), DataOf(q) \intersect DataOf(fs) = {}
      PROVE  DistinctData(q \o fs)
  <2> SUFFICES ASSUME NEW i \in 1..Len(q \o fs), NEW j \in 1..Len(q \o fs),
                      (q \o fs)[i].k = "data", (q \o fs)[i] = (q \o fs)[j]
               PROVE  i = j
    BY DEF DistinctData
  <2> DEFINE f == (q \o fs)[i]
  <2>1. f \in Frame
    BY <1>1
  <2>2. f.m \in Msg /\ f = DataFrame(f.m)
    BY <2>1, FramePayload
  <2>3. ~(f \in Elems(q) /\ f \in Elems(fs))
    BY <1>4, <2>2 DEF DataOf
  <2>4. CASE i \in 1..Len(q) /\ j \in 1..Len(q)
    BY <1>1, <1>4, <2>4 DEF DistinctData
  <2>5. CASE i \in 1..Len(q) /\ j \notin 1..Len(q)
    BY <1>1, <2>3, <2>5 DEF Elems
  <2>6. CASE i \notin 1..Len(q) /\ j \in 1..Len(q)
    BY <1>1, <2>3, <2>6 DEF Elems
  <2>7. CASE i \notin 1..Len(q) /\ j \notin 1..Len(q)
    <3>1. /\ i - Len(q) \in 1..Len(fs) /\ j - Len(q) \in 1..Len(fs)
          /\ fs[i - Len(q)].k = "data" /\ fs[i - Len(q)] = fs[j - Len(q)]
      BY <1>1, <2>7
    <3>2. i - Len(q) = j - Len(q)
      BY <1>4, <3>1 DEF DistinctData
    <3> QED
      BY <1>1, <3>2
  <2> QED
    BY <2>4, <2>5, <2>6, <2>7
<1> QED
  BY <1>3, <1>4

LEMMA DataFramesData ==
  ASSUME NEW ms \in Seq(Msg)
  PROVE  /\ DataOf(DataFrames(ms)) = Elems(ms)
         /\ Distinct(ms) => DistinctData(DataFrames(ms))
<1>1. Len(DataFrames(ms)) = Len(ms) /\ \A i \in 1..Len(ms) : DataFrames(ms)[i] = DataFrame(ms[i])
  BY DataFramesType DEF DataFrames
<1>2. \A i \in 1..Len(ms) : ms[i] \in Msg
  OBVIOUS
<1>3. DataOf(DataFrames(ms)) = Elems(ms)
  BY <1>1, <1>2, FramePayload DEF DataOf, Elems
<1>4. Distinct(ms) => DistinctData(DataFrames(ms))
  BY <1>1, <1>2, FramePayload DEF Distinct, DistinctData
<1> QED
  BY <1>3, <1>4

(* A control frame carries no payload, a single data frame one.            *)
LEMMA OneFrame ==
  ASSUME NEW f \in Frame
  PROVE  /\ DistinctData(<<f>>)
         /\ f.k # "data" => DataOf(<<f>>) = {}
         /\ f.k = "data" => DataOf(<<f>>) = {f.m}
<1>1. Len(<<f>>) = 1 /\ <<f>>[1] = f
  OBVIOUS
<1>2. Elems(<<f>>) = {f}
  BY <1>1 DEF Elems
<1>3. DistinctData(<<f>>)
  BY <1>1 DEF DistinctData
<1>4. f.k # "data" => DataOf(<<f>>) = {}
  BY <1>2, FramePayload DEF DataOf
<1>5. f.k = "data" => DataOf(<<f>>) = {f.m}
  BY <1>2, FramePayload DEF DataOf
<1> QED
  BY <1>3, <1>4, <1>5

LEMMA NoFrames == DataOf(<<>>) = {} /\ DistinctData(<<>>) /\ Distinct(<<>>) /\ Elems(<<>>) = {}
<1>1. Len(<<>>) = 0
  OBVIOUS
<1> QED
  BY <1>1 DEF DataOf, DistinctData, Distinct, Elems

-----------------------------------------------------------------------------
(***************************************************************************)
(* Where the payloads of h are: on a wire to the other side, waiting there *)
(* for the proof, or taken by its dispatcher.  Each is in one place.       *)
(***************************************************************************)
Flying(h, s) == DataOf(wire[s][Other(h)])
Waiting(h, s) == IF dialer[s] = h THEN Elems(deferred[s]) ELSE {}
Arrived(h) == Elems(delivered[Other(h)])

OnePlace(h) ==
  /\ \A m \in Msg, s \in Sock, t \in Sock :
       /\ m \in Flying(h, s) /\ m \in Flying(h, t) => s = t
       /\ m \in Waiting(h, s) /\ m \in Waiting(h, t) => s = t
       /\ ~(m \in Flying(h, s) /\ m \in Waiting(h, t))
  /\ \A s \in Sock : Flying(h, s) \union Waiting(h, s) \subseteq put[h] \ Arrived(h)
  /\ Arrived(h) \subseteq put[h]
  /\ Distinct(delivered[Other(h)])

(* No payload is twice on one wire or in one queue.                        *)
Once ==
  \A s \in Sock : Distinct(deferred[s]) /\ \A h \in Hosts : DistinctData(wire[s][h])

PlaceInv == Once /\ \A h \in Hosts : OnePlace(h)

(* What a step can do to the payloads of h: nothing, ...                   *)
Kept0(h) ==
  /\ hold'[h] = hold[h] /\ asked'[h] = asked[h] /\ put'[h] = put[h]
  /\ delivered'[Other(h)] = delivered[Other(h)]
Still(h) ==
  /\ Kept0(h)
  /\ \A s \in Sock : Flying(h, s)' = Flying(h, s) /\ Waiting(h, s)' = Waiting(h, s)
(* ... lose some that are on their way, ...                                *)
Drops(h) ==
  /\ Kept0(h)
  /\ \A s \in Sock :
       Flying(h, s)' \subseteq Flying(h, s) /\ Waiting(h, s)' \subseteq Waiting(h, s)
(* ... move one from a wire to the queue behind it, ...                    *)
DefersOn(h, s, m) ==
  /\ Kept0(h)
  /\ m \in Flying(h, s)
  /\ Flying(h, s)' = Flying(h, s) \ {m}
  /\ Waiting(h, s)' = Waiting(h, s) \union {m}
  /\ \A t \in Sock : t # s =>
       Flying(h, t)' = Flying(h, t) /\ Waiting(h, t)' = Waiting(h, t)
Defers(h) == \E s \in Sock, m \in Msg : DefersOn(h, s, m)
(* ... hand one to the dispatcher, ...                                     *)
ArrivesFrom(h, s, m) ==
  /\ hold'[h] = hold[h] /\ asked'[h] = asked[h] /\ put'[h] = put[h]
  /\ m \in Flying(h, s) \union Waiting(h, s)
  /\ delivered'[Other(h)] = Append(delivered[Other(h)], m)
  /\ Flying(h, s)' = Flying(h, s) \ {m}
  /\ Waiting(h, s)' = Waiting(h, s) \ {m}
  /\ \A t \in Sock : t # s =>
       Flying(h, t)' = Flying(h, t) /\ Waiting(h, t)' = Waiting(h, t)
Arrives(h) == \E s \in Sock, m \in Msg : ArrivesFrom(h, s, m)
(* ... take the next one, to hold it or to put it on a wire, ...           *)
HoldsNext(h) ==
  /\ hold'[h] \in {hold[h], Append(hold[h], asked[h] + 1)} /\ put'[h] = put[h]
  /\ \A s \in Sock : Flying(h, s)' = Flying(h, s)
SendsNext(h) ==
  /\ hold[h] = <<>> /\ hold'[h] = hold[h] /\ put'[h] = put[h] \union {asked[h] + 1}
  /\ \E s \in Sock :
       /\ Flying(h, s)' \in {Flying(h, s), Flying(h, s) \union {asked[h] + 1}}
       /\ \A t \in Sock : t # s => Flying(h, t)' = Flying(h, t)
Writes(h) ==
  /\ asked[h] + 1 \in Msg /\ asked'[h] = asked[h] + 1
  /\ delivered'[Other(h)] = delivered[Other(h)]
  /\ \A s \in Sock : Waiting(h, s)' = Waiting(h, s)
  /\ HoldsNext(h) \/ SendsNext(h)
(* ... or flush the hold to a wire.                                        *)
Flushed(h, q, k) ==
  /\ \A i, j \in 1..Len(q) : i < j => q[i] < q[j]
  /\ \A i \in 1..Len(q) : q[i] \in Elems(hold[h])
  /\ put'[h] = put[h] \union {q[i] : i \in 1..k}
  /\ hold'[h] = StillHeld(q, k)
  /\ \E s \in Sock :
       /\ Flying(h, s)' \in {Flying(h, s), Flying(h, s) \union {q[i] : i \in 1..k}}
       /\ \A t \in Sock : t # s => Flying(h, t)' = Flying(h, t)
Releases(h) ==
  /\ asked'[h] = asked[h] /\ delivered'[Other(h)] = delivered[Other(h)]
  /\ \A s \in Sock : Waiting(h, s)' = Waiting(h, s)
  /\ \E q \in Seq(Msg) : \E k \in 0..Len(q) : Flushed(h, q, k)

Moves(h) == Drops(h) \/ Defers(h) \/ Arrives(h) \/ Writes(h) \/ Releases(h)

LEMMA PlaceTypes ==
  ASSUME TypeOK, NEW h \in Hosts
  PROVE  /\ \A s \in Sock : Flying(h, s) \subseteq Msg /\ Waiting(h, s) \subseteq Msg
         /\ \A s \in Sock, x \in Hosts : wire[s][x] \in Seq(Frame)
         /\ \A s \in Sock : deferred[s] \in Seq(Msg)
         /\ \A x \in Hosts : delivered[x] \in Seq(Msg) /\ hold[x] \in Seq(Msg)
         /\ asked[h] \in Nat /\ Arrived(h) \subseteq Msg /\ put[h] \subseteq Msg
<1>1. \A s \in Sock : deferred[s] \in Seq(Msg)
  BY DEF TypeOK
<1>2. \A x \in Hosts : delivered[x] \in Seq(Msg) /\ hold[x] \in Seq(Msg) /\ put[x] \subseteq Msg
  BY DEF TypeOK
<1>3. asked[h] \in Nat
  BY BoundsAreNat DEF TypeOK
<1>4. \A s \in Sock, x \in Hosts : wire[s][x] \in Seq(Frame)
  BY DEF TypeOK
<1>5. Other(h) \in Hosts
  BY OtherHost
<1> QED
  BY <1>1, <1>2, <1>3, <1>4, <1>5 DEF Flying, Waiting, Arrived, DataOf, Elems

(* Whatever moves, each payload of h stays in one place.                   *)
LEMMA MovesKeep ==
  ASSUME TypeOK, OrderInv, NEW h \in Hosts, OnePlace(h), Still(h) \/ Moves(h)
  PROVE  OnePlace(h)'
<1>t. /\ \A s \in Sock : Flying(h, s) \subseteq Msg /\ Waiting(h, s) \subseteq Msg
      /\ delivered[Other(h)] \in Seq(Msg)
      /\ hold[h] \in Seq(Msg) /\ asked[h] \in Nat
      /\ \A n \in put[h] : n \in Msg /\ n <= asked[h]
      /\ Arrived(h)' = Elems(delivered'[Other(h)])
  BY PlaceTypes, OtherHost DEF OrderInv, HoldOrdered, Arrived
<1>p. /\ \A m \in Msg, s \in Sock, t \in Sock :
           /\ m \in Flying(h, s) /\ m \in Flying(h, t) => s = t
           /\ m \in Waiting(h, s) /\ m \in Waiting(h, t) => s = t
           /\ ~(m \in Flying(h, s) /\ m \in Waiting(h, t))
      /\ \A s \in Sock : Flying(h, s) \union Waiting(h, s) \subseteq put[h] \ Arrived(h)
      /\ Arrived(h) \subseteq put[h]
      /\ Distinct(delivered[Other(h)])
  BY DEF OnePlace
<1>q. ASSUME \A m \in Msg, s \in Sock, t \in Sock :
               /\ m \in Flying(h, s)' /\ m \in Flying(h, t)' => s = t
               /\ m \in Waiting(h, s)' /\ m \in Waiting(h, t)' => s = t
               /\ ~(m \in Flying(h, s)' /\ m \in Waiting(h, t)'),
             \A s \in Sock : Flying(h, s)' \union Waiting(h, s)' \subseteq put'[h] \ Arrived(h)',
             Arrived(h)' \subseteq put'[h],
             Distinct(delivered'[Other(h)])
      PROVE  OnePlace(h)'
  BY <1>q DEF OnePlace
<1>s. ASSUME Kept0(h) PROVE Arrived(h)' = Arrived(h) /\ Distinct(delivered'[Other(h)])
  BY <1>p, <1>s DEF Kept0, Arrived
<1>1. CASE Still(h) \/ Drops(h)
  <2>1. Kept0(h) /\ \A s \in Sock : Flying(h, s)' \subseteq Flying(h, s)
                                 /\ Waiting(h, s)' \subseteq Waiting(h, s)
    BY <1>1 DEF Still, Drops
  <2>2. put'[h] = put[h]
    BY <2>1 DEF Kept0
  <2> HIDE DEF Flying, Waiting, Arrived
  <2> QED
    BY <1>p, <1>q, <1>s, <2>1, <2>2
<1>2. CASE Defers(h)
  <2>1. PICK s \in Sock, m \in Msg : DefersOn(h, s, m)
    BY <1>2 DEF Defers
  <2>2. /\ Kept0(h)
        /\ m \in Flying(h, s)
        /\ Flying(h, s)' = Flying(h, s) \ {m}
        /\ Waiting(h, s)' = Waiting(h, s) \union {m}
        /\ \A t \in Sock : t # s =>
             Flying(h, t)' = Flying(h, t) /\ Waiting(h, t)' = Waiting(h, t)
    BY <2>1 DEF DefersOn
  <2>3. put'[h] = put[h]
    BY <2>2 DEF Kept0
  <2> HIDE DEF Flying, Waiting, Arrived
  <2>4. /\ \A t \in Sock : Flying(h, t)' \subseteq Flying(h, t) /\ m \notin Flying(h, t)'
        /\ \A t \in Sock : Waiting(h, t)' \subseteq Waiting(h, t) \union {m}
        /\ \A t \in Sock : m \in Waiting(h, t)' => t = s
    BY <1>p, <2>2
  <2> QED
    BY <1>p, <1>q, <1>s, <2>2, <2>3, <2>4
<1>3. CASE Arrives(h)
  <2>1. PICK s \in Sock, m \in Msg : ArrivesFrom(h, s, m)
    BY <1>3 DEF Arrives
  <2>2. /\ put'[h] = put[h]
        /\ m \in Flying(h, s) \union Waiting(h, s)
        /\ delivered'[Other(h)] = Append(delivered[Other(h)], m)
        /\ Flying(h, s)' = Flying(h, s) \ {m}
        /\ Waiting(h, s)' = Waiting(h, s) \ {m}
        /\ \A t \in Sock : t # s =>
             Flying(h, t)' = Flying(h, t) /\ Waiting(h, t)' = Waiting(h, t)
    BY <2>1 DEF ArrivesFrom
  <2>3. m \in put[h] /\ m \notin Elems(delivered[Other(h)])
    BY <1>p, <2>2 DEF Arrived
  <2>4. Arrived(h)' = Arrived(h) \union {m} /\ Distinct(delivered'[Other(h)])
    BY <1>t, <1>p, <2>2, <2>3, AppendElems DEF Arrived
  <2> HIDE DEF Flying, Waiting, Arrived
  <2>5. \A t \in Sock : /\ Flying(h, t)' \subseteq Flying(h, t) \ {m}
                        /\ Waiting(h, t)' \subseteq Waiting(h, t) \ {m}
    BY <1>p, <2>2
  <2> QED
    BY <1>p, <1>q, <2>2, <2>3, <2>4, <2>5
<1>w. ASSUME NEW A, \A n \in A : n \in Msg /\ n \notin put[h],
             NEW s \in Sock, Flying(h, s)' \subseteq Flying(h, s) \union A,
             \A t \in Sock : t # s => Flying(h, t)' \subseteq Flying(h, t),
             \A t \in Sock : Waiting(h, t)' = Waiting(h, t),
             delivered'[Other(h)] = delivered[Other(h)],
             put'[h] = put[h] \union A
      PROVE  OnePlace(h)'
  <2>1. Arrived(h)' = Arrived(h) /\ Distinct(delivered'[Other(h)])
    BY <1>p, <1>w DEF Arrived
  <2> HIDE DEF Flying, Waiting, Arrived
  <2>2. \A t \in Sock : \A n \in Flying(h, t)' : n \in Flying(h, t) \/ (t = s /\ n \in A)
    BY <1>w
  <2>3. \A n \in A, t \in Sock : n \notin Flying(h, t) /\ n \notin Waiting(h, t) /\ n \notin Arrived(h)
    BY <1>p, <1>w
  <2> QED
    BY <1>p, <1>q, <1>w, <2>1, <2>2, <2>3
<1>4. CASE Writes(h)
  <2>1. /\ asked[h] + 1 \in Msg
        /\ delivered'[Other(h)] = delivered[Other(h)]
        /\ \A s \in Sock : Waiting(h, s)' = Waiting(h, s)
    BY <1>4 DEF Writes
  <2>2. CASE HoldsNext(h)
    <3>1. put'[h] = put[h] /\ \A s \in Sock : Flying(h, s)' = Flying(h, s)
      BY <2>2 DEF HoldsNext
    <3>2. Arrived(h)' = Arrived(h) /\ Distinct(delivered'[Other(h)])
      BY <1>p, <2>1 DEF Arrived
    <3> HIDE DEF Flying, Waiting, Arrived
    <3> QED
      BY <1>p, <1>q, <2>1, <3>1, <3>2
  <2>3. CASE SendsNext(h)
    <3>1. PICK s \in Sock :
            /\ Flying(h, s)' \in {Flying(h, s), Flying(h, s) \union {asked[h] + 1}}
            /\ \A t \in Sock : t # s => Flying(h, t)' = Flying(h, t)
      BY <2>3 DEF SendsNext
    <3>2. asked[h] + 1 \notin put[h]
      BY <1>t DEF Msg
    <3>3. put'[h] = put[h] \union {asked[h] + 1}
      BY <2>3 DEF SendsNext
    <3> HIDE DEF Flying, Waiting, Arrived
    <3> DEFINE A == {asked[h] + 1}
    <3>4. \A n \in A : n \in Msg /\ n \notin put[h]
      BY <2>1, <3>2
    <3>5. /\ put'[h] = put[h] \union A
          /\ Flying(h, s)' \subseteq Flying(h, s) \union A
          /\ \A t \in Sock : t # s => Flying(h, t)' \subseteq Flying(h, t)
      BY <3>1, <3>3
    <3> HIDE DEF A
    <3> QED
      BY <1>w, <2>1, <3>4, <3>5
  <2> QED
    BY <1>4, <2>2, <2>3 DEF Writes
<1>5. CASE Releases(h)
  <2>1. PICK q \in Seq(Msg) : \E k \in 0..Len(q) : Flushed(h, q, k)
    BY <1>5 DEF Releases
  <2>2. PICK k \in 0..Len(q) : Flushed(h, q, k)
    BY <2>1
  <2> DEFINE A == {q[i] : i \in 1..k}
  <2>3. \A n \in A : n \in Msg /\ n \notin put[h]
    <3>1. \A i \in 1..k : i \in 1..Len(q) /\ q[i] \in Msg
      BY <2>2
    <3>2. \A i \in 1..k : q[i] \in Elems(hold[h])
      BY <2>2, <3>1 DEF Flushed
    <3>3. \A n \in put[h], m \in Elems(hold[h]) : n < m
      BY DEF OrderInv, WrittenInOrder, Elems
    <3>4. \A n \in Msg : ~(n < n)
      BY DEF Msg
    <3> QED
      BY <3>1, <3>2, <3>3, <3>4
  <2>4. PICK s \in Sock :
          /\ Flying(h, s)' \in {Flying(h, s), Flying(h, s) \union A}
          /\ \A t \in Sock : t # s => Flying(h, t)' = Flying(h, t)
    BY <2>2 DEF Flushed
  <2>5. /\ put'[h] = put[h] \union A
        /\ delivered'[Other(h)] = delivered[Other(h)]
        /\ \A t \in Sock : Waiting(h, t)' = Waiting(h, t)
    BY <1>5, <2>2 DEF Flushed, Releases
  <2> HIDE DEF A, Flying, Waiting, Arrived
  <2>6. /\ Flying(h, s)' \subseteq Flying(h, s) \union A
        /\ \A t \in Sock : t # s => Flying(h, t)' \subseteq Flying(h, t)
    BY <2>4
  <2> QED
    BY <1>w, <2>3, <2>5, <2>6
<1> QED
  BY <1>1, <1>2, <1>3, <1>4, <1>5 DEF Moves

-----------------------------------------------------------------------------
(***************************************************************************)
(* What a step does to a wire, told of the payloads.                       *)
(***************************************************************************)
WireType == [Sock -> [Hosts -> Seq(Frame)]]

(* h writes the frames fs on s.                                            *)
LEMMA SendPlaces ==
  ASSUME NEW h \in Hosts, NEW s \in Sock, NEW w \in WireType, NEW fs \in Seq(Frame),
         \A t \in Sock, x \in Hosts : DistinctData(w[t][x]),
         DistinctData(fs), DataOf(w[s][Other(h)]) \intersect DataOf(fs) = {},
         wire' = Carry(w, s, h, fs)
  PROVE  /\ \A t \in Sock, x \in Hosts : DistinctData(wire'[t][x])
         /\ DataOf(wire'[s][Other(h)]) \in
              {DataOf(w[s][Other(h)]), DataOf(w[s][Other(h)]) \union DataOf(fs)}
         /\ \A t \in Sock, x \in Hosts : (t # s \/ x # Other(h)) =>
              DataOf(wire'[t][x]) = DataOf(w[t][x])
<1>1. Other(h) \in Hosts
  BY OtherHost
<1>2. /\ \A t \in Sock, x \in Hosts : (t # s \/ x # Other(h)) => wire'[t][x] = w[t][x]
      /\ \/ wire'[s][Other(h)] = w[s][Other(h)]
         \/ wire'[s][Other(h)] = w[s][Other(h)] \o fs
  BY <1>1 DEF Carry, WireType
<1>3. w[s][Other(h)] \in Seq(Frame)
  BY <1>1 DEF WireType
<1>4. /\ DistinctData(wire'[s][Other(h)])
      /\ DataOf(wire'[s][Other(h)]) \in
           {DataOf(w[s][Other(h)]), DataOf(w[s][Other(h)]) \union DataOf(fs)}
  BY <1>1, <1>2, <1>3, CatData
<1> QED
  BY <1>2, <1>4

(* Frames without a payload move none.                                     *)
LEMMA NoneSent ==
  ASSUME NEW h \in Hosts, NEW s \in Sock, NEW w \in WireType, NEW fs \in Seq(Frame),
         \A t \in Sock, x \in Hosts : DistinctData(w[t][x]),
         DistinctData(fs), DataOf(fs) = {}, wire' = Carry(w, s, h, fs)
  PROVE  \A t \in Sock, x \in Hosts :
           DistinctData(wire'[t][x]) /\ DataOf(wire'[t][x]) = DataOf(w[t][x])
<1>1. DataOf(w[s][Other(h)]) \intersect DataOf(fs) = {}
  OBVIOUS
<1>2. \A t \in Sock, x \in Hosts : DistinctData(wire'[t][x])
  BY <1>1, SendPlaces
<1>3. DataOf(wire'[s][Other(h)]) = DataOf(w[s][Other(h)])
  <2>1. DataOf(wire'[s][Other(h)]) \in
          {DataOf(w[s][Other(h)]), DataOf(w[s][Other(h)]) \union DataOf(fs)}
    BY <1>1, SendPlaces
  <2> QED
    BY <2>1
<1>4. \A t \in Sock, x \in Hosts : (t # s \/ x # Other(h)) =>
        DataOf(wire'[t][x]) = DataOf(w[t][x])
  BY <1>1, SendPlaces
<1> QED
  BY <1>2, <1>3, <1>4

LEMMA ControlSent ==
  ASSUME NEW h \in Hosts, NEW s \in Sock, NEW w \in WireType, NEW f \in {Challenge, Proof},
         \A t \in Sock, x \in Hosts : DistinctData(w[t][x]),
         wire' = Carry(w, s, h, <<f>>)
  PROVE  \A t \in Sock, x \in Hosts :
           DistinctData(wire'[t][x]) /\ DataOf(wire'[t][x]) = DataOf(w[t][x])
<1>1. f \in Frame /\ f.k # "data"
  BY DEF Challenge, Proof, Frame, Control
<1>2. <<f>> \in Seq(Frame) /\ DistinctData(<<f>>) /\ DataOf(<<f>>) = {}
  BY <1>1, OneFrame
<1>3. PICK fs \in Seq(Frame) : fs = <<f>>
  BY <1>2
<1> QED
  BY <1>2, <1>3, NoneSent

(* A reader takes a control frame.                                         *)
LEMMA RestControl ==
  ASSUME TypeOK, Once, NEW h \in Hosts, NEW s \in Sock, NEW k, k # "data", Next1(s, h, k)
  PROVE  /\ Rest(s, h) \in WireType
         /\ \A t \in Sock, x \in Hosts :
              DistinctData(Rest(s, h)[t][x]) /\ DataOf(Rest(s, h)[t][x]) = DataOf(wire[t][x])
<1>1. wire[s][h] \in Seq(Frame) /\ wire[s][h] # <<>> /\ Head(wire[s][h]).k # "data"
  BY DEF Next1, TypeOK
<1>2. Rest(s, h) \in WireType
  BY <1>1, RestType DEF WireType
<1>3. /\ Rest(s, h)[s][h] = Tail(wire[s][h])
      /\ \A t \in Sock, x \in Hosts : (t # s \/ x # h) => Rest(s, h)[t][x] = wire[t][x]
  BY DEF Rest, TypeOK
<1>4. DistinctData(wire[s][h])
  BY DEF Once
<1>5. DistinctData(Tail(wire[s][h])) /\ DataOf(Tail(wire[s][h])) = DataOf(wire[s][h])
  BY <1>1, <1>4, TailData
<1> QED
  BY <1>2, <1>3, <1>5 DEF Once

(* A reader takes a payload.                                               *)
LEMMA RestPayload ==
  ASSUME TypeOK, Once, NEW h \in Hosts, NEW s \in Sock, Next1(s, h, "data"),
         wire' = Rest(s, h)
  PROVE  /\ Head(wire[s][h]).m \in DataOf(wire[s][h]) /\ Head(wire[s][h]).m \in Msg
         /\ DataOf(wire'[s][h]) = DataOf(wire[s][h]) \ {Head(wire[s][h]).m}
         /\ \A t \in Sock, x \in Hosts : (t # s \/ x # h) => DataOf(wire'[t][x]) = DataOf(wire[t][x])
         /\ \A t \in Sock, x \in Hosts : DistinctData(wire'[t][x])
<1>1. wire[s][h] \in Seq(Frame) /\ wire[s][h] # <<>> /\ Head(wire[s][h]).k = "data"
  BY DEF Next1, TypeOK
<1>2. /\ wire'[s][h] = Tail(wire[s][h])
      /\ \A t \in Sock, x \in Hosts : (t # s \/ x # h) => wire'[t][x] = wire[t][x]
  BY DEF Rest, TypeOK
<1>3. DistinctData(wire[s][h])
  BY DEF Once
<1>4. /\ DistinctData(Tail(wire[s][h]))
      /\ Head(wire[s][h]).m \in DataOf(wire[s][h])
      /\ DataOf(Tail(wire[s][h])) = DataOf(wire[s][h]) \ {Head(wire[s][h]).m}
  BY <1>1, <1>3, TailData
<1>5. \A t \in Sock, x \in Hosts : DistinctData(wire'[t][x])
  BY <1>2, <1>4 DEF Once
<1>6. Head(wire[s][h]).m \in Msg
  BY <1>4 DEF DataOf
<1> QED
  BY <1>2, <1>4, <1>5, <1>6

(* What was unread at h's end of s is lost.                                *)
LEMMA WireCleared ==
  ASSUME TypeOK, Once, NEW h \in Hosts, NEW s \in Sock, NEW f \in {<<>>, <<Identity>>},
         wire' = [wire EXCEPT ![s][h] = f]
  PROVE  /\ DataOf(wire'[s][h]) = {}
         /\ \A t \in Sock, x \in Hosts : (t # s \/ x # h) => DataOf(wire'[t][x]) = DataOf(wire[t][x])
         /\ \A t \in Sock, x \in Hosts : DistinctData(wire'[t][x])
<1>1. /\ wire'[s][h] = f
      /\ \A t \in Sock, x \in Hosts : (t # s \/ x # h) => wire'[t][x] = wire[t][x]
  BY DEF TypeOK
<1>2. Identity \in Frame /\ Identity.k # "data"
  BY DEF Identity, Frame, Control
<1>3. DataOf(f) = {} /\ DistinctData(f)
  BY <1>2, NoFrames, OneFrame
<1> QED
  BY <1>1, <1>3 DEF Once

-----------------------------------------------------------------------------
(***************************************************************************)
(* Every step moves the payloads of one host at most.                      *)
(***************************************************************************)
OneMoves ==
  \/ \A h \in Hosts : Still(h)
  \/ \E h \in Hosts : Moves(h) /\ \A x \in Hosts : x # h => Still(x)

LEMMA NothingMoves ==
  ASSUME Once, UNCHANGED <<hold, asked, put, delivered, dialer, deferred>>,
         \A t \in Sock, x \in Hosts :
           DistinctData(wire'[t][x]) /\ DataOf(wire'[t][x]) = DataOf(wire[t][x])
  PROVE  Once' /\ OneMoves
<1>1. \A x \in Hosts : Other(x) \in Hosts
  BY OtherHost
<1>2. \A x \in Hosts, t \in Sock : Waiting(x, t)' = Waiting(x, t) /\ Flying(x, t)' = Flying(x, t)
  BY <1>1 DEF Waiting, Flying
<1> QED
  BY <1>2 DEF Once, OneMoves, Still, Kept0

LEMMA WireSame ==
  ASSUME Once, UNCHANGED <<hold, asked, put, delivered, dialer, deferred, wire>>
  PROVE  Once' /\ OneMoves
<1>1. \A t \in Sock, x \in Hosts :
        DistinctData(wire'[t][x]) /\ DataOf(wire'[t][x]) = DataOf(wire[t][x])
  BY DEF Once
<1> QED
  BY <1>1, NothingMoves

LEMMA WriteMoves ==
  ASSUME TypeOK, SlotInv, OrderInv, PlaceInv, NEW h \in Hosts, Write(h)
  PROVE  Once' /\ OneMoves
<1> DEFINE m == asked[h] + 1
<1>1. m \in Msg /\ m \notin put[h] /\ asked' = [asked EXCEPT ![h] = @ + 1]
  <2>1. asked[h] < Quota[h] /\ asked' = [asked EXCEPT ![h] = @ + 1]
    BY DEF Write
  <2>2. asked[h] \in 0..MaxMsg /\ Quota[h] \in 0..MaxMsg /\ MaxMsg \in Nat
    BY QuotaType, BoundsAreNat DEF TypeOK, Hosts
  <2>3. \A n \in put[h] : n <= asked[h]
    BY DEF OrderInv, HoldOrdered
  <2> QED
    BY <2>1, <2>2, <2>3 DEF Msg
<1>2. UNCHANGED <<dialer, deferred, delivered>>
  BY DEF Write
<1>3. /\ asked'[h] = m
      /\ \A x \in Hosts : x # h => asked'[x] = asked[x]
      /\ \A x \in Hosts, t \in Sock : Waiting(x, t)' = Waiting(x, t)
  BY <1>1, <1>2 DEF TypeOK, Waiting
<1>4. CASE HoldBack(h, m)
  <2>1. /\ UNCHANGED <<put, wire>>
        /\ hold'[h] \in {hold[h], Append(hold[h], m)}
        /\ \A x \in Hosts : x # h => hold'[x] = hold[x]
    BY <1>4 DEF HoldBack, TypeOK
  <2>2. Once' /\ \A x \in Hosts, t \in Sock : Flying(x, t)' = Flying(x, t)
    BY <1>2, <2>1 DEF PlaceInv, Once, Flying
  <2>3. Moves(h)
    BY <1>1, <1>2, <1>3, <2>1, <2>2 DEF Moves, Writes, HoldsNext
  <2>4. \A x \in Hosts : x # h => Still(x)
    BY <1>2, <1>3, <2>1, <2>2 DEF Still, Kept0
  <2> QED
    BY <2>2, <2>3, <2>4 DEF OneMoves
<1>5. CASE WriteSent(h, m)
  <2> DEFINE fs == <<DataFrame(m)>>
  <2>s. PICK s \in Sock : s = slot[h]
    BY <1>5 DEF WriteSent, TypeOK
  <2>1. /\ slot[h] = s /\ end[s][h] = "open" /\ UNCHANGED hold
        /\ wire' = Carry(wire, s, h, fs)
        /\ put'[h] = put[h] \union {m}
        /\ \A x \in Hosts : x # h => put'[x] = put[x]
    BY <1>5, <2>s DEF WriteSent, SendMaySucceed, TypeOK
  <2>2. hold[h] = <<>>
    BY <2>1 DEF SlotInv, HoldDrained, None, Sock
  <2>3. fs \in Seq(Frame) /\ DistinctData(fs) /\ DataOf(fs) = {m}
    BY <1>1, FramePayload, FrameTypes, OneFrame
  <2> HIDE DEF fs
  <2>4. DataOf(wire[s][Other(h)]) \intersect DataOf(fs) = {}
    BY <1>1, <2>1, <2>3 DEF PlaceInv, OnePlace, Flying
  <2>5. wire \in WireType /\ \A t \in Sock, x \in Hosts : DistinctData(wire[t][x])
    BY DEF TypeOK, WireType, PlaceInv, Once
  <2>6. /\ \A t \in Sock, x \in Hosts : DistinctData(wire'[t][x])
        /\ Flying(h, s)' \in {Flying(h, s), Flying(h, s) \union DataOf(fs)}
        /\ \A t \in Sock : t # s => Flying(h, t)' = Flying(h, t)
        /\ \A x \in Hosts, t \in Sock : x # h => Flying(x, t)' = Flying(x, t)
    <3>1. \A x \in Hosts : Other(x) \in Hosts /\ (x # h => Other(x) # Other(h))
      BY OtherHost DEF Other, Hosts
    <3>2. /\ \A t \in Sock, x \in Hosts : DistinctData(wire'[t][x])
          /\ DataOf(wire'[s][Other(h)]) \in
               {DataOf(wire[s][Other(h)]), DataOf(wire[s][Other(h)]) \union DataOf(fs)}
          /\ \A t \in Sock, x \in Hosts : (t # s \/ x # Other(h)) =>
               DataOf(wire'[t][x]) = DataOf(wire[t][x])
      BY <2>1, <2>3, <2>4, <2>5, SendPlaces
    <3> QED
      BY <3>1, <3>2 DEF Flying
  <2>7. Moves(h)
    <3>1. Flying(h, s)' \in {Flying(h, s), Flying(h, s) \union {asked[h] + 1}}
      BY <2>3, <2>6
    <3>2. SendsNext(h)
      BY <2>1, <2>2, <2>6, <3>1 DEF SendsNext
    <3> QED
      BY <1>1, <1>2, <1>3, <3>2 DEF Moves, Writes
  <2>8. \A x \in Hosts : x # h => Still(x)
    BY <1>2, <1>3, <2>1, <2>6 DEF Still, Kept0
  <2> QED
    BY <1>2, <2>6, <2>7, <2>8 DEF OneMoves, PlaceInv, Once
<1> QED
  BY <1>4, <1>5 DEF Write, WriteFailed, WriteNoSocket

LEMMA FlushMoves ==
  ASSUME TypeOK, OrderInv, PlaceInv, NEW h \in Hosts, NEW s \in Sock, NEW w \in WireType,
         \A t \in Sock, x \in Hosts :
           DistinctData(w[t][x]) /\ DataOf(w[t][x]) = DataOf(wire[t][x]),
         Adopt(h, s, w), UNCHANGED <<asked, delivered, dialer, deferred>>
  PROVE  Once' /\ OneMoves
<1>1. PICK q \in Seq(Msg) : \E k \in 0..Len(q) : Flushes(h, s, w, q, k)
  <2> HIDE DEF Adopt
  <2> QED
    BY AdoptMoves DEF OrderInv
<1>2. PICK k \in 0..Len(q) : Flushes(h, s, w, q, k)
  BY <1>1
<1> DEFINE ms == SubSeq(q, 1, k)
           A == {q[i] : i \in 1..k}
<1>3. /\ \A i, j \in 1..Len(q) : i < j => q[i] < q[j]
      /\ \A i \in 1..Len(q) : q[i] \in Elems(hold[h]) /\ q[i] \in Msg
      /\ ms \in Seq(Msg) /\ Len(ms) = k
      /\ \A i \in 1..k : ms[i] = q[i] /\ i \in 1..Len(q)
      /\ wire' = Carry(w, s, h, DataFrames(ms))
      /\ put' = [put EXCEPT ![h] = @ \union A]
      /\ hold' = [hold EXCEPT ![h] = StillHeld(q, k)]
  BY <1>2 DEF Flushes
<1> HIDE DEF ms
<1>4. Elems(ms) = A /\ Distinct(ms)
  <2>1. Elems(ms) = A
    BY <1>3 DEF Elems
  <2>2. \A i, j \in 1..k : i # j => ms[i] # ms[j]
    <3>1. \A i, j \in 1..k : i < j => ms[i] # ms[j]
      BY <1>3 DEF Msg
    <3> QED
      BY <3>1
  <2> QED
    BY <1>3, <2>1, <2>2 DEF Distinct
<1>5. PICK fs \in Seq(Frame) : fs = DataFrames(ms)
  BY <1>3, DataFramesType
<1>6. DistinctData(fs) /\ DataOf(fs) = A
  BY <1>3, <1>4, <1>5, DataFramesData
<1>7. A \intersect put[h] = {}
  <2>1. \A n \in put[h], m \in Elems(hold[h]) : n < m
    BY DEF OrderInv, WrittenInOrder, Elems
  <2>2. \A n \in Msg : ~(n < n)
    BY DEF Msg
  <2> QED
    BY <1>3, <2>1, <2>2
<1> HIDE DEF A
<1>8. Other(h) \in Hosts /\ \A x \in Hosts : Other(x) \in Hosts /\ (x # h => Other(x) # Other(h))
  BY OtherHost DEF Other, Hosts
<1>9. DataOf(w[s][Other(h)]) \intersect DataOf(fs) = {}
  <2>1. DataOf(w[s][Other(h)]) = Flying(h, s)
    BY <1>8 DEF Flying
  <2> QED
    BY <1>6, <1>7, <2>1 DEF PlaceInv, OnePlace
<1>10. \A t \in Sock, x \in Hosts : DistinctData(w[t][x])
  OBVIOUS
<1>11. wire' = Carry(w, s, h, fs)
  BY <1>3, <1>5
<1>12. /\ \A t \in Sock, x \in Hosts : DistinctData(wire'[t][x])
       /\ DataOf(wire'[s][Other(h)]) \in
            {DataOf(w[s][Other(h)]), DataOf(w[s][Other(h)]) \union DataOf(fs)}
  BY <1>6, <1>9, <1>10, <1>11, SendPlaces
<1>13. \A t \in Sock, x \in Hosts : (t # s \/ x # Other(h)) =>
         DataOf(wire'[t][x]) = DataOf(w[t][x])
  BY ONLY h \in Hosts, s \in Sock, w \in WireType, <1>6, <1>9, <1>10, <1>11, SendPlaces
<1>14. /\ Flying(h, s)' \in {Flying(h, s), Flying(h, s) \union A}
       /\ \A t \in Sock : t # s => Flying(h, t)' = Flying(h, t)
       /\ \A x \in Hosts, t \in Sock : x # h => Flying(x, t)' = Flying(x, t)
  BY <1>6, <1>8, <1>12, <1>13 DEF Flying
<1>15. \A x \in Hosts, t \in Sock : Waiting(x, t)' = Waiting(x, t)
  BY DEF Waiting
<1>16. /\ put'[h] = put[h] \union A /\ hold'[h] = StillHeld(q, k)
       /\ \A x \in Hosts : x # h => put'[x] = put[x] /\ hold'[x] = hold[x]
  BY <1>3 DEF TypeOK
<1>17. Flushed(h, q, k)
  <2>1. \E t \in Sock :
       /\ Flying(h, t)' \in {Flying(h, t), Flying(h, t) \union {q[i] : i \in 1..k}}
       /\ \A u \in Sock : u # t => Flying(h, u)' = Flying(h, u)
    BY <1>14 DEF A
  <2> QED
    BY <1>3, <1>16, <2>1 DEF Flushed, A
<1>18. Moves(h)
  BY <1>15, <1>17 DEF Moves, Releases
<1>19. \A x \in Hosts : x # h => Still(x)
  BY <1>14, <1>15, <1>16 DEF Still, Kept0
<1> QED
  BY <1>12, <1>18, <1>19 DEF OneMoves, PlaceInv, Once

(* A step that only takes payloads of the other side away.                 *)
LEMMA OnlyDrops ==
  ASSUME UNCHANGED <<hold, asked, put, delivered>>, NEW h \in Hosts,
         \A t \in Sock : Flying(h, t)' \subseteq Flying(h, t)
                      /\ Waiting(h, t)' \subseteq Waiting(h, t),
         \A x \in Hosts, t \in Sock : x # h =>
            Flying(x, t)' = Flying(x, t) /\ Waiting(x, t)' = Waiting(x, t)
  PROVE  OneMoves
<1>1. Drops(h)
  BY DEF Drops, Kept0
<1>2. \A x \in Hosts : x # h => Still(x)
  BY DEF Still, Kept0
<1> QED
  BY <1>1, <1>2 DEF OneMoves, Moves

LEMMA DialConnectMoves ==
  ASSUME TypeOK, DialerInv, PlaceInv, NEW h \in Hosts, DialConnect(h)
  PROVE  Once' /\ OneMoves
<1>1. PICK s \in Sock :
        /\ Free(s)
        /\ dialer' = [dialer EXCEPT ![s] = h]
        /\ wire' = [wire EXCEPT ![s][Other(h)] = <<Identity>>]
  BY DEF DialConnect
<1>2. UNCHANGED <<hold, asked, put, delivered, deferred>>
  BY DEF DialConnect, connVars
<1>3. deferred[s] = <<>>
  BY <1>1 DEF DialerInv, DeferredOwned, Free, Inbound
<1>4. \A x \in Hosts, t \in Sock : Waiting(x, t)' = Waiting(x, t)
  <2> SUFFICES ASSUME NEW x \in Hosts, NEW t \in Sock
               PROVE  Waiting(x, t)' = Waiting(x, t)
    OBVIOUS
  <2>1. CASE t = s
    BY <1>2, <1>3, <2>1, NoFrames DEF Waiting
  <2>2. CASE t # s
    BY <1>1, <1>2, <2>2 DEF Waiting, TypeOK
  <2> QED
    BY <2>1, <2>2
<1>5. Other(h) \in Hosts /\ \A x \in Hosts : Other(x) \in Hosts /\ (x # h => Other(x) # Other(h))
  BY OtherHost DEF Other, Hosts
<1>6. /\ DataOf(wire'[s][Other(h)]) = {}
      /\ \A t \in Sock, x \in Hosts : (t # s \/ x # Other(h)) =>
           DataOf(wire'[t][x]) = DataOf(wire[t][x])
      /\ \A t \in Sock, x \in Hosts : DistinctData(wire'[t][x])
  BY <1>1, <1>5, WireCleared DEF PlaceInv
<1>7. /\ \A t \in Sock : Flying(h, t)' \subseteq Flying(h, t)
      /\ \A x \in Hosts, t \in Sock : x # h => Flying(x, t)' = Flying(x, t)
  BY <1>5, <1>6 DEF Flying
<1>8. OneMoves
  BY <1>2, <1>4, <1>7, OnlyDrops
<1> QED
  BY <1>2, <1>6, <1>8 DEF PlaceInv, Once

(* h loses what it had not read on s, and what was deferred there if s was *)
(* dialed by the other side.                                               *)
LEMMA EndMoves ==
  ASSUME TypeOK, PlaceInv, NEW h \in Hosts, NEW s \in Sock,
         UNCHANGED <<hold, asked, put, delivered, dialer>>,
         wire' = [wire EXCEPT ![s][h] = <<>>],
         \/ deferred' = deferred
         \/ dialer[s] # h /\ deferred' = [deferred EXCEPT ![s] = <<>>]
  PROVE  Once' /\ OneMoves
<1>1. /\ Other(h) \in Hosts /\ Other(h) # h /\ Other(Other(h)) = h
      /\ \A x \in Hosts : x # Other(h) => x = h
  BY OtherHost DEF Other, Hosts
<1>2. /\ DataOf(wire'[s][h]) = {}
      /\ \A t \in Sock, x \in Hosts : (t # s \/ x # h) =>
           DataOf(wire'[t][x]) = DataOf(wire[t][x])
      /\ \A t \in Sock, x \in Hosts : DistinctData(wire'[t][x])
  BY WireCleared DEF PlaceInv
<1>3. \A t \in Sock : /\ deferred'[t] = deferred[t] \/ deferred'[t] = <<>>
                      /\ dialer[t] = h => deferred'[t] = deferred[t]
  BY DEF TypeOK
<1>4. /\ \A t \in Sock : Waiting(h, t)' = Waiting(h, t)
      /\ \A t \in Sock : Waiting(Other(h), t)' \subseteq Waiting(Other(h), t)
  BY <1>3, NoFrames DEF Waiting
<1>5. /\ \A t \in Sock : Flying(h, t)' = Flying(h, t)
      /\ \A t \in Sock : Flying(Other(h), t)' \subseteq Flying(Other(h), t)
  BY <1>1, <1>2 DEF Flying
<1>6. PICK p \in Hosts : p = Other(h)
  BY <1>1
<1>7. OneMoves
  <2>1. Drops(p)
    BY <1>4, <1>5, <1>6 DEF Drops, Kept0
  <2>2. \A x \in Hosts : x # p => Still(x)
    BY <1>1, <1>4, <1>5, <1>6 DEF Still, Kept0
  <2> QED
    BY <2>1, <2>2 DEF OneMoves, Moves
<1> QED
  BY <1>2, <1>3, <1>7, NoFrames DEF PlaceInv, Once

LEMMA EarlyMoves ==
  ASSUME TypeOK, DialerInv, PlaceInv, NEW h \in Hosts, NEW s \in Sock, ReadEarly(h, s)
  PROVE  Once' /\ OneMoves
<1> DEFINE m == Head(wire[s][h]).m
<1>1. /\ Other(h) \in Hosts /\ Other(h) # h /\ Other(Other(h)) = h
      /\ \A x \in Hosts : x # Other(h) => x = h
  BY OtherHost DEF Other, Hosts
<1>2. /\ m \in DataOf(wire[s][h]) /\ m \in Msg
      /\ DataOf(wire'[s][h]) = DataOf(wire[s][h]) \ {m}
      /\ \A t \in Sock, x \in Hosts : (t # s \/ x # h) => DataOf(wire'[t][x]) = DataOf(wire[t][x])
      /\ \A t \in Sock, x \in Hosts : DistinctData(wire'[t][x])
  BY RestPayload DEF ReadEarly, PlaceInv
<1>3. /\ UNCHANGED <<hold, asked, put, delivered, dialer>>
      /\ deferred' = [deferred EXCEPT ![s] = Append(@, m)]
      /\ dialer[s] = Other(h)
  BY DEF ReadEarly, connVars, DialerInv, ReaderDialer, Inbound
<1> HIDE DEF m
<1>4. PICK p \in Hosts : p = Other(h)
  BY <1>1
<1>5. m \in Flying(p, s) /\ m \notin Waiting(p, s)
  BY <1>1, <1>2, <1>4 DEF Flying, PlaceInv, OnePlace
<1>6. m \notin Elems(deferred[s])
  BY <1>3, <1>4, <1>5 DEF Waiting
<1>7. deferred[s] \in Seq(Msg) /\ Distinct(deferred[s])
  BY DEF TypeOK, PlaceInv, Once
<1>8. /\ Elems(deferred'[s]) = Elems(deferred[s]) \union {m}
      /\ Distinct(deferred'[s])
      /\ \A t \in Sock : t # s => deferred'[t] = deferred[t]
  <2>1. deferred'[s] = Append(deferred[s], m)
    BY <1>3 DEF TypeOK
  <2>2. \A t \in Sock : t # s => deferred'[t] = deferred[t]
    BY <1>3 DEF TypeOK
  <2> QED
    BY <1>2, <1>6, <1>7, <2>1, <2>2, AppendElems
<1>9. DefersOn(p, s, m)
  BY <1>1, <1>2, <1>3, <1>4, <1>5, <1>8 DEF DefersOn, Kept0, Flying, Waiting
<1>10. Still(h)
  BY <1>1, <1>2, <1>3, <1>8 DEF Still, Kept0, Flying, Waiting
<1>11. OneMoves
  BY <1>1, <1>2, <1>4, <1>9, <1>10 DEF OneMoves, Moves, Defers
<1> QED
  BY <1>2, <1>8, <1>11 DEF PlaceInv, Once

(* h's dispatcher takes m from s, or refuses it while h is offline.        *)
LEMMA TakeMoves ==
  ASSUME TypeOK, PlaceInv, NEW h \in Hosts, NEW s \in Sock, NEW m \in Msg,
         Dispatch(h, m), UNCHANGED <<hold, asked, put>>,
         m \in Flying(Other(h), s) \union Waiting(Other(h), s),
         \A t \in Sock : Flying(h, t)' = Flying(h, t) /\ Waiting(h, t)' = Waiting(h, t),
         NEW p \in Hosts, p = Other(h),
         Flying(p, s)' = Flying(p, s) \ {m},
         Waiting(p, s)' = Waiting(p, s) \ {m},
         \A t \in Sock : t # s => Flying(p, t)' = Flying(p, t) /\ Waiting(p, t)' = Waiting(p, t)
  PROVE  OneMoves
<1>1. h = Other(p) /\ p # h /\ \A x \in Hosts : x # p => x = h
  BY OtherHost DEF Other, Hosts
<1>2. \/ delivered' = delivered
      \/ delivered' = [delivered EXCEPT ![h] = Append(@, m)]
  BY DEF Dispatch
<1>3. delivered'[Other(h)] = delivered[Other(h)]
  BY <1>1, <1>2 DEF TypeOK
<1>4. Still(h)
  BY <1>3 DEF Still, Kept0
<1>5. Drops(p) \/ Arrives(p)
  <2>1. CASE delivered' = delivered
    BY <2>1 DEF Drops, Kept0
  <2>2. CASE delivered' = [delivered EXCEPT ![h] = Append(@, m)]
    <3>1. delivered'[Other(p)] = Append(delivered[Other(p)], m)
      BY <1>1, <2>2 DEF TypeOK
    <3>2. ArrivesFrom(p, s, m)
      BY <3>1 DEF ArrivesFrom
    <3> QED
      BY <3>2 DEF Arrives
  <2> QED
    BY <1>2, <2>1, <2>2
<1> QED
  BY <1>1, <1>4, <1>5 DEF OneMoves, Moves

LEMMA DeferredMoves ==
  ASSUME TypeOK, DialerInv, PlaceInv, NEW h \in Hosts, NEW s \in Sock, ReadDeferred(h, s)
  PROVE  Once' /\ OneMoves
<1> DEFINE m == Head(deferred[s])
<1>1. Other(h) \in Hosts /\ Other(h) # h
  BY OtherHost
<1>2. PICK p \in Hosts : p = Other(h)
  BY <1>1
<1>3. /\ UNCHANGED <<hold, asked, put, dialer, wire>>
      /\ deferred[s] # <<>> /\ Dispatch(h, m)
      /\ deferred' = [deferred EXCEPT ![s] = Tail(@)]
      /\ dialer[s] = Other(h)
  BY DEF ReadDeferred, connVars, DialerInv, ReaderDialer, Inbound
<1>4. deferred[s] \in Seq(Msg) /\ Distinct(deferred[s])
  BY DEF TypeOK, PlaceInv, Once
<1>5. m \in Msg /\ m \in Elems(deferred[s])
  BY <1>3, <1>4, TailPlaces
<1>6. /\ Elems(deferred'[s]) = Elems(deferred[s]) \ {m}
      /\ Distinct(deferred'[s])
      /\ \A t \in Sock : t # s => deferred'[t] = deferred[t]
  <2>1. deferred'[s] = Tail(deferred[s]) /\ \A t \in Sock : t # s => deferred'[t] = deferred[t]
    BY <1>3 DEF TypeOK
  <2> QED
    BY <1>3, <1>4, <2>1, TailDistinct
<1> HIDE DEF m
<1>7. \A x \in Hosts, t \in Sock : Flying(x, t)' = Flying(x, t)
  BY <1>3 DEF Flying
<1>8. m \in Waiting(p, s) /\ m \notin Flying(p, s)
  BY <1>2, <1>3, <1>5 DEF Waiting, PlaceInv, OnePlace
<1>9. /\ \A t \in Sock : Waiting(h, t)' = Waiting(h, t)
      /\ Waiting(p, s)' = Waiting(p, s) \ {m}
      /\ \A t \in Sock : t # s => Waiting(p, t)' = Waiting(p, t)
  BY <1>1, <1>2, <1>3, <1>6 DEF Waiting
<1>10. Flying(p, s)' = Flying(p, s) \ {m}
  BY <1>7, <1>8
<1>11. OneMoves
  BY <1>2, <1>3, <1>5, <1>7, <1>8, <1>9, <1>10, TakeMoves
<1> QED
  BY <1>3, <1>6, <1>11 DEF PlaceInv, Once

LEMMA DataMoves ==
  ASSUME TypeOK, PlaceInv, NEW h \in Hosts, NEW s \in Sock, ReadData(h, s)
  PROVE  Once' /\ OneMoves
<1> DEFINE m == Head(wire[s][h]).m
<1>1. Other(h) \in Hosts /\ Other(h) # h /\ Other(Other(h)) = h
  BY OtherHost
<1>2. PICK p \in Hosts : p = Other(h)
  BY <1>1
<1>3. UNCHANGED <<hold, asked, put, dialer, deferred>> /\ Dispatch(h, m)
  BY DEF ReadData, connVars
<1>4. /\ m \in DataOf(wire[s][h]) /\ m \in Msg
      /\ DataOf(wire'[s][h]) = DataOf(wire[s][h]) \ {m}
      /\ \A t \in Sock, x \in Hosts : (t # s \/ x # h) => DataOf(wire'[t][x]) = DataOf(wire[t][x])
      /\ \A t \in Sock, x \in Hosts : DistinctData(wire'[t][x])
  BY RestPayload DEF ReadData, PlaceInv
<1> HIDE DEF m
<1>5. /\ m \in Flying(p, s)
      /\ Flying(p, s)' = Flying(p, s) \ {m}
      /\ \A t \in Sock : t # s => Flying(p, t)' = Flying(p, t)
      /\ \A t \in Sock : Flying(h, t)' = Flying(h, t)
  BY <1>1, <1>2, <1>4 DEF Flying
<1>6. \A x \in Hosts, t \in Sock : Waiting(x, t)' = Waiting(x, t)
  BY <1>3 DEF Waiting
<1>7. m \notin Waiting(p, s)
  BY <1>4, <1>5 DEF PlaceInv, OnePlace
<1>8. Waiting(p, s)' = Waiting(p, s) \ {m}
  BY <1>6, <1>7
<1>9. OneMoves
  BY <1>2, <1>3, <1>4, <1>5, <1>6, <1>8, TakeMoves
<1> QED
  BY <1>3, <1>4, <1>9 DEF PlaceInv, Once

LEMMA StepMoves ==
  TypeOK /\ SlotInv /\ OrderInv /\ DialerInv /\ PlaceInv /\ [Next]_vars => Once' /\ OneMoves
<1> SUFFICES ASSUME TypeOK, SlotInv, OrderInv, DialerInv, PlaceInv, [Next]_vars
             PROVE  Once' /\ OneMoves
  OBVIOUS
<1>o. Once /\ wire \in WireType
      /\ \A t \in Sock, x \in Hosts :
           DistinctData(wire[t][x]) /\ DataOf(wire[t][x]) = DataOf(wire[t][x])
  BY DEF PlaceInv, Once, TypeOK, WireType
<1>1. ASSUME NEW h \in Hosts, Write(h) PROVE Once' /\ OneMoves
  BY <1>1, WriteMoves
<1>2. ASSUME NEW h \in Hosts, DialStart(h) \/ DialFail(h) PROVE Once' /\ OneMoves
  BY <1>2, <1>o, WireSame DEF DialStart, DialFail, connVars, sockVars
<1>3. ASSUME NEW h \in Hosts, DialConnect(h) PROVE Once' /\ OneMoves
  BY <1>3, DialConnectMoves
<1>4. ASSUME NEW h \in Hosts, DialAdopt(h) PROVE Once' /\ OneMoves
  <2>1. PICK s \in Sock : s = fresh[h]
    BY <1>4 DEF DialAdopt, TypeOK
  <2>2. Adopt(h, s, wire) /\ UNCHANGED <<asked, delivered, dialer, deferred>>
    BY <1>4, <2>1 DEF DialAdopt
  <2> HIDE DEF Adopt
  <2> QED
    BY <1>o, <2>2, FlushMoves
<1>5. ASSUME NEW h \in Hosts, DialDiscard(h) PROVE Once' /\ OneMoves
  <2>1. PICK s \in Sock : s = fresh[h]
    BY <1>5 DEF DialDiscard, TypeOK
  <2>2. /\ UNCHANGED <<hold, asked, put, delivered, dialer, deferred>>
        /\ wire' = [wire EXCEPT ![s][h] = <<>>]
    BY <1>5, <2>1 DEF DialDiscard, connVars
  <2> QED
    BY <2>2, EndMoves
<1>6. ASSUME NEW h \in Hosts, NEW s \in Sock, Read(h, s) \/ ReaderBreaks(h, s)
      PROVE  Once' /\ OneMoves
  <2>1. CASE ReadIdentity(h, s)
    <3>1. /\ Rest(s, h) \in WireType
          /\ \A t \in Sock, x \in Hosts :
               DistinctData(Rest(s, h)[t][x]) /\ DataOf(Rest(s, h)[t][x]) = DataOf(wire[t][x])
      BY <1>o, <2>1, RestControl DEF ReadIdentity
    <3>2. /\ UNCHANGED <<hold, asked, put, delivered, dialer, deferred>>
          /\ wire' = Carry(Rest(s, h), s, h, <<Challenge>>)
      BY <2>1 DEF ReadIdentity, connVars
    <3>3. \A t \in Sock, x \in Hosts :
            DistinctData(wire'[t][x]) /\ DataOf(wire'[t][x]) = DataOf(Rest(s, h)[t][x])
      BY <3>1, <3>2, ControlSent
    <3> QED
      BY <1>o, <3>1, <3>2, <3>3, NothingMoves
  <2>2. CASE ReadChallenge(h, s)
    <3>1. /\ Rest(s, h) \in WireType
          /\ \A t \in Sock, x \in Hosts :
               DistinctData(Rest(s, h)[t][x]) /\ DataOf(Rest(s, h)[t][x]) = DataOf(wire[t][x])
      BY <1>o, <2>2, RestControl DEF ReadChallenge
    <3>2. /\ UNCHANGED <<hold, asked, put, delivered, dialer, deferred>>
          /\ wire' = Rest(s, h) \/ wire' = Carry(Rest(s, h), s, h, <<Proof>>)
      BY <2>2 DEF ReadChallenge, connVars
    <3>3. \A t \in Sock, x \in Hosts :
            DistinctData(wire'[t][x]) /\ DataOf(wire'[t][x]) = DataOf(Rest(s, h)[t][x])
      BY <3>1, <3>2, ControlSent
    <3> QED
      BY <1>o, <3>1, <3>2, <3>3, NothingMoves
  <2>3. CASE ReadProof(h, s)
    <3>1. /\ Rest(s, h) \in WireType
          /\ \A t \in Sock, x \in Hosts :
               DistinctData(Rest(s, h)[t][x]) /\ DataOf(Rest(s, h)[t][x]) = DataOf(wire[t][x])
      BY <1>o, <2>3, RestControl DEF ReadProof
    <3>2. CASE Adopts(h, Other(h))
      <4>1. Adopt(h, s, Rest(s, h)) /\ UNCHANGED <<asked, delivered, dialer, deferred>>
        BY <2>3, <3>2 DEF ReadProof
      <4> HIDE DEF Adopt
      <4> QED
        BY <3>1, <4>1, FlushMoves
    <3>3. CASE ~Adopts(h, Other(h))
      <4>1. /\ UNCHANGED <<hold, asked, put, delivered, dialer, deferred>>
            /\ wire' = Rest(s, h)
        BY <2>3, <3>3 DEF ReadProof, connVars
      <4> QED
        BY <1>o, <3>1, <4>1, NothingMoves
    <3> QED
      BY <3>2, <3>3
  <2>4. CASE ReadEarly(h, s)
    BY <2>4, EarlyMoves
  <2>5. CASE ReadTooEarly(h, s)
    <3>1. /\ UNCHANGED <<hold, asked, put, delivered, dialer>>
          /\ wire' = [wire EXCEPT ![s][h] = <<>>]
          /\ deferred' = [deferred EXCEPT ![s] = <<>>]
      BY <2>5 DEF ReadTooEarly, connVars
    <3>2. dialer[s] # h
      BY <2>5, OtherHost DEF ReadTooEarly, DialerInv, ReaderDialer, Inbound
    <3> QED
      BY <3>1, <3>2, EndMoves
  <2>6. CASE ReadDeferred(h, s)
    BY <2>6, DeferredMoves
  <2>7. CASE ReadData(h, s)
    BY <2>7, DataMoves
  <2>8. CASE ReadEnd(h, s) \/ ReaderBreaks(h, s)
    <3>1. /\ UNCHANGED <<hold, asked, put, delivered, dialer>>
          /\ wire' = [wire EXCEPT ![s][h] = <<>>]
          /\ \/ deferred' = deferred
             \/ dialer[s] # h /\ deferred' = [deferred EXCEPT ![s] = <<>>]
      BY <2>8 DEF ReadEnd, ReaderBreaks, ReaderEnds
    <3> QED
      BY <3>1, EndMoves
  <2> QED
    BY <1>6, <2>1, <2>2, <2>3, <2>4, <2>5, <2>6, <2>7, <2>8 DEF Read
<1>7. ASSUME NEW s \in Sock, Cut(s) PROVE Once' /\ OneMoves
  BY <1>7, <1>o, WireSame DEF Cut, connVars, sockVars
<1>8. ASSUME NEW h \in Hosts, Expire(h) \/ GoOffline(h) \/ GoOnline(h) PROVE Once' /\ OneMoves
  BY <1>8, <1>o, WireSame DEF Expire, GoOffline, GoOnline, connVars, sockVars
<1>9. CASE UNCHANGED vars
  BY <1>9, <1>o, WireSame DEF vars
<1> QED
  BY <1>1, <1>2, <1>3, <1>4, <1>5, <1>6, <1>7, <1>8, <1>9 DEF Next, Dial

LEMMA PlaceStep ==
  TypeOK /\ SlotInv /\ OrderInv /\ DialerInv /\ PlaceInv /\ [Next]_vars => PlaceInv'
<1> SUFFICES ASSUME TypeOK, SlotInv, OrderInv, DialerInv, PlaceInv, [Next]_vars
             PROVE  PlaceInv'
  OBVIOUS
<1>1. Once' /\ OneMoves
  BY StepMoves
<1>2. ASSUME NEW h \in Hosts PROVE OnePlace(h)'
  <2>1. Still(h) \/ Moves(h)
    BY <1>1 DEF OneMoves
  <2>2. OnePlace(h)
    BY DEF PlaceInv
  <2> QED
    BY <2>1, <2>2, MovesKeep
<1> QED
  BY <1>1, <1>2 DEF PlaceInv

(* All that the delivery of payloads rests on.                             *)
DeliveryInv == TypeOK /\ SlotInv /\ OrderInv /\ DialerInv /\ PlaceInv

LEMMA DeliveryInvariant == Spec => []DeliveryInv
<1>1. Init => PlaceInv
  <2> SUFFICES ASSUME Init PROVE PlaceInv
    OBVIOUS
  <2>1. \A h \in Hosts : Other(h) \in Hosts
    BY OtherHost
  <2>2. /\ \A s \in Sock : deferred[s] = <<>> /\ \A h \in Hosts : wire[s][h] = <<>>
        /\ \A h \in Hosts : delivered[h] = <<>> /\ put[h] = {}
    BY DEF Init
  <2>3. Once
    BY <2>2, NoFrames DEF Once
  <2>4. \A h \in Hosts : /\ \A s \in Sock : Flying(h, s) = {} /\ Waiting(h, s) = {}
                         /\ Arrived(h) = {} /\ Distinct(delivered[Other(h)])
    BY <2>1, <2>2, NoFrames DEF Flying, Waiting, Arrived
  <2> QED
    BY <2>3, <2>4 DEF PlaceInv, OnePlace
<1>2. TypeOK /\ SlotInv /\ OrderInv /\ DialerInv /\ PlaceInv /\ [Next]_vars => PlaceInv'
  BY PlaceStep
<1>3. Init => OrderInv
  BY BoundsAreNat DEF Init, OrderInv, HoldOrdered, WrittenInOrder
<1>4. TypeOK /\ SlotInv /\ OrderInv /\ [Next]_vars => OrderInv'
  BY OrderStep
<1>5. TypeOK /\ SlotInv /\ OrderInv /\ DialerInv /\ PlaceInv => DeliveryInv
  BY DEF DeliveryInv
<1> QED
  BY <1>1, <1>2, <1>3, <1>4, <1>5, TypeCorrect, SlotInvariant, DialerInvariant, PTL DEF Spec

(* A payload reaches the other side's dispatcher at most once, however     *)
(* many sockets it was queued for, and only if it was written.             *)
THEOREM DeliveredOnce == Spec => []AtMostOnce
<1>1. DeliveryInv => AtMostOnce
  <2> SUFFICES ASSUME DeliveryInv, NEW h \in Hosts
               PROVE  /\ \A i, j \in 1..Len(delivered[h]) : delivered[h][i] = delivered[h][j] => i = j
                      /\ \A i \in 1..Len(delivered[h]) : delivered[h][i] \in put[Other(h)]
    BY DEF AtMostOnce
  <2>1. Other(h) \in Hosts /\ Other(Other(h)) = h
    BY OtherHost
  <2>2. OnePlace(Other(h))
    BY <2>1 DEF DeliveryInv, PlaceInv
  <2> QED
    BY <2>1, <2>2 DEF OnePlace, Distinct, Arrived, Elems
<1> QED
  BY <1>1, DeliveryInvariant, PTL

-----------------------------------------------------------------------------
(***************************************************************************)
(* The connection manager implements MessageLink: every step is a step of  *)
(* the abstract link for one host, or a stutter.                           *)
(***************************************************************************)
Stage == [h \in Hosts |-> [m \in Msg |-> StageOf(h, m)]]
Log == [h \in Hosts |-> delivered[Other(h)]]

(* The stage in terms of the places.                                       *)
Underway(h) == {m \in Msg : \E s \in Sock : m \in Flying(h, s) \union Waiting(h, s)}

LEMMA StagePlaces ==
  ASSUME NEW h \in Hosts, NEW m \in Msg
  PROVE  StageOf(h, m) = IF m > asked[h] THEN "new"
                         ELSE IF m \in Elems(hold[h]) THEN "held"
                         ELSE IF m \in Arrived(h) THEN "arrived"
                         ELSE IF m \in Underway(h) THEN "sent"
                         ELSE "gone"
<1>1. OnTheWay(h) = Underway(h)
  BY DEF OnTheWay, Underway, Flying, Waiting, DataOf
<1> QED
  BY <1>1 DEF StageOf, Arrived

LEMMA StagePlacesNext ==
  ASSUME NEW h \in Hosts, NEW m \in Msg
  PROVE  StageOf(h, m)' = IF m > asked'[h] THEN "new"
                          ELSE IF m \in Elems(hold'[h]) THEN "held"
                          ELSE IF m \in Arrived(h)' THEN "arrived"
                          ELSE IF m \in Underway(h)' THEN "sent"
                          ELSE "gone"
<1>1. OnTheWay(h)' = Underway(h)'
  BY DEF OnTheWay, Underway, Flying, Waiting, DataOf
<1> QED
  BY <1>1 DEF StageOf, Arrived

LEMMA StillStage ==
  ASSUME NEW h \in Hosts, Still(h), NEW m \in Msg
  PROVE  StageOf(h, m)' = StageOf(h, m)
<1>1. Underway(h)' = Underway(h) /\ Arrived(h)' = Arrived(h)
  BY DEF Still, Kept0, Underway, Arrived
<1> QED
  BY <1>1, StagePlaces, StagePlacesNext DEF Still, Kept0

(* Only h's payloads move.                                                 *)
LEMMA StageElsewhere ==
  ASSUME NEW h \in Hosts, \A x \in Hosts : x # h => Still(x)
  PROVE  /\ Stage' = [Stage EXCEPT ![h] = [m \in Msg |-> StageOf(h, m)']]
         /\ Log' = [Log EXCEPT ![h] = delivered'[Other(h)]]
<1>1. \A x \in Hosts, m \in Msg : x # h => StageOf(x, m)' = StageOf(x, m)
  BY StillStage
<1>2. \A x \in Hosts : x # h => delivered'[Other(x)] = delivered[Other(x)]
  BY DEF Still, Kept0
<1> QED
  BY <1>1, <1>2 DEF Stage, Log

LEMMA DropsRefines ==
  ASSUME NEW h \in Hosts, \A x \in Hosts : x # h => Still(x), Drops(h)
  PROVE  Link!Lose(h)
<1>1. /\ Stage' = [Stage EXCEPT ![h] = [m \in Msg |-> StageOf(h, m)']]
      /\ Log' = [Log EXCEPT ![h] = delivered'[Other(h)]]
  BY StageElsewhere
<1>2. Underway(h)' \subseteq Underway(h) /\ Arrived(h)' = Arrived(h)
      /\ asked'[h] = asked[h] /\ hold'[h] = hold[h]
      /\ delivered'[Other(h)] = delivered[Other(h)]
  BY DEF Drops, Kept0, Underway, Arrived
<1> DEFINE lost == {m \in Msg : StageOf(h, m) = "sent" /\ m \notin Underway(h)'}
<1>3. \A m \in Msg : StageOf(h, m)' = IF m \in lost THEN "gone" ELSE StageOf(h, m)
  BY <1>2, StagePlaces, StagePlacesNext
<1>4. lost \subseteq Link!At(h, "sent")
  BY DEF Link!At
<1>5. Stage' = [Stage EXCEPT ![h] = [m \in Msg |-> IF m \in lost THEN "gone" ELSE @[m]]]
  BY <1>1, <1>3 DEF Stage
<1>6. Log' = Log
  BY <1>1, <1>2 DEF Log
<1> HIDE DEF lost
<1> QED
  BY <1>4, <1>5, <1>6 DEF Link!Lose, Stage, Log

(* What the refinement needs of the invariant.                             *)
LEMMA PlacesApart ==
  ASSUME DeliveryInv, NEW h \in Hosts
  PROVE  /\ Underway(h) \subseteq put[h] \ Arrived(h) /\ Arrived(h) \subseteq put[h]
         /\ Elems(hold[h]) \intersect put[h] = {}
         /\ \A m \in put[h] \union Elems(hold[h]) : m \in Msg /\ m <= asked[h]
         /\ asked[h] \in Nat /\ hold[h] \in Seq(Msg) /\ delivered[Other(h)] \in Seq(Msg)
<1>1. Underway(h) \subseteq put[h] \ Arrived(h) /\ Arrived(h) \subseteq put[h]
  BY DEF DeliveryInv, PlaceInv, OnePlace, Underway
<1>2. /\ asked[h] \in Nat /\ hold[h] \in Seq(Msg) /\ delivered[Other(h)] \in Seq(Msg)
      /\ put[h] \subseteq Msg
  BY PlaceTypes, OtherHost DEF DeliveryInv
<1>3. \A m \in put[h], i \in 1..Len(hold[h]) : m < hold[h][i]
  BY DEF DeliveryInv, OrderInv, WrittenInOrder
<1>4. \A i \in 1..Len(hold[h]) : hold[h][i] \in Msg /\ hold[h][i] <= asked[h]
  BY <1>2 DEF DeliveryInv, OrderInv, HoldOrdered
<1>5. \A m \in put[h] : m \in Msg /\ m <= asked[h]
  BY <1>2 DEF DeliveryInv, OrderInv, HoldOrdered
<1>6. \A m \in Msg : ~(m < m)
  BY DEF Msg
<1> QED
  BY <1>1, <1>2, <1>3, <1>4, <1>5, <1>6 DEF Elems

(* Deferring a payload is not seen above.                                  *)
LEMMA DefersRefines ==
  ASSUME NEW h \in Hosts, \A x \in Hosts : x # h => Still(x), Defers(h)
  PROVE  Stage' = Stage /\ Log' = Log
<1>1. PICK s \in Sock : \E m \in Msg : DefersOn(h, s, m)
  BY DEF Defers
<1>2. PICK m \in Msg : DefersOn(h, s, m)
  BY <1>1
<1>3. Underway(h)' = Underway(h) /\ Arrived(h)' = Arrived(h)
      /\ asked'[h] = asked[h] /\ hold'[h] = hold[h]
      /\ delivered'[Other(h)] = delivered[Other(h)]
  BY <1>2 DEF DefersOn, Kept0, Underway, Arrived
<1>4. \A n \in Msg : StageOf(h, n)' = StageOf(h, n)
  BY <1>3, StagePlaces, StagePlacesNext
<1>5. \A x \in Hosts, n \in Msg : StageOf(x, n)' = StageOf(x, n)
  BY <1>4, StillStage
<1>6. \A x \in Hosts : delivered'[Other(x)] = delivered[Other(x)]
  BY <1>3 DEF Still, Kept0
<1> QED
  BY <1>5, <1>6 DEF Stage, Log

LEMMA ArrivesRefines ==
  ASSUME DeliveryInv, NEW h \in Hosts, \A x \in Hosts : x # h => Still(x), Arrives(h)
  PROVE  Link!Arrive(h)
<1>1. PICK s \in Sock : \E m \in Msg : ArrivesFrom(h, s, m)
  BY DEF Arrives
<1>2. PICK m \in Msg : ArrivesFrom(h, s, m)
  BY <1>1
<1>3. /\ Stage' = [Stage EXCEPT ![h] = [n \in Msg |-> StageOf(h, n)']]
      /\ Log' = [Log EXCEPT ![h] = delivered'[Other(h)]]
  BY StageElsewhere
<1>4. m \in Underway(h) /\ \A n \in Msg : n # m => (n \in Underway(h)' <=> n \in Underway(h))
  BY <1>2 DEF ArrivesFrom, Underway
<1>5. /\ asked'[h] = asked[h] /\ hold'[h] = hold[h]
      /\ delivered'[Other(h)] = Append(delivered[Other(h)], m)
  BY <1>2 DEF ArrivesFrom
<1>6. Arrived(h)' = Arrived(h) \union {m}
  BY <1>5, AppendElems, PlacesApart DEF Arrived
<1>7. /\ m \in put[h] /\ m \notin Elems(hold[h]) /\ m \notin Arrived(h)
      /\ ~(m > asked[h])
  BY <1>4, PlacesApart DEF Msg
<1>8. StageOf(h, m) = "sent" /\ StageOf(h, m)' = "arrived"
  BY <1>4, <1>5, <1>6, <1>7, StagePlaces, StagePlacesNext
<1>9. \A n \in Msg : n # m => StageOf(h, n)' = StageOf(h, n)
  BY <1>4, <1>5, <1>6, StagePlaces, StagePlacesNext
<1>10. m \in Link!At(h, "sent")
  BY <1>8 DEF Link!At
<1>11. Stage' = [Stage EXCEPT ![h][m] = "arrived"]
  BY <1>3, <1>8, <1>9 DEF Stage
<1>12. Log' = [Log EXCEPT ![h] = Append(@, m)]
  BY <1>3, <1>5 DEF Log
<1> QED
  BY <1>10, <1>11, <1>12 DEF Link!Arrive, Stage, Log

LEMMA WritesRefines ==
  ASSUME DeliveryInv, NEW h \in Hosts, \A x \in Hosts : x # h => Still(x), Writes(h)
  PROVE  Link!Accept(h)
<1>1. PICK m \in Msg : m = asked[h] + 1 /\ asked'[h] = m
  BY DEF Writes
<1>2. /\ Stage' = [Stage EXCEPT ![h] = [n \in Msg |-> StageOf(h, n)']]
      /\ Log' = [Log EXCEPT ![h] = delivered'[Other(h)]]
  BY StageElsewhere
<1>3. /\ delivered'[Other(h)] = delivered[Other(h)] /\ Arrived(h)' = Arrived(h)
      /\ \A s \in Sock : Waiting(h, s)' = Waiting(h, s)
  BY DEF Writes, Arrived
<1>4. /\ \A n \in Msg : n # m => (n > asked'[h] <=> n > asked[h])
      /\ m > asked[h] /\ ~(m > asked'[h])
      /\ \A n \in Msg : n > asked[h] => m <= n
  BY <1>1, PlacesApart DEF Msg
<1>5. m \notin put[h] /\ m \notin Elems(hold[h]) /\ m \notin Arrived(h) /\ m \notin Underway(h)
  BY <1>4, PlacesApart DEF Msg
<1>6. /\ \A n \in Msg : n # m => /\ n \in Elems(hold'[h]) <=> n \in Elems(hold[h])
                                 /\ n \in Underway(h)' <=> n \in Underway(h)
      /\ m \in Underway(h)' => hold[h] = <<>>
  <2>1. CASE HoldsNext(h)
    <3>1. Underway(h)' = Underway(h)
      BY <1>3, <2>1 DEF HoldsNext, Underway
    <3>2. Elems(hold'[h]) = Elems(hold[h]) \/ Elems(hold'[h]) = Elems(hold[h]) \union {m}
      BY <1>1, <2>1, AppendElems, PlacesApart DEF HoldsNext
    <3> QED
      BY <1>5, <3>1, <3>2
  <2>2. CASE SendsNext(h)
    <3>1. hold[h] = <<>> /\ hold'[h] = hold[h]
      BY <2>2 DEF SendsNext
    <3>2. PICK s \in Sock :
            /\ Flying(h, s)' \in {Flying(h, s), Flying(h, s) \union {m}}
            /\ \A t \in Sock : t # s => Flying(h, t)' = Flying(h, t)
      BY <1>1, <2>2 DEF SendsNext
    <3>3. \A n \in Msg : n # m => (n \in Underway(h)' <=> n \in Underway(h))
      BY <1>3, <3>2 DEF Underway
    <3> QED
      BY <3>1, <3>3
  <2> QED
    BY <2>1, <2>2 DEF Writes
<1>7. \A n \in Msg : n # m => StageOf(h, n)' = StageOf(h, n)
  BY <1>3, <1>4, <1>6, StagePlaces, StagePlacesNext
<1>8. /\ StageOf(h, m) = "new" /\ StageOf(h, m)' \in {"held", "sent", "gone"}
      /\ StageOf(h, m)' = "sent" => hold[h] = <<>>
  BY <1>3, <1>4, <1>5, <1>6, StagePlaces, StagePlacesNext
<1>9. m \in Link!At(h, "new")
  BY <1>8 DEF Link!At
<1>10. \A n \in Link!At(h, "new") : m <= n
  <2>1. \A n \in Msg : StageOf(h, n) = "new" => n > asked[h]
    BY StagePlaces
  <2> QED
    BY <1>4, <2>1 DEF Link!At
<1>11. StageOf(h, m)' = "sent" => Link!At(h, "held") = {}
  <2>1. hold[h] = <<>> => Elems(hold[h]) = {}
    BY DEF Elems
  <2>2. \A n \in Msg : StageOf(h, n) = "held" => n \in Elems(hold[h])
    BY StagePlaces
  <2> QED
    BY <1>8, <2>1, <2>2 DEF Link!At
<1>12. PICK to \in {"held", "sent", "gone"} : to = StageOf(h, m)'
  BY <1>8
<1>13. Stage' = [Stage EXCEPT ![h][m] = to]
  BY <1>2, <1>7, <1>12 DEF Stage
<1>14. Log' = Log
  BY <1>2, <1>3 DEF Log
<1> QED
  BY <1>9, <1>10, <1>11, <1>12, <1>13, <1>14 DEF Link!Accept, Stage, Log

LEMMA ReleasesRefines ==
  ASSUME DeliveryInv, NEW h \in Hosts, \A x \in Hosts : x # h => Still(x), Releases(h)
  PROVE  Link!Release(h)
<1>1. PICK q \in Seq(Msg) : \E k \in 0..Len(q) : Flushed(h, q, k)
  BY DEF Releases
<1>2. PICK k \in 0..Len(q) : Flushed(h, q, k)
  BY <1>1
<1>3. /\ Stage' = [Stage EXCEPT ![h] = [n \in Msg |-> StageOf(h, n)']]
      /\ Log' = [Log EXCEPT ![h] = delivered'[Other(h)]]
  BY StageElsewhere
<1>4. /\ delivered'[Other(h)] = delivered[Other(h)] /\ Arrived(h)' = Arrived(h)
      /\ asked'[h] = asked[h]
      /\ \A s \in Sock : Waiting(h, s)' = Waiting(h, s)
  BY DEF Releases, Arrived
<1>5. /\ \A i, j \in 1..Len(q) : i < j => q[i] < q[j]
      /\ \A i \in 1..Len(q) : q[i] \in Elems(hold[h])
      /\ hold'[h] = StillHeld(q, k)
  BY <1>2 DEF Flushed
<1>6. PICK s \in Sock :
        /\ Flying(h, s)' \in {Flying(h, s), Flying(h, s) \union {q[i] : i \in 1..k}}
        /\ \A t \in Sock : t # s => Flying(h, t)' = Flying(h, t)
  BY <1>2 DEF Flushed
<1> DEFINE written == {q[i] : i \in 1..k}
<1>7. /\ Underway(h) \subseteq Underway(h)'
      /\ Underway(h)' \subseteq Underway(h) \union written
  BY <1>4, <1>6 DEF Underway
<1>8. \A n \in Elems(hold'[h]) : k < Len(q) /\ n = q[k + 1]
  BY <1>5 DEF StillHeld, Elems
<1>9. written \subseteq Elems(hold[h])
      /\ \A n \in Elems(hold'[h]) : n \in Elems(hold[h]) /\ \A m \in written : m < n
  BY <1>5, <1>8
<1> HIDE DEF written
<1>10. \A n \in Msg : n \notin Elems(hold[h]) =>
         n \notin Elems(hold'[h]) /\ (n \in Underway(h)' <=> n \in Underway(h))
  BY <1>7, <1>9
<1>11. \A n \in Elems(hold[h]) : n \notin Arrived(h) /\ n \notin Underway(h) /\ n \in Msg /\ ~(n > asked[h])
  BY PlacesApart DEF Msg
<1> DEFINE sent == {n \in Elems(hold[h]) : n \notin Elems(hold'[h]) /\ n \in Underway(h)'}
           lost == {n \in Elems(hold[h]) : n \notin Elems(hold'[h]) /\ n \notin Underway(h)'}
<1>12. \A n \in Msg : StageOf(h, n) = "held" <=> n \in Elems(hold[h])
  BY <1>11, StagePlaces
<1>13. Link!At(h, "held") = Elems(hold[h])
  BY <1>11, <1>12 DEF Link!At
<1>14. \A n \in Msg : StageOf(h, n)' = IF n \in sent THEN "sent"
                                       ELSE IF n \in lost THEN "gone" ELSE StageOf(h, n)
  <2> SUFFICES ASSUME NEW n \in Msg
               PROVE  StageOf(h, n)' = IF n \in sent THEN "sent"
                                       ELSE IF n \in lost THEN "gone" ELSE StageOf(h, n)
    OBVIOUS
  <2>1. CASE n \in Elems(hold[h])
    BY <1>4, <1>11, <2>1, StagePlaces, StagePlacesNext
  <2>2. CASE n \notin Elems(hold[h])
    BY <1>4, <1>10, <2>2, StagePlaces, StagePlacesNext
  <2> QED
    BY <2>1, <2>2
<1>15. sent \subseteq written /\ sent \intersect lost = {}
  BY <1>7, <1>11
<1>16. \A m \in sent, n \in Elems(hold[h]) \ (sent \union lost) : m < n
  BY <1>9, <1>15
<1>17. sent \in SUBSET Elems(hold[h]) /\ lost \in SUBSET Elems(hold[h])
  OBVIOUS
<1> HIDE DEF sent, lost
<1>18. Stage' = [Stage EXCEPT ![h] = [n \in Msg |->
                   IF n \in sent THEN "sent" ELSE IF n \in lost THEN "gone" ELSE @[n]]]
  BY <1>3, <1>14 DEF Stage
<1>19. Log' = Log
  BY <1>3, <1>4 DEF Log
<1>20. /\ sent \in SUBSET Link!At(h, "held") /\ lost \in SUBSET Link!At(h, "held")
       /\ sent \intersect lost = {}
       /\ \A m \in sent, n \in Link!At(h, "held") \ (sent \union lost) : m < n
  BY <1>13, <1>15, <1>16, <1>17
<1> QED
  BY ONLY <1>18, <1>19, <1>20 DEF Link!Release, Stage, Log

LEMMA StepRefines == DeliveryInv /\ [Next]_vars => Link!LinkNext \/ (Stage' = Stage /\ Log' = Log)
<1> SUFFICES ASSUME DeliveryInv, [Next]_vars
             PROVE  Link!LinkNext \/ (Stage' = Stage /\ Log' = Log)
  OBVIOUS
<1>1. OneMoves
  BY StepMoves DEF DeliveryInv
<1>2. CASE \A x \in Hosts : Still(x)
  <2>1. \A x \in Hosts, m \in Msg : StageOf(x, m)' = StageOf(x, m)
    BY <1>2, StillStage
  <2>2. \A x \in Hosts : delivered'[Other(x)] = delivered[Other(x)]
    BY <1>2 DEF Still, Kept0
  <2> QED
    BY <2>1, <2>2 DEF Stage, Log
<1>3. ASSUME NEW h \in Hosts, \A x \in Hosts : x # h => Still(x), Moves(h)
      PROVE  Link!LinkNext \/ (Stage' = Stage /\ Log' = Log)
  <2>1. CASE Drops(h)
    BY <1>3, <2>1, DropsRefines DEF Link!LinkNext
  <2>2. CASE Defers(h)
    BY <1>3, <2>2, DefersRefines
  <2>3. CASE Arrives(h)
    BY <1>3, <2>3, ArrivesRefines DEF Link!LinkNext
  <2>4. CASE Writes(h)
    BY <1>3, <2>4, WritesRefines DEF Link!LinkNext
  <2>5. CASE Releases(h)
    BY <1>3, <2>5, ReleasesRefines DEF Link!LinkNext
  <2> QED
    BY <1>3, <2>1, <2>2, <2>3, <2>4, <2>5 DEF Moves
<1> QED
  BY <1>1, <1>2, <1>3 DEF OneMoves

(* The connection manager implements the abstract link: held payloads      *)
(* leave in order, what left never comes back, arrival and loss are final, *)
(* whatever the sockets and the readers do (server.py, "Persistent         *)
(* bidirectional connection manager").                                     *)
THEOREM Implements == Spec => ImplementsLink
<1>1. Init => Link!LinkInit
  <2> SUFFICES ASSUME Init PROVE Link!LinkInit
    OBVIOUS
  <2>1. \A h \in Hosts : delivered[Other(h)] = <<>> /\ asked[h] = 0
    BY OtherHost DEF Init
  <2>2. \A h \in Hosts, m \in Msg : StageOf(h, m) = "new"
    BY <2>1 DEF StageOf, Msg
  <2> QED
    BY <2>1, <2>2 DEF Link!LinkInit
<1>2. DeliveryInv /\ [Next]_vars =>
        [Link!LinkNext]_<<[h \in Hosts |-> [m \in Msg |-> StageOf(h, m)]],
                          [h \in Hosts |-> delivered[Other(h)]]>>
  BY StepRefines DEF Stage, Log
<1> QED
  BY <1>1, <1>2, DeliveryInvariant, PTL DEF Spec, ImplementsLink, Link!LinkSpec
=============================================================================
