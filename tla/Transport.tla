------------------------------ MODULE Transport ------------------------------
(***************************************************************************)
(* The persistent connection manager of the LanChat daemon (server.py,     *)
(* "Persistent bidirectional connection manager"), for one pair of peers.  *)
(*                                                                         *)
(* Each side keeps one entry STATE.conns[pid] for the other: an active     *)
(* socket (slot), the messages waiting for one (hold) and the message ids  *)
(* already written (sent_mids).  Both sides dial and both accept, so two   *)
(* sockets can exist at once; the one dialed by the side with the lower    *)
(* fingerprint (the keeper) wins.  Every socket has one reader thread at   *)
(* each end.  The dialer has verified the certificate it dialed; the       *)
(* acceptor defers every message until the challenge-response proof.       *)
(*                                                                         *)
(* Entries of different peers share nothing but the supervisor thread,     *)
(* so a pair is the whole of the interesting state.                        *)
(***************************************************************************)
EXTENDS Integers, Sequences, FiniteSets

CONSTANTS
  Lo, Hi,       \* the two hosts, Lo the one with the lower fingerprint
  MaxSock,      \* bound: TLS connections alive between them at one time
  MaxMsg,       \* bound: payloads each host's application hands to _write
  Quota,        \* bound: Quota[h] is how many of them h really has to send
  Kind,         \* Kind[m]: what the m-th payload is ("msg", "friendAccept", "control")
  DeferMax,     \* DEFERRED_MAX_MSGS
  MaxFault      \* bound: link failures, failing readers, presence expiries, online toggles

Kinds == {"msg", "friendAccept", "control"}

ASSUME HostsDiffer == Lo # Hi
ASSUME BoundsAreNat ==
  /\ MaxSock \in Nat
  /\ MaxMsg \in Nat
  /\ DeferMax \in Nat
  /\ MaxFault \in Nat
ASSUME QuotaType == Quota \in [{Lo, Hi} -> 0..MaxMsg]
ASSUME KindType == Kind \in [1..MaxMsg -> Kinds]

Hosts == {Lo, Hi}
Other(h) == IF h = Lo THEN Hi ELSE Lo
Keeper == Lo
Sock == 1..MaxSock
None == 0
Msg == 1..MaxMsg

Holdable(m) == Kind[m] \in {"msg", "friendAccept"}
HasMid(m) == Kind[m] = "msg"

Control == [k : {"identity", "challenge", "proof"}, m : {0}]
Data == [k : {"data"}, m : Msg]
Frame == Control \union Data

Identity == [k |-> "identity", m |-> 0]
Challenge == [k |-> "challenge", m |-> 0]
Proof == [k |-> "proof", m |-> 0]
DataFrame(m) == [k |-> "data", m |-> m]
DataFrames(ms) == [i \in 1..Len(ms) |-> DataFrame(ms[i])]

VARIABLES
  slot,       \* slot[h]: c["sock"], the active socket or None
  hold,       \* hold[h]: c["hold"], payloads awaiting a socket
  sentMids,   \* sentMids[h]: c["sent_mids"]
  dialing,    \* dialing[h]: c["dialing"]
  fresh,      \* fresh[h]: the socket conn_loop has connected and not yet offered
  online,     \* online[h]: STATE.config["online"]
  dialer,     \* dialer[s]: the host that dialed s, None before it is opened
  end,        \* end[s][h]: h's end of s
  cut,        \* the sockets whose link the network has broken
  wire,       \* wire[s][h]: frames on their way to h on s (or in h's read buffer)
  reader,     \* reader[s][h]: what h's reader thread of s is doing
  deferred,   \* deferred[s]: the acceptor's queue of payloads before the proof
  asked,      \* asked[h]: payloads handed to _write so far
  put,        \* put[h]: payloads some sendall accepted (history)
  delivered,  \* delivered[h]: payloads h's dispatcher took, in order (history)
  overflow,   \* an inbound reader dropped its connection for too many deferred
  faults      \* disturbances so far (bound)

connVars == <<slot, hold, sentMids, put>>
dialVars == <<dialing, fresh>>
sockVars == <<dialer, end, wire, reader, deferred>>
vars == <<slot, hold, sentMids, dialing, fresh, online, dialer, end, cut, wire,
          reader, deferred, asked, put, delivered, overflow, faults>>

EndStates == {"unopened", "open", "broken", "closed"}
ReaderStates == {"none", "idle", "challenged", "ok", "standby", "out", "done"}

TypeOK ==
  /\ slot \in [Hosts -> Sock \union {None}]
  /\ hold \in [Hosts -> Seq(Msg)]
  /\ sentMids \in [Hosts -> SUBSET Msg]
  /\ dialing \in [Hosts -> BOOLEAN]
  /\ fresh \in [Hosts -> Sock \union {None}]
  /\ online \in [Hosts -> BOOLEAN]
  /\ dialer \in [Sock -> Hosts \union {None}]
  /\ end \in [Sock -> [Hosts -> EndStates]]
  /\ cut \in SUBSET Sock
  /\ wire \in [Sock -> [Hosts -> Seq(Frame)]]
  /\ reader \in [Sock -> [Hosts -> ReaderStates]]
  /\ deferred \in [Sock -> Seq(Msg)]
  /\ asked \in [Hosts -> 0..MaxMsg]
  /\ put \in [Hosts -> SUBSET Msg]
  /\ delivered \in [Hosts -> Seq(Msg)]
  /\ overflow \in BOOLEAN
  /\ faults \in 0..MaxFault

Init ==
  /\ slot = [h \in Hosts |-> None]
  /\ hold = [h \in Hosts |-> <<>>]
  /\ sentMids = [h \in Hosts |-> {}]
  /\ dialing = [h \in Hosts |-> FALSE]
  /\ fresh = [h \in Hosts |-> None]
  /\ online = [h \in Hosts |-> TRUE]
  /\ dialer = [s \in Sock |-> None]
  /\ end = [s \in Sock |-> [h \in Hosts |-> "unopened"]]
  /\ cut = {}
  /\ wire = [s \in Sock |-> [h \in Hosts |-> <<>>]]
  /\ reader = [s \in Sock |-> [h \in Hosts |-> "none"]]
  /\ deferred = [s \in Sock |-> <<>>]
  /\ asked = [h \in Hosts |-> 0]
  /\ put = [h \in Hosts |-> {}]
  /\ delivered = [h \in Hosts |-> <<>>]
  /\ overflow = FALSE
  /\ faults = 0

-----------------------------------------------------------------------------
(***************************************************************************)
(* A socket as the operating system gives it.  A send on an open end whose *)
(* far end is gone may still be accepted by the local buffer (and is lost) *)
(* until the first error; after an error every send fails.                 *)
(***************************************************************************)
Gone(s, h) == s \in cut \/ end[s][Other(h)] = "closed"
SendMayFail(s, h) == Gone(s, h) \/ end[s][h] # "open"
SendMaySucceed(s, h) == end[s][h] = "open"

(* The wire after h has written the frames fs on s. *)
Carry(w, s, h, fs) ==
  IF Gone(s, h) THEN w ELSE [w EXCEPT ![s][Other(h)] = @ \o fs]

(* Mutant: a payload without an id leaves None in sent_mids. *)
MidsOf_NoneToo(ms) == {IF HasMid(ms[i]) THEN ms[i] ELSE None : i \in 1..Len(ms)}

(* What a write of the payloads ms adds to sent_mids. *)
MidsOf(ms) == {m \in {ms[i] : i \in 1..Len(ms)} : HasMid(m)}

-----------------------------------------------------------------------------
(***************************************************************************)
(* _write: send at once when a socket is up, else hold what may be held.   *)
(* A failed send closes the socket and empties the slot.                   *)
(***************************************************************************)
(* Mutant: the newest payload is held first. *)
HoldBack_Front(h, m) ==
  /\ hold' = IF Holdable(m) THEN [hold EXCEPT ![h] = <<m>> \o @] ELSE hold
  /\ UNCHANGED <<sentMids, put, wire>>

HoldBack(h, m) ==
  /\ hold' = IF Holdable(m) THEN [hold EXCEPT ![h] = Append(@, m)] ELSE hold
  /\ UNCHANGED <<sentMids, put, wire>>

(* Mutant: a successful send falls through to the hold. *)
WriteSent_FallsThrough(h, m) ==
  /\ slot[h] # None
  /\ SendMaySucceed(slot[h], h)
  /\ wire' = Carry(wire, slot[h], h, <<DataFrame(m)>>)
  /\ sentMids' = [sentMids EXCEPT ![h] = @ \union MidsOf(<<m>>)]
  /\ put' = [put EXCEPT ![h] = @ \union {m}]
  /\ hold' = IF Holdable(m) THEN [hold EXCEPT ![h] = Append(@, m)] ELSE hold
  /\ UNCHANGED <<slot, end>>

WriteSent(h, m) ==
  /\ slot[h] # None
  /\ SendMaySucceed(slot[h], h)
  /\ wire' = Carry(wire, slot[h], h, <<DataFrame(m)>>)
  /\ sentMids' = [sentMids EXCEPT ![h] = @ \union MidsOf(<<m>>)]
  /\ put' = [put EXCEPT ![h] = @ \union {m}]
  /\ UNCHANGED <<slot, hold, end>>

WriteFailed(h, m) ==
  /\ slot[h] # None
  /\ SendMayFail(slot[h], h)
  /\ slot' = [slot EXCEPT ![h] = None]
  /\ end' = [end EXCEPT ![slot[h]][h] = "closed"]
  /\ HoldBack(h, m)

WriteNoSocket(h, m) ==
  /\ slot[h] = None
  /\ HoldBack(h, m)
  /\ UNCHANGED <<slot, end>>

Write(h) ==
  /\ asked[h] < Quota[h]
  /\ asked' = [asked EXCEPT ![h] = @ + 1]
  /\ LET m == asked[h] + 1
     IN  WriteSent(h, m) \/ WriteFailed(h, m) \/ WriteNoSocket(h, m)
  /\ UNCHANGED <<dialing, fresh, online, dialer, cut, reader, deferred,
                 delivered, overflow, faults>>

-----------------------------------------------------------------------------
(***************************************************************************)
(* _flush_locked: the held payloads go out in order, skipping the ids      *)
(* already written; the first that fails stays, the loop ends there, and   *)
(* the hold becomes what was collected.                                    *)
(***************************************************************************)
(* Mutant: the test for an id already written is inverted. *)
Due_Inverted(h) ==
  {i \in 1..Len(hold[h]) : HasMid(hold[h][i]) /\ hold[h][i] \in sentMids[h]}

(* The places in the hold whose payload is still to be written, ...        *)
Due(h) == {i \in 1..Len(hold[h]) : ~(HasMid(hold[h][i]) /\ hold[h][i] \in sentMids[h])}

(* ... and their payloads in order (a set of one sequence).                *)
Ascending(S) == {f \in [1..Cardinality(S) -> S] : \A i, j \in DOMAIN f : i < j => f[i] < f[j]}
Pending(h) == {[i \in DOMAIN f |-> hold[h][f[i]]] : f \in Ascending(Due(h))}

(* Mutants: the hold is never emptied; it is emptied only by a failure. *)
StillHeld_All(q, k) == q
StillHeld_Kept(q, k) == IF k = Len(q) THEN q ELSE <<q[k + 1]>>

StillHeld(q, k) == IF k = Len(q) THEN <<>> ELSE <<q[k + 1]>>

(***************************************************************************)
(* _maybe_set_active: an empty slot takes any socket; a taken one yields   *)
(* only to a socket the keeper dialed (both refusals in the code come down *)
(* to "the new socket is not the keeper's").  The old socket is closed,    *)
(* the new one adopted and the hold flushed, all under c["lock"].          *)
(***************************************************************************)
(* Mutant: without the tie-break the first socket stays. *)
Adopts_FirstWins(h, initiator) == slot[h] = None

Adopts(h, initiator) == slot[h] = None \/ initiator = Keeper

AdoptWriting(h, s, w, q, k) ==
  LET written == SubSeq(q, 1, k) IN
  /\ wire' = Carry(w, s, h, DataFrames(written))
  /\ sentMids' = [sentMids EXCEPT ![h] = @ \union MidsOf(written)]
  /\ put' = [put EXCEPT ![h] = @ \union {written[i] : i \in 1..k}]
  /\ hold' = [hold EXCEPT ![h] = StillHeld(q, k)]
  /\ slot' = [slot EXCEPT ![h] = s]
  /\ end' = [x \in Sock |->
               IF x = slot[h] THEN [end[x] EXCEPT ![h] = "closed"]
               ELSE IF x = s /\ k < Len(q) THEN [end[x] EXCEPT ![h] = "broken"]
               ELSE end[x]]

Adopt(h, s, w) ==
  \E q \in Pending(h) : \E k \in 0..Len(q) :
    /\ k < Len(q) => SendMayFail(s, h)
    /\ k > 0 => SendMaySucceed(s, h)
    /\ AdoptWriting(h, s, w, q, k)

-----------------------------------------------------------------------------
(***************************************************************************)
(* conn_loop, the dialing supervisor.  It connects outside c["lock"], so   *)
(* the world moves between the check, the connection and the adoption.     *)
(* The backoff only delays DialStart, which may happen at any time.        *)
(***************************************************************************)
(* Sockets no thread of either side refers to any more: the numbers are    *)
(* reused, so MaxSock bounds the sockets alive at once, not the dials.     *)
Free(s) ==
  /\ s \notin {fresh[Lo], fresh[Hi]}
  /\ \A h \in Hosts : /\ end[s][h] \in {"unopened", "closed"}
                     /\ reader[s][h] \in {"none", "done"}

DialStart(h) ==
  /\ online[h]
  /\ slot[h] = None
  /\ ~dialing[h]
  /\ fresh[h] = None
  /\ dialing' = [dialing EXCEPT ![h] = TRUE]
  /\ UNCHANGED <<connVars, fresh, online, sockVars, cut, asked, delivered,
                 overflow, faults>>

DialFail(h) ==
  /\ dialing[h]
  /\ dialing' = [dialing EXCEPT ![h] = FALSE]
  /\ UNCHANGED <<connVars, fresh, online, sockVars, cut, asked, delivered,
                 overflow, faults>>

(* _tls_connect succeeds: the far side's listener has accepted and started *)
(* its reader, and our identity is the first thing on the wire.            *)
DialConnect(h) ==
  /\ dialing[h]
  /\ \E s \in Sock :
       /\ Free(s)
       /\ \A t \in Sock : Free(t) => s <= t
       /\ dialer' = [dialer EXCEPT ![s] = h]
       /\ fresh' = [fresh EXCEPT ![h] = s]
       /\ end' = [end EXCEPT ![s] = [x \in Hosts |-> "open"]]
       /\ wire' = [wire EXCEPT ![s][Other(h)] = <<Identity>>]
       /\ reader' = [reader EXCEPT ![s] = [x \in Hosts |-> IF x = h THEN "none" ELSE "idle"]]
       /\ cut' = cut \ {s}
  /\ dialing' = [dialing EXCEPT ![h] = FALSE]
  /\ UNCHANGED <<connVars, online, deferred, asked, delivered, overflow, faults>>

DialAdopt(h) ==
  /\ fresh[h] # None
  /\ Adopts(h, h)
  /\ Adopt(h, fresh[h], wire)
  /\ reader' = [reader EXCEPT ![fresh[h]][h] = "out"]
  /\ fresh' = [fresh EXCEPT ![h] = None]
  /\ UNCHANGED <<dialing, online, dialer, cut, deferred, asked, delivered,
                 overflow, faults>>

(* The socket lost the tie-break, or announcing our identity failed.       *)
DialDiscard(h) ==
  /\ fresh[h] # None
  /\ ~Adopts(h, h) \/ Gone(fresh[h], h)
  /\ end' = [end EXCEPT ![fresh[h]][h] = "closed"]
  /\ wire' = [wire EXCEPT ![fresh[h]][h] = <<>>]
  /\ reader' = [reader EXCEPT ![fresh[h]][h] = "done"]
  /\ fresh' = [fresh EXCEPT ![h] = None]
  /\ UNCHANGED <<connVars, dialing, online, dialer, cut, deferred, asked,
                 delivered, overflow, faults>>

-----------------------------------------------------------------------------
(***************************************************************************)
(* The reader threads.  A frame is taken from the wire or from the bytes   *)
(* already in the reader's buffer, so it can be processed after the socket *)
(* was closed by another thread.                                           *)
(***************************************************************************)
Next1(s, h, k) == wire[s][h] # <<>> /\ Head(wire[s][h]).k = k
Rest(s, h) == [wire EXCEPT ![s][h] = Tail(@)]

(* _handle_incoming: is_trusted refuses a message while we are offline.    *)
Dispatch(h, m) ==
  delivered' = IF Kind[m] = "msg" /\ ~online[h] THEN delivered
               ELSE [delivered EXCEPT ![h] = Append(@, m)]

ReadIdentity(h, s) ==
  /\ reader[s][h] = "idle"
  /\ Next1(s, h, "identity")
  /\ wire' = Carry(Rest(s, h), s, h, <<Challenge>>)
  /\ reader' = [reader EXCEPT ![s][h] = "challenged"]
  /\ UNCHANGED <<connVars, dialVars, online, dialer, end, cut, deferred, asked,
                 delivered, overflow, faults>>

ReadChallenge(h, s) ==
  /\ reader[s][h] = "out"
  /\ Next1(s, h, "challenge")
  /\ wire' = IF SendMaySucceed(s, h)
             THEN Carry(Rest(s, h), s, h, <<Proof>>)
             ELSE Rest(s, h)
  /\ UNCHANGED <<connVars, dialVars, online, dialer, end, cut, reader, deferred,
                 asked, delivered, overflow, faults>>

ReadProof(h, s) ==
  /\ reader[s][h] = "challenged"
  /\ Next1(s, h, "proof")
  /\ IF Adopts(h, Other(h))
     THEN /\ Adopt(h, s, Rest(s, h))
          /\ reader' = [reader EXCEPT ![s][h] = "ok"]
     ELSE /\ wire' = Rest(s, h)
          /\ reader' = [reader EXCEPT ![s][h] = "standby"]
          /\ UNCHANGED <<connVars, end>>
  /\ UNCHANGED <<dialVars, online, dialer, cut, deferred, asked, delivered,
                 overflow, faults>>

(* A payload before the proof is deferred.                                 *)
ReadEarly(h, s) ==
  /\ reader[s][h] \in {"idle", "challenged"}
  /\ Next1(s, h, "data")
  /\ Len(deferred[s]) < DeferMax
  /\ deferred' = [deferred EXCEPT ![s] = Append(@, Head(wire[s][h]).m)]
  /\ wire' = Rest(s, h)
  /\ UNCHANGED <<connVars, dialVars, online, dialer, end, cut, reader, asked,
                 delivered, overflow, faults>>

(* One payload too many before the proof: the reader drops the connection. *)
ReadTooEarly(h, s) ==
  /\ reader[s][h] \in {"idle", "challenged"}
  /\ Next1(s, h, "data")
  /\ Len(deferred[s]) >= DeferMax
  /\ overflow' = TRUE
  /\ reader' = [reader EXCEPT ![s][h] = "done"]
  /\ end' = [end EXCEPT ![s][h] = "closed"]
  /\ wire' = [wire EXCEPT ![s][h] = <<>>]
  /\ deferred' = [deferred EXCEPT ![s] = <<>>]
  /\ UNCHANGED <<connVars, dialVars, online, dialer, cut, asked, delivered, faults>>

ReadDeferred(h, s) ==
  /\ reader[s][h] \in {"ok", "standby"}
  /\ deferred[s] # <<>>
  /\ Dispatch(h, Head(deferred[s]))
  /\ deferred' = [deferred EXCEPT ![s] = Tail(@)]
  /\ UNCHANGED <<connVars, dialVars, online, dialer, end, cut, wire, reader,
                 asked, overflow, faults>>

ReadData(h, s) ==
  /\ \/ reader[s][h] = "out"
     \/ reader[s][h] \in {"ok", "standby"} /\ deferred[s] = <<>>
  /\ Next1(s, h, "data")
  /\ Dispatch(h, Head(wire[s][h]).m)
  /\ wire' = Rest(s, h)
  /\ UNCHANGED <<connVars, dialVars, online, dialer, end, cut, reader, deferred,
                 asked, overflow, faults>>

(* Mutants: the inbound reader forgets it was active; the ending reader    *)
(* does not check that the slot still holds its socket.                    *)
OwnsSlot_OutOnly(h, s) == reader[s][h] = "out" /\ slot[h] = s
OwnsSlot_Any(h, s) == reader[s][h] \in {"ok", "out"} /\ slot[h] # None

(* The test of the finally clauses: only an active reader, only its own.   *)
OwnsSlot(h, s) == reader[s][h] \in {"ok", "out"} /\ slot[h] = s

(* The finally clauses: whatever was still unread is lost, the slot is     *)
(* emptied only if it still holds this socket, and the socket is closed.   *)
ReaderEnds(h, s) ==
  /\ reader[s][h] \in {"idle", "challenged", "ok", "standby", "out"}
  /\ slot' = IF OwnsSlot(h, s) THEN [slot EXCEPT ![h] = None] ELSE slot
  /\ reader' = [reader EXCEPT ![s][h] = "done"]
  /\ end' = [end EXCEPT ![s][h] = "closed"]
  /\ wire' = [wire EXCEPT ![s][h] = <<>>]
  /\ deferred' = IF dialer[s] = h THEN deferred
                 ELSE [deferred EXCEPT ![s] = <<>>]
  /\ UNCHANGED <<hold, sentMids, put, dialVars, online, dialer, cut, asked,
                 delivered, overflow>>

(* End of stream or an error of the socket. *)
ReadEnd(h, s) ==
  /\ Gone(s, h) \/ end[s][h] # "open"
  /\ reader[s][h] \in {"ok", "standby"} => deferred[s] = <<>>
  /\ ReaderEnds(h, s)
  /\ UNCHANGED faults

-----------------------------------------------------------------------------
(***************************************************************************)
(* Disturbances: the network, failing handlers, expire_peers and the       *)
(* online switch.                                                          *)
(***************************************************************************)
Disturb == faults < MaxFault /\ faults' = faults + 1

(* _drop_conn: empty the slot and close its socket.                        *)
DropConn(h) ==
  /\ slot' = [slot EXCEPT ![h] = None]
  /\ end' = IF slot[h] = None THEN end ELSE [end EXCEPT ![slot[h]][h] = "closed"]

Cut(s) ==
  /\ Disturb
  /\ s \notin cut
  /\ \E h \in Hosts : end[s][h] = "open"
  /\ cut' = cut \union {s}
  /\ UNCHANGED <<connVars, dialVars, online, sockVars, asked, delivered, overflow>>

(* A handler raises what the reader does not catch, or a frame is longer   *)
(* than MAX_FRAME_BUF: the reader ends although its socket works.          *)
ReaderBreaks(h, s) ==
  /\ Disturb
  /\ ReaderEnds(h, s)

Expire(h) ==
  /\ Disturb
  /\ slot[h] # None
  /\ DropConn(h)
  /\ UNCHANGED <<hold, sentMids, put, dialVars, online, dialer, cut, wire, reader,
                 deferred, asked, delivered, overflow>>

GoOffline(h) ==
  /\ Disturb
  /\ online[h]
  /\ online' = [online EXCEPT ![h] = FALSE]
  /\ DropConn(h)
  /\ UNCHANGED <<hold, sentMids, put, dialVars, dialer, cut, wire, reader,
                 deferred, asked, delivered, overflow>>

GoOnline(h) ==
  /\ ~online[h]
  /\ online' = [online EXCEPT ![h] = TRUE]
  /\ UNCHANGED <<connVars, dialVars, sockVars, cut, asked, delivered, overflow, faults>>

-----------------------------------------------------------------------------
Dial(h) == DialStart(h) \/ DialFail(h) \/ DialConnect(h) \/ DialAdopt(h) \/ DialDiscard(h)

Read(h, s) ==
  \/ ReadIdentity(h, s) \/ ReadChallenge(h, s) \/ ReadProof(h, s)
  \/ ReadEarly(h, s) \/ ReadTooEarly(h, s) \/ ReadDeferred(h, s)
  \/ ReadData(h, s) \/ ReadEnd(h, s)

Next ==
  \/ \E h \in Hosts : Write(h) \/ Dial(h) \/ Expire(h) \/ GoOffline(h) \/ GoOnline(h)
  \/ \E h \in Hosts, s \in Sock : Read(h, s) \/ ReaderBreaks(h, s)
  \/ \E s \in Sock : Cut(s)

Spec == Init /\ [][Next]_vars

(***************************************************************************)
(* Fairness.  Every thread of a live daemon keeps running; a user need not *)
(* write, go offline or return, the network need not fail.  A dial may     *)
(* fail, but not for ever while the supervisor keeps trying: that is what  *)
(* "the peer is reachable" means.                                          *)
(***************************************************************************)
Fairness ==
  /\ \A h \in Hosts :
       /\ WF_vars(DialStart(h))
       /\ SF_vars(DialConnect(h))
       /\ WF_vars(DialAdopt(h))
       /\ WF_vars(DialDiscard(h))
  /\ \A h \in Hosts, s \in Sock : WF_vars(Read(h, s))

FairSpec == Spec /\ Fairness

-----------------------------------------------------------------------------
(***************************************************************************)
(* Safety.                                                                 *)
(***************************************************************************)

(* The active socket always has a live reader at our end, so its death is  *)
(* noticed and the slot emptied: no peer is stuck behind a dead socket     *)
(* (_maybe_set_active against the finally clauses of the two readers).     *)
SlotHasReader ==
  \A h \in Hosts : slot[h] # None => reader[slot[h]][h] \in {"ok", "out"}

(* No payload is left in the hold behind a socket that works: adopting one *)
(* flushes the hold under the same lock _write takes (_flush_locked).      *)
HoldDrained ==
  \A h \in Hosts : slot[h] # None /\ hold[h] # <<>> => end[slot[h]][h] = "broken"

(* What makes the two above inductive: the slot's end was not closed by    *)
(* us, a connected socket not yet offered has no reader, and a socket      *)
(* whose peer is not proven is closed by its own reader only.              *)
SlotEndOpen ==
  \A h \in Hosts : slot[h] # None => end[slot[h]][h] \in {"open", "broken"}
FreshUnread ==
  \A h \in Hosts : fresh[h] # None =>
    reader[fresh[h]][h] = "none" /\ end[fresh[h]][h] = "open"
UnprovenOpen ==
  \A h \in Hosts, s \in Sock :
    reader[s][h] \in {"idle", "challenged"} => end[s][h] = "open"

ConnInv ==
  /\ TypeOK
  /\ SlotHasReader
  /\ SlotEndOpen
  /\ FreshUnread
  /\ UnprovenOpen
  /\ HoldDrained

(* A payload reaches the other side's dispatcher at most once, however     *)
(* many sockets it was queued for, and only if it was written.             *)
AtMostOnce ==
  \A h \in Hosts :
    /\ \A i, j \in 1..Len(delivered[h]) : delivered[h][i] = delivered[h][j] => i = j
    /\ \A i \in 1..Len(delivered[h]) : delivered[h][i] \in put[Other(h)]

(* No payload overtakes an older one that is still held: everything ever   *)
(* written is older than everything held (_write, _flush_locked).          *)
WrittenInOrder ==
  \A h \in Hosts : \A m \in put[h], i \in 1..Len(hold[h]) : m < hold[h][i]

(* A working active socket is given up only for one the keeper dialed, or  *)
(* because this side expired the peer, went offline or lost the socket's   *)
(* own reader: the end of another socket's reader, a failed write or a     *)
(* dial never empties its slot (_maybe_set_active and the finally clauses).*)
LiveSocketKept ==
  [][\A h \in Hosts :
       LET s == slot[h] IN
       s # None /\ end[s][h] = "open" /\ ~Gone(s, h)
         => \/ slot'[h] = s
            \/ slot'[h] # None /\ dialer[slot'[h]] = Keeper
            \/ Expire(h) \/ GoOffline(h) \/ ReaderBreaks(h, s)]_vars

-----------------------------------------------------------------------------
(***************************************************************************)
(* The connection manager implements MessageLink.                          *)
(***************************************************************************)
Elems(q) == {q[i] : i \in 1..Len(q)}
OnTheWay(h) ==
  {m \in Msg : \E s \in Sock :
     \/ DataFrame(m) \in Elems(wire[s][Other(h)])
     \/ dialer[s] = h /\ m \in Elems(deferred[s])}

StageOf(h, m) ==
  IF m > asked[h] THEN "new"
  ELSE IF m \in Elems(hold[h]) THEN "held"
  ELSE IF m \in Elems(delivered[Other(h)]) THEN "arrived"
  ELSE IF m \in OnTheWay(h) THEN "sent"
  ELSE "gone"

Link == INSTANCE MessageLink WITH
          stage <- [h \in Hosts |-> [m \in Msg |-> StageOf(h, m)]],
          log <- [h \in Hosts |-> delivered[Other(h)]]

(* Every step of the manager is a step of the abstract link or a stutter:  *)
(* held payloads leave in order, arrival and loss are final, nothing       *)
(* arrives twice.                                                          *)
ImplementsLink == Link!LinkSpec

-----------------------------------------------------------------------------
(***************************************************************************)
(* Liveness.                                                               *)
(***************************************************************************)
Agreed == slot[Lo] # None /\ slot[Lo] = slot[Hi]

(* Two peers that stay online and can reach each other end up with one and *)
(* the same active socket: the tie-break converges (_maybe_set_active).    *)
Converges == (<>[](\A h \in Hosts : online[h])) => <>[]Agreed

(* The oldest held payload is eventually written once the peers stay       *)
(* online ("held and flushed on reconnect").                               *)
HeldIsWritten ==
  \A h \in Hosts, m \in Msg :
    (<>[](\A x \in Hosts : online[x]))
      => ((hold[h] # <<>> /\ Head(hold[h]) = m) ~> m \in put[h])

-----------------------------------------------------------------------------
(***************************************************************************)
(* What the comments of the source say, and the code does not do.          *)
(***************************************************************************)

(* _flush_locked: "socket died mid-flush; keep the rest for the next       *)
(* reconnect": a payload that may be held is held until it is written.     *)
FlushKeepsRest ==
  \A h \in Hosts : \A m \in 1..asked[h] :
    Holdable(m) => m \in put[h] \/ m \in Elems(hold[h])
=============================================================================
