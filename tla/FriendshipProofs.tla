-------------------------- MODULE FriendshipProofs --------------------------
(***************************************************************************)
(* Type correctness of the friendship handshake, and its invariants on     *)
(* consent and on restarts, for every bound and every set of commands; and *)
(* that both users consented, where they only request and accept.          *)
(***************************************************************************)
EXTENDS Friendship, TLAPS

(* Nothing that could make, or is making, a friend of the other. *)
Backed(h) == consent[h] \/ overlap[h]
Nothing(h) ==
  /\ rec[h] # "friend"
  /\ ~intent[h]
  /\ \A t \in Threads :
       job[h][t].op \notin {"request", "accept", "set", "mutual", "accepted"}

(* Inductive strengthening of ConsentStands: without the user's consent    *)
(* there is no friend, no intent and nobody at work on one; and a reject or*)
(* unfriend that no confirmation overlaps leaves none of them behind.      *)
Withdrawn(h) ==
  ~overlap[h] /\ job[h]["user"].op \in {"reject", "unfriend"} =>
    /\ ~Confirming(job[h])
    /\ job[h]["user"].at \in {"forget", "after"} => rec[h] # "friend"
    /\ At(h, "user", "after") => ~intent[h]

ConsentInv == \A h \in Hosts : (Backed(h) \/ Nothing(h)) /\ Withdrawn(h)

(* What each step of a thread may be part of. *)
Fits(t, j) ==
  /\ j.at \in {"add", "mirror"} => j.op \in {"accept", "set", "mutual", "accepted"}
  /\ j.at \in {"remove", "forget"} => j.op \in {"reject", "unfriend", "dropped", "ended"}
  /\ j.at = "record" => j.op \in {"request", "set"}
  /\ j.at \in {"pending", "hold"} => j.op = "held"
  /\ j.op \in UserOps => t = "user"
  /\ t = "user" => j.op \in UserOps \union {"none"}

JobsFit == \A h \in Hosts, t \in Threads : Fits(t, job[h][t])

(* Inductive strengthening of RestartKeeps: config_lock is held between the*)
(* two writes, memory and a configuration that missed no write agree, and a*)
(* ledger that missed none holds the friends and nobody put out.           *)
RecordOf(h) ==
  /\ "config" \notin missed[h] => disk[h] = rec[h]
  /\ \A t \in Threads : lock[h] = t <=> job[h][t].at \in {"mirror", "forget"}
  /\ (\E t \in Threads : At(h, t, "mirror")) => rec[h] = "friend"
  /\ (\E t \in Threads : At(h, t, "forget")) => rec[h] = "none"
  /\ LedgerFollows(h) => /\ rec[h] = "friend" => ledger[h]
                         /\ rec[h] = "none" => ~ledger[h]

RecordInv == \A h \in Hosts : RecordOf(h)

(* The inductive invariant. *)
Inv == TypeOK /\ JobsFit /\ RecordInv /\ ConsentInv

-----------------------------------------------------------------------------
(* A step of one host. *)
Step(h) == User(h) \/ Handler(h) \/ Locked(h) \/ Environment(h)

(* The three parts of the type invariant. *)
WorkTypes ==
  /\ job \in [Hosts -> [Threads -> [op : Ops, at : Steps]]]
  /\ overlap \in [Hosts -> BOOLEAN]
NetTypes ==
  /\ udp \in [Hosts -> [Packets -> Nat]]
  /\ tcp \in [Hosts -> Seq(TcpKinds)]
  /\ faults \in 0..MaxFault
StateTypes ==
  /\ rec \in [Hosts -> Records]
  /\ disk \in [Hosts -> Records]
  /\ ledger \in [Hosts -> BOOLEAN]
  /\ lock \in [Hosts -> Threads \union {Free}]
  /\ intent \in [Hosts -> BOOLEAN]
  /\ held \in [Hosts -> 0..MaxHeld]
  /\ ui \in [Hosts -> {"none", "in", "out"}]
  /\ used \in 0..MaxCommand
  /\ messages \in 0..MaxMessage
  /\ missed \in [Hosts -> SUBSET Files]
  /\ consent \in [Hosts -> BOOLEAN]

(* ... make it up. *)
LEMMA TypeParts == TypeOK <=> WorkTypes /\ NetTypes /\ StateTypes
BY DEF TypeOK, WorkTypes, NetTypes, StateTypes

(* Taking up a job keeps the types. *)
LEMMA GoesType ==
  ASSUME WorkTypes, NEW h \in Hosts, NEW t \in Threads,
         NEW o \in Ops, NEW a \in Steps, Goes(h, t, Job(o, a))
  PROVE  WorkTypes'
<1>1. Ending([job[h] EXCEPT ![t] = Job(o, a)]) \in BOOLEAN
  BY DEF Ending
<1>2. Confirming([job[h] EXCEPT ![t] = Job(o, a)]) \in BOOLEAN
  BY DEF Confirming
<1>3. Job(o, a) \in [op : Ops, at : Steps]
  BY DEF Job
<1> QED
  BY <1>1, <1>2, <1>3 DEF Goes, WorkTypes

(* Taking up a job that fits keeps every job fitting. *)
LEMMA GoesFit ==
  ASSUME WorkTypes, JobsFit, NEW h \in Hosts, NEW t \in Threads,
         NEW o \in Ops, NEW a \in Steps,
         Goes(h, t, Job(o, a)), Fits(t, Job(o, a))
  PROVE  JobsFit'
BY DEF Goes, WorkTypes, JobsFit

(* Sending and receiving keep the types of the channels. *)
LEMMA SendType ==
  ASSUME NetTypes, NEW h \in Hosts, NEW k \in Packets, NEW ok \in BOOLEAN,
         SendUdp(h, k, ok)
  PROVE  udp' \in [Hosts -> [Packets -> Nat]] /\ faults' \in 0..MaxFault
<1>1. Other(h) \in Hosts
  BY DEF Other, Hosts
<1>2. CASE ok
  <2>1. udp[Other(h)][k] + 1 \in Nat
    BY <1>1 DEF NetTypes
  <2>2. udp' = [udp EXCEPT ![Other(h)][k] = udp[Other(h)][k] + 1] /\ faults' = faults
    BY <1>2 DEF SendUdp
  <2> QED
    BY <1>1, <2>1, <2>2 DEF NetTypes
<1>3. CASE ~ok
  BY <1>3, BoundsAreNat DEF NetTypes, SendUdp, Fault
<1> QED
  BY <1>2, <1>3

(* A message put on the TCP socket is one of its kinds. *)
LEMMA TcpType ==
  ASSUME NetTypes, NEW h \in Hosts, NEW k \in TcpKinds
  PROVE  TcpWith(h, k) \in [Hosts -> Seq(TcpKinds)]
<1>1. Other(h) \in Hosts
  BY DEF Other, Hosts
<1>2. Append(tcp[Other(h)], k) \in Seq(TcpKinds)
  BY <1>1 DEF NetTypes
<1> QED
  BY <1>1, <1>2 DEF TcpWith, NetTypes

(* Taking a packet or a message keeps the types of the channels. *)
LEMMA TakeType ==
  ASSUME NetTypes, NEW h \in Hosts, NEW k \in Packets,
         TakeUdp(h, k) \/ TakeTcp(h, k)
  PROVE  udp' \in [Hosts -> [Packets -> Nat]] /\ tcp' \in [Hosts -> Seq(TcpKinds)]
<1>1. CASE TakeUdp(h, k)
  BY <1>1 DEF TakeUdp, NetTypes
<1>2. CASE TakeTcp(h, k)
  <2>1. Tail(tcp[h]) \in Seq(TcpKinds)
    BY <1>2 DEF TakeTcp, NetTypes
  <2> QED
    BY <1>2, <2>1 DEF TakeTcp, NetTypes
<1> QED
  BY <1>1, <1>2

(* A write of a file that may fail keeps the types, *)
LEMMA WriteType ==
  ASSUME NEW h \in Hosts, NEW f \in Files, Written(h, f) \/ NotWritten(h, f)
  PROVE  /\ missed \in [Hosts -> SUBSET Files] => missed' \in [Hosts -> SUBSET Files]
         /\ faults \in 0..MaxFault => faults' \in 0..MaxFault
<1>1. missed' = [missed EXCEPT ![h] = @ \ {f}] \/ missed' = [missed EXCEPT ![h] = @ \union {f}]
  BY DEF Written, NotWritten
<1>2. faults \in 0..MaxFault => faults' \in 0..MaxFault
  BY BoundsAreNat DEF Written, NotWritten, Fault
<1> QED
  BY <1>1, <1>2

(* ... and so does the save of a record. *)
LEMMA SaveType ==
  ASSUME NEW h \in Hosts, NEW r \in Records, SaveRecord(h, r)
  PROVE  /\ disk \in [Hosts -> Records] => disk' \in [Hosts -> Records]
         /\ missed \in [Hosts -> SUBSET Files] => missed' \in [Hosts -> SUBSET Files]
         /\ faults \in 0..MaxFault => faults' \in 0..MaxFault
<1>1. "config" \in Files
  BY DEF Files
<1>2. Written(h, "config") \/ NotWritten(h, "config")
  BY DEF SaveRecord
<1>3. disk \in [Hosts -> Records] => disk' \in [Hosts -> Records]
  BY DEF SaveRecord
<1> QED
  BY <1>1, <1>2, <1>3, WriteType

-----------------------------------------------------------------------------
(* What a step of host h does to its threads. *)
Moves(h) ==
  \/ UNCHANGED workVars
  \/ \E t \in Threads, o \in Ops, a \in Steps : Goes(h, t, Job(o, a)) /\ Fits(t, Job(o, a))
  \/ /\ job' = [job EXCEPT ![h] = [t \in Threads |-> Idle]]
     /\ \E b \in BOOLEAN : overlap' = [overlap EXCEPT ![h] = b]

(* Taking up a job that fits is such a move, *)
LEMMA MoveIntro ==
  ASSUME NEW h \in Hosts, NEW t \in Threads, NEW o \in Ops, NEW a \in Steps,
         Goes(h, t, Job(o, a)), Fits(t, Job(o, a))
  PROVE  Moves(h)
BY DEF Moves

(* ... and so is taking up none. *)
LEMMA StayIntro == ASSUME NEW h \in Hosts, UNCHANGED workVars PROVE Moves(h)
BY DEF Moves

(* At most one thread takes up another job, one that fits, or the daemon starts anew. *)
LEMMA StepMoves ==
  ASSUME TypeOK, JobsFit, NEW h \in Hosts, Step(h)
  PROVE  Moves(h)
<1>Request. ASSUME Request(h) PROVE Moves(h)
  <2>1. \/ Goes(h, "user", Job("request", "record"))
        \/ Goes(h, "user", Job("none", "idle"))
    BY <1>Request DEF Request, Idle
  <2> QED
    BY <2>1, MoveIntro DEF Fits, Job, UserOps, Ops, Steps, Threads
<1>RecordIntent. ASSUME RecordIntent(h) PROVE Moves(h)
  BY <1>RecordIntent, MoveIntro DEF RecordIntent, At, Job, Idle, Fits, UserOps, Ops, Steps,
       Threads, JobsFit, TypeOK
<1>Cancel. ASSUME Cancel(h) PROVE Moves(h)
  <2>1. \/ Goes(h, "user", Job("cancel", "send"))
        \/ UNCHANGED workVars
    BY <1>Cancel DEF Cancel
  <2> QED
    BY <2>1, MoveIntro, StayIntro DEF Fits, Job, UserOps, Ops, Steps, Threads
<1>CancelSend. ASSUME CancelSend(h) PROVE Moves(h)
  BY <1>CancelSend, MoveIntro DEF CancelSend, Does, Job, Idle, Fits, UserOps, Ops, Steps,
       Threads, JobsFit, TypeOK
<1>Accept. ASSUME Accept(h) PROVE Moves(h)
  BY <1>Accept, MoveIntro DEF Accept, Job, Idle, Fits, UserOps, Ops, Steps, Threads, JobsFit,
       TypeOK
<1>AcceptDone. ASSUME AcceptDone(h) PROVE Moves(h)
  BY <1>AcceptDone, MoveIntro DEF AcceptDone, Does, Job, Idle, Fits, UserOps, Ops, Steps,
       Threads, JobsFit, TypeOK
<1>SetFriend. ASSUME SetFriend(h) PROVE Moves(h)
  BY <1>SetFriend, MoveIntro DEF SetFriend, Job, Idle, Fits, UserOps, Ops, Steps, Threads,
       JobsFit, TypeOK
<1>SetDone. ASSUME SetDone(h) PROVE Moves(h)
  <2>1. \/ Goes(h, "user", Job("set", "record"))
        \/ Goes(h, "user", Job("none", "idle"))
    BY <1>SetDone DEF SetDone, Idle
  <2> QED
    BY <2>1, MoveIntro DEF Fits, Job, UserOps, Ops, Steps, Threads
<1>Reject. ASSUME Reject(h) PROVE Moves(h)
  BY <1>Reject, MoveIntro DEF Reject, Job, Idle, Fits, UserOps, Ops, Steps, Threads, JobsFit,
       TypeOK
<1>RejectDone. ASSUME RejectDone(h) PROVE Moves(h)
  BY <1>RejectDone, MoveIntro DEF RejectDone, Does, Job, Idle, Fits, UserOps, Ops, Steps,
       Threads, JobsFit, TypeOK
<1>Unfriend. ASSUME Unfriend(h) PROVE Moves(h)
  BY <1>Unfriend, MoveIntro DEF Unfriend, Job, Idle, Fits, UserOps, Ops, Steps, Threads,
       JobsFit, TypeOK
<1>UnfriendDone. ASSUME UnfriendDone(h) PROVE Moves(h)
  BY <1>UnfriendDone, MoveIntro DEF UnfriendDone, Does, Job, Idle, Fits, UserOps, Ops, Steps,
       Threads, JobsFit, TypeOK
<1>HandleRequest. ASSUME HandleRequest(h) PROVE Moves(h)
  <2>1. \/ Goes(h, "udp", Job("mutual", "add"))
        \/ UNCHANGED workVars
    BY <1>HandleRequest DEF HandleRequest, AutoAccept
  <2> QED
    BY <2>1, MoveIntro, StayIntro DEF Fits, Job, UserOps, Ops, Steps, Threads
<1>HandleCancel. ASSUME HandleCancel(h) PROVE Moves(h)
  <2>1. \/ Goes(h, "udp", Job("dropped", "remove"))
        \/ UNCHANGED workVars
    BY <1>HandleCancel DEF HandleCancel, DropUnconfirmed
  <2> QED
    BY <2>1, MoveIntro, StayIntro DEF Fits, Job, UserOps, Ops, Steps, Threads
<1>HandleMessage. ASSUME HandleMessage(h) PROVE Moves(h)
  <2>1. \/ UNCHANGED workVars
        \/ Goes(h, "tcp", Job("mutual", "add"))
        \/ Goes(h, "tcp", Job("held", "hold"))
        \/ Goes(h, "tcp", Job("held", "pending"))
    BY <1>HandleMessage DEF HandleMessage, AutoAccept
  <2> QED
    BY <2>1, MoveIntro, StayIntro DEF Fits, Job, UserOps, Ops, Steps, Threads
<1>Hold. ASSUME Hold(h) PROVE Moves(h)
  BY <1>Hold, MoveIntro DEF Hold, MayHold, Does, Job, Idle, Fits, UserOps, Ops, Steps, Threads,
       JobsFit, TypeOK
<1>HandleAccept. ASSUME NEW t \in Threads, HandleAccept(h, t) PROVE Moves(h)
  <2>1. \/ Goes(h, t, Job("accepted", "add"))
        \/ UNCHANGED workVars
    BY <1>HandleAccept DEF HandleAccept, Take, TakeUdp, TakeTcp
  <2>2. t # "user"
    BY <1>HandleAccept DEF HandleAccept, Take
  <2> QED
    BY <2>1, <2>2, MoveIntro, StayIntro DEF Fits, Job, UserOps, Ops, Steps, Threads
<1>HandleReject. ASSUME NEW t \in Threads, HandleReject(h, t) PROVE Moves(h)
  <2>1. \/ Goes(h, t, Job("dropped", "remove"))
        \/ UNCHANGED workVars
    BY <1>HandleReject DEF HandleReject, DropUnconfirmed
  <2>2. t # "user"
    BY <1>HandleReject DEF HandleReject, Take
  <2> QED
    BY <2>1, <2>2, MoveIntro, StayIntro DEF Fits, Job, UserOps, Ops, Steps, Threads
<1>HandleUnfriend. ASSUME NEW t \in Threads, HandleUnfriend(h, t) PROVE Moves(h)
  BY <1>HandleUnfriend, MoveIntro DEF HandleUnfriend, Take, Job, Idle, Fits, UserOps, Ops,
       Steps, Threads, JobsFit, TypeOK
<1>MutualDone. ASSUME NEW t \in Threads, MutualDone(h, t) PROVE Moves(h)
  BY <1>MutualDone, MoveIntro DEF MutualDone, Does, Job, Idle, Fits, UserOps, Ops, Steps,
       Threads, JobsFit, TypeOK
<1>AcceptedDone. ASSUME NEW t \in Threads, AcceptedDone(h, t) PROVE Moves(h)
  BY <1>AcceptedDone, MoveIntro DEF AcceptedDone, Does, Job, Idle, Fits, UserOps, Ops, Steps,
       Threads, JobsFit, TypeOK
<1>DroppedDone. ASSUME NEW t \in Threads, DroppedDone(h, t) PROVE Moves(h)
  BY <1>DroppedDone, MoveIntro DEF DroppedDone, Does, Job, Idle, Fits, UserOps, Ops, Steps,
       Threads, JobsFit, TypeOK
<1>AddFriend. ASSUME NEW t \in Threads, AddFriend(h, t) PROVE Moves(h)
  BY <1>AddFriend, MoveIntro DEF AddFriend, SaveRecord, Written, NotWritten, Fault, At, Job,
       Idle, Fits, UserOps, Ops, Steps, Threads, JobsFit, TypeOK
<1>AddToLedger. ASSUME NEW t \in Threads, AddToLedger(h, t) PROVE Moves(h)
  BY <1>AddToLedger, MoveIntro DEF AddToLedger, Written, NotWritten, Fault, At, Job, Idle, Fits,
       UserOps, Ops, Steps, Threads, JobsFit, TypeOK
<1>AddPending. ASSUME NEW t \in Threads, AddPending(h, t) PROVE Moves(h)
  BY <1>AddPending, MoveIntro DEF AddPending, SaveRecord, Written, NotWritten, Fault, At, Job,
       Idle, Fits, UserOps, Ops, Steps, Threads, JobsFit, TypeOK
<1>RemoveFriend. ASSUME NEW t \in Threads, RemoveFriend(h, t) PROVE Moves(h)
  BY <1>RemoveFriend, MoveIntro DEF RemoveFriend, SaveRecord, Written, NotWritten, Fault, At,
       Job, Idle, Fits, UserOps, Ops, Steps, Threads, JobsFit, TypeOK
<1>ForgetFriend. ASSUME NEW t \in Threads, ForgetFriend(h, t) PROVE Moves(h)
  BY <1>ForgetFriend, MoveIntro DEF ForgetFriend, Forgotten, ForgetInLedger, Written,
       NotWritten, Fault, At, Job, Idle, Fits, UserOps, Ops, Steps, Threads, JobsFit, TypeOK
<1>Lose. ASSUME Lose(h) PROVE Moves(h)
  BY <1>Lose, StayIntro DEF Lose
<1>MessageRequest. ASSUME MessageRequest(h) PROVE Moves(h)
  BY <1>MessageRequest, StayIntro DEF MessageRequest
<1>SaveConfig. ASSUME SaveConfig(h) PROVE Moves(h)
  BY <1>SaveConfig, StayIntro DEF SaveConfig
<1>Restart. ASSUME Restart(h) PROVE Moves(h)
  BY <1>Restart DEF Restart, Boot, Moves
<1>RestartWithoutConfig. ASSUME RestartWithoutConfig(h) PROVE Moves(h)
  BY <1>RestartWithoutConfig DEF RestartWithoutConfig, Boot, Moves
<1> QED
  BY <1>Request, <1>RecordIntent, <1>Cancel, <1>CancelSend, <1>Accept, <1>AcceptDone,
       <1>SetFriend, <1>SetDone, <1>Reject, <1>RejectDone, <1>Unfriend, <1>UnfriendDone,
       <1>HandleRequest, <1>HandleCancel, <1>HandleMessage, <1>Hold, <1>HandleAccept,
       <1>HandleReject, <1>HandleUnfriend, <1>MutualDone, <1>AcceptedDone, <1>DroppedDone,
       <1>AddFriend, <1>AddToLedger, <1>AddPending, <1>RemoveFriend, <1>ForgetFriend, <1>Lose,
       <1>MessageRequest, <1>SaveConfig, <1>Restart, <1>RestartWithoutConfig DEF Step, User, Handler, Locked,
       Environment, Threads

(* ... and those of the channels, *)
LEMMA NetStep ==
  ASSUME NetTypes, NEW h \in Hosts, Step(h)
  PROVE  NetTypes'
<1>Request. ASSUME Request(h) PROVE NetTypes'
  BY <1>Request, BoundsAreNat, SendType, TcpType, TakeType DEF Request, Command, NetTypes,
       Threads, Packets, TcpKinds
<1>RecordIntent. ASSUME RecordIntent(h) PROVE NetTypes'
  BY <1>RecordIntent, BoundsAreNat, SendType, TcpType, TakeType DEF RecordIntent, netVars,
       NetTypes, Threads, Packets, TcpKinds
<1>Cancel. ASSUME Cancel(h) PROVE NetTypes'
  BY <1>Cancel, BoundsAreNat, SendType, TcpType, TakeType DEF Cancel, Command, netVars,
       NetTypes, Threads, Packets, TcpKinds
<1>CancelSend. ASSUME CancelSend(h) PROVE NetTypes'
  BY <1>CancelSend, BoundsAreNat, SendType, TcpType, TakeType DEF CancelSend, NetTypes, Threads,
       Packets, TcpKinds
<1>Accept. ASSUME Accept(h) PROVE NetTypes'
  BY <1>Accept, BoundsAreNat, SendType, TcpType, TakeType DEF Accept, Command, netVars,
       NetTypes, Threads, Packets, TcpKinds
<1>AcceptDone. ASSUME AcceptDone(h) PROVE NetTypes'
  BY <1>AcceptDone, BoundsAreNat, SendType, TcpType, TakeType DEF AcceptDone, NotifyAccept,
       NetTypes, Threads, Packets, TcpKinds
<1>SetFriend. ASSUME SetFriend(h) PROVE NetTypes'
  BY <1>SetFriend, BoundsAreNat, SendType, TcpType, TakeType DEF SetFriend, Command, netVars,
       NetTypes, Threads, Packets, TcpKinds
<1>SetDone. ASSUME SetDone(h) PROVE NetTypes'
  BY <1>SetDone, BoundsAreNat, SendType, TcpType, TakeType DEF SetDone, NetTypes, Threads,
       Packets, TcpKinds
<1>Reject. ASSUME Reject(h) PROVE NetTypes'
  BY <1>Reject, BoundsAreNat, SendType, TcpType, TakeType DEF Reject, Command, NetTypes,
       Threads, Packets, TcpKinds
<1>RejectDone. ASSUME RejectDone(h) PROVE NetTypes'
  BY <1>RejectDone, BoundsAreNat, SendType, TcpType, TakeType DEF RejectDone, netVars, NetTypes,
       Threads, Packets, TcpKinds
<1>Unfriend. ASSUME Unfriend(h) PROVE NetTypes'
  BY <1>Unfriend, BoundsAreNat, SendType, TcpType, TakeType DEF Unfriend, Command, netVars,
       NetTypes, Threads, Packets, TcpKinds
<1>UnfriendDone. ASSUME UnfriendDone(h) PROVE NetTypes'
  BY <1>UnfriendDone, BoundsAreNat, SendType, TcpType, TakeType DEF UnfriendDone, NetTypes,
       Threads, Packets, TcpKinds
<1>HandleRequest. ASSUME HandleRequest(h) PROVE NetTypes'
  BY <1>HandleRequest, BoundsAreNat, SendType, TcpType, TakeType DEF HandleRequest, AutoAccept,
       NetTypes, Threads, Packets, TcpKinds
<1>HandleCancel. ASSUME HandleCancel(h) PROVE NetTypes'
  BY <1>HandleCancel, BoundsAreNat, SendType, TcpType, TakeType DEF HandleCancel,
       DropUnconfirmed, NetTypes, Threads, Packets, TcpKinds
<1>HandleMessage. ASSUME HandleMessage(h) PROVE NetTypes'
  BY <1>HandleMessage, BoundsAreNat, SendType, TcpType, TakeType DEF HandleMessage, AutoAccept,
       NetTypes, Threads, Packets, TcpKinds
<1>Hold. ASSUME Hold(h) PROVE NetTypes'
  BY <1>Hold, BoundsAreNat, SendType, TcpType, TakeType DEF Hold, MayHold, netVars, NetTypes,
       Threads, Packets, TcpKinds
<1>HandleAccept. ASSUME NEW t \in Threads, HandleAccept(h, t) PROVE NetTypes'
  BY <1>HandleAccept, BoundsAreNat, SendType, TcpType, TakeType DEF HandleAccept, Take,
       Requested, NetTypes, Threads, Packets, TcpKinds
<1>HandleReject. ASSUME NEW t \in Threads, HandleReject(h, t) PROVE NetTypes'
  BY <1>HandleReject, BoundsAreNat, SendType, TcpType, TakeType DEF HandleReject, Take,
       DropUnconfirmed, NetTypes, Threads, Packets, TcpKinds
<1>HandleUnfriend. ASSUME NEW t \in Threads, HandleUnfriend(h, t) PROVE NetTypes'
  BY <1>HandleUnfriend, BoundsAreNat, SendType, TcpType, TakeType DEF HandleUnfriend, Take,
       NetTypes, Threads, Packets, TcpKinds
<1>MutualDone. ASSUME NEW t \in Threads, MutualDone(h, t) PROVE NetTypes'
  BY <1>MutualDone, BoundsAreNat, SendType, TcpType, TakeType DEF MutualDone, NotifyAccept,
       NetTypes, Threads, Packets, TcpKinds
<1>AcceptedDone. ASSUME NEW t \in Threads, AcceptedDone(h, t) PROVE NetTypes'
  BY <1>AcceptedDone, BoundsAreNat, SendType, TcpType, TakeType DEF AcceptedDone, netVars,
       NetTypes, Threads, Packets, TcpKinds
<1>DroppedDone. ASSUME NEW t \in Threads, DroppedDone(h, t) PROVE NetTypes'
  BY <1>DroppedDone, BoundsAreNat, SendType, TcpType, TakeType DEF DroppedDone, netVars,
       NetTypes, Threads, Packets, TcpKinds
<1>AddFriend. ASSUME NEW t \in Threads, AddFriend(h, t) PROVE NetTypes'
  <2>1. SaveRecord(h, "friend") /\ "friend" \in Records /\ UNCHANGED <<udp, tcp>>
    BY <1>AddFriend DEF AddFriend, Records
  <2> QED
    BY <2>1, SaveType DEF NetTypes
<1>AddToLedger. ASSUME NEW t \in Threads, AddToLedger(h, t) PROVE NetTypes'
  <2>1. (Written(h, "ledger") \/ NotWritten(h, "ledger")) /\ UNCHANGED <<udp, tcp>>
    BY <1>AddToLedger DEF AddToLedger
  <2>2. "ledger" \in Files
    BY DEF Files
  <2> QED
    BY <2>1, <2>2, WriteType DEF NetTypes
<1>AddPending. ASSUME NEW t \in Threads, AddPending(h, t) PROVE NetTypes'
  <2>1. SaveRecord(h, "pending") /\ "pending" \in Records /\ UNCHANGED <<udp, tcp>>
    BY <1>AddPending DEF AddPending, Records
  <2> QED
    BY <2>1, SaveType DEF NetTypes
<1>RemoveFriend. ASSUME NEW t \in Threads, RemoveFriend(h, t) PROVE NetTypes'
  <2>1. SaveRecord(h, "none") /\ "none" \in Records /\ UNCHANGED <<udp, tcp>>
    BY <1>RemoveFriend DEF RemoveFriend, Records
  <2> QED
    BY <2>1, SaveType DEF NetTypes
<1>ForgetFriend. ASSUME NEW t \in Threads, ForgetFriend(h, t) PROVE NetTypes'
  <2>1. (Written(h, "ledger") \/ NotWritten(h, "ledger")) /\ UNCHANGED <<udp, tcp>>
    BY <1>ForgetFriend DEF ForgetFriend, Forgotten, ForgetInLedger
  <2>2. "ledger" \in Files
    BY DEF Files
  <2> QED
    BY <2>1, <2>2, WriteType DEF NetTypes
<1>Lose. ASSUME Lose(h) PROVE NetTypes'
  <2>1. PICK k \in Packets : udp[h][k] > 0 /\ udp' = [udp EXCEPT ![h][k] = @ - 1]
    BY <1>Lose DEF Lose
  <2>2. udp' \in [Hosts -> [Packets -> Nat]]
    BY <2>1 DEF NetTypes
  <2>3. tcp' = tcp /\ faults' \in 0..MaxFault
    BY <1>Lose, BoundsAreNat DEF Lose, Fault, NetTypes
  <2> QED
    BY <2>2, <2>3 DEF NetTypes
<1>MessageRequest. ASSUME MessageRequest(h) PROVE NetTypes'
  BY <1>MessageRequest, BoundsAreNat, SendType, TcpType, TakeType DEF MessageRequest, NetTypes,
       Threads, Packets, TcpKinds
<1>SaveConfig. ASSUME SaveConfig(h) PROVE NetTypes'
  BY <1>SaveConfig, BoundsAreNat, SendType, TcpType, TakeType DEF SaveConfig, Written, workVars,
       NetTypes, Threads, Packets, TcpKinds
<1>Restart. ASSUME Restart(h) PROVE NetTypes'
  <2>1. [x \in Hosts |-> <<>>] \in [Hosts -> Seq(TcpKinds)]
    OBVIOUS
  <2>2. tcp' \in [Hosts -> Seq(TcpKinds)]
    BY <1>Restart, <2>1 DEF Restart, Boot, NetTypes
  <2>3. udp' = udp /\ faults' \in 0..MaxFault
    BY <1>Restart, BoundsAreNat DEF Restart, Boot, Fault, NetTypes
  <2> QED
    BY <2>2, <2>3 DEF NetTypes
<1>RestartWithoutConfig. ASSUME RestartWithoutConfig(h) PROVE NetTypes'
  <2>1. [x \in Hosts |-> <<>>] \in [Hosts -> Seq(TcpKinds)]
    OBVIOUS
  <2>2. tcp' \in [Hosts -> Seq(TcpKinds)]
    BY <1>RestartWithoutConfig, <2>1 DEF RestartWithoutConfig, Boot, NetTypes
  <2>3. udp' = udp /\ faults' \in 0..MaxFault
    BY <1>RestartWithoutConfig, BoundsAreNat DEF RestartWithoutConfig, Boot, Fault, NetTypes
  <2> QED
    BY <2>2, <2>3 DEF NetTypes
<1> QED
  BY <1>Request, <1>RecordIntent, <1>Cancel, <1>CancelSend, <1>Accept, <1>AcceptDone,
       <1>SetFriend, <1>SetDone, <1>Reject, <1>RejectDone, <1>Unfriend, <1>UnfriendDone,
       <1>HandleRequest, <1>HandleCancel, <1>HandleMessage, <1>Hold, <1>HandleAccept,
       <1>HandleReject, <1>HandleUnfriend, <1>MutualDone, <1>AcceptedDone, <1>DroppedDone,
       <1>AddFriend, <1>AddToLedger, <1>AddPending, <1>RemoveFriend, <1>ForgetFriend, <1>Lose,
       <1>MessageRequest, <1>SaveConfig, <1>Restart, <1>RestartWithoutConfig DEF Step, User, Handler, Locked,
       Environment, Threads

(* A restart keeps the types of what it reads from the files, *)
LEMMA BootType ==
  ASSUME StateTypes, NEW h \in Hosts, NEW d \in Records, Boot(h, d)
  PROVE  StateTypes'
<1>1. ledger' \in [Hosts -> BOOLEAN]
  BY DEF Boot, StateTypes
<1>2. \E r \in Records : rec' = [rec EXCEPT ![h] = r]
  BY DEF Boot, Records
<1>3. \E r \in Records : disk' = [disk EXCEPT ![h] = r]
  BY DEF Boot, Records
<1>4. \E m \in SUBSET Files : missed' = [missed EXCEPT ![h] = m]
  BY DEF Boot, Files
<1>5. /\ lock' = [lock EXCEPT ![h] = Free]
      /\ intent' = [intent EXCEPT ![h] = FALSE]
      /\ held' = [held EXCEPT ![h] = 0]
      /\ ui' = ui \/ ui' = [ui EXCEPT ![h] = "none"]
      /\ UNCHANGED <<used, messages, consent>>
  BY DEF Boot, boundVars
<1>6. rec' \in [Hosts -> Records] /\ disk' \in [Hosts -> Records]
  BY <1>2, <1>3 DEF StateTypes
<1>7. missed' \in [Hosts -> SUBSET Files]
  BY <1>4 DEF StateTypes
<1>8. /\ lock' \in [Hosts -> Threads \union {Free}]
      /\ intent' \in [Hosts -> BOOLEAN]
      /\ held' \in [Hosts -> 0..MaxHeld]
      /\ ui' \in [Hosts -> {"none", "in", "out"}]
  BY <1>5, BoundsAreNat DEF StateTypes
<1> QED
  BY <1>1, <1>5, <1>6, <1>7, <1>8 DEF StateTypes

(* ... and those of the records, the ledger and the rest are kept. *)
LEMMA StateStep ==
  ASSUME StateTypes, NEW h \in Hosts, Step(h)
  PROVE  StateTypes'
<1>Request. ASSUME Request(h) PROVE StateTypes'
  BY <1>Request, BoundsAreNat DEF Request, Command, SendUdp, Fault, Job, Idle, recordVars,
       StateTypes, Threads, Records, Free
<1>RecordIntent. ASSUME RecordIntent(h) PROVE StateTypes'
  BY <1>RecordIntent, BoundsAreNat DEF RecordIntent, At, Job, Idle, recordVars, boundVars,
       StateTypes, Threads, Records, Free
<1>Cancel. ASSUME Cancel(h) PROVE StateTypes'
  <2>1. /\ UNCHANGED <<rec, disk, ledger, lock, missed, held, messages>>
        /\ used' = used + 1 /\ used < MaxCommand
    BY <1>Cancel DEF Cancel, Command, recordVars
  <2>2. \/ UNCHANGED <<intent, consent>> /\ ui' = [ui EXCEPT ![h] = "none"]
        \/ /\ intent' = [intent EXCEPT ![h] = FALSE]
           /\ consent' = [consent EXCEPT ![h] = FALSE]
           /\ ui' = ui
    BY <1>Cancel DEF Cancel
  <2>3. used' \in 0..MaxCommand
    BY <2>1, BoundsAreNat DEF StateTypes
  <2>4. /\ intent' \in [Hosts -> BOOLEAN]
        /\ consent' \in [Hosts -> BOOLEAN]
        /\ ui' \in [Hosts -> {"none", "in", "out"}]
    BY <2>2 DEF StateTypes
  <2> QED
    BY <2>1, <2>3, <2>4 DEF StateTypes
<1>CancelSend. ASSUME CancelSend(h) PROVE StateTypes'
  BY <1>CancelSend, BoundsAreNat DEF CancelSend, SendUdp, Fault, Does, Job, Idle, recordVars,
       boundVars, StateTypes, Threads, Records, Free
<1>Accept. ASSUME Accept(h) PROVE StateTypes'
  BY <1>Accept, BoundsAreNat DEF Accept, Command, Job, Idle, recordVars, StateTypes, Threads,
       Records, Free
<1>AcceptDone. ASSUME AcceptDone(h) PROVE StateTypes'
  BY <1>AcceptDone, BoundsAreNat DEF AcceptDone, NotifyAccept, SendUdp, TcpWith, Fault, Does,
       Job, Idle, recordVars, boundVars, StateTypes, Threads, Records, Free
<1>SetFriend. ASSUME SetFriend(h) PROVE StateTypes'
  BY <1>SetFriend, BoundsAreNat DEF SetFriend, Command, Job, Idle, recordVars, StateTypes,
       Threads, Records, Free
<1>SetDone. ASSUME SetDone(h) PROVE StateTypes'
  BY <1>SetDone, BoundsAreNat DEF SetDone, SendUdp, Fault, Does, Job, Idle, recordVars,
       boundVars, StateTypes, Threads, Records, Free
<1>Reject. ASSUME Reject(h) PROVE StateTypes'
  BY <1>Reject, BoundsAreNat DEF Reject, Command, SendUdp, TcpWith, Fault, Job, Idle,
       recordVars, StateTypes, Threads, Records, Free
<1>RejectDone. ASSUME RejectDone(h) PROVE StateTypes'
  BY <1>RejectDone, BoundsAreNat DEF RejectDone, Does, Job, Idle, recordVars, boundVars,
       StateTypes, Threads, Records, Free
<1>Unfriend. ASSUME Unfriend(h) PROVE StateTypes'
  BY <1>Unfriend, BoundsAreNat DEF Unfriend, Command, Job, Idle, recordVars, StateTypes,
       Threads, Records, Free
<1>UnfriendDone. ASSUME UnfriendDone(h) PROVE StateTypes'
  BY <1>UnfriendDone, BoundsAreNat DEF UnfriendDone, SendUdp, TcpWith, Fault, Does, Job, Idle,
       recordVars, boundVars, StateTypes, Threads, Records, Free
<1>HandleRequest. ASSUME HandleRequest(h) PROVE StateTypes'
  <2>1. CASE UNCHANGED workVars /\ UNCHANGED intent
    BY <1>HandleRequest, <2>1, BoundsAreNat DEF HandleRequest, TakeUdp, AutoAccept, Job, Idle,
         recordVars, boundVars, StateTypes, Threads, Records, Free
  <2>2. CASE intent[h] /\ AutoAccept(h, "udp")
    BY <1>HandleRequest, <2>2, BoundsAreNat DEF HandleRequest, TakeUdp, AutoAccept, Job, Idle,
         recordVars, boundVars, StateTypes, Threads, Records, Free
  <2> QED
    BY <1>HandleRequest, <2>1, <2>2 DEF HandleRequest, AutoAccept, workVars
<1>HandleCancel. ASSUME HandleCancel(h) PROVE StateTypes'
  <2>1. CASE rec[h] = "pending"
    BY <1>HandleCancel, <2>1, BoundsAreNat DEF HandleCancel, TakeUdp, DropUnconfirmed, Job,
         Idle, recordVars, boundVars, StateTypes, Threads, Records, Free
  <2>2. CASE rec[h] # "pending"
    BY <1>HandleCancel, <2>2, BoundsAreNat DEF HandleCancel, TakeUdp, DropUnconfirmed, Job,
         Idle, recordVars, boundVars, StateTypes, Threads, Records, Free
  <2> QED
    BY <2>1, <2>2
<1>HandleMessage. ASSUME HandleMessage(h) PROVE StateTypes'
  <2>1. CASE UNCHANGED workVars /\ UNCHANGED intent
    BY <1>HandleMessage, <2>1, BoundsAreNat DEF HandleMessage, TakeTcp, AutoAccept, Job, Idle,
         recordVars, boundVars, StateTypes, Threads, Records, Free
  <2>2. CASE intent[h] /\ AutoAccept(h, "tcp")
    BY <1>HandleMessage, <2>2, BoundsAreNat DEF HandleMessage, TakeTcp, AutoAccept, Job, Idle,
         recordVars, boundVars, StateTypes, Threads, Records, Free
  <2>3. CASE ~intent[h] /\ Goes(h, "tcp", Job("held", "hold")) /\ UNCHANGED intent
    BY <1>HandleMessage, <2>3, BoundsAreNat DEF HandleMessage, TakeTcp, AutoAccept, Job, Idle,
         recordVars, boundVars, StateTypes, Threads, Records, Free
  <2>4. CASE ~intent[h] /\ Goes(h, "tcp", Job("held", "pending")) /\ UNCHANGED intent
    BY <1>HandleMessage, <2>4, BoundsAreNat DEF HandleMessage, TakeTcp, AutoAccept, Job, Idle,
         recordVars, boundVars, StateTypes, Threads, Records, Free
  <2> QED
    BY <1>HandleMessage, <2>1, <2>2, <2>3, <2>4 DEF HandleMessage, AutoAccept, workVars
<1>Hold. ASSUME Hold(h) PROVE StateTypes'
  BY <1>Hold, BoundsAreNat DEF Hold, MayHold, Does, Job, Idle, recordVars, boundVars,
       StateTypes, Threads, Records, Free
<1>HandleAccept. ASSUME NEW t \in Threads, HandleAccept(h, t) PROVE StateTypes'
  <2>1. CASE intent[h]
    BY <1>HandleAccept, <2>1, BoundsAreNat DEF HandleAccept, Take, TakeUdp, TakeTcp, Requested,
         Job, Idle, recordVars, boundVars, StateTypes, Threads, Records, Free
  <2>2. CASE ~intent[h]
    BY <1>HandleAccept, <2>2, BoundsAreNat DEF HandleAccept, Take, TakeUdp, TakeTcp, Requested,
         Job, Idle, recordVars, boundVars, StateTypes, Threads, Records, Free
  <2> QED
    BY <2>1, <2>2
<1>HandleReject. ASSUME NEW t \in Threads, HandleReject(h, t) PROVE StateTypes'
  <2>1. CASE rec[h] = "pending"
    BY <1>HandleReject, <2>1, BoundsAreNat DEF HandleReject, Take, TakeUdp, TakeTcp,
         DropUnconfirmed, Job, Idle, recordVars, boundVars, StateTypes, Threads, Records, Free
  <2>2. CASE rec[h] # "pending"
    BY <1>HandleReject, <2>2, BoundsAreNat DEF HandleReject, Take, TakeUdp, TakeTcp,
         DropUnconfirmed, Job, Idle, recordVars, boundVars, StateTypes, Threads, Records, Free
  <2> QED
    BY <2>1, <2>2
<1>HandleUnfriend. ASSUME NEW t \in Threads, HandleUnfriend(h, t) PROVE StateTypes'
  BY <1>HandleUnfriend, BoundsAreNat DEF HandleUnfriend, Take, TakeUdp, TakeTcp, Job, Idle,
       recordVars, boundVars, StateTypes, Threads, Records, Free
<1>MutualDone. ASSUME NEW t \in Threads, MutualDone(h, t) PROVE StateTypes'
  BY <1>MutualDone, BoundsAreNat DEF MutualDone, NotifyAccept, SendUdp, TcpWith, Fault, Does,
       Job, Idle, recordVars, boundVars, StateTypes, Threads, Records, Free
<1>AcceptedDone. ASSUME NEW t \in Threads, AcceptedDone(h, t) PROVE StateTypes'
  BY <1>AcceptedDone, BoundsAreNat DEF AcceptedDone, Does, Job, Idle, recordVars, boundVars,
       StateTypes, Threads, Records, Free
<1>DroppedDone. ASSUME NEW t \in Threads, DroppedDone(h, t) PROVE StateTypes'
  BY <1>DroppedDone, BoundsAreNat DEF DroppedDone, Does, Job, Idle, recordVars, boundVars,
       StateTypes, Threads, Records, Free
<1>AddFriend. ASSUME NEW t \in Threads, AddFriend(h, t) PROVE StateTypes'
  <2>1. SaveRecord(h, "friend") /\ "friend" \in Records
    BY <1>AddFriend DEF AddFriend, Records
  <2>2. /\ rec' = [rec EXCEPT ![h] = "friend"] /\ lock' = [lock EXCEPT ![h] = t]
        /\ UNCHANGED <<ledger, intent, held, ui, used, messages, consent>>
    BY <1>AddFriend DEF AddFriend, boundVars
  <2> QED
    BY <2>1, <2>2, SaveType DEF StateTypes
<1>AddToLedger. ASSUME NEW t \in Threads, AddToLedger(h, t) PROVE StateTypes'
  <2>1. (Written(h, "ledger") \/ NotWritten(h, "ledger")) /\ "ledger" \in Files
    BY <1>AddToLedger DEF AddToLedger, Files
  <2>2. /\ ledger' \in {ledger, [ledger EXCEPT ![h] = TRUE], [ledger EXCEPT ![h] = FALSE]}
        /\ lock' = [lock EXCEPT ![h] = Free] /\ ui' = [ui EXCEPT ![h] = "none"]
        /\ UNCHANGED <<rec, disk, intent, held, used, messages, consent>>
    BY <1>AddToLedger DEF AddToLedger, boundVars
  <2>3. ledger' \in [Hosts -> BOOLEAN]
    BY <2>2 DEF StateTypes
  <2> QED
    BY <2>1, <2>2, <2>3, WriteType DEF StateTypes
<1>AddPending. ASSUME NEW t \in Threads, AddPending(h, t) PROVE StateTypes'
  <2>1. SaveRecord(h, "pending") /\ "pending" \in Records
    BY <1>AddPending DEF AddPending, Records
  <2>2. /\ rec' = [rec EXCEPT ![h] = "pending"] /\ lock' = lock
        /\ UNCHANGED <<ledger, intent, held, ui, used, messages, consent>>
    BY <1>AddPending DEF AddPending, boundVars
  <2> QED
    BY <2>1, <2>2, SaveType DEF StateTypes
<1>RemoveFriend. ASSUME NEW t \in Threads, RemoveFriend(h, t) PROVE StateTypes'
  <2>1. SaveRecord(h, "none") /\ "none" \in Records
    BY <1>RemoveFriend DEF RemoveFriend, Records
  <2>2. /\ rec' = [rec EXCEPT ![h] = "none"] /\ lock' = [lock EXCEPT ![h] = t]
        /\ UNCHANGED <<ledger, intent, held, ui, used, messages, consent>>
    BY <1>RemoveFriend DEF RemoveFriend, boundVars
  <2> QED
    BY <2>1, <2>2, SaveType DEF StateTypes
<1>ForgetFriend. ASSUME NEW t \in Threads, ForgetFriend(h, t) PROVE StateTypes'
  <2>1. (Written(h, "ledger") \/ NotWritten(h, "ledger")) /\ "ledger" \in Files
    BY <1>ForgetFriend DEF ForgetFriend, Forgotten, ForgetInLedger, Files
  <2>2. /\ ledger' \in {ledger, [ledger EXCEPT ![h] = FALSE]}
        /\ lock' = [lock EXCEPT ![h] = Free] /\ intent' = [intent EXCEPT ![h] = FALSE]
        /\ UNCHANGED <<rec, disk, ui, held, used, messages, consent>>
    BY <1>ForgetFriend DEF ForgetFriend, Forgotten, ForgetInLedger, boundVars
  <2>3. ledger' \in [Hosts -> BOOLEAN]
    BY <2>2 DEF StateTypes
  <2> QED
    BY <2>1, <2>2, <2>3, WriteType DEF StateTypes
<1>Lose. ASSUME Lose(h) PROVE StateTypes'
  BY <1>Lose, BoundsAreNat DEF Lose, Fault, recordVars, boundVars, StateTypes, Threads, Records,
       Free
<1>MessageRequest. ASSUME MessageRequest(h) PROVE StateTypes'
  BY <1>MessageRequest, BoundsAreNat DEF MessageRequest, recordVars, StateTypes, Threads,
       Records, Free
<1>SaveConfig. ASSUME SaveConfig(h) PROVE StateTypes'
  <2>1. Written(h, "config") /\ "config" \in Files
    BY <1>SaveConfig DEF SaveConfig, Files
  <2>2. /\ disk' = [disk EXCEPT ![h] = rec[h]] /\ rec[h] \in Records
        /\ UNCHANGED <<rec, ledger, lock, intent, held, ui, used, messages, consent>>
    BY <1>SaveConfig DEF SaveConfig, StateTypes, boundVars
  <2> QED
    BY <2>1, <2>2, WriteType DEF StateTypes
<1>Restart. ASSUME Restart(h) PROVE StateTypes'
  BY <1>Restart, BootType DEF Restart, StateTypes
<1>RestartWithoutConfig. ASSUME RestartWithoutConfig(h) PROVE StateTypes'
  BY <1>RestartWithoutConfig, BootType DEF RestartWithoutConfig, Records
<1> QED
  BY <1>Request, <1>RecordIntent, <1>Cancel, <1>CancelSend, <1>Accept, <1>AcceptDone,
       <1>SetFriend, <1>SetDone, <1>Reject, <1>RejectDone, <1>Unfriend, <1>UnfriendDone,
       <1>HandleRequest, <1>HandleCancel, <1>HandleMessage, <1>Hold, <1>HandleAccept,
       <1>HandleReject, <1>HandleUnfriend, <1>MutualDone, <1>AcceptedDone, <1>DroppedDone,
       <1>AddFriend, <1>AddToLedger, <1>AddPending, <1>RemoveFriend, <1>ForgetFriend, <1>Lose,
       <1>MessageRequest, <1>SaveConfig, <1>Restart, <1>RestartWithoutConfig DEF Step, User, Handler, Locked,
       Environment, Threads

(* A move keeps the types of the threads, and every job fitting. *)
LEMMA MovesInv ==
  ASSUME TypeOK, JobsFit, NEW h \in Hosts, Moves(h)
  PROVE  WorkTypes' /\ JobsFit'
<1> USE TypeParts
<1>1. CASE UNCHANGED workVars
  BY <1>1 DEF workVars, WorkTypes, JobsFit
<1>2. CASE \E t \in Threads, o \in Ops, a \in Steps :
             Goes(h, t, Job(o, a)) /\ Fits(t, Job(o, a))
  <2>1. PICK t \in Threads, o \in Ops, a \in Steps :
          Goes(h, t, Job(o, a)) /\ Fits(t, Job(o, a))
    BY <1>2
  <2> QED
    BY <2>1, GoesType, GoesFit
<1>3. CASE /\ job' = [job EXCEPT ![h] = [t \in Threads |-> Idle]]
           /\ \E b \in BOOLEAN : overlap' = [overlap EXCEPT ![h] = b]
  <2>1. Idle \in [op : Ops, at : Steps] /\ \A t : Fits(t, Idle)
    BY DEF Idle, Job, Ops, Steps, Fits, UserOps
  <2> QED
    BY <1>3, <2>1 DEF WorkTypes, JobsFit
<1> QED
  BY <1>1, <1>2, <1>3 DEF Moves

(* ... and the other host's. *)
LEMMA MovesOther ==
  ASSUME TypeOK, NEW h \in Hosts, NEW g \in Hosts, g # h, Moves(h)
  PROVE  job'[g] = job[g] /\ overlap'[g] = overlap[g]
BY DEF Moves, Goes, workVars, TypeOK

(* What of a host's state the two invariants look at stays as it is. *)
Kept(g) ==
  /\ rec'[g] = rec[g] /\ disk'[g] = disk[g]
  /\ ledger'[g] = ledger[g] /\ lock'[g] = lock[g] /\ missed'[g] = missed[g]
  /\ intent'[g] = intent[g] /\ consent'[g] = consent[g]

(* A step of one host changes nothing of the other's. *)
LEMMA OtherStays ==
  ASSUME TypeOK, NEW g \in Hosts, NEW h \in Hosts, g # h, Step(h)
  PROVE  Kept(g)
<1>Request. ASSUME Request(h) PROVE Kept(g)
  BY <1>Request DEF Request, Command, SendUdp, Fault, recordVars, Kept, TypeOK
<1>RecordIntent. ASSUME RecordIntent(h) PROVE Kept(g)
  BY <1>RecordIntent DEF RecordIntent, recordVars, Kept, TypeOK
<1>Cancel. ASSUME Cancel(h) PROVE Kept(g)
  <2>1. CASE rec[h] = "friend"
    BY <1>Cancel, <2>1 DEF Cancel, Command, recordVars, Kept, TypeOK
  <2>2. CASE rec[h] # "friend"
    BY <1>Cancel, <2>2 DEF Cancel, Command, recordVars, Kept, TypeOK
  <2> QED
    BY <2>1, <2>2
<1>CancelSend. ASSUME CancelSend(h) PROVE Kept(g)
  BY <1>CancelSend DEF CancelSend, SendUdp, Fault, recordVars, Kept, TypeOK
<1>Accept. ASSUME Accept(h) PROVE Kept(g)
  BY <1>Accept DEF Accept, Command, recordVars, Kept, TypeOK
<1>AcceptDone. ASSUME AcceptDone(h) PROVE Kept(g)
  BY <1>AcceptDone DEF AcceptDone, NotifyAccept, SendUdp, TcpWith, Fault, recordVars, Kept,
       TypeOK
<1>SetFriend. ASSUME SetFriend(h) PROVE Kept(g)
  BY <1>SetFriend DEF SetFriend, Command, recordVars, Kept, TypeOK
<1>SetDone. ASSUME SetDone(h) PROVE Kept(g)
  BY <1>SetDone DEF SetDone, SendUdp, Fault, recordVars, Kept, TypeOK
<1>Reject. ASSUME Reject(h) PROVE Kept(g)
  BY <1>Reject DEF Reject, Command, SendUdp, TcpWith, Fault, recordVars, Kept, TypeOK
<1>RejectDone. ASSUME RejectDone(h) PROVE Kept(g)
  BY <1>RejectDone DEF RejectDone, recordVars, Kept, TypeOK
<1>Unfriend. ASSUME Unfriend(h) PROVE Kept(g)
  BY <1>Unfriend DEF Unfriend, Command, recordVars, Kept, TypeOK
<1>UnfriendDone. ASSUME UnfriendDone(h) PROVE Kept(g)
  BY <1>UnfriendDone DEF UnfriendDone, SendUdp, TcpWith, Fault, recordVars, Kept, TypeOK
<1>HandleRequest. ASSUME HandleRequest(h) PROVE Kept(g)
  <2>1. CASE UNCHANGED workVars /\ UNCHANGED intent
    BY <1>HandleRequest, <2>1 DEF HandleRequest, TakeUdp, AutoAccept, recordVars, Kept, TypeOK
  <2>2. CASE intent[h] /\ AutoAccept(h, "udp")
    BY <1>HandleRequest, <2>2 DEF HandleRequest, TakeUdp, AutoAccept, recordVars, Kept, TypeOK
  <2> QED
    BY <1>HandleRequest, <2>1, <2>2 DEF HandleRequest, AutoAccept, workVars
<1>HandleCancel. ASSUME HandleCancel(h) PROVE Kept(g)
  <2>1. CASE rec[h] = "pending"
    BY <1>HandleCancel, <2>1 DEF HandleCancel, TakeUdp, DropUnconfirmed, recordVars, Kept,
         TypeOK
  <2>2. CASE rec[h] # "pending"
    BY <1>HandleCancel, <2>2 DEF HandleCancel, TakeUdp, DropUnconfirmed, recordVars, Kept,
         TypeOK
  <2> QED
    BY <2>1, <2>2
<1>HandleMessage. ASSUME HandleMessage(h) PROVE Kept(g)
  <2>1. CASE UNCHANGED workVars /\ UNCHANGED intent
    BY <1>HandleMessage, <2>1 DEF HandleMessage, TakeTcp, AutoAccept, recordVars, Kept, TypeOK
  <2>2. CASE intent[h] /\ AutoAccept(h, "tcp")
    BY <1>HandleMessage, <2>2 DEF HandleMessage, TakeTcp, AutoAccept, recordVars, Kept, TypeOK
  <2>3. CASE ~intent[h] /\ Goes(h, "tcp", Job("held", "hold")) /\ UNCHANGED intent
    BY <1>HandleMessage, <2>3 DEF HandleMessage, TakeTcp, AutoAccept, recordVars, Kept, TypeOK
  <2>4. CASE ~intent[h] /\ Goes(h, "tcp", Job("held", "pending")) /\ UNCHANGED intent
    BY <1>HandleMessage, <2>4 DEF HandleMessage, TakeTcp, AutoAccept, recordVars, Kept, TypeOK
  <2> QED
    BY <1>HandleMessage, <2>1, <2>2, <2>3, <2>4 DEF HandleMessage, AutoAccept, workVars
<1>Hold. ASSUME Hold(h) PROVE Kept(g)
  BY <1>Hold DEF Hold, MayHold, recordVars, Kept, TypeOK
<1>HandleAccept. ASSUME NEW t \in Threads, HandleAccept(h, t) PROVE Kept(g)
  BY <1>HandleAccept DEF HandleAccept, Take, TakeUdp, TakeTcp, Requested, recordVars, Kept,
       TypeOK
<1>HandleReject. ASSUME NEW t \in Threads, HandleReject(h, t) PROVE Kept(g)
  <2>1. CASE rec[h] = "pending"
    BY <1>HandleReject, <2>1 DEF HandleReject, Take, TakeUdp, TakeTcp, DropUnconfirmed,
         recordVars, Kept, TypeOK
  <2>2. CASE rec[h] # "pending"
    BY <1>HandleReject, <2>2 DEF HandleReject, Take, TakeUdp, TakeTcp, DropUnconfirmed,
         recordVars, Kept, TypeOK
  <2> QED
    BY <2>1, <2>2
<1>HandleUnfriend. ASSUME NEW t \in Threads, HandleUnfriend(h, t) PROVE Kept(g)
  BY <1>HandleUnfriend DEF HandleUnfriend, Take, TakeUdp, TakeTcp, recordVars, Kept, TypeOK
<1>MutualDone. ASSUME NEW t \in Threads, MutualDone(h, t) PROVE Kept(g)
  BY <1>MutualDone DEF MutualDone, NotifyAccept, SendUdp, TcpWith, Fault, recordVars, Kept,
       TypeOK
<1>AcceptedDone. ASSUME NEW t \in Threads, AcceptedDone(h, t) PROVE Kept(g)
  BY <1>AcceptedDone DEF AcceptedDone, recordVars, Kept, TypeOK
<1>DroppedDone. ASSUME NEW t \in Threads, DroppedDone(h, t) PROVE Kept(g)
  BY <1>DroppedDone DEF DroppedDone, recordVars, Kept, TypeOK
<1>AddFriend. ASSUME NEW t \in Threads, AddFriend(h, t) PROVE Kept(g)
  BY <1>AddFriend DEF AddFriend, SaveRecord, Written, NotWritten, Fault, Kept, TypeOK
<1>AddToLedger. ASSUME NEW t \in Threads, AddToLedger(h, t) PROVE Kept(g)
  BY <1>AddToLedger DEF AddToLedger, Written, NotWritten, Fault, Kept, TypeOK
<1>AddPending. ASSUME NEW t \in Threads, AddPending(h, t) PROVE Kept(g)
  BY <1>AddPending DEF AddPending, SaveRecord, Written, NotWritten, Fault, Kept, TypeOK
<1>RemoveFriend. ASSUME NEW t \in Threads, RemoveFriend(h, t) PROVE Kept(g)
  BY <1>RemoveFriend DEF RemoveFriend, SaveRecord, Written, NotWritten, Fault, Kept, TypeOK
<1>ForgetFriend. ASSUME NEW t \in Threads, ForgetFriend(h, t) PROVE Kept(g)
  BY <1>ForgetFriend DEF ForgetFriend, Forgotten, ForgetInLedger, Written, NotWritten, Fault,
       Kept, TypeOK
<1>Lose. ASSUME Lose(h) PROVE Kept(g)
  BY <1>Lose DEF Lose, Fault, recordVars, Kept, TypeOK
<1>MessageRequest. ASSUME MessageRequest(h) PROVE Kept(g)
  BY <1>MessageRequest DEF MessageRequest, recordVars, Kept, TypeOK
<1>SaveConfig. ASSUME SaveConfig(h) PROVE Kept(g)
  BY <1>SaveConfig DEF SaveConfig, Written, workVars, recordVars, Kept, TypeOK
<1>Restart. ASSUME Restart(h) PROVE Kept(g)
  BY <1>Restart DEF Restart, Boot, Fault, Kept, TypeOK
<1>RestartWithoutConfig. ASSUME RestartWithoutConfig(h) PROVE Kept(g)
  BY <1>RestartWithoutConfig DEF RestartWithoutConfig, Boot, Fault, Kept, TypeOK
<1> QED
  BY <1>Request, <1>RecordIntent, <1>Cancel, <1>CancelSend, <1>Accept, <1>AcceptDone,
       <1>SetFriend, <1>SetDone, <1>Reject, <1>RejectDone, <1>Unfriend, <1>UnfriendDone,
       <1>HandleRequest, <1>HandleCancel, <1>HandleMessage, <1>Hold, <1>HandleAccept,
       <1>HandleReject, <1>HandleUnfriend, <1>MutualDone, <1>AcceptedDone, <1>DroppedDone,
       <1>AddFriend, <1>AddToLedger, <1>AddPending, <1>RemoveFriend, <1>ForgetFriend, <1>Lose,
       <1>MessageRequest, <1>SaveConfig, <1>Restart, <1>RestartWithoutConfig DEF Step, User, Handler, Locked,
       Environment, Threads

(* Taking up work outside the two critical sections keeps the invariant on *)
(* the record and its files. *)
LEMMA RecordKept ==
  ASSUME TypeOK, RecordInv, NEW h \in Hosts, UNCHANGED recordVars,
         \/ UNCHANGED workVars
         \/ \E t \in Threads, o \in Ops, a \in Steps \ {"mirror", "forget"} :
              Goes(h, t, Job(o, a)) /\ job[h][t].at \notin {"mirror", "forget"}
  PROVE  RecordOf(h)'
<1>1. CASE UNCHANGED workVars
  BY <1>1 DEF workVars, recordVars, RecordInv, RecordOf, LedgerFollows, BetweenWrites, At
<1>2. CASE \E t \in Threads, o \in Ops, a \in Steps \ {"mirror", "forget"} :
             Goes(h, t, Job(o, a)) /\ job[h][t].at \notin {"mirror", "forget"}
  <2>1. PICK t \in Threads, o \in Ops, a \in Steps \ {"mirror", "forget"} :
          Goes(h, t, Job(o, a)) /\ job[h][t].at \notin {"mirror", "forget"}
    BY <1>2
  <2>2. \A u \in Threads, x \in {"mirror", "forget"} : job'[h][u].at = x <=> job[h][u].at = x
    BY <2>1 DEF Goes, Job, TypeOK
  <2> QED
    BY <2>2 DEF recordVars, RecordInv, RecordOf, LedgerFollows, BetweenWrites, At
<1> QED
  BY <1>1, <1>2

(* A restart keeps the invariant on the record and its files: a ledger it  *)
(* leaves marked as sound follows what was read.                           *)
LEMMA BootRecord ==
  ASSUME TypeOK, RecordInv, NEW h \in Hosts, NEW d \in {"none", disk[h]}, Boot(h, d)
  PROVE  RecordOf(h)'
<1>1. /\ \A t \in Threads : job'[h][t].at = "idle"
      /\ lock'[h] = Free
  BY DEF Boot, TypeOK, Idle, Job
<1>2. "config" \notin missed'[h] => disk'[h] = rec'[h]
  BY DEF Boot, TypeOK
<1>3. ASSUME LedgerFollows(h)'
      PROVE  (rec'[h] = "friend" => ledger'[h]) /\ (rec'[h] = "none" => ~ledger'[h])
  <2>1. "ledger" \notin missed'[h]
    BY <1>3 DEF LedgerFollows
  <2>2. missed[h] = {} /\ ~BetweenWrites(h)
    BY <2>1 DEF Boot, TypeOK
  <2>3. ledger' = ledger
    BY <2>2 DEF Boot, BetweenWrites, At
  <2>4. /\ disk[h] = rec[h]
        /\ rec[h] = "friend" => ledger[h]
        /\ rec[h] = "none" => ~ledger[h]
    BY <2>2 DEF RecordInv, RecordOf, LedgerFollows
  <2>5. rec'[h] = IF d = "none" /\ ledger[h] THEN "friend" ELSE d
    BY <2>3 DEF Boot, TypeOK
  <2> QED
    BY <2>3, <2>4, <2>5
<1> QED
  BY <1>1, <1>2, <1>3 DEF RecordOf, At, Threads, Free

(* Every operation keeps the invariant on the record and its files. *)
LEMMA RecordStep ==
  ASSUME TypeOK, JobsFit, RecordInv, NEW h \in Hosts, Step(h)
  PROVE  RecordOf(h)'
<1>Request. ASSUME Request(h) PROVE RecordOf(h)'
  BY <1>Request DEF Request, Command, SendUdp, Fault, Job, Idle, recordVars, At, Threads, Goes,
       JobsFit, Fits, TypeOK, Records, RecordInv, RecordOf, LedgerFollows, BetweenWrites, Free
<1>RecordIntent. ASSUME RecordIntent(h) PROVE RecordOf(h)'
  BY <1>RecordIntent DEF RecordIntent, At, Job, Idle, recordVars, Threads, Goes, JobsFit, Fits,
       TypeOK, Records, RecordInv, RecordOf, LedgerFollows, BetweenWrites, Free
<1>Cancel. ASSUME Cancel(h) PROVE RecordOf(h)'
  <2>1. UNCHANGED workVars \/ Goes(h, "user", Job("cancel", "send"))
    BY <1>Cancel DEF Cancel, workVars
  <2>2. UNCHANGED recordVars /\ job[h]["user"].at = "idle"
    BY <1>Cancel DEF Cancel, Command, Idle, Job
  <2> QED
    BY <2>1, <2>2, RecordKept DEF Threads, Ops, UserOps, Steps
<1>CancelSend. ASSUME CancelSend(h) PROVE RecordOf(h)'
  BY <1>CancelSend DEF CancelSend, SendUdp, Fault, Does, Job, Idle, recordVars, At, Threads,
       Goes, JobsFit, Fits, TypeOK, Records, RecordInv, RecordOf, LedgerFollows, BetweenWrites, Free
<1>Accept. ASSUME Accept(h) PROVE RecordOf(h)'
  BY <1>Accept DEF Accept, Command, Job, Idle, recordVars, At, Threads, Goes, JobsFit, Fits,
       TypeOK, Records, RecordInv, RecordOf, LedgerFollows, BetweenWrites, Free
<1>AcceptDone. ASSUME AcceptDone(h) PROVE RecordOf(h)'
  BY <1>AcceptDone DEF AcceptDone, NotifyAccept, SendUdp, TcpWith, Fault, Does, Job, Idle,
       recordVars, At, Threads, Goes, JobsFit, Fits, TypeOK, Records, RecordInv, RecordOf,
       LedgerFollows, BetweenWrites, Free
<1>SetFriend. ASSUME SetFriend(h) PROVE RecordOf(h)'
  BY <1>SetFriend DEF SetFriend, Command, Job, Idle, recordVars, At, Threads, Goes, JobsFit,
       Fits, TypeOK, Records, RecordInv, RecordOf, LedgerFollows, BetweenWrites, Free
<1>SetDone. ASSUME SetDone(h) PROVE RecordOf(h)'
  BY <1>SetDone DEF SetDone, SendUdp, Fault, Does, Job, Idle, recordVars, At, Threads, Goes,
       JobsFit, Fits, TypeOK, Records, RecordInv, RecordOf, LedgerFollows, BetweenWrites, Free
<1>Reject. ASSUME Reject(h) PROVE RecordOf(h)'
  BY <1>Reject DEF Reject, Command, SendUdp, TcpWith, Fault, Job, Idle, recordVars, At, Threads,
       Goes, JobsFit, Fits, TypeOK, Records, RecordInv, RecordOf, LedgerFollows, BetweenWrites, Free
<1>RejectDone. ASSUME RejectDone(h) PROVE RecordOf(h)'
  BY <1>RejectDone DEF RejectDone, Does, Job, Idle, recordVars, At, Threads, Goes, JobsFit,
       Fits, TypeOK, Records, RecordInv, RecordOf, LedgerFollows, BetweenWrites, Free
<1>Unfriend. ASSUME Unfriend(h) PROVE RecordOf(h)'
  <2>1. /\ Goes(h, "user", Job("unfriend", "remove"))
        /\ job[h]["user"] = Idle
        /\ UNCHANGED <<rec, disk, ledger, lock, missed>>
    BY <1>Unfriend DEF Unfriend, Command, recordVars
  <2> QED
    BY <2>1 DEF Goes, Job, Idle, At, Threads, TypeOK, RecordInv, RecordOf, LedgerFollows,
         BetweenWrites
<1>UnfriendDone. ASSUME UnfriendDone(h) PROVE RecordOf(h)'
  BY <1>UnfriendDone DEF UnfriendDone, SendUdp, TcpWith, Fault, Does, Job, Idle, recordVars, At,
       Threads, Goes, JobsFit, Fits, TypeOK, Records, RecordInv, RecordOf, LedgerFollows,
       BetweenWrites, Free
<1>HandleRequest. ASSUME HandleRequest(h) PROVE RecordOf(h)'
  <2>1. CASE UNCHANGED workVars /\ UNCHANGED intent
    BY <1>HandleRequest, <2>1 DEF HandleRequest, TakeUdp, AutoAccept, Job, Idle, recordVars,
         workVars, At, Threads, Goes, JobsFit, Fits, TypeOK, Records, RecordInv, RecordOf,
         LedgerFollows, BetweenWrites, Free
  <2>2. CASE intent[h] /\ AutoAccept(h, "udp")
    BY <1>HandleRequest, <2>2 DEF HandleRequest, TakeUdp, AutoAccept, Job, Idle, recordVars,
         workVars, At, Threads, Goes, JobsFit, Fits, TypeOK, Records, RecordInv, RecordOf,
         LedgerFollows, BetweenWrites, Free
  <2> QED
    BY <1>HandleRequest, <2>1, <2>2 DEF HandleRequest, AutoAccept, workVars
<1>HandleCancel. ASSUME HandleCancel(h) PROVE RecordOf(h)'
  <2>1. UNCHANGED workVars \/ Goes(h, "udp", Job("dropped", "remove"))
    BY <1>HandleCancel DEF HandleCancel, DropUnconfirmed
  <2>2. UNCHANGED recordVars /\ job[h]["udp"].at = "idle"
    BY <1>HandleCancel DEF HandleCancel, TakeUdp, Idle, Job
  <2> QED
    BY <2>1, <2>2, RecordKept DEF Threads, Ops, Steps
<1>HandleMessage. ASSUME HandleMessage(h) PROVE RecordOf(h)'
  <2>1. \/ UNCHANGED workVars
        \/ Goes(h, "tcp", Job("mutual", "add"))
        \/ Goes(h, "tcp", Job("held", "hold"))
        \/ Goes(h, "tcp", Job("held", "pending"))
    BY <1>HandleMessage DEF HandleMessage, AutoAccept
  <2>2. UNCHANGED recordVars /\ job[h]["tcp"].at = "idle"
    BY <1>HandleMessage DEF HandleMessage, TakeTcp, Idle, Job
  <2> QED
    BY <2>1, <2>2, RecordKept DEF Threads, Ops, Steps
<1>Hold. ASSUME Hold(h) PROVE RecordOf(h)'
  BY <1>Hold DEF Hold, MayHold, Does, Job, Idle, recordVars, At, Threads, Goes, JobsFit, Fits,
       TypeOK, Records, RecordInv, RecordOf, LedgerFollows, BetweenWrites, Free
<1>HandleAccept. ASSUME NEW t \in Threads, HandleAccept(h, t) PROVE RecordOf(h)'
  BY <1>HandleAccept DEF HandleAccept, Take, TakeUdp, TakeTcp, Requested, Job, Idle, recordVars,
       workVars, At, Threads, Goes, JobsFit, Fits, TypeOK, Records, RecordInv, RecordOf,
       LedgerFollows, BetweenWrites, Free
<1>HandleReject. ASSUME NEW t \in Threads, HandleReject(h, t) PROVE RecordOf(h)'
  <2>1. UNCHANGED workVars \/ Goes(h, t, Job("dropped", "remove"))
    BY <1>HandleReject DEF HandleReject, DropUnconfirmed
  <2>2. UNCHANGED recordVars /\ job[h][t].at = "idle"
    BY <1>HandleReject DEF HandleReject, Take, TakeUdp, TakeTcp, Idle, Job
  <2> QED
    BY <2>1, <2>2, RecordKept DEF Threads, Ops, Steps
<1>HandleUnfriend. ASSUME NEW t \in Threads, HandleUnfriend(h, t) PROVE RecordOf(h)'
  BY <1>HandleUnfriend DEF HandleUnfriend, Take, TakeUdp, TakeTcp, Job, Idle, recordVars, At,
       Threads, Goes, JobsFit, Fits, TypeOK, Records, RecordInv, RecordOf, LedgerFollows,
       BetweenWrites, Free
<1>MutualDone. ASSUME NEW t \in Threads, MutualDone(h, t) PROVE RecordOf(h)'
  BY <1>MutualDone DEF MutualDone, NotifyAccept, SendUdp, TcpWith, Fault, Does, Job, Idle,
       recordVars, At, Threads, Goes, JobsFit, Fits, TypeOK, Records, RecordInv, RecordOf,
       LedgerFollows, BetweenWrites, Free
<1>AcceptedDone. ASSUME NEW t \in Threads, AcceptedDone(h, t) PROVE RecordOf(h)'
  BY <1>AcceptedDone DEF AcceptedDone, Does, Job, Idle, recordVars, At, Threads, Goes, JobsFit,
       Fits, TypeOK, Records, RecordInv, RecordOf, LedgerFollows, BetweenWrites, Free
<1>DroppedDone. ASSUME NEW t \in Threads, DroppedDone(h, t) PROVE RecordOf(h)'
  BY <1>DroppedDone DEF DroppedDone, Does, Job, Idle, recordVars, At, Threads, Goes, JobsFit,
       Fits, TypeOK, Records, RecordInv, RecordOf, LedgerFollows, BetweenWrites, Free
<1>AddFriend. ASSUME NEW t \in Threads, AddFriend(h, t) PROVE RecordOf(h)'
  BY <1>AddFriend DEF AddFriend, SaveRecord, Written, NotWritten, Fault, At, Job, Threads, Goes,
       JobsFit, Fits, TypeOK, Records, RecordInv, RecordOf, LedgerFollows, BetweenWrites, Free
<1>AddToLedger. ASSUME NEW t \in Threads, AddToLedger(h, t) PROVE RecordOf(h)'
  BY <1>AddToLedger DEF AddToLedger, Written, NotWritten, Fault, At, Job, Threads, Goes,
       JobsFit, Fits, TypeOK, Records, RecordInv, RecordOf, LedgerFollows, BetweenWrites, Free
<1>AddPending. ASSUME NEW t \in Threads, AddPending(h, t) PROVE RecordOf(h)'
  BY <1>AddPending DEF AddPending, SaveRecord, Written, NotWritten, Fault, At, Job, Threads,
       Goes, JobsFit, Fits, TypeOK, Records, RecordInv, RecordOf, LedgerFollows, BetweenWrites,
       Free
<1>RemoveFriend. ASSUME NEW t \in Threads, RemoveFriend(h, t) PROVE RecordOf(h)'
  BY <1>RemoveFriend DEF RemoveFriend, SaveRecord, Written, NotWritten, Fault, At, Job, Threads,
       Goes, JobsFit, Fits, TypeOK, Records, RecordInv, RecordOf, LedgerFollows, BetweenWrites,
       Free
<1>ForgetFriend. ASSUME NEW t \in Threads, ForgetFriend(h, t) PROVE RecordOf(h)'
  BY <1>ForgetFriend DEF ForgetFriend, Forgotten, ForgetInLedger, Written, NotWritten, Fault,
       At, Job, Idle, Threads, Goes, JobsFit, Fits, TypeOK, Records, RecordInv, RecordOf,
       LedgerFollows, BetweenWrites, Free
<1>Lose. ASSUME Lose(h) PROVE RecordOf(h)'
  BY <1>Lose DEF Lose, Fault, recordVars, workVars, At, Threads, Goes, JobsFit, Fits, TypeOK,
       Records, RecordInv, RecordOf, LedgerFollows, BetweenWrites, Free
<1>MessageRequest. ASSUME MessageRequest(h) PROVE RecordOf(h)'
  BY <1>MessageRequest DEF MessageRequest, recordVars, workVars, At, Threads, Goes, JobsFit,
       Fits, TypeOK, Records, RecordInv, RecordOf, LedgerFollows, BetweenWrites, Free
<1>SaveConfig. ASSUME SaveConfig(h) PROVE RecordOf(h)'
  BY <1>SaveConfig DEF SaveConfig, Written, recordVars, workVars, At, Threads, Goes, JobsFit,
       Fits, TypeOK, Records, RecordInv, RecordOf, LedgerFollows, BetweenWrites, Free
<1>Restart. ASSUME Restart(h) PROVE RecordOf(h)'
  BY <1>Restart, BootRecord DEF Restart
<1>RestartWithoutConfig. ASSUME RestartWithoutConfig(h) PROVE RecordOf(h)'
  BY <1>RestartWithoutConfig, BootRecord DEF RestartWithoutConfig
<1> QED
  BY <1>Request, <1>RecordIntent, <1>Cancel, <1>CancelSend, <1>Accept, <1>AcceptDone,
       <1>SetFriend, <1>SetDone, <1>Reject, <1>RejectDone, <1>Unfriend, <1>UnfriendDone,
       <1>HandleRequest, <1>HandleCancel, <1>HandleMessage, <1>Hold, <1>HandleAccept,
       <1>HandleReject, <1>HandleUnfriend, <1>MutualDone, <1>AcceptedDone, <1>DroppedDone,
       <1>AddFriend, <1>AddToLedger, <1>AddPending, <1>RemoveFriend, <1>ForgetFriend, <1>Lose,
       <1>MessageRequest, <1>SaveConfig, <1>Restart, <1>RestartWithoutConfig DEF Step, User, Handler, Locked,
       Environment, Threads

(* A restart that makes a friend of somebody who was none is an overlap. *)
LEMMA BootBacked ==
  ASSUME TypeOK, ConsentInv, NEW h \in Hosts, NEW d \in {"none", disk[h]}, Boot(h, d)
  PROVE  (Backed(h) \/ Nothing(h))'
<1>1. /\ intent'[h] = FALSE /\ consent'[h] = consent[h]
      /\ \A t \in Threads : job'[h][t].op = "none"
  BY DEF Boot, TypeOK, Idle, Job
<1>2. rec'[h] = "friend" => overlap'[h] \/ rec[h] = "friend"
  BY DEF Boot, TypeOK
<1>3. overlap[h] => overlap'[h]
  BY DEF Boot, TypeOK
<1> QED
  BY <1>1, <1>2, <1>3 DEF ConsentInv, Backed, Nothing

(* Every operation keeps the first half of the invariant on consent, *)
LEMMA BackedStep ==
  ASSUME TypeOK, JobsFit, RecordInv, ConsentInv, NEW h \in Hosts, Step(h)
  PROVE  (Backed(h) \/ Nothing(h))'
<1>Request. ASSUME Request(h) PROVE (Backed(h) \/ Nothing(h))'
  BY <1>Request DEF Request, Command, SendUdp, Fault, Job, Idle, recordVars, At, Threads, Goes,
       UserOps, TypeOK, JobsFit, Fits, RecordInv, RecordOf, ConsentInv, Backed, Nothing,
       Withdrawn, Ending, Confirming
<1>RecordIntent. ASSUME RecordIntent(h) PROVE (Backed(h) \/ Nothing(h))'
  BY <1>RecordIntent DEF RecordIntent, At, Job, Idle, recordVars, Threads, Goes, UserOps,
       TypeOK, JobsFit, Fits, RecordInv, RecordOf, ConsentInv, Backed, Nothing, Withdrawn,
       Ending, Confirming
<1>Cancel. ASSUME Cancel(h) PROVE (Backed(h) \/ Nothing(h))'
  <2>1. CASE rec[h] = "friend"
    BY <1>Cancel, <2>1 DEF Cancel, workVars, ConsentInv, Backed, Nothing
  <2>2. CASE rec[h] # "friend"
    <3>1. /\ Goes(h, "user", Job("cancel", "send"))
          /\ rec' = rec
          /\ intent' = [intent EXCEPT ![h] = FALSE]
      BY <1>Cancel, <2>2 DEF Cancel, recordVars
    <3>2. CASE Confirming(job'[h])
      <4>1. overlap'[h]
        BY <3>1, <3>2 DEF Goes, Ending, Confirming, Job, TypeOK, Threads
      <4> QED
        BY <4>1 DEF Backed
    <3>3. CASE ~Confirming(job'[h])
      <4>1. job'[h]["user"] = Job("cancel", "send")
        BY <3>1 DEF Goes, TypeOK, Threads
      <4>2. \A t \in {"udp", "tcp"} : job'[h][t] = job[h][t]
        BY <3>1 DEF Goes, TypeOK, Threads
      <4>3. \A t \in {"udp", "tcp"} : job'[h][t].op \notin {"request", "accept", "set"}
        BY <4>2 DEF JobsFit, Fits, UserOps, Threads
      <4>4. \A t \in Threads :
              job'[h][t].op \notin {"request", "accept", "set", "mutual", "accepted"}
        BY <3>3, <4>1, <4>3 DEF Confirming, Threads, Job
      <4>5. rec'[h] # "friend" /\ ~intent'[h]
        BY <2>2, <3>1 DEF TypeOK
      <4> QED
        BY <4>4, <4>5 DEF Nothing
    <3> QED
      BY <3>2, <3>3
  <2> QED
    BY <2>1, <2>2
<1>CancelSend. ASSUME CancelSend(h) PROVE (Backed(h) \/ Nothing(h))'
  BY <1>CancelSend DEF CancelSend, SendUdp, Fault, Does, Job, Idle, recordVars, At, Threads,
       Goes, UserOps, TypeOK, JobsFit, Fits, RecordInv, RecordOf, ConsentInv, Backed, Nothing,
       Withdrawn, Ending, Confirming
<1>Accept. ASSUME Accept(h) PROVE (Backed(h) \/ Nothing(h))'
  BY <1>Accept DEF Accept, Command, Job, Idle, recordVars, At, Threads, Goes, UserOps, TypeOK,
       JobsFit, Fits, RecordInv, RecordOf, ConsentInv, Backed, Nothing, Withdrawn, Ending,
       Confirming
<1>AcceptDone. ASSUME AcceptDone(h) PROVE (Backed(h) \/ Nothing(h))'
  BY <1>AcceptDone DEF AcceptDone, NotifyAccept, SendUdp, TcpWith, Fault, Does, Job, Idle,
       recordVars, At, Threads, Goes, UserOps, TypeOK, JobsFit, Fits, RecordInv, RecordOf,
       ConsentInv, Backed, Nothing, Withdrawn, Ending, Confirming
<1>SetFriend. ASSUME SetFriend(h) PROVE (Backed(h) \/ Nothing(h))'
  BY <1>SetFriend DEF SetFriend, Command, Job, Idle, recordVars, At, Threads, Goes, UserOps,
       TypeOK, JobsFit, Fits, RecordInv, RecordOf, ConsentInv, Backed, Nothing, Withdrawn,
       Ending, Confirming
<1>SetDone. ASSUME SetDone(h) PROVE (Backed(h) \/ Nothing(h))'
  BY <1>SetDone DEF SetDone, SendUdp, Fault, Does, Job, Idle, recordVars, At, Threads, Goes,
       UserOps, TypeOK, JobsFit, Fits, RecordInv, RecordOf, ConsentInv, Backed, Nothing,
       Withdrawn, Ending, Confirming
<1>Reject. ASSUME Reject(h) PROVE (Backed(h) \/ Nothing(h))'
  BY <1>Reject DEF Reject, Command, SendUdp, TcpWith, Fault, Job, Idle, recordVars, At, Threads,
       Goes, UserOps, TypeOK, JobsFit, Fits, RecordInv, RecordOf, ConsentInv, Backed, Nothing,
       Withdrawn, Ending, Confirming
<1>RejectDone. ASSUME RejectDone(h) PROVE (Backed(h) \/ Nothing(h))'
  BY <1>RejectDone DEF RejectDone, Does, Job, Idle, recordVars, At, Threads, Goes, UserOps,
       TypeOK, JobsFit, Fits, RecordInv, RecordOf, ConsentInv, Backed, Nothing, Withdrawn,
       Ending, Confirming
<1>Unfriend. ASSUME Unfriend(h) PROVE (Backed(h) \/ Nothing(h))'
  BY <1>Unfriend DEF Unfriend, Command, Job, Idle, recordVars, At, Threads, Goes, UserOps,
       TypeOK, JobsFit, Fits, RecordInv, RecordOf, ConsentInv, Backed, Nothing, Withdrawn,
       Ending, Confirming
<1>UnfriendDone. ASSUME UnfriendDone(h) PROVE (Backed(h) \/ Nothing(h))'
  BY <1>UnfriendDone DEF UnfriendDone, SendUdp, TcpWith, Fault, Does, Job, Idle, recordVars, At,
       Threads, Goes, UserOps, TypeOK, JobsFit, Fits, RecordInv, RecordOf, ConsentInv, Backed,
       Nothing, Withdrawn, Ending, Confirming
<1>HandleRequest. ASSUME HandleRequest(h) PROVE (Backed(h) \/ Nothing(h))'
  <2>1. CASE UNCHANGED workVars /\ UNCHANGED intent
    BY <1>HandleRequest, <2>1 DEF HandleRequest, TakeUdp, AutoAccept, Job, Idle, recordVars,
         workVars, At, Threads, Goes, UserOps, TypeOK, JobsFit, Fits, RecordInv, RecordOf,
         ConsentInv, Backed, Nothing, Withdrawn, Ending, Confirming
  <2>2. CASE intent[h] /\ AutoAccept(h, "udp")
    BY <1>HandleRequest, <2>2 DEF HandleRequest, TakeUdp, AutoAccept, Job, Idle, recordVars,
         workVars, At, Threads, Goes, UserOps, TypeOK, JobsFit, Fits, RecordInv, RecordOf,
         ConsentInv, Backed, Nothing, Withdrawn, Ending, Confirming
  <2> QED
    BY <1>HandleRequest, <2>1, <2>2 DEF HandleRequest, AutoAccept, workVars
<1>HandleCancel. ASSUME HandleCancel(h) PROVE (Backed(h) \/ Nothing(h))'
  <2>1. CASE rec[h] = "pending"
    <3>1. /\ Goes(h, "udp", Job("dropped", "remove"))
          /\ UNCHANGED <<rec, disk, ledger, lock, missed, intent, consent>>
      BY <1>HandleCancel, <2>1 DEF HandleCancel, TakeUdp, DropUnconfirmed, recordVars,
           boundVars, workVars
    <3> QED
      BY <3>1, <2>1, TypeParts DEF Goes, Job, Idle, Threads, TypeOK, ConsentInv, Backed,
           Nothing, Ending, Confirming
  <2>2. CASE rec[h] # "pending"
    BY <1>HandleCancel, <2>2 DEF HandleCancel, TakeUdp, DropUnconfirmed, Job, Idle, recordVars,
         workVars, At, Threads, Goes, UserOps, TypeOK, JobsFit, Fits, RecordInv, RecordOf,
         ConsentInv, Backed, Nothing, Withdrawn, Ending, Confirming
  <2> QED
    BY <2>1, <2>2
<1>HandleMessage. ASSUME HandleMessage(h) PROVE (Backed(h) \/ Nothing(h))'
  <2>1. CASE UNCHANGED workVars /\ UNCHANGED intent
    BY <1>HandleMessage, <2>1 DEF HandleMessage, TakeTcp, AutoAccept, Job, Idle, recordVars,
         workVars, At, Threads, Goes, UserOps, TypeOK, JobsFit, Fits, RecordInv, RecordOf,
         ConsentInv, Backed, Nothing, Withdrawn, Ending, Confirming
  <2>2. CASE intent[h] /\ AutoAccept(h, "tcp")
    BY <1>HandleMessage, <2>2 DEF HandleMessage, TakeTcp, AutoAccept, Job, Idle, recordVars,
         workVars, At, Threads, Goes, UserOps, TypeOK, JobsFit, Fits, RecordInv, RecordOf,
         ConsentInv, Backed, Nothing, Withdrawn, Ending, Confirming
  <2>3. CASE ~intent[h] /\ Goes(h, "tcp", Job("held", "hold")) /\ UNCHANGED intent
    BY <1>HandleMessage, <2>3 DEF HandleMessage, TakeTcp, AutoAccept, Job, Idle, recordVars,
         workVars, At, Threads, Goes, UserOps, TypeOK, JobsFit, Fits, RecordInv, RecordOf,
         ConsentInv, Backed, Nothing, Withdrawn, Ending, Confirming
  <2>4. CASE ~intent[h] /\ Goes(h, "tcp", Job("held", "pending")) /\ UNCHANGED intent
    BY <1>HandleMessage, <2>4 DEF HandleMessage, TakeTcp, AutoAccept, Job, Idle, recordVars,
         workVars, At, Threads, Goes, UserOps, TypeOK, JobsFit, Fits, RecordInv, RecordOf,
         ConsentInv, Backed, Nothing, Withdrawn, Ending, Confirming
  <2> QED
    BY <1>HandleMessage, <2>1, <2>2, <2>3, <2>4 DEF HandleMessage, AutoAccept, workVars
<1>Hold. ASSUME Hold(h) PROVE (Backed(h) \/ Nothing(h))'
  BY <1>Hold DEF Hold, MayHold, Does, Job, Idle, recordVars, At, Threads, Goes, UserOps, TypeOK,
       JobsFit, Fits, RecordInv, RecordOf, ConsentInv, Backed, Nothing, Withdrawn, Ending,
       Confirming
<1>HandleAccept. ASSUME NEW t \in Threads, HandleAccept(h, t) PROVE (Backed(h) \/ Nothing(h))'
  <2>1. CASE intent[h]
    <3>1. /\ Goes(h, t, Job("accepted", "add"))
          /\ UNCHANGED <<rec, disk, ledger, lock, missed, intent, consent>>
      BY <1>HandleAccept, <2>1 DEF HandleAccept, Take, TakeUdp, TakeTcp, Requested, recordVars,
           boundVars, workVars
    <3> QED
      BY <3>1, <2>1, TypeParts DEF Goes, Job, Idle, Threads, TypeOK, ConsentInv, Backed,
           Nothing, Ending, Confirming
  <2>2. CASE ~intent[h]
    BY <1>HandleAccept, <2>2 DEF HandleAccept, Take, TakeUdp, TakeTcp, Requested, Job, Idle,
         recordVars, workVars, At, Threads, Goes, UserOps, TypeOK, JobsFit, Fits, RecordInv,
         RecordOf, ConsentInv, Backed, Nothing, Withdrawn, Ending, Confirming
  <2> QED
    BY <2>1, <2>2
<1>HandleReject. ASSUME NEW t \in Threads, HandleReject(h, t) PROVE (Backed(h) \/ Nothing(h))'
  <2>1. CASE rec[h] = "pending"
    <3>1. /\ Goes(h, t, Job("dropped", "remove"))
          /\ UNCHANGED <<rec, disk, ledger, lock, missed, consent>>
          /\ intent' = [intent EXCEPT ![h] = FALSE]
      BY <1>HandleReject, <2>1 DEF HandleReject, Take, TakeUdp, TakeTcp, DropUnconfirmed,
           recordVars, boundVars, workVars
    <3> QED
      BY <3>1, <2>1, TypeParts DEF Goes, Job, Idle, Threads, TypeOK, ConsentInv, Backed,
           Nothing, Ending, Confirming
  <2>2. CASE rec[h] # "pending"
    BY <1>HandleReject, <2>2 DEF HandleReject, Take, TakeUdp, TakeTcp, DropUnconfirmed, Job,
         Idle, recordVars, workVars, At, Threads, Goes, UserOps, TypeOK, JobsFit, Fits,
         RecordInv, RecordOf, ConsentInv, Backed, Nothing, Withdrawn, Ending, Confirming
  <2> QED
    BY <2>1, <2>2
<1>HandleUnfriend. ASSUME NEW t \in Threads, HandleUnfriend(h, t) PROVE (Backed(h) \/ Nothing(h))'
  BY <1>HandleUnfriend DEF HandleUnfriend, Take, TakeUdp, TakeTcp, Job, Idle, recordVars, At,
       Threads, Goes, UserOps, TypeOK, JobsFit, Fits, RecordInv, RecordOf, ConsentInv, Backed,
       Nothing, Withdrawn, Ending, Confirming
<1>MutualDone. ASSUME NEW t \in Threads, MutualDone(h, t) PROVE (Backed(h) \/ Nothing(h))'
  BY <1>MutualDone DEF MutualDone, NotifyAccept, SendUdp, TcpWith, Fault, Does, Job, Idle,
       recordVars, At, Threads, Goes, UserOps, TypeOK, JobsFit, Fits, RecordInv, RecordOf,
       ConsentInv, Backed, Nothing, Withdrawn, Ending, Confirming
<1>AcceptedDone. ASSUME NEW t \in Threads, AcceptedDone(h, t) PROVE (Backed(h) \/ Nothing(h))'
  BY <1>AcceptedDone DEF AcceptedDone, Does, Job, Idle, recordVars, At, Threads, Goes, UserOps,
       TypeOK, JobsFit, Fits, RecordInv, RecordOf, ConsentInv, Backed, Nothing, Withdrawn,
       Ending, Confirming
<1>DroppedDone. ASSUME NEW t \in Threads, DroppedDone(h, t) PROVE (Backed(h) \/ Nothing(h))'
  BY <1>DroppedDone DEF DroppedDone, Does, Job, Idle, recordVars, At, Threads, Goes, UserOps,
       TypeOK, JobsFit, Fits, RecordInv, RecordOf, ConsentInv, Backed, Nothing, Withdrawn,
       Ending, Confirming
<1>AddFriend. ASSUME NEW t \in Threads, AddFriend(h, t) PROVE (Backed(h) \/ Nothing(h))'
  BY <1>AddFriend DEF AddFriend, SaveRecord, Written, NotWritten, Fault, At, Job, Threads, Goes,
       UserOps, TypeOK, JobsFit, Fits, RecordInv, RecordOf, ConsentInv, Backed, Nothing,
       Withdrawn, Ending, Confirming
<1>AddToLedger. ASSUME NEW t \in Threads, AddToLedger(h, t) PROVE (Backed(h) \/ Nothing(h))'
  BY <1>AddToLedger DEF AddToLedger, Written, NotWritten, Fault, At, Job, Threads, Goes,
       UserOps, TypeOK, JobsFit, Fits, RecordInv, RecordOf, ConsentInv, Backed, Nothing,
       Withdrawn, Ending, Confirming
<1>AddPending. ASSUME NEW t \in Threads, AddPending(h, t) PROVE (Backed(h) \/ Nothing(h))'
  BY <1>AddPending DEF AddPending, SaveRecord, Written, NotWritten, Fault, At, Job, Threads,
       Goes, UserOps, TypeOK, JobsFit, Fits, RecordInv, RecordOf, ConsentInv, Backed, Nothing,
       Withdrawn, Ending, Confirming
<1>RemoveFriend. ASSUME NEW t \in Threads, RemoveFriend(h, t) PROVE (Backed(h) \/ Nothing(h))'
  BY <1>RemoveFriend DEF RemoveFriend, SaveRecord, Written, NotWritten, Fault, At, Job, Threads,
       Goes, UserOps, TypeOK, JobsFit, Fits, RecordInv, RecordOf, ConsentInv, Backed, Nothing,
       Withdrawn, Ending, Confirming
<1>ForgetFriend. ASSUME NEW t \in Threads, ForgetFriend(h, t) PROVE (Backed(h) \/ Nothing(h))'
  BY <1>ForgetFriend DEF ForgetFriend, Forgotten, ForgetInLedger, Written, NotWritten, Fault,
       At, Job, Idle, Threads, Goes, UserOps, TypeOK, JobsFit, Fits, RecordInv, RecordOf,
       ConsentInv, Backed, Nothing, Withdrawn, Ending, Confirming
<1>Lose. ASSUME Lose(h) PROVE (Backed(h) \/ Nothing(h))'
  BY <1>Lose DEF Lose, Fault, recordVars, workVars, At, Threads, Goes, UserOps, TypeOK, JobsFit,
       Fits, RecordInv, RecordOf, ConsentInv, Backed, Nothing, Withdrawn, Ending, Confirming
<1>MessageRequest. ASSUME MessageRequest(h) PROVE (Backed(h) \/ Nothing(h))'
  BY <1>MessageRequest DEF MessageRequest, recordVars, workVars, At, Threads, Goes, UserOps,
       TypeOK, JobsFit, Fits, RecordInv, RecordOf, ConsentInv, Backed, Nothing, Withdrawn,
       Ending, Confirming
<1>SaveConfig. ASSUME SaveConfig(h) PROVE (Backed(h) \/ Nothing(h))'
  BY <1>SaveConfig DEF SaveConfig, Written, recordVars, workVars, At, Threads, Goes, UserOps,
       TypeOK, JobsFit, Fits, RecordInv, RecordOf, ConsentInv, Backed, Nothing, Withdrawn,
       Ending, Confirming
<1>Restart. ASSUME Restart(h) PROVE (Backed(h) \/ Nothing(h))'
  BY <1>Restart, BootBacked DEF Restart
<1>RestartWithoutConfig. ASSUME RestartWithoutConfig(h) PROVE (Backed(h) \/ Nothing(h))'
  BY <1>RestartWithoutConfig, BootBacked DEF RestartWithoutConfig
<1> QED
  BY <1>Request, <1>RecordIntent, <1>Cancel, <1>CancelSend, <1>Accept, <1>AcceptDone,
       <1>SetFriend, <1>SetDone, <1>Reject, <1>RejectDone, <1>Unfriend, <1>UnfriendDone,
       <1>HandleRequest, <1>HandleCancel, <1>HandleMessage, <1>Hold, <1>HandleAccept,
       <1>HandleReject, <1>HandleUnfriend, <1>MutualDone, <1>AcceptedDone, <1>DroppedDone,
       <1>AddFriend, <1>AddToLedger, <1>AddPending, <1>RemoveFriend, <1>ForgetFriend, <1>Lose,
       <1>MessageRequest, <1>SaveConfig, <1>Restart, <1>RestartWithoutConfig DEF Step, User, Handler, Locked,
       Environment, Threads

(* ... and the second. *)
LEMMA WithdrawnStep ==
  ASSUME TypeOK, JobsFit, ConsentInv, NEW h \in Hosts, Step(h)
  PROVE  Withdrawn(h)'
<1>Request. ASSUME Request(h) PROVE Withdrawn(h)'
  BY <1>Request DEF Request, Command, SendUdp, Fault, Job, Idle, recordVars, At, Threads, Goes,
       UserOps, TypeOK, JobsFit, Fits, ConsentInv, Backed, Nothing, Withdrawn, Ending,
       Confirming
<1>RecordIntent. ASSUME RecordIntent(h) PROVE Withdrawn(h)'
  BY <1>RecordIntent DEF RecordIntent, At, Job, Idle, recordVars, Threads, Goes, UserOps,
       TypeOK, JobsFit, Fits, ConsentInv, Backed, Nothing, Withdrawn, Ending, Confirming
<1>Cancel. ASSUME Cancel(h) PROVE Withdrawn(h)'
  <2>1. CASE rec[h] = "friend"
    BY <1>Cancel, <2>1 DEF Cancel, Command, Job, Idle, recordVars, workVars, At, Threads, Goes,
         UserOps, TypeOK, JobsFit, Fits, ConsentInv, Backed, Nothing, Withdrawn, Ending,
         Confirming
  <2>2. CASE rec[h] # "friend"
    <3>1. /\ Goes(h, "user", Job("cancel", "send"))
          /\ UNCHANGED <<rec, disk, ledger, lock, missed>>
          /\ intent' = [intent EXCEPT ![h] = FALSE]
          /\ consent' = [consent EXCEPT ![h] = FALSE]
          /\ job[h]["user"] = Idle
      BY <1>Cancel, <2>2 DEF Cancel, Command, recordVars, netVars, workVars
    <3> QED
      BY <3>1, <2>2, TypeParts DEF Goes, Job, Idle, At, Threads, TypeOK, ConsentInv, Backed,
           Nothing, Withdrawn, Ending, Confirming
  <2> QED
    BY <2>1, <2>2
<1>CancelSend. ASSUME CancelSend(h) PROVE Withdrawn(h)'
  BY <1>CancelSend DEF CancelSend, SendUdp, Fault, Does, Job, Idle, recordVars, At, Threads,
       Goes, UserOps, TypeOK, JobsFit, Fits, ConsentInv, Backed, Nothing, Withdrawn, Ending,
       Confirming
<1>Accept. ASSUME Accept(h) PROVE Withdrawn(h)'
  BY <1>Accept DEF Accept, Command, Job, Idle, recordVars, At, Threads, Goes, UserOps, TypeOK,
       JobsFit, Fits, ConsentInv, Backed, Nothing, Withdrawn, Ending, Confirming
<1>AcceptDone. ASSUME AcceptDone(h) PROVE Withdrawn(h)'
  BY <1>AcceptDone DEF AcceptDone, NotifyAccept, SendUdp, TcpWith, Fault, Does, Job, Idle,
       recordVars, At, Threads, Goes, UserOps, TypeOK, JobsFit, Fits, ConsentInv, Backed,
       Nothing, Withdrawn, Ending, Confirming
<1>SetFriend. ASSUME SetFriend(h) PROVE Withdrawn(h)'
  BY <1>SetFriend DEF SetFriend, Command, Job, Idle, recordVars, At, Threads, Goes, UserOps,
       TypeOK, JobsFit, Fits, ConsentInv, Backed, Nothing, Withdrawn, Ending, Confirming
<1>SetDone. ASSUME SetDone(h) PROVE Withdrawn(h)'
  BY <1>SetDone DEF SetDone, SendUdp, Fault, Does, Job, Idle, recordVars, At, Threads, Goes,
       UserOps, TypeOK, JobsFit, Fits, ConsentInv, Backed, Nothing, Withdrawn, Ending,
       Confirming
<1>Reject. ASSUME Reject(h) PROVE Withdrawn(h)'
  BY <1>Reject DEF Reject, Command, SendUdp, TcpWith, Fault, Job, Idle, recordVars, At, Threads,
       Goes, UserOps, TypeOK, JobsFit, Fits, ConsentInv, Backed, Nothing, Withdrawn, Ending,
       Confirming
<1>RejectDone. ASSUME RejectDone(h) PROVE Withdrawn(h)'
  BY <1>RejectDone DEF RejectDone, Does, Job, Idle, recordVars, At, Threads, Goes, UserOps,
       TypeOK, JobsFit, Fits, ConsentInv, Backed, Nothing, Withdrawn, Ending, Confirming
<1>Unfriend. ASSUME Unfriend(h) PROVE Withdrawn(h)'
  BY <1>Unfriend DEF Unfriend, Command, Job, Idle, recordVars, At, Threads, Goes, UserOps,
       TypeOK, JobsFit, Fits, ConsentInv, Backed, Nothing, Withdrawn, Ending, Confirming
<1>UnfriendDone. ASSUME UnfriendDone(h) PROVE Withdrawn(h)'
  BY <1>UnfriendDone DEF UnfriendDone, SendUdp, TcpWith, Fault, Does, Job, Idle, recordVars, At,
       Threads, Goes, UserOps, TypeOK, JobsFit, Fits, ConsentInv, Backed, Nothing, Withdrawn,
       Ending, Confirming
<1>HandleRequest. ASSUME HandleRequest(h) PROVE Withdrawn(h)'
  <2>1. CASE UNCHANGED workVars /\ UNCHANGED intent
    BY <1>HandleRequest, <2>1 DEF HandleRequest, TakeUdp, AutoAccept, Job, Idle, recordVars,
         workVars, At, Threads, Goes, UserOps, TypeOK, JobsFit, Fits, ConsentInv, Backed,
         Nothing, Withdrawn, Ending, Confirming
  <2>2. CASE intent[h] /\ AutoAccept(h, "udp")
    BY <1>HandleRequest, <2>2 DEF HandleRequest, TakeUdp, AutoAccept, Job, Idle, recordVars,
         workVars, At, Threads, Goes, UserOps, TypeOK, JobsFit, Fits, ConsentInv, Backed,
         Nothing, Withdrawn, Ending, Confirming
  <2> QED
    BY <1>HandleRequest, <2>1, <2>2 DEF HandleRequest, AutoAccept, workVars
<1>HandleCancel. ASSUME HandleCancel(h) PROVE Withdrawn(h)'
  <2>1. CASE rec[h] = "pending"
    <3>1. /\ Goes(h, "udp", Job("dropped", "remove"))
          /\ UNCHANGED <<rec, disk, ledger, lock, missed, intent, consent>>
      BY <1>HandleCancel, <2>1 DEF HandleCancel, TakeUdp, DropUnconfirmed, recordVars,
           boundVars, workVars
    <3> QED
      BY <3>1, <2>1, TypeParts DEF Goes, Job, Idle, At, Threads, TypeOK, ConsentInv, Backed,
           Nothing, Withdrawn, Ending, Confirming
  <2>2. CASE rec[h] # "pending"
    BY <1>HandleCancel, <2>2 DEF HandleCancel, TakeUdp, DropUnconfirmed, Job, Idle, recordVars,
         workVars, At, Threads, Goes, UserOps, TypeOK, JobsFit, Fits, ConsentInv, Backed,
         Nothing, Withdrawn, Ending, Confirming
  <2> QED
    BY <2>1, <2>2
<1>HandleMessage. ASSUME HandleMessage(h) PROVE Withdrawn(h)'
  <2>1. CASE UNCHANGED workVars /\ UNCHANGED intent
    BY <1>HandleMessage, <2>1 DEF HandleMessage, TakeTcp, AutoAccept, Job, Idle, recordVars,
         workVars, At, Threads, Goes, UserOps, TypeOK, JobsFit, Fits, ConsentInv, Backed,
         Nothing, Withdrawn, Ending, Confirming
  <2>2. CASE intent[h] /\ AutoAccept(h, "tcp")
    BY <1>HandleMessage, <2>2 DEF HandleMessage, TakeTcp, AutoAccept, Job, Idle, recordVars,
         workVars, At, Threads, Goes, UserOps, TypeOK, JobsFit, Fits, ConsentInv, Backed,
         Nothing, Withdrawn, Ending, Confirming
  <2>3. CASE ~intent[h] /\ Goes(h, "tcp", Job("held", "hold")) /\ UNCHANGED intent
    BY <1>HandleMessage, <2>3 DEF HandleMessage, TakeTcp, AutoAccept, Job, Idle, recordVars,
         workVars, At, Threads, Goes, UserOps, TypeOK, JobsFit, Fits, ConsentInv, Backed,
         Nothing, Withdrawn, Ending, Confirming
  <2>4. CASE ~intent[h] /\ Goes(h, "tcp", Job("held", "pending")) /\ UNCHANGED intent
    BY <1>HandleMessage, <2>4 DEF HandleMessage, TakeTcp, AutoAccept, Job, Idle, recordVars,
         workVars, At, Threads, Goes, UserOps, TypeOK, JobsFit, Fits, ConsentInv, Backed,
         Nothing, Withdrawn, Ending, Confirming
  <2> QED
    BY <1>HandleMessage, <2>1, <2>2, <2>3, <2>4 DEF HandleMessage, AutoAccept, workVars
<1>Hold. ASSUME Hold(h) PROVE Withdrawn(h)'
  BY <1>Hold DEF Hold, MayHold, Does, Job, Idle, recordVars, At, Threads, Goes, UserOps, TypeOK,
       JobsFit, Fits, ConsentInv, Backed, Nothing, Withdrawn, Ending, Confirming
<1>HandleAccept. ASSUME NEW t \in Threads, HandleAccept(h, t) PROVE Withdrawn(h)'
  <2>1. CASE intent[h]
    <3>1. /\ Goes(h, t, Job("accepted", "add"))
          /\ UNCHANGED <<rec, disk, ledger, lock, missed, intent, consent>>
      BY <1>HandleAccept, <2>1 DEF HandleAccept, Take, TakeUdp, TakeTcp, Requested, recordVars,
           boundVars, workVars
    <3> QED
      BY <3>1, <2>1, TypeParts DEF Goes, Job, Idle, At, Threads, TypeOK, ConsentInv, Backed,
           Nothing, Withdrawn, Ending, Confirming
  <2>2. CASE ~intent[h]
    BY <1>HandleAccept, <2>2 DEF HandleAccept, Take, TakeUdp, TakeTcp, Requested, Job, Idle,
         recordVars, workVars, At, Threads, Goes, UserOps, TypeOK, JobsFit, Fits, ConsentInv,
         Backed, Nothing, Withdrawn, Ending, Confirming
  <2> QED
    BY <2>1, <2>2
<1>HandleReject. ASSUME NEW t \in Threads, HandleReject(h, t) PROVE Withdrawn(h)'
  <2>1. CASE rec[h] = "pending"
    <3>1. /\ Goes(h, t, Job("dropped", "remove"))
          /\ UNCHANGED <<rec, disk, ledger, lock, missed, consent>>
          /\ intent' = [intent EXCEPT ![h] = FALSE]
      BY <1>HandleReject, <2>1 DEF HandleReject, Take, TakeUdp, TakeTcp, DropUnconfirmed,
           recordVars, boundVars, workVars
    <3> QED
      BY <3>1, <2>1, TypeParts DEF Goes, Job, Idle, At, Threads, TypeOK, ConsentInv, Backed,
           Nothing, Withdrawn, Ending, Confirming
  <2>2. CASE rec[h] # "pending"
    BY <1>HandleReject, <2>2 DEF HandleReject, Take, TakeUdp, TakeTcp, DropUnconfirmed, Job,
         Idle, recordVars, workVars, At, Threads, Goes, UserOps, TypeOK, JobsFit, Fits,
         ConsentInv, Backed, Nothing, Withdrawn, Ending, Confirming
  <2> QED
    BY <2>1, <2>2
<1>HandleUnfriend. ASSUME NEW t \in Threads, HandleUnfriend(h, t) PROVE Withdrawn(h)'
  BY <1>HandleUnfriend DEF HandleUnfriend, Take, TakeUdp, TakeTcp, Job, Idle, recordVars, At,
       Threads, Goes, UserOps, TypeOK, JobsFit, Fits, ConsentInv, Backed, Nothing, Withdrawn,
       Ending, Confirming
<1>MutualDone. ASSUME NEW t \in Threads, MutualDone(h, t) PROVE Withdrawn(h)'
  BY <1>MutualDone DEF MutualDone, NotifyAccept, SendUdp, TcpWith, Fault, Does, Job, Idle,
       recordVars, At, Threads, Goes, UserOps, TypeOK, JobsFit, Fits, ConsentInv, Backed,
       Nothing, Withdrawn, Ending, Confirming
<1>AcceptedDone. ASSUME NEW t \in Threads, AcceptedDone(h, t) PROVE Withdrawn(h)'
  BY <1>AcceptedDone DEF AcceptedDone, Does, Job, Idle, recordVars, At, Threads, Goes, UserOps,
       TypeOK, JobsFit, Fits, ConsentInv, Backed, Nothing, Withdrawn, Ending, Confirming
<1>DroppedDone. ASSUME NEW t \in Threads, DroppedDone(h, t) PROVE Withdrawn(h)'
  BY <1>DroppedDone DEF DroppedDone, Does, Job, Idle, recordVars, At, Threads, Goes, UserOps,
       TypeOK, JobsFit, Fits, ConsentInv, Backed, Nothing, Withdrawn, Ending, Confirming
<1>AddFriend. ASSUME NEW t \in Threads, AddFriend(h, t) PROVE Withdrawn(h)'
  BY <1>AddFriend DEF AddFriend, SaveRecord, Written, NotWritten, Fault, At, Job, Threads, Goes,
       UserOps, TypeOK, JobsFit, Fits, ConsentInv, Backed, Nothing, Withdrawn, Ending,
       Confirming
<1>AddToLedger. ASSUME NEW t \in Threads, AddToLedger(h, t) PROVE Withdrawn(h)'
  <2>1. /\ Goes(h, t, Job(job[h][t].op, "after"))
        /\ UNCHANGED <<rec, intent, consent>>
        /\ job[h][t].op \in {"accept", "set", "mutual", "accepted"}
    BY <1>AddToLedger DEF AddToLedger, Written, NotWritten, Fault, At, JobsFit, Fits
  <2>2. CASE t = "user"
    BY <2>1, <2>2 DEF Goes, Job, Threads, TypeOK, JobsFit, Fits, UserOps, Withdrawn
  <2>3. CASE t # "user"
    BY <2>1, <2>3 DEF Goes, Job, At, Threads, TypeOK, JobsFit, Fits, UserOps,
         ConsentInv, Withdrawn, Confirming
  <2> QED
    BY <2>2, <2>3
<1>AddPending. ASSUME NEW t \in Threads, AddPending(h, t) PROVE Withdrawn(h)'
  BY <1>AddPending DEF AddPending, SaveRecord, Written, NotWritten, Fault, At, Job, Threads,
       Goes, UserOps, TypeOK, JobsFit, Fits, ConsentInv, Backed, Nothing, Withdrawn, Ending,
       Confirming
<1>RemoveFriend. ASSUME NEW t \in Threads, RemoveFriend(h, t) PROVE Withdrawn(h)'
  BY <1>RemoveFriend DEF RemoveFriend, SaveRecord, Written, NotWritten, Fault, At, Job, Threads,
       Goes, UserOps, TypeOK, JobsFit, Fits, ConsentInv, Backed, Nothing, Withdrawn, Ending,
       Confirming
<1>ForgetFriend. ASSUME NEW t \in Threads, ForgetFriend(h, t) PROVE Withdrawn(h)'
  BY <1>ForgetFriend DEF ForgetFriend, Forgotten, ForgetInLedger, Written, NotWritten, Fault,
       At, Job, Idle, Threads, Goes, UserOps, TypeOK, JobsFit, Fits, ConsentInv, Backed,
       Nothing, Withdrawn, Ending, Confirming
<1>Lose. ASSUME Lose(h) PROVE Withdrawn(h)'
  BY <1>Lose DEF Lose, Fault, recordVars, workVars, At, Threads, Goes, UserOps, TypeOK, JobsFit,
       Fits, ConsentInv, Backed, Nothing, Withdrawn, Ending, Confirming
<1>MessageRequest. ASSUME MessageRequest(h) PROVE Withdrawn(h)'
  BY <1>MessageRequest DEF MessageRequest, recordVars, workVars, At, Threads, Goes, UserOps,
       TypeOK, JobsFit, Fits, ConsentInv, Backed, Nothing, Withdrawn, Ending, Confirming
<1>SaveConfig. ASSUME SaveConfig(h) PROVE Withdrawn(h)'
  BY <1>SaveConfig DEF SaveConfig, Written, recordVars, workVars, At, Threads, Goes, UserOps,
       TypeOK, JobsFit, Fits, ConsentInv, Backed, Nothing, Withdrawn, Ending, Confirming
<1>Restart. ASSUME Restart(h) PROVE Withdrawn(h)'
  BY <1>Restart DEF Restart, Boot, Fault, At, Job, Idle, Threads, Goes, UserOps, TypeOK,
       JobsFit, Fits, ConsentInv, Backed, Nothing, Withdrawn, Ending, Confirming
<1>RestartWithoutConfig. ASSUME RestartWithoutConfig(h) PROVE Withdrawn(h)'
  BY <1>RestartWithoutConfig DEF RestartWithoutConfig, Boot, Fault, Job, Idle, At, Threads,
       Goes, UserOps, TypeOK, JobsFit, Fits, ConsentInv, Backed, Nothing, Withdrawn, Ending,
       Confirming
<1> QED
  BY <1>Request, <1>RecordIntent, <1>Cancel, <1>CancelSend, <1>Accept, <1>AcceptDone,
       <1>SetFriend, <1>SetDone, <1>Reject, <1>RejectDone, <1>Unfriend, <1>UnfriendDone,
       <1>HandleRequest, <1>HandleCancel, <1>HandleMessage, <1>Hold, <1>HandleAccept,
       <1>HandleReject, <1>HandleUnfriend, <1>MutualDone, <1>AcceptedDone, <1>DroppedDone,
       <1>AddFriend, <1>AddToLedger, <1>AddPending, <1>RemoveFriend, <1>ForgetFriend, <1>Lose,
       <1>MessageRequest, <1>SaveConfig, <1>Restart, <1>RestartWithoutConfig DEF Step, User, Handler, Locked,
       Environment, Threads

-----------------------------------------------------------------------------
(* The invariant holds at the start, *)
LEMMA InitInv == Init => Inv
<1> SUFFICES ASSUME Init PROVE Inv
  OBVIOUS
<1>1. TypeOK
  <2>1. <<>> \in Seq(TcpKinds)
    OBVIOUS
  <2> QED
    BY <2>1, BoundsAreNat DEF Init, TypeOK, Records, Job, Idle, Ops, Steps, Free
<1>2. JobsFit
  BY DEF Init, JobsFit, Fits, Job, Idle, UserOps
<1>3. RecordInv
  BY DEF Init, RecordInv, RecordOf, At, Job, Idle, Threads, Free
<1>4. ConsentInv
  BY DEF Init, ConsentInv, Backed, Nothing, Withdrawn, At, Threads, Job, Idle
<1> QED
  BY <1>1, <1>2, <1>3, <1>4 DEF Inv

(* A host whose state is kept keeps its part of the invariants. *)
LEMMA KeptInv ==
  ASSUME RecordInv, ConsentInv, NEW g \in Hosts, Kept(g),
         job'[g] = job[g], overlap'[g] = overlap[g]
  PROVE  /\ RecordOf(g)'
         /\ (Backed(g) \/ Nothing(g))'
         /\ Withdrawn(g)'
BY DEF Kept, RecordInv, RecordOf, LedgerFollows, BetweenWrites, ConsentInv, Backed, Nothing,
     Withdrawn, At, Confirming

(* ... every step keeps it, *)
LEMMA NextInv == Inv /\ [Next]_vars => Inv'
<1> SUFFICES ASSUME Inv, [Next]_vars PROVE Inv'
  OBVIOUS
<1> USE DEF Inv
<1>1. CASE Next
  <2>1. PICK h \in Hosts : Step(h)
    BY <1>1 DEF Next, Step
  <2>2. TypeOK'
    <3>1. WorkTypes' /\ NetTypes' /\ StateTypes'
      BY <2>1, TypeParts, StepMoves, MovesInv, NetStep, StateStep
    <3> QED
      BY <3>1 DEF TypeOK, WorkTypes, NetTypes, StateTypes
  <2>3. JobsFit'
    BY <2>1, StepMoves, MovesInv
  <2>4. ASSUME NEW g \in Hosts
        PROVE  RecordOf(g)' /\ (Backed(g) \/ Nothing(g))' /\ Withdrawn(g)'
    <3>1. CASE g = h
      BY <2>1, <3>1, RecordStep, BackedStep, WithdrawnStep
    <3>2. CASE g # h
      BY <2>1, <3>2, StepMoves, MovesOther, OtherStays, KeptInv
    <3> QED
      BY <3>1, <3>2
  <2> QED
    BY <2>2, <2>3, <2>4 DEF RecordInv, ConsentInv
<1>2. CASE UNCHANGED vars
  BY <1>2 DEF vars, TypeOK, JobsFit, Fits, RecordInv, RecordOf, LedgerFollows,
       BetweenWrites, ConsentInv, Backed, Nothing, Withdrawn, At, Confirming
<1> QED
  BY <1>1, <1>2

(* ... and so it holds always. *)
THEOREM Invariance == Spec => []Inv
<1> QED
  BY InitInv, NextInv, PTL DEF Spec

(* Every variable keeps its type. *)
THEOREM TypeCorrect == Spec => []TypeOK
<1>1. Inv => TypeOK
  BY DEF Inv
<1> QED
  BY <1>1, Invariance, PTL

(* No one is a friend whom the user has not asked for or accepted, or has  *)
(* put out, but where a confirmation or a restart overtook the user: an    *)
(* accept or a request needs an intent of ours, and everything that ends a *)
(* friendship takes the intent along.                                      *)
THEOREM ConsentCorrect == Spec => []ConsentStands
<1>1. Inv => ConsentStands
  BY DEF Inv, ConsentInv, ConsentStands, Backed, Nothing
<1> QED
  BY <1>1, Invariance, PTL

(* What a restart makes of a friendship, wherever it falls and whatever    *)
(* writes failed before: the two files make up for each other, as memory   *)
(* and each file that missed no write agree.                               *)
THEOREM RestartCorrect == Spec => RestartKeeps
<1> DEFINE
      A0 == \A h \in Hosts :
       /\ Restart(h) /\ "config" \notin missed[h] =>
            \/ rec'[h] = rec[h]
            \/ rec[h] = "none" /\ rec'[h] = "friend" /\ ~LedgerFollows(h)
       /\ Restart(h) /\ LedgerFollows(h) /\ rec[h] = "friend" =>
            rec'[h] = "friend" \/ disk[h] = "pending"
       /\ RestartWithoutConfig(h) /\ LedgerFollows(h) /\ rec[h] # "pending" =>
            rec'[h] = rec[h]
<1>1. Inv => A0
  <2> SUFFICES ASSUME Inv, NEW h \in Hosts
               PROVE  /\ Restart(h) /\ "config" \notin missed[h] =>
                           \/ rec'[h] = rec[h]
                           \/ rec[h] = "none" /\ rec'[h] = "friend" /\ ~LedgerFollows(h)
                      /\ Restart(h) /\ LedgerFollows(h) /\ rec[h] = "friend" =>
                           rec'[h] = "friend" \/ disk[h] = "pending"
                      /\ RestartWithoutConfig(h) /\ LedgerFollows(h) /\ rec[h] # "pending" =>
                           rec'[h] = rec[h]
    BY DEF A0
  <2>1. ASSUME NEW d \in {"none", disk[h]}, Boot(h, d)
        PROVE  /\ rec'[h] = IF d = "none" /\ ledger'[h] THEN "friend" ELSE d
               /\ LedgerFollows(h) => ledger' = ledger
    <3>1. rec'[h] = IF d = "none" /\ ledger'[h] THEN "friend" ELSE d
      BY <2>1 DEF Boot, Inv, TypeOK
    <3>2. LedgerFollows(h) => ledger' = ledger
      BY <2>1 DEF Boot, LedgerFollows, BetweenWrites, At
    <3> QED
      BY <3>1, <3>2
  <2>2. /\ "config" \notin missed[h] => disk[h] = rec[h]
        /\ LedgerFollows(h) => /\ rec[h] = "friend" => ledger[h]
                               /\ rec[h] = "none" => ~ledger[h]
    BY DEF Inv, RecordInv, RecordOf
  <2>3. rec[h] \in Records /\ disk[h] \in Records
    BY DEF Inv, TypeOK
  <2>4. Restart(h) => Boot(h, disk[h])
    BY DEF Restart
  <2>5. RestartWithoutConfig(h) => Boot(h, "none")
    BY DEF RestartWithoutConfig
  <2> HIDE DEF Inv
  <2> QED
    BY <2>1, <2>2, <2>3, <2>4, <2>5 DEF Records
<1>2. Inv /\ [Next]_vars => [A0]_vars
  BY <1>1
<1> QED
  BY <1>2, Invariance, PTL DEF Spec, RestartKeeps
-----------------------------------------------------------------------------
(***************************************************************************)
(* Where the users only request and accept.                                *)
(***************************************************************************)
(* Inductive strengthening of BothConsented: a request under way means that*)
(* its sender asked, an accept, or a thread at work on a friend, that both *)
(* did; and nothing else is ever sent or done.                             *)
Both == consent[A] /\ consent[B]
Asked(h) ==
  /\ rec[h] # "pending" /\ disk[h] # "pending"
  /\ rec[h] = "friend" \/ disk[h] = "friend" \/ ledger[h] => Both
  /\ intent[h] => consent[h]
  /\ ui[h] = "in" => consent[Other(h)]
Comes(h) ==
  /\ udp[h]["request"] > 0 => consent[Other(h)]
  /\ udp[h]["accept"] > 0 => Both
  /\ \A k \in Packets \ {"request", "accept"} : udp[h][k] = 0
  /\ \A i \in DOMAIN tcp[h] : tcp[h][i] = "accept" /\ Both
Works(h) ==
  \A t \in Threads :
    /\ job[h][t].op \in {"none", "request", "accept", "mutual", "accepted"}
    /\ job[h][t].op = "request" => consent[h]
    /\ job[h][t].op \in {"accept", "mutual", "accepted"} => Both
BothInv == \A h \in Hosts : Asked(h) /\ Comes(h) /\ Works(h)

(* What is left to happen to a host. *)
Handshake(h) ==
  \/ Request(h) \/ RecordIntent(h) \/ Accept(h) \/ AcceptDone(h)
  \/ HandleRequest(h) \/ Lose(h) \/ SaveConfig(h)
  \/ Restart(h) \/ RestartWithoutConfig(h)
  \/ \E t \in {"udp", "tcp"} : HandleAccept(h, t) \/ MutualDone(h, t) \/ AcceptedDone(h, t)
  \/ \E t \in Threads : AddFriend(h, t) \/ AddToLedger(h, t)

LEMMA OnlyHandshake ==
  ASSUME Commands \subseteq {"request", "accept"}, MaxMessage = 0,
         Inv, BothInv, NEW h \in Hosts, Step(h)
  PROVE  Handshake(h)
<1>1. \A t \in Threads :
        /\ job[h][t].op \in {"none", "request", "accept", "mutual", "accepted"}
        /\ ~At(h, t, "remove") /\ ~At(h, t, "forget")
        /\ ~At(h, t, "pending") /\ ~At(h, t, "hold")
  BY DEF BothInv, Works, Inv, JobsFit, Fits, At
<1>2. \A k \in {"cancel", "reject", "unfriend"} : ~(udp[h][k] > 0)
  BY DEF BothInv, Comes, Packets
<1>3. \A k \in {"request", "reject", "unfriend"} : ~(tcp[h] # <<>> /\ Head(tcp[h]) = k)
  <2> SUFFICES ASSUME tcp[h] # <<>>
               PROVE  Head(tcp[h]) = "accept"
    OBVIOUS
  <2>1. tcp[h] \in Seq(TcpKinds)
    BY DEF Inv, TypeOK
  <2>2. 1 \in DOMAIN tcp[h] /\ Head(tcp[h]) = tcp[h][1]
    BY <2>1
  <2> QED
    BY <2>2 DEF BothInv, Comes
<1>4. /\ ~Cancel(h) /\ ~SetFriend(h) /\ ~Reject(h) /\ ~Unfriend(h)
  BY DEF Cancel, SetFriend, Reject, Unfriend, Command
<1>5. /\ ~CancelSend(h) /\ ~SetDone(h) /\ ~RejectDone(h) /\ ~UnfriendDone(h) /\ ~Hold(h)
      /\ \A t \in {"udp", "tcp"} : ~DroppedDone(h, t)
  BY <1>1 DEF CancelSend, SetDone, RejectDone, UnfriendDone, Hold, DroppedDone, Does, Job, Threads
<1>6. /\ ~HandleCancel(h) /\ ~HandleMessage(h)
      /\ \A t \in {"udp", "tcp"} : ~HandleReject(h, t) /\ ~HandleUnfriend(h, t)
  BY <1>2, <1>3 DEF HandleCancel, HandleMessage, HandleReject, HandleUnfriend, Take, TakeUdp,
       TakeTcp
<1>7. \A t \in Threads : ~AddPending(h, t) /\ ~RemoveFriend(h, t) /\ ~ForgetFriend(h, t)
  BY <1>1 DEF AddPending, RemoveFriend, ForgetFriend
<1>8. ~MessageRequest(h)
  <2>1. messages \in 0..MaxMessage
    BY DEF Inv, TypeOK
  <2> QED
    BY <2>1, BoundsAreNat DEF MessageRequest
<1> QED
  BY <1>4, <1>5, <1>6, <1>7, <1>8 DEF Step, User, Handler, Locked, Environment, Handshake

(* Consent only grows in it, so it is enough to look at what changes. *)
LEMMA BothStep ==
  ASSUME Inv, BothInv, NEW h \in Hosts, Handshake(h)
  PROVE  BothInv'
<1> DEFINE o == Other(h)
<1>0. /\ o \in Hosts /\ o # h /\ Hosts = {h, o} /\ Other(o) = h /\ Other(h) = o
      /\ Both <=> consent[h] /\ consent[o]
      /\ Both' <=> consent'[h] /\ consent'[o]
  BY HostsDiffer DEF Hosts, Other, Both
<1>t. TypeOK
  BY DEF Inv
<1>i. /\ Asked(h) /\ Comes(h) /\ Works(h) /\ Asked(o) /\ Comes(o) /\ Works(o)
  BY <1>0 DEF BothInv
<1> DEFINE Goal == (Asked(h) /\ Comes(h) /\ Works(h) /\ Asked(o) /\ Comes(o) /\ Works(o))'
<1> SUFFICES Goal
  BY <1>0 DEF BothInv
<1> HIDE DEF o
<1>a. ASSUME NotifyAccept(h), Both, NEW i \in DOMAIN tcp'[o]
      PROVE  tcp'[o][i] = "accept"
  <2>1. tcp[o] \in Seq(TcpKinds)
    BY <1>0, <1>t DEF TypeOK
  <2>2. CASE tcp' = tcp
    BY <1>a, <2>2, <1>i DEF Comes
  <2>3. CASE tcp' = TcpWith(h, "accept")
    <3>1. tcp'[o] = Append(tcp[o], "accept")
      BY <2>3, <1>0, <1>t DEF TcpWith, TypeOK
    <3>2. i \in 1..Len(tcp[o]) + 1
      BY <1>a, <2>1, <3>1
    <3>3. CASE i = Len(tcp[o]) + 1
      BY <2>1, <3>1, <3>3
    <3>4. CASE i \in 1..Len(tcp[o])
      BY <2>1, <3>1, <3>4, <1>i DEF Comes
    <3> QED
      BY <3>2, <3>3, <3>4, <2>1
  <2> QED
    BY <1>a, <2>2, <2>3 DEF NotifyAccept
<1>n. ASSUME NotifyAccept(h), Both, UNCHANGED consent
      PROVE  Comes(h)' /\ Comes(o)'
  <2>1. Comes(h)'
    BY <1>n, <1>0, <1>t, <1>i DEF NotifyAccept, SendUdp, TcpWith, Fault, Packets, TypeOK, Comes
  <2>2. \A i \in DOMAIN tcp'[o] : tcp'[o][i] = "accept"
    BY <1>n, <1>a
  <2>3. \A k \in Packets \ {"request", "accept"} : udp'[o][k] = 0
    BY <1>n, <1>0, <1>t, <1>i DEF NotifyAccept, SendUdp, Packets, TypeOK, Comes
  <2>4. udp'[o]["request"] = udp[o]["request"]
    BY <1>n, <1>0, <1>t DEF NotifyAccept, SendUdp, Packets, TypeOK
  <2> QED
    BY <2>1, <2>2, <2>3, <2>4, <1>n, <1>0, <1>i DEF Comes
<1>Request. ASSUME Request(h) PROVE Goal
  BY <1>Request, <1>0, <1>t, <1>i DEF Request, Command, SendUdp, Fault, recordVars, netVars,
       boundVars, workVars, Goes, Job, Idle, At, Does, Threads, Packets, TypeOK, Asked, Comes,
       Works
<1>RecordIntent. ASSUME RecordIntent(h) PROVE Goal
  <2>1. job[h]["user"].op \in {"request", "set"}
    BY <1>RecordIntent DEF RecordIntent, At, Inv, JobsFit, Fits, Threads
  <2>2. consent[h]
    BY <2>1, <1>i DEF Works, Threads
  <2> QED
    BY <1>RecordIntent, <2>2, <1>0, <1>t, <1>i DEF RecordIntent, recordVars, netVars, boundVars,
         workVars, Goes, Job, Idle, At, Does, Threads, Packets, TypeOK, Asked, Comes, Works
<1>Accept. ASSUME Accept(h) PROVE Goal
  <2>1. consent[o] /\ Both'
    BY <1>Accept, <1>0, <1>t, <1>i DEF Accept, TypeOK, Asked
  <2> QED
    BY <1>Accept, <2>1, <1>0, <1>t, <1>i DEF Accept, Command, recordVars, netVars, boundVars,
         workVars, Goes, Job, Idle, At, Does, Threads, Packets, TypeOK, Asked, Comes, Works
<1>AcceptDone. ASSUME AcceptDone(h) PROVE Goal
  <2>1. Both /\ Comes(h)' /\ Comes(o)'
    BY <1>AcceptDone, <1>n, <1>0, <1>t, <1>i DEF AcceptDone, Does, Job, Works, Threads
  <2> QED
    BY <1>AcceptDone, <2>1, <1>0, <1>t, <1>i DEF AcceptDone, recordVars, boundVars, Goes, Job,
         Idle, Threads, TypeOK, Asked, Works
<1>HandleRequest. ASSUME HandleRequest(h) PROVE Goal
  <2>1. consent[o] /\ consent' = consent
    BY <1>HandleRequest, <1>0, <1>t, <1>i DEF HandleRequest, TakeUdp, Comes
  <2>2. Comes(h)' /\ Comes(o)'
    BY <1>HandleRequest, <2>1, <1>0, <1>t, <1>i DEF HandleRequest, TakeUdp, Packets, TypeOK, Comes
  <2>3. CASE AutoAccept(h, "udp") /\ UNCHANGED ui
    BY <1>HandleRequest, <2>1, <2>2, <2>3, <1>0, <1>t, <1>i DEF HandleRequest, AutoAccept,
         recordVars, boundVars, Goes, Job, Threads, TypeOK, Asked, Works
  <2>4. CASE ui' = [ui EXCEPT ![h] = "in"] /\ UNCHANGED <<intent, workVars>>
    BY <1>HandleRequest, <2>1, <2>2, <2>4, <1>0, <1>t, <1>i DEF HandleRequest, recordVars,
         boundVars, workVars, TypeOK, Asked, Works
  <2>5. CASE UNCHANGED <<intent, workVars, ui>>
    BY <1>HandleRequest, <2>1, <2>2, <2>5, <1>0, <1>t, <1>i DEF HandleRequest, recordVars,
         boundVars, workVars, TypeOK, Asked, Works
  <2> QED
    BY <1>HandleRequest, <2>3, <2>4, <2>5 DEF HandleRequest
<1>HandleAccept. ASSUME NEW t \in {"udp", "tcp"}, HandleAccept(h, t) PROVE Goal
  <2>1. Both /\ Comes(h)' /\ Comes(o)'
    <3>1. CASE TakeUdp(h, "accept")
      BY <1>HandleAccept, <3>1, <1>0, <1>t, <1>i DEF HandleAccept, TakeUdp, Packets, TypeOK, Comes
    <3>2. CASE TakeTcp(h, "accept")
      <4>1. tcp[h] \in Seq(TcpKinds) /\ tcp[h] # <<>> /\ tcp'[h] = Tail(tcp[h])
            /\ tcp'[o] = tcp[o] /\ udp' = udp /\ consent' = consent
        BY <1>HandleAccept, <3>2, <1>0, <1>t, <1>i DEF HandleAccept, TakeTcp, TypeOK
      <4>2. 1 \in DOMAIN tcp[h] /\ \A i \in DOMAIN tcp'[h] : i + 1 \in DOMAIN tcp[h] /\ tcp'[h][i] = tcp[h][i + 1]
        BY <4>1
      <4> QED
        BY <4>1, <4>2, <1>0, <1>t, <1>i DEF Comes
    <3> QED
      BY <1>HandleAccept, <3>1, <3>2 DEF HandleAccept, Take
  <2>2. CASE Goes(h, t, Job("accepted", "add"))
    BY <1>HandleAccept, <2>1, <2>2, <1>0, <1>t, <1>i DEF HandleAccept, recordVars, boundVars,
         Goes, Job, Threads, TypeOK, Asked, Works
  <2>3. CASE UNCHANGED workVars
    BY <1>HandleAccept, <2>1, <2>3, <1>0, <1>t, <1>i DEF HandleAccept, recordVars, boundVars,
         workVars, TypeOK, Asked, Works
  <2> QED
    BY <1>HandleAccept, <2>2, <2>3 DEF HandleAccept
<1>MutualDone. ASSUME NEW t \in {"udp", "tcp"}, MutualDone(h, t) PROVE Goal
  <2>1. Both /\ Comes(h)' /\ Comes(o)'
    BY <1>MutualDone, <1>n, <1>0, <1>t, <1>i DEF MutualDone, Does, Job, Works, Threads
  <2> QED
    BY <1>MutualDone, <2>1, <1>0, <1>t, <1>i DEF MutualDone, recordVars, boundVars, Goes, Job,
         Idle, Threads, TypeOK, Asked, Works
<1>AcceptedDone. ASSUME NEW t \in {"udp", "tcp"}, AcceptedDone(h, t) PROVE Goal
  BY <1>AcceptedDone, <1>0, <1>t, <1>i DEF AcceptedDone, recordVars, netVars, boundVars,
       workVars, Goes, Job, Idle, At, Does, Threads, Packets, TypeOK, Asked, Comes, Works
<1>Lose. ASSUME Lose(h) PROVE Goal
  BY <1>Lose, <1>0, <1>t, <1>i DEF Lose, recordVars, netVars, boundVars, workVars, Goes, Job,
       Idle, At, Does, Threads, Packets, TypeOK, Asked, Comes, Works
<1>AddFriend. ASSUME NEW t \in Threads, AddFriend(h, t) PROVE Goal
  <2>1. Both
    BY <1>AddFriend, <1>i DEF AddFriend, SaveRecord, Written, NotWritten, Fault, At, Works, Inv,
         JobsFit, Fits
  <2> QED
    BY <1>AddFriend, <2>1, <1>0, <1>t, <1>i DEF AddFriend, SaveRecord, Written, NotWritten,
         Fault, recordVars, netVars, boundVars, workVars, Goes, Job, Idle, At, Does, Threads,
         Packets, TypeOK, Asked, Comes, Works
<1>AddToLedger. ASSUME NEW t \in Threads, AddToLedger(h, t) PROVE Goal
  <2>1. Both
    BY <1>AddToLedger, <1>i DEF AddToLedger, Written, NotWritten, Fault, At, Works, Inv,
         JobsFit, Fits
  <2> QED
    BY <1>AddToLedger, <2>1, <1>0, <1>t, <1>i DEF AddToLedger, Written, NotWritten, Fault,
         recordVars, netVars, boundVars, workVars, Goes, Job, Idle, At, Does, Threads, Packets,
         TypeOK, Asked, Comes, Works
<1>SaveConfig. ASSUME SaveConfig(h) PROVE Goal
  BY <1>SaveConfig, <1>0, <1>t, <1>i DEF SaveConfig, Written, boundVars, workVars, Packets,
     TypeOK, Asked, Comes, Works
<1>b. ASSUME NEW d \in {"none", disk[h]}, Boot(h, d)
      PROVE  Goal
  <2>1. ledger'[o] = ledger[o] /\ (ledger'[h] => ledger[h])
    BY <1>b, <1>0, <1>t DEF Boot, TypeOK
  <2>2. /\ rec'[h] \in {"none", "friend"}
        /\ rec'[h] = "friend" => disk[h] = "friend" \/ ledger[h]
        /\ rec'[o] = rec[o]
    BY <1>b, <2>1, <1>0, <1>t, <1>i DEF Boot, Records, TypeOK, Asked
  <2>3. disk'[h] \in {rec'[h], d} /\ disk'[o] = disk[o]
    BY <1>b, <1>0, <1>t DEF Boot, TypeOK
  <2>4. Comes(h)' /\ Comes(o)'
    BY <1>b, <1>0, <1>t, <1>i DEF Boot, Comes, Packets
  <2>5. /\ intent'[h] = FALSE /\ intent'[o] = intent[o] /\ UNCHANGED consent
        /\ ui'[h] \in {"none", ui[h]} /\ ui'[o] = ui[o]
    BY <1>b, <1>0, <1>t DEF Boot, TypeOK
  <2>6. Asked(h)' /\ Asked(o)'
    BY <2>1, <2>2, <2>3, <2>5, <1>0, <1>t, <1>i DEF Asked
  <2>7. Works(h)' /\ Works(o)'
    BY <1>b, <1>0, <1>t, <1>i DEF Boot, Works, TypeOK, Idle, Job
  <2> QED
    BY <2>4, <2>6, <2>7
<1>Restart. ASSUME Restart(h) PROVE Goal
  BY <1>Restart, <1>b DEF Restart
<1>RestartWithoutConfig. ASSUME RestartWithoutConfig(h) PROVE Goal
  BY <1>RestartWithoutConfig, <1>b DEF RestartWithoutConfig
<1> HIDE DEF Goal
<1> QED
  BY <1>Request, <1>RecordIntent, <1>Accept, <1>AcceptDone, <1>HandleRequest, <1>HandleAccept,
     <1>MutualDone, <1>AcceptedDone, <1>Lose, <1>SaveConfig, <1>AddFriend, <1>AddToLedger, <1>Restart,
     <1>RestartWithoutConfig DEF Handshake

(* Where users only request and accept, and the other end sends no request *)
(* as a message, no host takes the other for a friend before both users    *)
(* asked or accepted, over any loss and any restart.                       *)
THEOREM BothCorrect ==
  ASSUME Commands \subseteq {"request", "accept"}, MaxMessage = 0
  PROVE  Spec => []BothConsented
<1>1. Init => BothInv
  <2>1. <<>> \in Seq(TcpKinds) /\ DOMAIN <<>> = {}
    OBVIOUS
  <2> QED
    BY <2>1 DEF Init, BothInv, Asked, Comes, Works, Both, Job, Idle, Packets, Hosts
<1>2. Inv /\ Inv' /\ BothInv /\ [Next]_vars => BothInv'
  <2>1. ASSUME Inv, BothInv, NEW h \in Hosts, Step(h) PROVE BothInv'
    BY <2>1, OnlyHandshake, BothStep
  <2>2. ASSUME BothInv, UNCHANGED vars PROVE BothInv'
    BY <2>2 DEF vars, BothInv, Asked, Comes, Works, Both
  <2> QED
    BY <2>1, <2>2 DEF Next, Step
<1>3. BothInv => BothConsented
  BY DEF BothInv, Asked, Both, BothConsented
<1> QED
  BY <1>1, <1>2, <1>3, Invariance, PTL DEF Spec
=============================================================================
