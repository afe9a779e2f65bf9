----------------------------- MODULE Friendship -----------------------------
(***************************************************************************)
(* The friendship handshake of the LanChat daemon (server.py), for a pair  *)
(* of hosts and their users.                                               *)
(*                                                                         *)
(* Requests, accepts, cancels, rejects and unfriends travel as signed UDP  *)
(* packets, which may be lost or overtake each other; accept, reject and   *)
(* unfriend fall back on the TCP socket.  Three threads of each daemon     *)
(* work on the same state: the one that runs the user's commands, the UDP  *)
(* listener and the reader of the TCP socket.  add_friend and unfriend     *)
(* hold config_lock from the change to the end of their two file writes;   *)
(* every check before them is made without it.  A write that fails is      *)
(* swallowed: memory and file then say different things.                   *)
(*                                                                         *)
(* Everything is about the one record each host keeps of the other.  That  *)
(* a packet is honoured once is the business of the replay memory.         *)
(***************************************************************************)
EXTENDS Integers, Sequences

CONSTANTS
  A, B,         \* the two hosts
  Commands,     \* what the users do in this instance
  Accepting,    \* hosts with config["acceptRequests"]
  MaxHeld,      \* PENDING_FIRST_MAX_MSGS
  MaxCommand,   \* bound: commands the users give, together
  MaxMessage,   \* bound: request messages (earlier releases)
  MaxFault      \* bound: packets lost or not sent, failed writes, restarts

UserOps == {"request", "cancel", "accept", "reject", "set", "unfriend"}

ASSUME HostsDiffer == A # B
ASSUME CommandsType == Commands \subseteq UserOps
ASSUME AcceptingType == Accepting \subseteq {A, B}
ASSUME BoundsAreNat ==
  /\ MaxHeld \in Nat
  /\ MaxCommand \in Nat
  /\ MaxMessage \in Nat
  /\ MaxFault \in Nat

Hosts == {A, B}
Other(h) == IF h = A THEN B ELSE A
Threads == {"user", "udp", "tcp"}
Packets == {"request", "accept", "cancel", "reject", "unfriend"}
TcpKinds == {"request", "accept", "reject", "unfriend"}
Free == "free"

(* A thread at work: what it is doing, and the step it is about to take.   *)
Ops == UserOps \union {"none", "mutual", "accepted", "dropped", "ended", "held"}
Steps == {"idle", "send", "record", "add", "mirror", "remove", "forget",
          "after", "pending", "hold"}
Files == {"config", "ledger"}
Job(o, at) == [op |-> o, at |-> at]
Idle == Job("none", "idle")

VARIABLES
  rec,      \* rec[h]: the other's record in STATE.config["friends"]
  disk,     \* disk[h]: the same in the configuration file
  ledger,   \* ledger[h]: the other is in the fingerprint ledger (a file)
  lock,     \* lock[h]: the thread holding config_lock, or Free
  intent,   \* intent[h]: the other is in STATE.request_outgoing
  held,     \* held[h]: length of STATE.pending_first[other]
  ui,       \* ui[h]: the entry for the other in the panel's friendRequests
  job,      \* job[h][t]: what thread t of h is doing
  udp,      \* udp[h][k]: packets of kind k on their way to h
  tcp,      \* tcp[h]: control messages on their way to h, in order
  used,     \* commands given so far (bound)
  messages, \* request messages sent so far (bound)
  faults,   \* faults so far (bound)
  missed,   \* missed[h]: the files that missed their last write: it failed,
            \* or the daemon was killed before it (history)
  consent,  \* consent[h]: h's user asked or accepted and has not ended it since (history)
  overlap   \* overlap[h]: a confirmation ran while h's user was ending it, or
            \* a restart took the friend back from the ledger (history)

recordVars == <<rec, disk, ledger, lock, missed>>
netVars == <<udp, tcp, faults>>
boundVars == <<used, messages>>
workVars == <<job, overlap>>
vars == <<rec, disk, ledger, lock, intent, held, ui, job, udp, tcp, used,
          messages, faults, missed, consent, overlap>>

Records == {"none", "pending", "friend"}

TypeOK ==
  /\ rec \in [Hosts -> Records]
  /\ disk \in [Hosts -> Records]
  /\ ledger \in [Hosts -> BOOLEAN]
  /\ lock \in [Hosts -> Threads \union {Free}]
  /\ intent \in [Hosts -> BOOLEAN]
  /\ held \in [Hosts -> 0..MaxHeld]
  /\ ui \in [Hosts -> {"none", "in", "out"}]
  /\ job \in [Hosts -> [Threads -> [op : Ops, at : Steps]]]
  /\ udp \in [Hosts -> [Packets -> Nat]]
  /\ tcp \in [Hosts -> Seq(TcpKinds)]
  /\ used \in 0..MaxCommand
  /\ messages \in 0..MaxMessage
  /\ faults \in 0..MaxFault
  /\ missed \in [Hosts -> SUBSET Files]
  /\ consent \in [Hosts -> BOOLEAN]
  /\ overlap \in [Hosts -> BOOLEAN]

Init ==
  /\ rec = [h \in Hosts |-> "none"]
  /\ disk = [h \in Hosts |-> "none"]
  /\ ledger = [h \in Hosts |-> FALSE]
  /\ lock = [h \in Hosts |-> Free]
  /\ intent = [h \in Hosts |-> FALSE]
  /\ held = [h \in Hosts |-> 0]
  /\ ui = [h \in Hosts |-> "none"]
  /\ job = [h \in Hosts |-> [t \in Threads |-> Idle]]
  /\ udp = [h \in Hosts |-> [k \in Packets |-> 0]]
  /\ tcp = [h \in Hosts |-> <<>>]
  /\ used = 0
  /\ messages = 0
  /\ faults = 0
  /\ missed = [h \in Hosts |-> {}]
  /\ consent = [h \in Hosts |-> FALSE]
  /\ overlap = [h \in Hosts |-> FALSE]

-----------------------------------------------------------------------------
(***************************************************************************)
(* Threads and channels.                                                   *)
(***************************************************************************)
(* The user's command is ending the friendship; a handler is confirming it.*)
Ending(js) == js["user"].op \in {"cancel", "reject", "unfriend"}
Confirming(js) == \E t \in {"udp", "tcp"} : js[t].op \in {"mutual", "accepted"}

Goes(h, t, j) ==
  LET now == [job[h] EXCEPT ![t] = j] IN
  /\ job' = [job EXCEPT ![h] = now]
  /\ overlap' = [overlap EXCEPT ![h] = @ \/ (Ending(now) /\ Confirming(now))]

At(h, t, step) == job[h][t].at = step
Does(h, t, o, step) == job[h][t] = Job(o, step)

Fault == faults < MaxFault /\ faults' = faults + 1

(* _send_udp_friend_packet returns True, or False: no address, or OSError. *)
SendUdp(h, k, ok) ==
  IF ok
  THEN /\ udp' = [udp EXCEPT ![Other(h)][k] = @ + 1]
       /\ UNCHANGED faults
  ELSE /\ Fault
       /\ UNCHANGED udp

TcpWith(h, k) == [tcp EXCEPT ![Other(h)] = Append(@, k)]

(* _notify_accept: UDP, else the TCP socket, where an accept may be held.  *)
NotifyAccept(h) ==
  \E ok \in BOOLEAN :
    /\ SendUdp(h, "accept", ok)
    /\ tcp' = IF ok THEN tcp ELSE TcpWith(h, "accept")

(* A handler thread takes the next packet or message of a kind. *)
TakeUdp(h, k) ==
  /\ job[h]["udp"] = Idle
  /\ udp[h][k] > 0
  /\ udp' = [udp EXCEPT ![h][k] = @ - 1]
  /\ UNCHANGED tcp

TakeTcp(h, k) ==
  /\ job[h]["tcp"] = Idle
  /\ tcp[h] # <<>>
  /\ Head(tcp[h]) = k
  /\ tcp' = [tcp EXCEPT ![h] = Tail(@)]
  /\ UNCHANGED udp

Take(h, t, k) == \/ t = "udp" /\ TakeUdp(h, k)
                 \/ t = "tcp" /\ TakeTcp(h, k)

-----------------------------------------------------------------------------
(***************************************************************************)
(* add_friend and unfriend, in the order of their writes.  Each is one     *)
(* critical section of config_lock, in which the daemon may be killed.     *)
(***************************************************************************)
Written(h, f) == missed' = [missed EXCEPT ![h] = @ \ {f}] /\ UNCHANGED faults
NotWritten(h, f) == Fault /\ missed' = [missed EXCEPT ![h] = @ \union {f}]

(* _save_config and _fingerprints_save swallow an OSError.                 *)
SaveRecord(h, r) ==
  \/ disk' = [disk EXCEPT ![h] = r] /\ Written(h, "config")
  \/ UNCHANGED disk /\ NotWritten(h, "config")

AddFriend(h, t) ==
  /\ At(h, t, "add")
  /\ lock[h] = Free
  /\ lock' = [lock EXCEPT ![h] = t]
  /\ rec' = [rec EXCEPT ![h] = "friend"]
  /\ SaveRecord(h, "friend")
  /\ Goes(h, t, Job(job[h][t].op, "mirror"))
  /\ UNCHANGED <<ledger, intent, held, ui, udp, tcp, boundVars, consent>>

(* The ledger entry is rewritten, in two writes: the old one goes, the new *)
(* one is put in.  The panel drops the confirmed request.                  *)
AddToLedger(h, t) ==
  /\ At(h, t, "mirror")
  /\ \/ ledger' = [ledger EXCEPT ![h] = TRUE] /\ Written(h, "ledger")
     \/ /\ ledger' \in {ledger, [ledger EXCEPT ![h] = FALSE]}
        /\ NotWritten(h, "ledger")
  /\ lock' = [lock EXCEPT ![h] = Free]
  /\ ui' = [ui EXCEPT ![h] = "none"]
  /\ Goes(h, t, Job(job[h][t].op, "after"))
  /\ UNCHANGED <<rec, disk, intent, held, udp, tcp, boundVars, consent>>

AddPending(h, t) ==
  /\ At(h, t, "pending")
  /\ lock[h] = Free
  /\ rec' = [rec EXCEPT ![h] = "pending"]
  /\ SaveRecord(h, "pending")
  /\ Goes(h, t, Job(job[h][t].op, "hold"))
  /\ UNCHANGED <<ledger, lock, intent, held, ui, udp, tcp, boundVars, consent>>

RemoveFriend(h, t) ==
  /\ At(h, t, "remove")
  /\ lock[h] = Free
  /\ lock' = [lock EXCEPT ![h] = t]
  /\ rec' = [rec EXCEPT ![h] = "none"]
  /\ SaveRecord(h, "none")
  /\ Goes(h, t, Job(job[h][t].op, "forget"))
  /\ UNCHANGED <<ledger, intent, held, ui, udp, tcp, boundVars, consent>>

ForgetInLedger(h) ==
  \/ ledger' = [ledger EXCEPT ![h] = FALSE] /\ Written(h, "ledger")
  \/ UNCHANGED ledger /\ NotWritten(h, "ledger")

(* Mutants: unfriend leaves the ledger, or the intent, as it is. *)
Forgotten_Ledger(h) ==
  /\ intent' = [intent EXCEPT ![h] = FALSE]
  /\ UNCHANGED <<ledger, missed, faults>>
Forgotten_Intent(h) ==
  /\ ForgetInLedger(h)
  /\ UNCHANGED intent

Forgotten(h) ==
  /\ ForgetInLedger(h)
  /\ intent' = [intent EXCEPT ![h] = FALSE]

ForgetFriend(h, t) ==
  /\ At(h, t, "forget")
  /\ Forgotten(h)
  /\ lock' = [lock EXCEPT ![h] = Free]
  /\ Goes(h, t, IF job[h][t].op = "ended" THEN Idle ELSE Job(job[h][t].op, "after"))
  /\ UNCHANGED <<rec, disk, held, ui, udp, tcp, boundVars, consent>>

(* Any other command that saves the configuration writes the friends too.  *)
SaveConfig(h) ==
  /\ lock[h] = Free
  /\ "config" \in missed[h]
  /\ disk' = [disk EXCEPT ![h] = rec[h]]
  /\ Written(h, "config")
  /\ UNCHANGED <<rec, ledger, lock, intent, held, ui, workVars, udp, tcp,
                 boundVars, consent>>

-----------------------------------------------------------------------------
(***************************************************************************)
(* The user's commands (handle_command), as the panel offers them.         *)
(***************************************************************************)
Command(h, c) ==
  /\ c \in Commands
  /\ job[h]["user"] = Idle
  /\ used < MaxCommand
  /\ used' = used + 1
  /\ UNCHANGED messages

(* udpFriendRequest: the packet goes out first, the intent is recorded     *)
(* afterwards.                                                             *)
Request(h) ==
  /\ Command(h, "request")
  /\ rec[h] = "none"
  /\ \E ok \in BOOLEAN :
       /\ SendUdp(h, "request", ok)
       /\ Goes(h, "user", IF ok THEN Job("request", "record") ELSE Idle)
  /\ consent' = [consent EXCEPT ![h] = TRUE]
  /\ UNCHANGED <<recordVars, intent, held, ui, tcp>>

RecordIntent(h) ==
  /\ At(h, "user", "record")
  /\ intent' = [intent EXCEPT ![h] = TRUE]
  /\ ui' = [ui EXCEPT ![h] = "out"]
  /\ Goes(h, "user", Idle)
  /\ UNCHANGED <<recordVars, held, netVars, boundVars, consent>>

(* cancelFriendRequest: a no-op on a friend but for the panel's entry.     *)
Cancel(h) ==
  /\ Command(h, "cancel")
  /\ ui[h] = "out"
  /\ IF rec[h] = "friend"
     THEN /\ ui' = [ui EXCEPT ![h] = "none"]
          /\ UNCHANGED <<intent, workVars, consent>>
     ELSE /\ intent' = [intent EXCEPT ![h] = FALSE]
          /\ consent' = [consent EXCEPT ![h] = FALSE]
          /\ Goes(h, "user", Job("cancel", "send"))
          /\ UNCHANGED ui
  /\ UNCHANGED <<recordVars, held, netVars>>

(* Mutant: a cancel falls back to the socket, where nothing handles it. *)
CancelSend_ByTcpToo(h) ==
  /\ Does(h, "user", "cancel", "send")
  /\ \E ok \in BOOLEAN :
       /\ SendUdp(h, "cancel", ok)
       /\ tcp' = IF ok THEN tcp ELSE TcpWith(h, "cancel")
  /\ ui' = [ui EXCEPT ![h] = "none"]
  /\ Goes(h, "user", Idle)
  /\ UNCHANGED <<recordVars, intent, held, boundVars, consent>>

(* A cancel goes by UDP only.                                              *)
CancelSend(h) ==
  /\ Does(h, "user", "cancel", "send")
  /\ \E ok \in BOOLEAN : SendUdp(h, "cancel", ok)
  /\ ui' = [ui EXCEPT ![h] = "none"]
  /\ Goes(h, "user", Idle)
  /\ UNCHANGED <<recordVars, intent, held, tcp, boundVars, consent>>

Accept(h) ==
  /\ Command(h, "accept")
  /\ ui[h] = "in"
  /\ consent' = [consent EXCEPT ![h] = TRUE]
  /\ Goes(h, "user", Job("accept", "add"))
  /\ UNCHANGED <<recordVars, intent, held, ui, netVars>>

(* The held messages are revealed and the requester is told. *)
AcceptDone(h) ==
  /\ Does(h, "user", "accept", "after")
  /\ held' = [held EXCEPT ![h] = 0]
  /\ NotifyAccept(h)
  /\ Goes(h, "user", Idle)
  /\ UNCHANGED <<recordVars, intent, ui, boundVars, consent>>

(* setFriend: a friend by fingerprint, then a request to them. *)
SetFriend(h) ==
  /\ Command(h, "set")
  /\ consent' = [consent EXCEPT ![h] = TRUE]
  /\ Goes(h, "user", Job("set", "add"))
  /\ UNCHANGED <<recordVars, intent, held, ui, netVars>>

SetDone(h) ==
  /\ Does(h, "user", "set", "after")
  /\ \E ok \in BOOLEAN :
       /\ SendUdp(h, "request", ok)
       /\ Goes(h, "user", IF ok THEN Job("set", "record") ELSE Idle)
  /\ UNCHANGED <<recordVars, intent, held, ui, tcp, boundVars, consent>>

(* rejectFriend: told by UDP and, if a socket is up, by TCP as well.       *)
Reject(h) ==
  /\ Command(h, "reject")
  /\ ui[h] = "in"
  /\ \E ok \in BOOLEAN : SendUdp(h, "reject", ok)
  /\ tcp' \in {tcp, TcpWith(h, "reject")}
  /\ held' = [held EXCEPT ![h] = 0]
  /\ Goes(h, "user", Job("reject", "remove"))
  /\ UNCHANGED <<recordVars, intent, ui, consent>>

RejectDone(h) ==
  /\ Does(h, "user", "reject", "after")
  /\ ui' = [ui EXCEPT ![h] = "none"]
  /\ consent' = [consent EXCEPT ![h] = FALSE]
  /\ Goes(h, "user", Idle)
  /\ UNCHANGED <<recordVars, intent, held, netVars, boundVars>>

Unfriend(h) ==
  /\ Command(h, "unfriend")
  /\ rec[h] = "friend"
  /\ Goes(h, "user", Job("unfriend", "remove"))
  /\ UNCHANGED <<recordVars, intent, held, ui, netVars, consent>>

UnfriendDone(h) ==
  /\ Does(h, "user", "unfriend", "after")
  /\ \E ok \in BOOLEAN :
       /\ SendUdp(h, "unfriend", ok)
       /\ tcp' \in IF ok THEN {tcp} ELSE {tcp, TcpWith(h, "unfriend")}
  /\ consent' = [consent EXCEPT ![h] = FALSE]
  /\ Goes(h, "user", Idle)
  /\ UNCHANGED <<recordVars, intent, held, ui, boundVars>>

-----------------------------------------------------------------------------
(***************************************************************************)
(* The handlers of packets and messages.                                   *)
(***************************************************************************)
(* Mutant: the request of a stranger is accepted like that of a peer. *)
AutoAccept_Always(h, t) ==
  /\ intent' = [intent EXCEPT ![h] = FALSE]
  /\ Goes(h, t, Job("mutual", "add"))

(* A request to a peer we have requested ourselves: take the intent and    *)
(* confirm (mutual auto-accept).                                           *)
AutoAccept(h, t) ==
  /\ intent[h]
  /\ intent' = [intent EXCEPT ![h] = FALSE]
  /\ Goes(h, t, Job("mutual", "add"))

HandleRequest(h) ==
  /\ TakeUdp(h, "request")
  /\ \/ /\ h \in Accepting
        /\ AutoAccept(h, "udp")
        /\ UNCHANGED ui
     \/ /\ h \in Accepting /\ ~intent[h]
        /\ ui' = [ui EXCEPT ![h] = "in"]
        /\ UNCHANGED <<intent, workVars>>
     \/ h \notin Accepting /\ UNCHANGED <<intent, workVars, ui>>
  /\ UNCHANGED <<recordVars, held, faults, boundVars, consent>>

MutualDone(h, t) ==
  /\ Does(h, t, "mutual", "after")
  /\ NotifyAccept(h)
  /\ Goes(h, t, Idle)
  /\ UNCHANGED <<recordVars, intent, held, ui, boundVars, consent>>

(* Mutants: the consent gate is gone; a friends-list entry is required.    *)
Requested_Always(h) == TRUE
Requested_Pending(h) == intent[h] /\ rec[h] = "pending"

(* The only consent to an accept is a request of ours still outstanding.   *)
Requested(h) == intent[h]

HandleAccept(h, t) ==
  /\ Take(h, t, "accept")
  /\ IF Requested(h) THEN Goes(h, t, Job("accepted", "add")) ELSE UNCHANGED workVars
  /\ UNCHANGED <<recordVars, intent, held, ui, faults, boundVars, consent>>

AcceptedDone(h, t) ==
  /\ Does(h, t, "accepted", "after")
  /\ intent' = [intent EXCEPT ![h] = FALSE]
  /\ Goes(h, t, Idle)
  /\ UNCHANGED <<recordVars, held, ui, netVars, boundVars, consent>>

(* _unfriend_if_unconfirmed: the record is read without the lock.          *)
DropUnconfirmed(h, t) ==
  IF rec[h] = "pending"
  THEN /\ Goes(h, t, Job("dropped", "remove"))
       /\ UNCHANGED ui
  ELSE /\ ui' = [ui EXCEPT ![h] = "none"]
       /\ UNCHANGED workVars

DroppedDone(h, t) ==
  /\ Does(h, t, "dropped", "after")
  /\ ui' = [ui EXCEPT ![h] = "none"]
  /\ Goes(h, t, Idle)
  /\ UNCHANGED <<recordVars, intent, held, netVars, boundVars, consent>>

HandleCancel(h) ==
  /\ TakeUdp(h, "cancel")
  /\ held' = [held EXCEPT ![h] = 0]
  /\ DropUnconfirmed(h, "udp")
  /\ UNCHANGED <<recordVars, intent, faults, boundVars, consent>>

HandleReject(h, t) ==
  /\ Take(h, t, "reject")
  /\ intent' = [intent EXCEPT ![h] = FALSE]
  /\ DropUnconfirmed(h, t)
  /\ UNCHANGED <<recordVars, held, faults, boundVars, consent>>

HandleUnfriend(h, t) ==
  /\ Take(h, t, "unfriend")
  /\ Goes(h, t, Job("ended", "remove"))
  /\ UNCHANGED <<recordVars, intent, held, ui, faults, boundVars, consent>>

(* A request that comes as a message (earlier releases send it so): the    *)
(* peer is recorded as pending and the message held until the user accepts.*)
HandleMessage(h) ==
  /\ TakeTcp(h, "request")
  /\ \/ (rec[h] = "friend" \/ h \notin Accepting) /\ UNCHANGED <<intent, workVars>>
     \/ rec[h] # "friend" /\ h \in Accepting /\ AutoAccept(h, "tcp")
     \/ /\ rec[h] # "friend" /\ h \in Accepting /\ ~intent[h]
        /\ Goes(h, "tcp", Job("held", IF rec[h] = "pending" THEN "hold" ELSE "pending"))
        /\ UNCHANGED intent
  /\ UNCHANGED <<recordVars, held, ui, faults, boundVars, consent>>

MayHold(h) == held[h] < MaxHeld

(* _hold_friend_request: beyond the cap the message is dropped silently.   *)
Hold(h) ==
  /\ Does(h, "tcp", "held", "hold")
  /\ IF MayHold(h)
     THEN /\ held' = [held EXCEPT ![h] = @ + 1]
          /\ ui' = [ui EXCEPT ![h] = "in"]
     ELSE UNCHANGED <<held, ui>>
  /\ Goes(h, "tcp", Idle)
  /\ UNCHANGED <<recordVars, intent, netVars, boundVars, consent>>

-----------------------------------------------------------------------------
(***************************************************************************)
(* The network, an earlier release at the other end, and restarts.         *)
(***************************************************************************)
Lose(h) ==
  /\ Fault
  /\ \E k \in Packets : udp[h][k] > 0 /\ udp' = [udp EXCEPT ![h][k] = @ - 1]
  /\ UNCHANGED <<recordVars, intent, held, ui, workVars, tcp, boundVars, consent>>

MessageRequest(h) ==
  /\ messages < MaxMessage
  /\ messages' = messages + 1
  /\ tcp' = [tcp EXCEPT ![h] = Append(@, "request")]
  /\ UNCHANGED <<recordVars, intent, held, ui, workVars, udp, faults, used, consent>>

(* The daemon was between the two writes of add_friend or unfriend. *)
BetweenWrites(h) == \E t \in Threads : job[h][t].at \in {"mirror", "forget"}

(* Boot: load_config, then reconcile_friends_from_ledger on what the disk  *)
(* gave, of which only a recovery is saved.  Memory is gone, and with the  *)
(* sockets what was on them; the panel is another process and reconciles   *)
(* its entries with the friends it gets.  Killed while the ledger entry is *)
(* rewritten, it may be missing.                                           *)
Boot(h, d) ==
  LET r == IF d = "none" /\ ledger'[h] THEN "friend" ELSE d
      m == IF missed[h] # {} \/ BetweenWrites(h) THEN {"ledger"} ELSE {} IN
  /\ Fault
  /\ \/ UNCHANGED ledger
     \/ /\ \E t \in Threads : At(h, t, "mirror")
        /\ ledger' = [ledger EXCEPT ![h] = FALSE]
  /\ rec' = [rec EXCEPT ![h] = r]
  /\ \/ /\ disk' = [disk EXCEPT ![h] = r]
        /\ missed' = [missed EXCEPT ![h] = m]
     \/ /\ r # d
        /\ disk' = [disk EXCEPT ![h] = d]
        /\ missed' = [missed EXCEPT ![h] = m \union {"config"}]
  /\ lock' = [lock EXCEPT ![h] = Free]
  /\ intent' = [intent EXCEPT ![h] = FALSE]
  /\ held' = [held EXCEPT ![h] = 0]
  /\ job' = [job EXCEPT ![h] = [t \in Threads |-> Idle]]
  /\ ui' = IF r = "friend" THEN [ui EXCEPT ![h] = "none"] ELSE ui
  /\ tcp' \in {tcp, [x \in Hosts |-> <<>>]}
  /\ overlap' = [overlap EXCEPT ![h] = @ \/ (r = "friend" /\ rec[h] # "friend")]
  /\ UNCHANGED <<udp, boundVars, consent>>

Restart(h) == Boot(h, disk[h])

(* The configuration file was lost while the daemon was down. *)
RestartWithoutConfig(h) == Boot(h, "none")

-----------------------------------------------------------------------------
User(h) ==
  \/ Request(h) \/ RecordIntent(h) \/ Cancel(h) \/ CancelSend(h)
  \/ Accept(h) \/ AcceptDone(h) \/ SetFriend(h) \/ SetDone(h)
  \/ Reject(h) \/ RejectDone(h) \/ Unfriend(h) \/ UnfriendDone(h)

Handler(h) ==
  \/ HandleRequest(h) \/ HandleCancel(h) \/ HandleMessage(h) \/ Hold(h)
  \/ \E t \in {"udp", "tcp"} :
       \/ HandleAccept(h, t) \/ HandleReject(h, t) \/ HandleUnfriend(h, t)
       \/ MutualDone(h, t) \/ AcceptedDone(h, t) \/ DroppedDone(h, t)

Locked(h) ==
  \E t \in Threads :
    \/ AddFriend(h, t) \/ AddToLedger(h, t) \/ AddPending(h, t)
    \/ RemoveFriend(h, t) \/ ForgetFriend(h, t)

Environment(h) ==
  \/ Lose(h) \/ MessageRequest(h) \/ SaveConfig(h)
  \/ Restart(h) \/ RestartWithoutConfig(h)

Next == \E h \in Hosts : User(h) \/ Handler(h) \/ Locked(h) \/ Environment(h)

Spec == Init /\ [][Next]_vars

(* Threads of a live daemon run and, where no packet is lost, every packet *)
(* is handled in the end.  Nobody need give a command.                     *)
Fairness ==
  \A h \in Hosts :
    /\ WF_vars(Locked(h))
    /\ WF_vars(RecordIntent(h))
    /\ WF_vars(AcceptDone(h))
    /\ \A t \in {"udp", "tcp"} :
         /\ WF_vars(MutualDone(h, t))
         /\ WF_vars(AcceptedDone(h, t))
         /\ SF_vars(HandleAccept(h, t))

FairSpec == Spec /\ Fairness

-----------------------------------------------------------------------------
(***************************************************************************)
(* Properties.                                                             *)
(***************************************************************************)

(* The other is a friend only while our user has asked for it or accepted  *)
(* it and has not ended it since, unless a confirmation was under way      *)
(* while the user ended it, or a restart found the friend in the ledger    *)
(* only (the consent gates of the accept and request handlers, and what    *)
(* unfriend, reject and cancel leave behind in memory and on disk).        *)
ConsentStands ==
  \A h \in Hosts : rec[h] = "friend" => consent[h] \/ overlap[h]

(* Where users only request and accept, neither host takes the other for a *)
(* friend before both users asked or accepted, however the packets         *)
(* overtake each other.                                                    *)
BothConsented ==
  \A h \in Hosts : rec[h] = "friend" => consent[A] /\ consent[B]

(* The ledger follows memory: it missed no write and none is under way. *)
LedgerFollows(h) == "ledger" \notin missed[h] /\ ~BetweenWrites(h)

(* What a restart makes of a friendship, at any point of add_friend and    *)
(* unfriend and after writes that failed.  If the configuration missed no  *)
(* write, the record is as it was, but that an entry left in a ledger that *)
(* missed one brings a friend back.  If the ledger missed none, no friend  *)
(* is lost, whatever became of the configuration, unless it still holds    *)
(* the pending record of old; and nobody put out comes back once it is     *)
(* lost (add_friend, unfriend, reconcile_friends_from_ledger).             *)
RestartKeeps ==
  [][\A h \in Hosts :
       /\ Restart(h) /\ "config" \notin missed[h] =>
            \/ rec'[h] = rec[h]
            \/ rec[h] = "none" /\ rec'[h] = "friend" /\ ~LedgerFollows(h)
       /\ Restart(h) /\ LedgerFollows(h) /\ rec[h] = "friend" =>
            rec'[h] = "friend" \/ disk[h] = "pending"
       /\ RestartWithoutConfig(h) /\ LedgerFollows(h) /\ rec[h] # "pending" =>
            rec'[h] = rec[h]]_vars

(* An accept that arrives while our request is recorded makes a friend, if *)
(* no one ends the matter (the requester's half of the handshake).         *)
AcceptCompletes ==
  \A h \in Hosts :
    (udp[h]["accept"] > 0 /\ intent[h]) ~> rec[h] = "friend"
=============================================================================
