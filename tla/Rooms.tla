------------------------------- MODULE Rooms -------------------------------
(***************************************************************************)
(* One group chat room (rooms.py): its owner, the members' cached copies,  *)
(* invitations, admission and removal.                                     *)
(*                                                                         *)
(* The owner's room is changed under rooms_lock, by the thread of the      *)
(* user's commands and by the reader of each member's socket; what follows *)
(* a change (telling the peers) is done after the lock is released, from   *)
(* the shared room.  A room message goes out at once or is dropped:        *)
(* _write holds none of them.                                              *)
(***************************************************************************)
EXTENDS Integers, Sequences

CONSTANTS
  Members,    \* the peers of the owner (its own entry never leaves the roster)
  OwnerOps,   \* what the owner's user does in this instance
  MemberOps,  \* what the members' users do
  MaxOwner,   \* bound: commands of the owner's user
  MaxAsk,     \* bound: commands of the members' users, together
  MaxFault    \* bound: connections lost, restarts, friendships ended

AllOwnerOps == {"invite", "remove", "permit", "colours", "disband"}
AllMemberOps == {"join", "leave", "forget", "add", "color", "sync"}

ASSUME OpsKnown == OwnerOps \subseteq AllOwnerOps /\ MemberOps \subseteq AllMemberOps
ASSUME BoundsAreNat == MaxOwner \in Nat /\ MaxAsk \in Nat /\ MaxFault \in Nat

VARIABLES
  open,       \* the room is in the owner's STATE.rooms (and in its file)
  room,       \* the owner's room: seq, members, who may invite, colours on
  tickets,    \* room["invited"]
  cache,      \* cache[m]: the room in m's STATE.rooms_cache, a set of 0 or 1 copies
  leaving,    \* members between the roomLeave they wrote and dropping their copy
  friends,    \* members the owner trusts and who trust the owner
  connected,  \* members with an active socket to the owner
  toMember,   \* toMember[m]: room messages on their way to m
  toOwner,    \* toOwner[m]: room messages on their way from m
  job,        \* job[t]: what a thread of the owner is about to do
  entitled,   \* history: invited, and not removed since
  overlapped, \* history: a removal (or restart) and an invitation or admission of
              \* the same peer overlapped
  missed,     \* history: a message about the roster was lost on, or dropped with, its copy
  asked,      \* commands of the owner's and of the members' users
  faults

vars == <<open, room, tickets, cache, leaving, friends, connected, toMember,
          toOwner, job, entitled, overlapped, missed, asked, faults>>
ownerVars == <<open, room, tickets>>
memberVars == <<cache, leaving>>
netVars == <<friends, connected>>
history == <<entitled, overlapped>>

User == "user"
Threads == {User} \union Members

Copy == [seq : Nat, members : SUBSET Members, can : SUBSET Members, colours : BOOLEAN]
Stub == [seq |-> 0, members |-> {}, can |-> {}, colours |-> TRUE]

(* A thread at work: its next step, the peer it is about, the peers still  *)
(* to be written to, and the fields of the room that were copied.          *)
Steps == {"idle", "ticket", "admit", "tell", "publish", "reply", "send", "disband"}
Job(at, peer) == [at |-> at, peer |-> {peer}, left |-> {}, seq |-> 0, colours |-> TRUE]
Idle == [at |-> "idle", peer |-> {}, left |-> {}, seq |-> 0, colours |-> TRUE]
At(t, step) == job[t].at = step
Becomes(t, j) == job' = [job EXCEPT ![t] = j]

Init ==
  /\ open = TRUE
  /\ room = [seq |-> 1, members |-> {}, can |-> {}, colours |-> TRUE]
  /\ tickets = {}
  /\ cache = [m \in Members |-> {}]
  /\ leaving = {}
  /\ friends = Members
  /\ connected = Members
  /\ toMember = [m \in Members |-> <<>>]
  /\ toOwner = [m \in Members |-> <<>>]
  /\ job = [t \in Threads |-> Idle]
  /\ entitled = {}
  /\ overlapped = {}
  /\ missed = {}
  /\ asked = [owner |-> 0, members |-> 0]
  /\ faults = 0

----------------------------------------------------------------------------
(* Writing.  A room message to a peer without a socket is dropped.         *)

ToMember(m, msg) ==
  toMember' = [toMember EXCEPT ![m] = IF m \in connected THEN Append(@, msg) ELSE @]

(* The same, of a message the copy of m depends on.  A snapshot of the     *)
(* room as it now is makes up for everything missed before.                *)
Notify(m, msg) ==
  /\ ToMember(m, msg)
  /\ missed' = IF m \notin connected THEN missed \union {m}
               ELSE IF open /\ msg.kind = "state" /\ msg.room = room THEN missed \ {m}
               ELSE missed

InviteMsg == [kind |-> "invite"]
RemoveMsg == [kind |-> "remove"]
StateMsg(copy) == [kind |-> "state", room |-> copy]

Ask(m, kind, peer) ==
  toOwner' = [toOwner EXCEPT ![m] = Append(@, [kind |-> kind, peer |-> peer])]

(* Peers for whom an invitation or an admission is under way.              *)
UnderWay == UNION {job[t].peer : t \in {u \in Threads : At(u, "ticket") \/ At(u, "admit")}}
(* Peers who are removed but not yet told.                                 *)
Untold == UNION {job[t].peer : t \in {u \in Threads : At(u, "tell")}}

----------------------------------------------------------------------------
(* The owner's room.                                                       *)

(* owner_invite: the invitation is written first; a peer who is offline    *)
(* gets no ticket.                                                         *)
OwnerInvite(t, p) ==
  IF p \in connected
  THEN /\ ToMember(p, InviteMsg)
       /\ Becomes(t, Job("ticket", p))
       /\ entitled' = entitled \union {p}
       /\ overlapped' = overlapped \ {p}
       /\ UNCHANGED <<ownerVars, missed>>
  ELSE /\ Becomes(t, Idle)
       /\ UNCHANGED <<ownerVars, toMember, history, missed>>

(* ... and the ticket recorded afterwards.                                 *)
RecordTicket(t) ==
  /\ At(t, "ticket")
  /\ tickets' = tickets \union job[t].peer
  /\ Becomes(t, Idle)
  /\ UNCHANGED <<open, room, memberVars, netVars, toMember, toOwner, history,
                 missed, asked, faults>>

(* owner_admit: an existing member is left as is, but told again.          *)
Admit(t) ==
  /\ At(t, "admit")
  /\ room' = IF job[t].peer \subseteq room.members THEN room
             ELSE [room EXCEPT !.members = @ \union job[t].peer, !.seq = @ + 1]
  /\ Becomes(t, [Idle EXCEPT !.at = "publish"])
  /\ overlapped' = overlapped \union (Untold \intersect job[t].peer)
  /\ UNCHANGED <<open, tickets, memberVars, netVars, toMember, toOwner, entitled,
                 missed, asked, faults>>

Without_KeepsPermission(p) == [room EXCEPT !.members = @ \ {p}, !.seq = @ + 1]
(* The member's record goes with its permission.                           *)
Without(p) == [room EXCEPT !.members = @ \ {p}, !.can = @ \ {p}, !.seq = @ + 1]

(* owner_remove, for the command and for a member's roomLeave: off the     *)
(* roster, ticket revoked, one critical section.                           *)
OwnerRemove(t, p) ==
  IF p \in room.members
  THEN /\ room' = Without(p)
       /\ tickets' = tickets \ {p}
       /\ Becomes(t, Job("tell", p))
       /\ entitled' = entitled \ {p}
       /\ overlapped' = overlapped \union (UnderWay \intersect {p})
       /\ UNCHANGED <<open, toMember, missed>>
  ELSE /\ Becomes(t, Idle)
       /\ UNCHANGED <<ownerVars, toMember, history, missed>>

(* ... then the removed peer is told, and the rest.                        *)
TellRemoved(t) ==
  /\ At(t, "tell")
  /\ \E p \in job[t].peer : Notify(p, RemoveMsg)
  /\ Becomes(t, [Idle EXCEPT !.at = "publish"])
  /\ UNCHANGED <<ownerVars, memberVars, netVars, toOwner, history, asked, faults>>

(* owner_set_can_invite, owner_toggle_colors and _apply_member_color.      *)
Change(t, changed) ==
  /\ room' = [changed EXCEPT !.seq = @ + 1]
  /\ Becomes(t, [Idle EXCEPT !.at = "publish"])
  /\ UNCHANGED <<open, tickets, toMember, history, missed>>

(* _send_room_state fixes the recipients and copies seq and colours; the   *)
(* members' records stay shared with the room.  A roomStateReq has one     *)
(* recipient.                                                              *)
Publish(t) ==
  /\ At(t, "publish") \/ At(t, "reply")
  /\ Becomes(t, [Idle EXCEPT !.at = "send", !.seq = room.seq, !.colours = room.colours,
                             !.left = IF At(t, "reply") THEN job[t].peer ELSE room.members])
  /\ UNCHANGED <<ownerVars, memberVars, netVars, toMember, toOwner, history,
                 missed, asked, faults>>

(* ... and writes to one recipient after the other.                        *)
SnapshotOf(t) == [room EXCEPT !.seq = job[t].seq, !.colours = job[t].colours]
SendState(t, m) ==
  /\ At(t, "send")
  /\ m \in job[t].left
  /\ Notify(m, StateMsg(SnapshotOf(t)))
  /\ Becomes(t, [job[t] EXCEPT !.left = @ \ {m}])
  /\ UNCHANGED <<ownerVars, memberVars, netVars, toOwner, history, asked, faults>>
SendDone(t) ==
  /\ At(t, "send") \/ At(t, "disband")
  /\ job[t].left = {}
  /\ Becomes(t, Idle)
  /\ UNCHANGED <<ownerVars, memberVars, netVars, toMember, toOwner, history,
                 missed, asked, faults>>

(* The owner leaves (member_leave): the room is gone, its members are told.*)
Disband ==
  /\ open' = FALSE
  /\ Becomes(User, [Idle EXCEPT !.at = "disband", !.left = room.members])
  /\ room' = [room EXCEPT !.seq = @ + 1]
  /\ overlapped' = overlapped \union UnderWay
  /\ UNCHANGED <<tickets, toMember, entitled, missed>>
TellDisbanded(m) ==
  /\ At(User, "disband")
  /\ m \in job[User].left
  /\ Notify(m, RemoveMsg)
  /\ Becomes(User, [job[User] EXCEPT !.left = @ \ {m}])
  /\ UNCHANGED <<ownerVars, memberVars, netVars, toOwner, history, asked, faults>>

Permit(p) ==
  /\ p \in room.members
  /\ \E can \in {room.can \union {p}, room.can \ {p}} :
        Change(User, [room EXCEPT !.can = can])

(* The commands of the owner's user (handle_command).                      *)
OwnerCommand(op, p) ==
  /\ op \in OwnerOps
  /\ open
  /\ At(User, "idle")
  /\ asked.owner < MaxOwner
  /\ asked' = [asked EXCEPT !.owner = @ + 1]
  /\ \/ op = "invite" /\ OwnerInvite(User, p)
     \/ op = "remove" /\ OwnerRemove(User, p)
     \/ op = "permit" /\ Permit(p)
     \/ op = "colours" /\ Change(User, [room EXCEPT !.colours = ~@])
     \/ op = "disband" /\ Disband
  /\ UNCHANGED <<memberVars, netVars, toOwner, faults>>

(* handle_room_msg at the owner, from m's socket.                          *)
Refuse(t) == Becomes(t, Idle) /\ UNCHANGED <<ownerVars, toMember, history, missed>>

MayJoin_AnyFriend(m) == m \in friends
(* roomJoin: a friend who is a member or holds a ticket; any join uses the *)
(* ticket up.  The member is admitted after the lock is released.          *)
MayJoin(m) == m \in friends /\ (m \in room.members \/ m \in tickets)
HandleJoin_UsesTicketFirst(m) ==
  /\ tickets' = tickets \ {m}
  /\ Becomes(m, IF MayJoin(m) THEN Job("admit", m) ELSE Idle)
  /\ UNCHANGED <<open, room, toMember, history, missed>>
HandleJoin(m) ==
  IF MayJoin(m)
  THEN /\ tickets' = tickets \ {m}
       /\ Becomes(m, Job("admit", m))
       /\ UNCHANGED <<open, room, toMember, history, missed>>
  ELSE Refuse(m)

HandleAdd(m, p) ==
  IF m \in room.members /\ m \in room.can /\ p \in friends
  THEN OwnerInvite(m, p) ELSE Refuse(m)

HandleColor(m) == IF m \in room.members THEN Change(m, room) ELSE Refuse(m)

(* roomStateReq: members only.                                             *)
HandleSync(m) ==
  IF m \in room.members
  THEN /\ Becomes(m, Job("reply", m))
       /\ UNCHANGED <<ownerVars, toMember, history, missed>>
  ELSE Refuse(m)

HandleAtOwner(m) ==
  /\ At(m, "idle")
  /\ toOwner[m] # <<>>
  /\ toOwner' = [toOwner EXCEPT ![m] = Tail(@)]
  /\ LET msg == Head(toOwner[m])
     IN  \/ ~open /\ Refuse(m)
         \/ open /\ msg.kind = "join" /\ HandleJoin(m)
         \/ open /\ msg.kind = "leave" /\ OwnerRemove(m, m)
         \/ open /\ msg.kind = "add" /\ HandleAdd(m, msg.peer)
         \/ open /\ msg.kind = "color" /\ HandleColor(m)
         \/ open /\ msg.kind = "sync" /\ HandleSync(m)
  /\ UNCHANGED <<memberVars, netVars, asked, faults>>

----------------------------------------------------------------------------
(* A member's copy.                                                        *)

Known(m) == cache[m] # {}
CopyOf(m) == CHOOSE c \in cache[m] : TRUE
InCopy(m) == Known(m) /\ m \in CopyOf(m).members

(* roomInvite seeds a stub unless the room is known.                       *)
Invited(m) == IF Known(m) THEN cache[m] ELSE {Stub}

(* roomState needs a record, and must not be older than it.                *)
Accepts_Any(m, copy) == Known(m)
Accepts(m, copy) == Known(m) /\ CopyOf(m).seq <= copy.seq
Synced(m, copy) == IF Accepts(m, copy) THEN {copy} ELSE cache[m]

Removed(m) == {}

HandleAtMember(m) ==
  /\ toMember[m] # <<>>
  /\ toMember' = [toMember EXCEPT ![m] = Tail(@)]
  /\ LET msg == Head(toMember[m])
     IN  /\ cache' = [cache EXCEPT ![m] =
              CASE msg.kind = "invite" -> Invited(m)
                [] msg.kind = "state" -> Synced(m, msg.room)
                [] msg.kind = "remove" -> Removed(m)]
         /\ missed' = IF msg.kind = "state" /\ ~Known(m) THEN missed \union {m} ELSE missed
  /\ UNCHANGED <<ownerVars, leaving, netVars, toOwner, job, history, asked, faults>>

MemberCommand(op) ==
  /\ op \in MemberOps
  /\ asked.members < MaxAsk
  /\ asked' = [asked EXCEPT !.members = @ + 1]
  /\ UNCHANGED <<ownerVars, netVars, toMember, job, history, faults>>

(* roomJoin, roomAdd, setRoomColor, roomSync: written to the owner if it   *)
(* is connected; the copy does not change.                                 *)
Request(m, kind, peer) ==
  /\ MemberCommand(kind)
  /\ m \in connected
  /\ \/ kind \in {"join", "sync"} /\ Known(m)
     \/ kind = "add" /\ InCopy(m) /\ m \in CopyOf(m).can
     \/ kind = "color" /\ InCopy(m)
  /\ Ask(m, kind, peer)
  /\ UNCHANGED <<memberVars, missed>>

(* member_leave: nothing happens while the owner is offline; without trust *)
(* the copy is dropped and the owner not told.                             *)
Leave(m) ==
  /\ MemberCommand("leave")
  /\ InCopy(m)
  /\ m \notin leaving
  /\ \/ /\ m \notin friends
        /\ cache' = [cache EXCEPT ![m] = {}]
        /\ missed' = missed \union {m}
        /\ UNCHANGED <<leaving, toOwner>>
     \/ /\ m \in friends \intersect connected
        /\ Ask(m, "leave", m)
        /\ leaving' = leaving \union {m}
        /\ UNCHANGED <<cache, missed>>
LeaveDone(m) ==
  /\ m \in leaving
  /\ leaving' = leaving \ {m}
  /\ cache' = [cache EXCEPT ![m] = {}]
  /\ missed' = missed \union {m}
  /\ UNCHANGED <<ownerVars, netVars, toMember, toOwner, job, history, asked, faults>>

(* forget_room: only a room one does not belong to.                        *)
Forget(m) ==
  /\ MemberCommand("forget")
  /\ Known(m) /\ ~InCopy(m)
  /\ cache' = [cache EXCEPT ![m] = {}]
  /\ missed' = missed \union {m}
  /\ UNCHANGED <<leaving, toOwner>>

----------------------------------------------------------------------------
(* Faults.  What was on a lost connection is lost.                         *)

Fault == faults < MaxFault /\ faults' = faults + 1

LoseConnections(S) ==
  /\ connected' = connected \ S
  /\ toMember' = [m \in Members |-> IF m \in S THEN <<>> ELSE toMember[m]]
  /\ toOwner' = [m \in Members |-> IF m \in S THEN <<>> ELSE toOwner[m]]

Cut(m) ==
  /\ Fault
  /\ m \in connected
  /\ LoseConnections({m})
  /\ missed' = IF toMember[m] = <<>> THEN missed ELSE missed \union {m}
  /\ leaving' \in {leaving, leaving \ {m}}    \* the member is restarted
  /\ UNCHANGED <<ownerVars, cache, friends, job, history, asked>>

Reconnect(m) ==
  /\ m \in friends \ connected
  /\ connected' = connected \union {m}
  /\ UNCHANGED <<ownerVars, memberVars, friends, toMember, toOwner, job, history,
                 missed, asked, faults>>

(* The owner is restarted: the room is in its file, what was still to be   *)
(* told is forgotten.                                                      *)
OwnerRestart ==
  /\ Fault
  /\ LoseConnections(Members)
  /\ job' = [t \in Threads |-> Idle]
  /\ overlapped' = overlapped \union UnderWay
  /\ missed' = Members
  /\ UNCHANGED <<ownerVars, memberVars, friends, entitled, asked>>

(* The owner and m are friends no longer; sockets stay as they are.        *)
Unfriend(m) ==
  /\ Fault
  /\ m \in friends
  /\ friends' = friends \ {m}
  /\ UNCHANGED <<ownerVars, memberVars, connected, toMember, toOwner, job,
                 history, missed, asked>>

----------------------------------------------------------------------------
Next ==
  \/ \E op \in AllOwnerOps, p \in Members : OwnerCommand(op, p)
  \/ \E t \in Threads : RecordTicket(t) \/ Admit(t) \/ TellRemoved(t) \/ Publish(t)
                        \/ SendDone(t)
  \/ \E t \in Threads, m \in Members : SendState(t, m)
  \/ \E m \in Members : TellDisbanded(m) \/ HandleAtOwner(m) \/ HandleAtMember(m)
  \/ \E kind \in {"join", "add", "color", "sync"}, m, p \in Members : Request(m, kind, p)
  \/ \E m \in Members : Leave(m) \/ LeaveDone(m) \/ Forget(m)
  \/ \E m \in Members : Cut(m) \/ Reconnect(m) \/ Unfriend(m)
  \/ OwnerRestart

Spec == Init /\ [][Next]_vars

----------------------------------------------------------------------------
Jobs == [at : Steps, peer : SUBSET Members, left : SUBSET Members,
         seq : Nat, colours : BOOLEAN]
Frames == [kind : {"invite", "remove"}] \union [kind : {"state"}, room : Copy]
Asks == [kind : AllMemberOps, peer : Members]

TypeOK ==
  /\ open \in BOOLEAN
  /\ room \in Copy
  /\ room.can \subseteq room.members
  /\ tickets \subseteq Members
  /\ cache \in [Members -> SUBSET Copy]
  /\ \A m \in Members : \A c, d \in cache[m] : c = d
  /\ leaving \subseteq Members
  /\ friends \subseteq Members /\ connected \subseteq Members
  /\ toMember \in [Members -> Seq(Frames)]
  /\ toOwner \in [Members -> Seq(Asks)]
  /\ job \in [Threads -> Jobs]
  /\ entitled \subseteq Members /\ overlapped \subseteq Members
  /\ missed \subseteq Members

(* Who is, or is about to be, on the roster or holds a ticket was invited  *)
(* by the owner since it was last removed, unless the removal (or a        *)
(* restart) fell inside an invitation or an admission of the same peer.    *)
InvitedOnly == room.members \union tickets \union UnderWay \subseteq entitled \union overlapped

(* An invitation that went out stands until it is used or the peer is      *)
(* removed, again but for that overlap.                                    *)
InvitationStands ==
  entitled \subseteq room.members \union tickets \union UnderWay \union overlapped

(* When the threads are idle and the wires empty, every copy that missed   *)
(* nothing is right: a member's is the owner's room, whatever order the    *)
(* snapshots were taken and sent in, and nobody else's says that they      *)
(* belong to the room (but for an admission that a disband overtook).      *)
Quiet == /\ \A t \in Threads : At(t, "idle") \/ At(t, "ticket")
         /\ \A m \in Members : toMember[m] = <<>>
CopiesAgree ==
  Quiet => \A m \in Members \ missed : Known(m) =>
     IF open /\ m \in room.members THEN CopyOf(m) = room
     ELSE InCopy(m) => ~open /\ m \in overlapped
=============================================================================
