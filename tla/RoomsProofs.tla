----------------------------- MODULE RoomsProofs -----------------------------
(***************************************************************************)
(* For every set of members, every choice of commands and every bound: the *)
(* room is well typed; the roster, the tickets and the admissions under    *)
(* way are exactly what the owner's standing invitations entitle to, but   *)
(* for a removal that overlaps an invitation of the same peer; and the     *)
(* copies come to agree with the room.                                     *)
(***************************************************************************)
EXTENDS Rooms, TLAPS

(* The type invariant, cut where the handlers are cut: what the owner's    *)
(* operations assign, and the rest.                                        *)
OwnerTypes ==
  /\ open \in BOOLEAN
  /\ room \in Copy
  /\ room.can \subseteq room.members
  /\ tickets \subseteq Members
  /\ toMember \in [Members -> Seq(Frames)]
  /\ job \in [Threads -> Jobs]
  /\ entitled \subseteq Members /\ overlapped \subseteq Members
  /\ missed \subseteq Members
CacheTypes ==
  /\ cache \in [Members -> SUBSET Copy]
  /\ \A m \in Members : \A c, d \in cache[m] : c = d
RestTypes ==
  /\ CacheTypes
  /\ leaving \subseteq Members
  /\ friends \subseteq Members /\ connected \subseteq Members
  /\ toOwner \in [Members -> Seq(Asks)]

LEMMA TypeParts == TypeOK <=> OwnerTypes /\ RestTypes
BY DEF TypeOK, OwnerTypes, RestTypes, CacheTypes

LEMMA TypePartsNext == TypeOK' <=> OwnerTypes' /\ RestTypes'
BY DEF TypeOK, OwnerTypes, RestTypes, CacheTypes

----------------------------------------------------------------------------
(* The pieces the steps are made of.                                       *)

LEMMA IdleType == Idle \in Jobs
BY DEF Idle, Jobs, Steps

LEMMA JobType ==
  ASSUME NEW at \in Steps, NEW p \in Members
  PROVE  Job(at, p) \in Jobs
BY DEF Job, Jobs

LEMMA MembersAreThreads == Members \subseteq Threads /\ User \in Threads
BY DEF Threads

LEMMA BecomesType ==
  ASSUME job \in [Threads -> Jobs], NEW t \in Threads, NEW j \in Jobs, Becomes(t, j)
  PROVE  job' \in [Threads -> Jobs]
BY DEF Becomes

LEMMA FrameTypes ==
  /\ InviteMsg \in Frames
  /\ RemoveMsg \in Frames
  /\ \A c \in Copy : StateMsg(c) \in Frames
BY DEF InviteMsg, RemoveMsg, StateMsg, Frames

LEMMA ToMemberType ==
  ASSUME toMember \in [Members -> Seq(Frames)], NEW m \in Members, NEW msg \in Frames,
         ToMember(m, msg)
  PROVE  toMember' \in [Members -> Seq(Frames)]
BY DEF ToMember

LEMMA NotifyType ==
  ASSUME toMember \in [Members -> Seq(Frames)], missed \subseteq Members,
         NEW m \in Members, NEW msg \in Frames, Notify(m, msg)
  PROVE  toMember' \in [Members -> Seq(Frames)] /\ missed' \subseteq Members
<1>1. toMember' \in [Members -> Seq(Frames)]
  BY ToMemberType DEF Notify
<1>2. missed' \subseteq Members
  BY DEF Notify
<1> QED
  BY <1>1, <1>2

LEMMA UnderWayType ==
  ASSUME job \in [Threads -> Jobs]
  PROVE  UnderWay \subseteq Members /\ Untold \subseteq Members
BY DEF UnderWay, Untold, Jobs

(* Adding members, taking one off with its permission, and any change that *)
(* counts the sequence number up leave a room.                             *)
LEMMA RoomGrows ==
  ASSUME room \in Copy, room.can \subseteq room.members, NEW P \in SUBSET Members
  PROVE  LET r == [room EXCEPT !.members = @ \union P, !.seq = @ + 1]
         IN  r \in Copy /\ r.can \subseteq r.members
<1> DEFINE M == room.members \union P
           r == [room EXCEPT !.members = M, !.seq = @ + 1]
<1>1. room.seq + 1 \in Nat /\ M \in SUBSET Members
  BY DEF Copy
<1>2. room \in [seq : Nat, members : SUBSET Members, can : SUBSET Members, colours : BOOLEAN]
  BY DEF Copy
<1>3. room.can \subseteq M
  OBVIOUS
<1> HIDE DEF M
<1>4. r \in [seq : Nat, members : SUBSET Members, can : SUBSET Members, colours : BOOLEAN]
  BY <1>1, <1>2
<1>5. r.can = room.can /\ r.members = M
  BY <1>2
<1> QED
  BY <1>3, <1>4, <1>5 DEF Copy, M

LEMMA RoomShrinks ==
  ASSUME room \in Copy, room.can \subseteq room.members, NEW p \in Members
  PROVE  Without(p) \in Copy /\ Without(p).can \subseteq Without(p).members
<1> DEFINE M == room.members \ {p}
           C == room.can \ {p}
           r == [room EXCEPT !.members = M, !.can = C, !.seq = @ + 1]
<1>1. room.seq + 1 \in Nat /\ M \in SUBSET Members /\ C \in SUBSET Members /\ C \subseteq M
  BY DEF Copy
<1>2. room \in [seq : Nat, members : SUBSET Members, can : SUBSET Members, colours : BOOLEAN]
  BY DEF Copy
<1>3. r = Without(p)
  BY DEF Without
<1> HIDE DEF M, C
<1>4. r \in [seq : Nat, members : SUBSET Members, can : SUBSET Members, colours : BOOLEAN]
  BY <1>1, <1>2
<1>5. r.can = C /\ r.members = M
  BY <1>2
<1> QED
  BY <1>1, <1>3, <1>4, <1>5 DEF Copy

LEMMA RoomChanges ==
  ASSUME NEW c \in Copy, c.can \subseteq c.members
  PROVE  LET r == [c EXCEPT !.seq = @ + 1]
         IN  r \in Copy /\ r.can \subseteq r.members
BY DEF Copy

----------------------------------------------------------------------------
(* The owner's operations, called by the user's commands and by the        *)
(* readers alike.                                                          *)

LEMMA RefuseType ==
  ASSUME OwnerTypes, NEW t \in Threads, Refuse(t)
  PROVE  OwnerTypes'
<1>1. job' \in [Threads -> Jobs]
  BY BecomesType, IdleType DEF Refuse, OwnerTypes
<1> QED
  BY <1>1 DEF Refuse, OwnerTypes, ownerVars, history

LEMMA InviteType ==
  ASSUME OwnerTypes, NEW t \in Threads, NEW p \in Members, OwnerInvite(t, p)
  PROVE  OwnerTypes'
<1>1. CASE p \in connected
  <2>1. job' \in [Threads -> Jobs]
    BY <1>1, BecomesType, JobType DEF OwnerInvite, OwnerTypes, Steps
  <2>2. toMember' \in [Members -> Seq(Frames)]
    BY <1>1, ToMemberType, FrameTypes DEF OwnerInvite, OwnerTypes
  <2> QED
    BY <1>1, <2>1, <2>2 DEF OwnerInvite, OwnerTypes, ownerVars
<1>2. CASE p \notin connected
  <2>1. job' \in [Threads -> Jobs]
    BY <1>2, BecomesType, IdleType DEF OwnerInvite, OwnerTypes
  <2> QED
    BY <1>2, <2>1 DEF OwnerInvite, OwnerTypes, ownerVars, history
<1> QED
  BY <1>1, <1>2

LEMMA RemoveType ==
  ASSUME OwnerTypes, NEW t \in Threads, NEW p \in Members, OwnerRemove(t, p)
  PROVE  OwnerTypes'
<1>1. CASE p \in room.members
  <2>1. job' \in [Threads -> Jobs]
    BY <1>1, BecomesType, JobType DEF OwnerRemove, OwnerTypes, Steps
  <2>2. room' \in Copy /\ room'.can \subseteq room'.members
    BY <1>1, RoomShrinks DEF OwnerRemove, OwnerTypes
  <2> QED
    BY <1>1, <2>1, <2>2 DEF OwnerRemove, OwnerTypes
<1>2. CASE p \notin room.members
  <2>1. job' \in [Threads -> Jobs]
    BY <1>2, BecomesType, IdleType DEF OwnerRemove, OwnerTypes
  <2> QED
    BY <1>2, <2>1 DEF OwnerRemove, OwnerTypes, ownerVars, history
<1> QED
  BY <1>1, <1>2

LEMMA PublishingType == [Idle EXCEPT !.at = "publish"] \in Jobs
BY DEF Idle, Jobs, Steps

LEMMA ChangeType ==
  ASSUME OwnerTypes, NEW t \in Threads, NEW c \in Copy, c.can \subseteq c.members,
         Change(t, c)
  PROVE  OwnerTypes'
<1>1. job' \in [Threads -> Jobs]
  BY BecomesType, PublishingType DEF Change, OwnerTypes
<1>2. room' \in Copy /\ room'.can \subseteq room'.members
  BY RoomChanges DEF Change, OwnerTypes
<1> QED
  BY <1>1, <1>2 DEF Change, OwnerTypes, history

LEMMA DisbandType ==
  ASSUME OwnerTypes, Disband
  PROVE  OwnerTypes'
<1>1. [Idle EXCEPT !.at = "disband", !.left = room.members] \in Jobs
  BY DEF OwnerTypes, Idle, Jobs, Steps, Copy
<1>2. job' \in [Threads -> Jobs]
  BY <1>1, BecomesType, MembersAreThreads DEF Disband, OwnerTypes
<1>3. room' \in Copy /\ room'.can \subseteq room'.members
  BY RoomChanges DEF Disband, OwnerTypes
<1>4. overlapped' \subseteq Members
  BY UnderWayType DEF Disband, OwnerTypes
<1>5. open' \in BOOLEAN
  BY DEF Disband
<1> QED
  BY <1>2, <1>3, <1>4, <1>5 DEF Disband, OwnerTypes

----------------------------------------------------------------------------
(* The actions.                                                            *)

LEMMA RestStays ==
  ASSUME RestTypes, UNCHANGED <<memberVars, netVars, toOwner>>
  PROVE  RestTypes'
BY DEF RestTypes, CacheTypes, memberVars, netVars

LEMMA OwnerStays ==
  ASSUME OwnerTypes, UNCHANGED <<ownerVars, toMember, job, history, missed>>
  PROVE  OwnerTypes'
BY DEF OwnerTypes, ownerVars, history

(* The user's commands.                                                    *)
LEMMA OwnerCommandType ==
  ASSUME OwnerTypes, RestTypes, NEW op \in AllOwnerOps, NEW p \in Members,
         OwnerCommand(op, p)
  PROVE  OwnerTypes' /\ RestTypes'
<1>1. RestTypes'
  BY RestStays DEF OwnerCommand
<1>2. User \in Threads
  BY MembersAreThreads
<1>3. CASE OwnerInvite(User, p)
  BY <1>1, <1>2, <1>3, InviteType
<1>4. CASE OwnerRemove(User, p)
  BY <1>1, <1>2, <1>4, RemoveType
<1>5. CASE Permit(p)
  <2>1. PICK can \in {room.can \union {p}, room.can \ {p}} :
          Change(User, [room EXCEPT !.can = can])
    BY <1>5 DEF Permit
  <2>2. room \in Copy /\ room.can \subseteq room.members /\ p \in room.members
    BY <1>5 DEF Permit, OwnerTypes
  <2> DEFINE c == [room EXCEPT !.can = can]
  <2>3. c \in Copy /\ c.can \subseteq c.members
    BY <2>2 DEF Copy
  <2> HIDE DEF c
  <2>4. Change(User, c)
    BY <2>1 DEF c
  <2> QED
    BY <1>1, <1>2, <2>3, <2>4, ChangeType
<1>6. CASE Change(User, [room EXCEPT !.colours = ~@])
  <2> DEFINE c == [room EXCEPT !.colours = ~@]
  <2>1. c \in Copy /\ c.can \subseteq c.members
    <3>1. room \in Copy /\ room.can \subseteq room.members /\ (~room.colours) \in BOOLEAN
      BY DEF OwnerTypes, Copy
    <3> QED
      BY <3>1 DEF Copy
  <2> HIDE DEF c
  <2>2. Change(User, c)
    BY <1>6 DEF c
  <2> QED
    BY <1>1, <1>2, <2>1, <2>2, ChangeType
<1>7. CASE Disband
  BY <1>1, <1>7, DisbandType
<1> QED
  BY <1>1, <1>3, <1>4, <1>5, <1>6, <1>7 DEF OwnerCommand

(* A message from a member's socket.                                       *)
LEMMA HandleAtOwnerType ==
  ASSUME OwnerTypes, RestTypes, NEW m \in Members, HandleAtOwner(m)
  PROVE  OwnerTypes' /\ RestTypes'
<1> DEFINE msg == Head(toOwner[m])
<1>1. m \in Threads
  BY MembersAreThreads
<1>2. toOwner[m] \in Seq(Asks) /\ toOwner[m] # <<>>
  BY DEF HandleAtOwner, RestTypes
<1>3. msg.peer \in Members
  <2>1. msg \in Asks
    BY <1>2
  <2> QED
    BY <2>1 DEF Asks
<1>4. RestTypes'
  <2>1. toOwner' \in [Members -> Seq(Asks)]
    BY <1>2 DEF HandleAtOwner, RestTypes
  <2> QED
    BY <2>1 DEF HandleAtOwner, RestTypes, CacheTypes, memberVars, netVars
<1>5. CASE Refuse(m)
  BY <1>1, <1>4, <1>5, RefuseType
<1>6. CASE HandleJoin(m) /\ ~Refuse(m)
  <2>1. job' \in [Threads -> Jobs]
    BY <1>1, <1>6, BecomesType, JobType DEF HandleJoin, OwnerTypes, Steps
  <2> QED
    BY <1>4, <1>6, <2>1 DEF HandleJoin, OwnerTypes, history
<1>7. CASE OwnerRemove(m, m)
  BY <1>1, <1>4, <1>7, RemoveType
<1>8. CASE HandleAdd(m, msg.peer) /\ ~Refuse(m)
  <2>1. OwnerInvite(m, msg.peer)
    BY <1>8 DEF HandleAdd
  <2> QED
    BY <1>1, <1>3, <1>4, <2>1, InviteType
<1>9. CASE HandleColor(m) /\ ~Refuse(m)
  <2>1. Change(m, room) /\ room \in Copy /\ room.can \subseteq room.members
    BY <1>9 DEF HandleColor, OwnerTypes
  <2> QED
    BY <1>1, <1>4, <2>1, ChangeType
<1>10. CASE HandleSync(m) /\ ~Refuse(m)
  <2>1. job' \in [Threads -> Jobs]
    BY <1>1, <1>10, BecomesType, JobType DEF HandleSync, OwnerTypes, Steps
  <2> QED
    BY <1>4, <1>10, <2>1 DEF HandleSync, OwnerTypes, ownerVars, history
<1> QED
  BY <1>4, <1>5, <1>6, <1>7, <1>8, <1>9, <1>10 DEF HandleAtOwner

(* A message to a member.                                                  *)
LEMMA HandleAtMemberType ==
  ASSUME OwnerTypes, RestTypes, NEW m \in Members, HandleAtMember(m)
  PROVE  OwnerTypes' /\ RestTypes'
<1> DEFINE msg == Head(toMember[m])
<1>1. toMember[m] \in Seq(Frames) /\ toMember[m] # <<>>
  BY DEF HandleAtMember, OwnerTypes
<1>2. msg \in Frames
  BY <1>1
<1>3. toMember' \in [Members -> Seq(Frames)]
  BY <1>1 DEF HandleAtMember, OwnerTypes
<1>4. missed' \subseteq Members
  BY DEF HandleAtMember, OwnerTypes
<1>5. OwnerTypes'
  BY <1>3, <1>4 DEF HandleAtMember, OwnerTypes, ownerVars, history
<1>6. Stub \in Copy
  BY DEF Stub, Copy
<1>7. ASSUME NEW S \in SUBSET Copy, \A c, d \in S : c = d, cache' = [cache EXCEPT ![m] = S]
      PROVE  CacheTypes'
  BY <1>7 DEF RestTypes, CacheTypes
<1>8. CacheTypes'
  <2>1. msg.kind \in {"invite", "state", "remove"}
    BY <1>2 DEF Frames
  <2>2. CASE msg.kind = "invite"
    <3>1. cache' = [cache EXCEPT ![m] = Invited(m)]
      BY <2>2 DEF HandleAtMember
    <3>2. Invited(m) \in SUBSET Copy /\ \A c, d \in Invited(m) : c = d
      BY <1>6 DEF Invited, RestTypes, CacheTypes
    <3> QED
      BY <1>7, <3>1, <3>2
  <2>3. CASE msg.kind = "state"
    <3>1. cache' = [cache EXCEPT ![m] = Synced(m, msg.room)]
      BY <2>3 DEF HandleAtMember
    <3>2. msg.room \in Copy
      BY <1>2, <2>3 DEF Frames
    <3>3. Synced(m, msg.room) \in SUBSET Copy /\ \A c, d \in Synced(m, msg.room) : c = d
      BY <3>2 DEF Synced, RestTypes, CacheTypes
    <3> QED
      BY <1>7, <3>1, <3>3
  <2>4. CASE msg.kind = "remove"
    <3>1. cache' = [cache EXCEPT ![m] = {}]
      BY <2>4 DEF HandleAtMember, Removed
    <3> DEFINE S == {}
    <3>2. S \in SUBSET Copy /\ \A c, d \in S : c = d
      OBVIOUS
    <3>3. cache' = [cache EXCEPT ![m] = S]
      BY <3>1
    <3> HIDE DEF S
    <3> QED
      BY <1>7, <3>2, <3>3
  <2> QED
    BY <2>1, <2>2, <2>3, <2>4
<1> QED
  BY <1>5, <1>8 DEF HandleAtMember, RestTypes, netVars

(* The steps that follow a change: recording, admitting, telling, sending. *)
LEMMA ThreadType ==
  ASSUME OwnerTypes, RestTypes, NEW t \in Threads,
         RecordTicket(t) \/ Admit(t) \/ TellRemoved(t) \/ Publish(t) \/ SendDone(t)
  PROVE  OwnerTypes' /\ RestTypes'
<1> USE MembersAreThreads
<1>1. job[t] \in Jobs /\ job[t].peer \subseteq Members
  BY DEF OwnerTypes, Jobs
<1>2. RestTypes'
  BY RestStays DEF RecordTicket, Admit, TellRemoved, Publish, SendDone
<1>3. CASE RecordTicket(t)
  <2>1. job' \in [Threads -> Jobs]
    BY <1>3, BecomesType, IdleType DEF RecordTicket, OwnerTypes
  <2> QED
    BY <1>1, <1>2, <1>3, <2>1 DEF RecordTicket, OwnerTypes, history
<1>4. CASE Admit(t)
  <2>1. job' \in [Threads -> Jobs]
    BY <1>4, BecomesType, PublishingType DEF Admit, OwnerTypes
  <2>2. room' \in Copy /\ room'.can \subseteq room'.members
    BY <1>1, <1>4, RoomGrows DEF Admit, OwnerTypes
  <2> QED
    BY <1>1, <1>2, <1>4, <2>1, <2>2 DEF Admit, OwnerTypes
<1>5. CASE TellRemoved(t)
  <2>1. job' \in [Threads -> Jobs]
    BY <1>5, BecomesType, PublishingType DEF TellRemoved, OwnerTypes
  <2>2. toMember' \in [Members -> Seq(Frames)] /\ missed' \subseteq Members
    BY <1>1, <1>5, NotifyType, FrameTypes DEF TellRemoved, OwnerTypes
  <2> QED
    BY <1>2, <1>5, <2>1, <2>2 DEF TellRemoved, OwnerTypes, ownerVars, history
<1>6. CASE Publish(t)
  <2>1. room.seq \in Nat /\ room.colours \in BOOLEAN /\ room.members \subseteq Members
    BY DEF OwnerTypes, Copy
  <2> DEFINE left == IF At(t, "reply") THEN job[t].peer ELSE room.members
             j == [Idle EXCEPT !.at = "send", !.seq = room.seq, !.colours = room.colours,
                               !.left = left]
  <2>2. left \in SUBSET Members
    BY <1>1, <2>1
  <2> HIDE DEF left
  <2>3. j \in Jobs
    BY <2>1, <2>2, IdleType DEF Jobs, Steps
  <2>4. Becomes(t, j)
    BY <1>6 DEF Publish, left
  <2> HIDE DEF j
  <2>5. job' \in [Threads -> Jobs]
    BY <2>3, <2>4, BecomesType DEF OwnerTypes
  <2> QED
    BY <1>2, <1>6, <2>5 DEF Publish, OwnerTypes, ownerVars, history
<1>7. CASE SendDone(t)
  <2>1. job' \in [Threads -> Jobs]
    BY <1>7, BecomesType, IdleType DEF SendDone, OwnerTypes
  <2> QED
    BY <1>2, <1>7, <2>1 DEF SendDone, OwnerTypes, ownerVars, history
<1> QED
  BY <1>3, <1>4, <1>5, <1>6, <1>7

LEMMA SnapshotType ==
  ASSUME OwnerTypes, NEW t \in Threads
  PROVE  SnapshotOf(t) \in Copy
<1>1. job[t].seq \in Nat /\ job[t].colours \in BOOLEAN /\ room \in Copy
  BY DEF OwnerTypes, Jobs
<1> QED
  BY <1>1 DEF SnapshotOf, Copy

LEMMA LeftType ==
  ASSUME job \in [Threads -> Jobs], NEW t \in Threads, NEW m,
         Becomes(t, [job[t] EXCEPT !.left = @ \ {m}])
  PROVE  job' \in [Threads -> Jobs]
<1>1. [job[t] EXCEPT !.left = @ \ {m}] \in Jobs
  BY DEF Jobs
<1> QED
  BY <1>1, BecomesType

LEMMA SendType ==
  ASSUME OwnerTypes, RestTypes, NEW m \in Members,
         (\E t \in Threads : SendState(t, m)) \/ TellDisbanded(m)
  PROVE  OwnerTypes' /\ RestTypes'
<1> USE MembersAreThreads
<1>1. RestTypes'
  BY RestStays DEF SendState, TellDisbanded
<1>2. ASSUME NEW t \in Threads, SendState(t, m)
      PROVE  OwnerTypes'
  <2>1. job' \in [Threads -> Jobs]
    BY <1>2, LeftType DEF SendState, OwnerTypes
  <2>2. StateMsg(SnapshotOf(t)) \in Frames
    BY SnapshotType, FrameTypes
  <2>3. toMember' \in [Members -> Seq(Frames)] /\ missed' \subseteq Members
    BY <1>2, <2>2, NotifyType DEF SendState, OwnerTypes
  <2> QED
    BY <1>2, <2>1, <2>3 DEF SendState, OwnerTypes, ownerVars, history
<1>3. CASE TellDisbanded(m)
  <2>1. job' \in [Threads -> Jobs]
    BY <1>3, LeftType DEF TellDisbanded, OwnerTypes
  <2>2. toMember' \in [Members -> Seq(Frames)] /\ missed' \subseteq Members
    BY <1>3, NotifyType, FrameTypes DEF TellDisbanded, OwnerTypes
  <2> QED
    BY <1>1, <1>3, <2>1, <2>2 DEF TellDisbanded, OwnerTypes, ownerVars, history
<1> QED
  BY <1>1, <1>2, <1>3

(* The members' users.                                                     *)
LEMMA AskType ==
  ASSUME toOwner \in [Members -> Seq(Asks)], NEW m \in Members, NEW p \in Members,
         NEW kind \in AllMemberOps, Ask(m, kind, p)
  PROVE  toOwner' \in [Members -> Seq(Asks)]
<1>1. [kind |-> kind, peer |-> p] \in Asks
  BY DEF Asks
<1> QED
  BY <1>1 DEF Ask

LEMMA DropType ==
  ASSUME CacheTypes, NEW m \in Members, cache' = [cache EXCEPT ![m] = {}]
  PROVE  CacheTypes'
BY DEF CacheTypes

LEMMA MemberType ==
  ASSUME OwnerTypes, RestTypes, NEW m \in Members,
         \/ \E kind \in {"join", "add", "color", "sync"}, p \in Members : Request(m, kind, p)
         \/ Leave(m) \/ LeaveDone(m) \/ Forget(m)
  PROVE  OwnerTypes' /\ RestTypes'
<1>1. ASSUME NEW kind \in {"join", "add", "color", "sync"}, NEW p \in Members,
             Request(m, kind, p)
      PROVE  OwnerTypes' /\ RestTypes'
  <2>1. toOwner' \in [Members -> Seq(Asks)]
    BY <1>1, AskType DEF Request, RestTypes, AllMemberOps
  <2> QED
    BY <1>1, <2>1 DEF Request, MemberCommand, OwnerTypes, RestTypes, CacheTypes,
                      ownerVars, memberVars, netVars, history
<1>2. CASE Leave(m)
  <2>1. toOwner' \in [Members -> Seq(Asks)]
    BY <1>2, AskType DEF Leave, RestTypes, AllMemberOps
  <2>2. CacheTypes'
    <3>1. cache' = cache \/ cache' = [cache EXCEPT ![m] = {}]
      BY <1>2 DEF Leave
    <3> QED
      BY <3>1, DropType DEF RestTypes, CacheTypes
  <2>3. OwnerTypes'
    BY <1>2 DEF Leave, MemberCommand, OwnerTypes, ownerVars, history
  <2>4. leaving' \subseteq Members
    BY <1>2 DEF Leave, RestTypes
  <2> QED
    BY <1>2, <2>1, <2>2, <2>3, <2>4 DEF Leave, MemberCommand, RestTypes, netVars
<1>3. CASE LeaveDone(m)
  <2>1. CacheTypes'
    BY <1>3, DropType DEF LeaveDone, RestTypes
  <2> QED
    BY <1>3, <2>1 DEF LeaveDone, OwnerTypes, RestTypes, ownerVars, netVars, history
<1>4. CASE Forget(m)
  <2>1. CacheTypes'
    BY <1>4, DropType DEF Forget, RestTypes
  <2> QED
    BY <1>4, <2>1 DEF Forget, MemberCommand, OwnerTypes, RestTypes, ownerVars, netVars, history
<1> QED
  BY <1>1, <1>2, <1>3, <1>4

(* Connections, restarts and friendships.                                  *)
LEMMA LoseType ==
  ASSUME toMember \in [Members -> Seq(Frames)], toOwner \in [Members -> Seq(Asks)],
         connected \subseteq Members, NEW S, LoseConnections(S)
  PROVE  /\ toMember' \in [Members -> Seq(Frames)] /\ toOwner' \in [Members -> Seq(Asks)]
         /\ connected' \subseteq Members
BY DEF LoseConnections

LEMMA FaultType ==
  ASSUME OwnerTypes, RestTypes,
         OwnerRestart \/ \E m \in Members : Cut(m) \/ Reconnect(m) \/ Unfriend(m)
  PROVE  OwnerTypes' /\ RestTypes'
<1>1. CASE OwnerRestart
  <2>1. /\ toMember' \in [Members -> Seq(Frames)] /\ toOwner' \in [Members -> Seq(Asks)]
        /\ connected' \subseteq Members
    BY <1>1, LoseType DEF OwnerRestart, OwnerTypes, RestTypes
  <2>2. job' \in [Threads -> Jobs]
    BY <1>1, IdleType DEF OwnerRestart
  <2>3. overlapped' \subseteq Members
    BY <1>1, UnderWayType DEF OwnerRestart, OwnerTypes
  <2>4. OwnerTypes'
    BY <1>1, <2>1, <2>2, <2>3 DEF OwnerRestart, OwnerTypes, ownerVars
  <2> QED
    BY <1>1, <2>1, <2>4 DEF OwnerRestart, RestTypes, CacheTypes, memberVars
<1>2. ASSUME NEW m \in Members, Cut(m)
      PROVE  OwnerTypes' /\ RestTypes'
  <2>1. /\ toMember' \in [Members -> Seq(Frames)] /\ toOwner' \in [Members -> Seq(Asks)]
        /\ connected' \subseteq Members
    BY <1>2, LoseType DEF Cut, OwnerTypes, RestTypes
  <2>2. OwnerTypes'
    BY <1>2, <2>1 DEF Cut, OwnerTypes, ownerVars, history
  <2>3. leaving' \subseteq Members
    BY <1>2 DEF Cut, RestTypes
  <2> QED
    BY <1>2, <2>1, <2>2, <2>3 DEF Cut, RestTypes, CacheTypes
<1>3. ASSUME NEW m \in Members, Reconnect(m) \/ Unfriend(m)
      PROVE  OwnerTypes' /\ RestTypes'
  BY <1>3 DEF Reconnect, Unfriend, OwnerTypes, RestTypes, CacheTypes, ownerVars,
              memberVars, history
<1> QED
  BY <1>1, <1>2, <1>3

LEMMA TypeInit == Init => TypeOK
<1> SUFFICES ASSUME Init
             PROVE  TypeOK
  OBVIOUS
<1>1. room \in Copy /\ room.can \subseteq room.members
  BY DEF Init, Copy
<1>2. job \in [Threads -> Jobs]
  BY IdleType DEF Init
<1>3. toMember \in [Members -> Seq(Frames)] /\ toOwner \in [Members -> Seq(Asks)]
  BY DEF Init
<1>4. CacheTypes
  BY DEF Init, CacheTypes
<1>5. open \in BOOLEAN
  BY DEF Init
<1> QED
  BY <1>1, <1>2, <1>3, <1>4, <1>5 DEF Init, TypeOK, CacheTypes

LEMMA TypeStep == TypeOK /\ [Next]_vars => TypeOK'
<1> SUFFICES ASSUME OwnerTypes, RestTypes, [Next]_vars
             PROVE  OwnerTypes' /\ RestTypes'
  BY TypeParts, TypePartsNext
<1>1. CASE UNCHANGED vars
  BY <1>1 DEF vars, OwnerTypes, RestTypes, CacheTypes
<1>2. CASE Next
  BY <1>2, OwnerCommandType, ThreadType, SendType, HandleAtOwnerType, HandleAtMemberType,
     MemberType, FaultType DEF Next
<1> QED
  BY <1>1, <1>2

(* Every reachable state is well typed; in particular only members may     *)
(* have the permission to invite (owner_remove, owner_set_can_invite).     *)
THEOREM TypeCorrect == Spec => []TypeOK
BY TypeInit, TypeStep, PTL DEF Spec

----------------------------------------------------------------------------
(* Invitations.  The two inclusions are inductive together with the types; *)
(* what each action does to UnderWay is stated once for a thread's step.   *)

RosterInv == InvitedOnly /\ InvitationStands

LEMMA UnderWayMeans ==
  \A p : p \in UnderWay <=>
    \E t \in Threads : (At(t, "ticket") \/ At(t, "admit")) /\ p \in job[t].peer
BY DEF UnderWay

LEMMA UnderWayMeansNext ==
  \A p : p \in UnderWay' <=>
    \E t \in Threads : (At(t, "ticket")' \/ At(t, "admit")') /\ p \in job'[t].peer
BY DEF UnderWay

(* A thread that leaves off ticket or admit takes its peer out of UnderWay *)
(* at most; one that goes there brings its peer in.                        *)
LEMMA UnderWayStep ==
  ASSUME job \in [Threads -> Jobs], NEW t \in Threads, NEW j, Becomes(t, j)
  PROVE  /\ j.at \notin {"ticket", "admit"} => UnderWay' \subseteq UnderWay
         /\ UnderWay' \subseteq UnderWay \union j.peer
         /\ j.at \in {"ticket", "admit"} => j.peer \subseteq UnderWay'
         /\ ~At(t, "ticket") /\ ~At(t, "admit") => UnderWay \subseteq UnderWay'
         /\ UnderWay \subseteq UnderWay' \union job[t].peer
<1>1. job'[t] = j /\ \A u \in Threads \ {t} : job'[u] = job[u]
  BY DEF Becomes
<1>2. ASSUME NEW p \in UnderWay'
      PROVE  p \in UnderWay \/ (j.at \in {"ticket", "admit"} /\ p \in j.peer)
  <2>1. PICK u \in Threads : (At(u, "ticket")' \/ At(u, "admit")') /\ p \in job'[u].peer
    BY <1>2, UnderWayMeansNext
  <2> QED
    BY <1>1, <2>1, UnderWayMeans DEF At
<1>3. ASSUME NEW p \in UnderWay
      PROVE  p \in UnderWay' \/ ((At(t, "ticket") \/ At(t, "admit")) /\ p \in job[t].peer)
  <2>1. PICK u \in Threads : (At(u, "ticket") \/ At(u, "admit")) /\ p \in job[u].peer
    BY <1>3, UnderWayMeans
  <2> QED
    BY <1>1, <2>1, UnderWayMeansNext DEF At
<1>4. j.at \in {"ticket", "admit"} => j.peer \subseteq UnderWay'
  BY <1>1, UnderWayMeansNext DEF At
<1> QED
  BY <1>2, <1>3, <1>4

LEMMA UnderWaySame == job' = job => UnderWay' = UnderWay
BY DEF UnderWay, At

LEMMA PlainJobs ==
  /\ Idle.at = "idle" /\ [Idle EXCEPT !.at = "publish"].at = "publish"
  /\ \A at, p : Job(at, p).at = at /\ Job(at, p).peer = {p}
BY DEF Idle, Job

(* A step that leaves the roster, the tickets and the history as they are  *)
(* and moves no thread onto or off an invitation.                          *)
LEMMA PlainStep ==
  ASSUME RosterInv, room'.members = room.members, tickets' = tickets, entitled' = entitled,
         overlapped' = overlapped, UnderWay' = UnderWay
  PROVE  RosterInv'
BY DEF RosterInv, InvitedOnly, InvitationStands

LEMMA RefuseRoster ==
  ASSUME OwnerTypes, RosterInv, NEW t \in Threads, At(t, "idle"), Refuse(t)
  PROVE  RosterInv'
<1>1. UnderWay' = UnderWay
  BY UnderWayStep, PlainJobs DEF Refuse, OwnerTypes, At
<1> QED
  BY <1>1, PlainStep DEF Refuse, ownerVars, history

LEMMA InviteRoster ==
  ASSUME OwnerTypes, RosterInv, NEW t \in Threads, At(t, "idle"), NEW p \in Members,
         OwnerInvite(t, p)
  PROVE  RosterInv'
<1>1. CASE p \in connected
  <2>1. UnderWay' = UnderWay \union {p}
    BY <1>1, UnderWayStep, PlainJobs DEF OwnerInvite, OwnerTypes, At
  <2>2. /\ room' = room /\ tickets' = tickets /\ entitled' = entitled \union {p}
        /\ overlapped' = overlapped \ {p}
    BY <1>1 DEF OwnerInvite, ownerVars
  <2> QED
    BY <2>1, <2>2 DEF RosterInv, InvitedOnly, InvitationStands
<1>2. CASE p \notin connected
  <2>1. UnderWay' = UnderWay
    BY <1>2, UnderWayStep, PlainJobs DEF OwnerInvite, OwnerTypes, At
  <2> QED
    BY <1>2, <2>1, PlainStep DEF OwnerInvite, ownerVars, history
<1> QED
  BY <1>1, <1>2

LEMMA RemoveRoster ==
  ASSUME OwnerTypes, RosterInv, NEW t \in Threads, At(t, "idle"), NEW p \in Members,
         OwnerRemove(t, p)
  PROVE  RosterInv'
<1>1. CASE p \in room.members
  <2>1. UnderWay' = UnderWay
    <3>1. Becomes(t, Job("tell", p)) /\ Job("tell", p).at = "tell"
      BY <1>1, PlainJobs DEF OwnerRemove
    <3> QED
      BY <3>1, UnderWayStep DEF OwnerTypes, At
  <2>2. /\ tickets' = tickets \ {p} /\ entitled' = entitled \ {p}
        /\ overlapped' = overlapped \union (UnderWay \intersect {p})
    BY <1>1 DEF OwnerRemove
  <2>3. room'.members = room.members \ {p}
    BY <1>1 DEF OwnerRemove, Without, OwnerTypes, Copy
  <2> QED
    BY <2>1, <2>2, <2>3 DEF RosterInv, InvitedOnly, InvitationStands
<1>2. CASE p \notin room.members
  <2>1. UnderWay' = UnderWay
    BY <1>2, UnderWayStep, PlainJobs DEF OwnerRemove, OwnerTypes, At
  <2> QED
    BY <1>2, <2>1, PlainStep DEF OwnerRemove, ownerVars, history
<1> QED
  BY <1>1, <1>2

LEMMA ChangeRoster ==
  ASSUME OwnerTypes, RosterInv, NEW t \in Threads, At(t, "idle"), NEW c \in Copy,
         c.members = room.members, Change(t, c)
  PROVE  RosterInv'
<1>1. UnderWay' = UnderWay
  BY UnderWayStep, PlainJobs DEF Change, OwnerTypes, At
<1>2. room'.members = room.members
  BY DEF Change, Copy
<1> QED
  BY <1>1, <1>2, PlainStep DEF Change, history

LEMMA DisbandRoster ==
  ASSUME OwnerTypes, RosterInv, At(User, "idle"), Disband
  PROVE  RosterInv'
<1> DEFINE j == [Idle EXCEPT !.at = "disband", !.left = room.members]
<1>1. j.at = "disband" /\ User \in Threads
  BY MembersAreThreads DEF Idle
<1>2. Becomes(User, j)
  BY DEF Disband
<1> HIDE DEF j
<1>3. UnderWay' = UnderWay
  BY <1>1, <1>2, UnderWayStep DEF OwnerTypes, At
<1>4. room'.members = room.members
  BY DEF Disband, OwnerTypes, Copy
<1> QED
  BY <1>3, <1>4 DEF Disband, RosterInv, InvitedOnly, InvitationStands

LEMMA OwnerCommandRoster ==
  ASSUME OwnerTypes, RosterInv, NEW op \in AllOwnerOps, NEW p \in Members,
         OwnerCommand(op, p)
  PROVE  RosterInv'
<1>1. User \in Threads /\ At(User, "idle")
  BY MembersAreThreads DEF OwnerCommand
<1>2. CASE OwnerInvite(User, p)
  BY <1>1, <1>2, InviteRoster
<1>3. CASE OwnerRemove(User, p)
  BY <1>1, <1>3, RemoveRoster
<1>4. CASE Permit(p)
  <2>1. PICK can \in {room.can \union {p}, room.can \ {p}} :
          Change(User, [room EXCEPT !.can = can])
    BY <1>4 DEF Permit
  <2> DEFINE c == [room EXCEPT !.can = can]
  <2>2. c \in Copy /\ c.members = room.members
    BY <1>4 DEF Permit, OwnerTypes, Copy
  <2> HIDE DEF c
  <2>3. Change(User, c)
    BY <2>1 DEF c
  <2> QED
    BY <1>1, <2>2, <2>3, ChangeRoster
<1>5. CASE Change(User, [room EXCEPT !.colours = ~@])
  <2> DEFINE c == [room EXCEPT !.colours = ~@]
  <2>1. c \in Copy /\ c.members = room.members
    <3>1. room \in Copy /\ (~room.colours) \in BOOLEAN
      BY DEF OwnerTypes, Copy
    <3> QED
      BY <3>1 DEF Copy
  <2> HIDE DEF c
  <2>2. Change(User, c)
    BY <1>5 DEF c
  <2> QED
    BY <1>1, <2>1, <2>2, ChangeRoster
<1>6. CASE Disband
  BY <1>1, <1>6, DisbandRoster
<1> QED
  BY <1>2, <1>3, <1>4, <1>5, <1>6 DEF OwnerCommand

LEMMA HandleAtOwnerRoster ==
  ASSUME OwnerTypes, RestTypes, RosterInv, NEW m \in Members, HandleAtOwner(m)
  PROVE  RosterInv'
<1> DEFINE msg == Head(toOwner[m])
<1>1. m \in Threads /\ At(m, "idle")
  BY MembersAreThreads DEF HandleAtOwner
<1>2. msg.peer \in Members
  <2>1. toOwner[m] \in Seq(Asks) /\ toOwner[m] # <<>>
    BY DEF HandleAtOwner, RestTypes
  <2>2. msg \in Asks
    BY <2>1
  <2> QED
    BY <2>2 DEF Asks
<1>3. CASE Refuse(m)
  BY <1>1, <1>3, RefuseRoster
<1>4. CASE HandleJoin(m) /\ ~Refuse(m)
  <2>1. UnderWay' = UnderWay \union {m}
    <3>1. Becomes(m, Job("admit", m)) /\ Job("admit", m).at = "admit" /\ Job("admit", m).peer = {m}
      BY <1>4, PlainJobs DEF HandleJoin
    <3> QED
      BY <1>1, <3>1, UnderWayStep DEF OwnerTypes, At
  <2>2. /\ m \in room.members \union tickets /\ room' = room /\ tickets' = tickets \ {m}
        /\ entitled' = entitled /\ overlapped' = overlapped
    BY <1>4 DEF HandleJoin, MayJoin, history
  <2> QED
    BY <2>1, <2>2 DEF RosterInv, InvitedOnly, InvitationStands
<1>5. CASE OwnerRemove(m, m)
  BY <1>1, <1>5, RemoveRoster
<1>6. CASE HandleAdd(m, msg.peer) /\ ~Refuse(m)
  <2>1. OwnerInvite(m, msg.peer)
    BY <1>6 DEF HandleAdd
  <2> QED
    BY <1>1, <1>2, <2>1, InviteRoster
<1>7. CASE HandleColor(m) /\ ~Refuse(m)
  <2>1. Change(m, room) /\ room \in Copy
    BY <1>7 DEF HandleColor, OwnerTypes
  <2> QED
    BY <1>1, <2>1, ChangeRoster
<1>8. CASE HandleSync(m) /\ ~Refuse(m)
  <2>1. Becomes(m, Job("reply", m)) /\ Job("reply", m).at = "reply"
    BY <1>8, PlainJobs DEF HandleSync
  <2>2. UnderWay' = UnderWay
    BY <1>1, <2>1, UnderWayStep DEF OwnerTypes, At
  <2> QED
    BY <1>8, <2>2, PlainStep DEF HandleSync, ownerVars, history
<1> QED
  BY <1>3, <1>4, <1>5, <1>6, <1>7, <1>8 DEF HandleAtOwner

LEMMA ThreadRoster ==
  ASSUME OwnerTypes, RosterInv, NEW t \in Threads,
         RecordTicket(t) \/ Admit(t) \/ TellRemoved(t) \/ Publish(t) \/ SendDone(t)
  PROVE  RosterInv'
<1>1. CASE RecordTicket(t)
  <2>1. /\ UnderWay' \subseteq UnderWay /\ UnderWay \subseteq UnderWay' \union job[t].peer
        /\ job[t].peer \subseteq UnderWay
    BY <1>1, UnderWayStep, UnderWayMeans, PlainJobs DEF RecordTicket, OwnerTypes
  <2>2. /\ room' = room /\ tickets' = tickets \union job[t].peer
        /\ entitled' = entitled /\ overlapped' = overlapped
    BY <1>1 DEF RecordTicket, history
  <2> QED
    BY <2>1, <2>2 DEF RosterInv, InvitedOnly, InvitationStands
<1>2. CASE Admit(t)
  <2>1. /\ UnderWay' \subseteq UnderWay /\ UnderWay \subseteq UnderWay' \union job[t].peer
        /\ job[t].peer \subseteq UnderWay
    BY <1>2, UnderWayStep, UnderWayMeans, PlainJobs DEF Admit, OwnerTypes
  <2>2. room'.members = room.members \union job[t].peer
    BY <1>2 DEF Admit, OwnerTypes, Copy
  <2>3. tickets' = tickets /\ entitled' = entitled /\ overlapped \subseteq overlapped'
        /\ overlapped' \subseteq overlapped \union job[t].peer
    BY <1>2 DEF Admit
  <2>4. InvitedOnly'
    BY <2>1, <2>2, <2>3 DEF RosterInv, InvitedOnly
  <2>5. InvitationStands'
    BY <2>1, <2>2, <2>3 DEF RosterInv, InvitationStands
  <2> QED
    BY <2>4, <2>5 DEF RosterInv
<1>3. CASE TellRemoved(t) \/ SendDone(t)
  <2>1. UnderWay' = UnderWay
    BY <1>3, UnderWayStep, PlainJobs DEF TellRemoved, SendDone, OwnerTypes, At
  <2> QED
    BY <1>3, <2>1, PlainStep DEF TellRemoved, SendDone, ownerVars, history
<1>4. CASE Publish(t)
  <2> DEFINE left == IF At(t, "reply") THEN job[t].peer ELSE room.members
             j == [Idle EXCEPT !.at = "send", !.seq = room.seq, !.colours = room.colours,
                               !.left = left]
  <2>1. j.at = "send"
    BY DEF Idle
  <2>2. Becomes(t, j)
    BY <1>4 DEF Publish
  <2> HIDE DEF j
  <2>3. UnderWay' = UnderWay
    BY <1>4, <2>1, <2>2, UnderWayStep DEF Publish, OwnerTypes, At
  <2> QED
    BY <1>4, <2>3, PlainStep DEF Publish, ownerVars, history
<1> QED
  BY <1>1, <1>2, <1>3, <1>4

LEMMA SendRoster ==
  ASSUME OwnerTypes, RosterInv, NEW m \in Members,
         (\E t \in Threads : SendState(t, m)) \/ TellDisbanded(m)
  PROVE  RosterInv'
<1>1. PICK t \in Threads : (At(t, "send") \/ At(t, "disband"))
                           /\ Becomes(t, [job[t] EXCEPT !.left = @ \ {m}])
  BY MembersAreThreads DEF SendState, TellDisbanded
<1> DEFINE j == [job[t] EXCEPT !.left = @ \ {m}]
<1>2. j.at = job[t].at
  BY DEF OwnerTypes, Jobs
<1>3. Becomes(t, j)
  BY <1>1
<1> HIDE DEF j
<1>4. UnderWay' = UnderWay
  BY <1>1, <1>2, <1>3, UnderWayStep DEF OwnerTypes, At
<1> QED
  BY <1>4, PlainStep DEF SendState, TellDisbanded, ownerVars, history

LEMMA RosterInit == Init => RosterInv
<1> SUFFICES ASSUME Init
             PROVE  RosterInv
  OBVIOUS
<1>1. UnderWay = {}
  BY UnderWayMeans DEF Init, At, Idle
<1> QED
  BY <1>1 DEF Init, RosterInv, InvitedOnly, InvitationStands

LEMMA RosterStep == TypeOK /\ RosterInv /\ [Next]_vars => RosterInv'
<1> SUFFICES ASSUME OwnerTypes, RestTypes, RosterInv, [Next]_vars
             PROVE  RosterInv'
  BY TypeParts
<1>1. CASE OwnerRestart
  <2>1. UnderWay' = {}
    BY <1>1, UnderWayMeansNext DEF OwnerRestart, At, Idle
  <2> QED
    BY <1>1, <2>1 DEF OwnerRestart, ownerVars, RosterInv, InvitedOnly, InvitationStands
<1>2. ASSUME NEW m \in Members,
             \/ HandleAtMember(m) \/ Leave(m) \/ LeaveDone(m) \/ Forget(m)
             \/ Cut(m) \/ Reconnect(m) \/ Unfriend(m)
             \/ \E kind \in {"join", "add", "color", "sync"}, p \in Members : Request(m, kind, p)
      PROVE  RosterInv'
  <2>1. UNCHANGED <<ownerVars, job, history>>
    BY <1>2 DEF HandleAtMember, Leave, LeaveDone, Forget, Cut, Reconnect, Unfriend, Request,
                MemberCommand
  <2>2. UnderWay' = UnderWay
    BY <2>1, UnderWaySame
  <2> QED
    BY <2>1, <2>2, PlainStep DEF ownerVars, history
<1>3. CASE UNCHANGED vars
  <2>1. UnderWay' = UnderWay
    BY <1>3, UnderWaySame DEF vars
  <2> QED
    BY <1>3, <2>1, PlainStep DEF vars
<1>4. CASE Next
  BY <1>1, <1>2, <1>4, OwnerCommandRoster, ThreadRoster, SendRoster, HandleAtOwnerRoster DEF Next
<1> QED
  BY <1>3, <1>4

(* Whoever is on the roster, holds a ticket or is being admitted was       *)
(* invited since the last removal, but for an overlap (handle_room_msg,    *)
(* owner_admit, owner_remove).                                             *)
THEOREM InvitedCorrect == Spec => []InvitedOnly
<1>1. RosterInv => InvitedOnly
  BY DEF RosterInv
<1> QED
  BY <1>1, TypeInit, TypeStep, RosterInit, RosterStep, PTL DEF Spec

(* An invitation is not lost: until it is used or the peer removed, there  *)
(* is a ticket, or a thread about to record it or to admit the peer.       *)
THEOREM InvitationCorrect == Spec => []InvitationStands
<1>1. RosterInv => InvitationStands
  BY DEF RosterInv
<1> QED
  BY <1>1, TypeInit, TypeStep, RosterInit, RosterStep, PTL DEF Spec
----------------------------------------------------------------------------
(***************************************************************************)
(* The members' copies.                                                    *)
(***************************************************************************)
(* A copy that is as new as the room is the room: the sequence number goes *)
(* up with every change.  The same of the fields that a thread has copied; *)
(* and what is known of a thread that tells of a removal.                  *)
Said(m, i) == toMember[m][i].kind = "state"
Current(c) == c.seq <= room.seq /\ (c.seq = room.seq => c = room)
JobCurrent(j) ==
  /\ j.at = "send" => j.seq <= room.seq /\ (j.seq = room.seq => j.colours = room.colours)
  /\ j.at = "tell" => \E p \in Members : j.peer = {p}
CurrentInv ==
  /\ room.seq > 0
  /\ \A m \in Members : \A c \in cache[m] : Current(c)
  /\ \A m \in Members : \A i \in DOMAIN toMember[m] : Said(m, i) => Current(toMember[m][i].room)
  /\ \A t \in Threads : JobCurrent(job[t])
DisbandInv ==
  /\ At(User, "disband") => ~open
  /\ ~open => UnderWay \subseteq overlapped

(* A thread that will send m the room as it is; one that will tell m that  *)
(* it does not belong to it.                                               *)
Brings(j, m) ==
  \/ j.at \in {"tell", "publish"}
  \/ j.at = "send" /\ m \in j.left /\ j.seq = room.seq
Coming(m) == \E t \in Threads : Brings(job[t], m)
Tells(t, j, m) ==
  \/ j.at = "tell" /\ m \in j.peer
  \/ t = User /\ j.at = "disband" /\ m \in j.left
ToBeTold(m) == \E t \in Threads : Tells(t, job[t], m)

(* What will be left of the copy of m when it has read all that is on its  *)
(* way: the room; a copy without m, because each one with m is followed by *)
(* a removal or by a later one without it; or none.                        *)
After(m, i) == {j \in DOMAIN toMember[m] : j > i}
Settled(m) ==
  \/ cache[m] = {room} /\ \A j \in After(m, 0) : toMember[m][j].kind # "remove"
  \/ \E i \in DOMAIN toMember[m] :
       /\ Said(m, i) /\ toMember[m][i].room = room
       /\ \A j \in After(m, i) : toMember[m][j].kind # "remove"
Withdraws(m, j, c) ==
  \/ toMember[m][j].kind = "remove"
  \/ Said(m, j) /\ m \notin toMember[m][j].room.members /\ c.seq <= toMember[m][j].room.seq
Covered(m, i, c) == m \in c.members => \E j \in After(m, i) : Withdraws(m, j, c)
Unclaimed(m) ==
  /\ \A c \in cache[m] : Covered(m, 0, c)
  /\ \A i \in DOMAIN toMember[m] : Said(m, i) => Covered(m, i, toMember[m][i].room)
Dead(m) ==
  \/ cache[m] = {} /\ \A j \in After(m, 0) : toMember[m][j].kind # "invite"
  \/ \E i \in DOMAIN toMember[m] :
       /\ toMember[m][i].kind = "remove"
       /\ \A j \in After(m, i) : toMember[m][j].kind # "invite"

(* The inductive strengthening of CopiesAgree.                             *)
Right(m) ==
  \/ m \in missed
  \/ open /\ m \in room.members /\ (Coming(m) \/ Settled(m))
  \/ open /\ m \notin room.members /\ (ToBeTold(m) \/ Unclaimed(m))
  \/ ~open /\ \/ m \in overlapped \/ ToBeTold(m) \/ Dead(m)
              \/ m \notin room.members /\ Unclaimed(m)
CopyInv == CurrentInv /\ DisbandInv /\ \A m \in Members : Right(m)

(* When nothing is under way, it says what the property says.              *)
LEMMA CopyInvAgrees == TypeOK /\ CopyInv => CopiesAgree
<1> SUFFICES ASSUME TypeOK, CopyInv, Quiet, NEW m \in Members \ missed, Known(m)
             PROVE  IF open /\ m \in room.members THEN CopyOf(m) = room
                    ELSE InCopy(m) => ~open /\ m \in overlapped
  BY DEF CopiesAgree
<1>1. ~Coming(m) /\ ~ToBeTold(m)
  BY DEF Quiet, Coming, Brings, ToBeTold, Tells, At
<1>2. DOMAIN toMember[m] = {}
  BY DEF Quiet
<1>3. Settled(m) => cache[m] = {room}
  BY <1>2 DEF Settled
<1>4. Unclaimed(m) => \A c \in cache[m] : m \notin c.members
  BY <1>2 DEF Unclaimed, Covered, After
<1>5. Dead(m) => ~Known(m)
  BY <1>2 DEF Dead, Known
<1>6. CopyOf(m) \in cache[m]
  BY DEF CopyOf, Known
<1> QED
  BY <1>1, <1>3, <1>4, <1>5, <1>6 DEF CopyInv, Right, InCopy

----------------------------------------------------------------------------
(* What is on its way to a member grows at the end and is read from the    *)
(* front.                                                                  *)
LEMMA WireGrows ==
  ASSUME OwnerTypes, NEW m \in Members, NEW f \in Frames,
         toMember'[m] = Append(toMember[m], f)
  PROVE  \E n \in Nat :
           /\ n > 0 /\ toMember'[m][n] = f
           /\ DOMAIN toMember'[m] = DOMAIN toMember[m] \union {n}
           /\ \A i \in DOMAIN toMember[m] : i \in Nat /\ 0 < i /\ i < n /\ toMember'[m][i] = toMember[m][i]
<1>1. toMember[m] \in Seq(Frames)
  BY DEF OwnerTypes
<1> DEFINE n == Len(toMember[m]) + 1
<1>2. n \in Nat /\ n > 0 /\ toMember'[m][n] = f
  BY <1>1
<1>3. DOMAIN toMember'[m] = DOMAIN toMember[m] \union {n}
  BY <1>1
<1>4. \A i \in DOMAIN toMember[m] : i \in Nat /\ 0 < i /\ i < n /\ toMember'[m][i] = toMember[m][i]
  BY <1>1
<1> QED
  BY <1>2, <1>3, <1>4

LEMMA WireRead ==
  ASSUME OwnerTypes, NEW m \in Members, toMember[m] # <<>>,
         toMember'[m] = Tail(toMember[m])
  PROVE  /\ 1 \in DOMAIN toMember[m] /\ Head(toMember[m]) = toMember[m][1]
         /\ \A i \in DOMAIN toMember[m] : i \in Nat /\ i > 0
         /\ \A i \in DOMAIN toMember[m] : i > 1 => i - 1 \in DOMAIN toMember'[m]
         /\ \A i \in DOMAIN toMember'[m] : i \in Nat /\ i > 0 /\ i + 1 \in DOMAIN toMember[m]
                                           /\ toMember'[m][i] = toMember[m][i + 1]
<1>1. toMember[m] \in Seq(Frames)
  BY DEF OwnerTypes
<1> QED
  BY <1>1

----------------------------------------------------------------------------
(* What a step leaves of Right(m).                                         *)

(* Nothing about m changes but who is going to tell it.                    *)
LEMMA RightKept ==
  ASSUME NEW m \in Members, Right(m),
         cache'[m] = cache[m], toMember'[m] = toMember[m],
         room' = room, open' = open, m \in missed => m \in missed',
         ~open /\ m \in overlapped => m \in overlapped',
         m \in room.members /\ Coming(m) => Coming(m)',
         ToBeTold(m) => ToBeTold(m)'
  PROVE  Right(m)'
<1>1. Settled(m) => Settled(m)'
  BY DEF Settled, Said, After
<1>2. Unclaimed(m) => Unclaimed(m)'
  BY DEF Unclaimed, Covered, Withdraws, Said, After
<1>3. Dead(m) => Dead(m)'
  BY DEF Dead, After
<1> QED
  BY <1>1, <1>2, <1>3 DEF Right

(* The room changes, and not whether m belongs to it.                      *)
LEMMA RightOverChange ==
  ASSUME NEW m \in Members, Right(m), cache'[m] = cache[m], toMember'[m] = toMember[m],
         open' = open, missed' = missed, overlapped \subseteq overlapped',
         m \in room'.members <=> m \in room.members,
         Coming(m)', ToBeTold(m) => ToBeTold(m)'
  PROVE  Right(m)'
<1>1. Unclaimed(m) => Unclaimed(m)'
  BY DEF Unclaimed, Covered, Withdraws, Said, After
<1>2. Dead(m) => Dead(m)'
  BY DEF Dead, After
<1> QED
  BY <1>1, <1>2 DEF Right

(* A step of one thread: the others go on bringing and telling.            *)
LEMMA ComingKept ==
  ASSUME job \in [Threads -> Jobs], NEW t \in Threads, NEW j, Becomes(t, j), NEW m,
         room'.seq = room.seq, Brings(job[t], m) => Brings(j, m), Coming(m)
  PROVE  Coming(m)'
<1>1. PICK u \in Threads : Brings(job[u], m)
  BY DEF Coming
<1>2. job'[t] = j /\ (u # t => job'[u] = job[u])
  BY DEF Becomes
<1>3. \E u2 \in Threads : Brings(job'[u2], m)
  BY <1>1, <1>2
<1>4. PICK u2 \in Threads : Brings(job'[u2], m)
  BY <1>3
<1> QED
  BY <1>4 DEF Coming, Brings

LEMMA ToldKept ==
  ASSUME job \in [Threads -> Jobs], NEW t \in Threads, NEW j, Becomes(t, j), NEW m,
         Tells(t, job[t], m) => Tells(t, j, m), ToBeTold(m)
  PROVE  ToBeTold(m)'
<1>1. PICK u \in Threads : Tells(u, job[u], m)
  BY DEF ToBeTold
<1>2. job'[t] = j /\ (u # t => job'[u] = job[u])
  BY DEF Becomes
<1>3. \E u2 \in Threads : Tells(u2, job'[u2], m)
  BY <1>1, <1>2
<1> QED
  BY <1>3 DEF ToBeTold, Tells

(* An invitation is written to m.                                          *)
LEMMA RightInvited ==
  ASSUME OwnerTypes, NEW m \in Members, Right(m), open,
         cache'[m] = cache[m], toMember'[m] = Append(toMember[m], InviteMsg),
         room' = room, open' = open, missed' = missed,
         Coming(m) => Coming(m)', ToBeTold(m) => ToBeTold(m)'
  PROVE  Right(m)'
<1>1. PICK n \in Nat :
        /\ n > 0 /\ toMember'[m][n] = InviteMsg
        /\ DOMAIN toMember'[m] = DOMAIN toMember[m] \union {n}
        /\ \A i \in DOMAIN toMember[m] : i \in Nat /\ 0 < i /\ i < n /\ toMember'[m][i] = toMember[m][i]
  BY WireGrows, FrameTypes
<1>2. InviteMsg.kind = "invite"
  BY DEF InviteMsg
<1>3. Settled(m) => Settled(m)'
  BY <1>1, <1>2 DEF Settled, Said, After
<1>4. Unclaimed(m) => Unclaimed(m)'
  BY <1>1, <1>2 DEF Unclaimed, Covered, Withdraws, Said, After
<1> QED
  BY <1>3, <1>4 DEF Right

(* m is told that it does not belong to the room.                          *)
LEMMA RightTold ==
  ASSUME OwnerTypes, NEW m \in Members, Right(m),
         cache'[m] = cache[m], toMember'[m] = Append(toMember[m], RemoveMsg),
         room' = room, open' = open, missed' = missed,
         open /\ m \in room.members => Coming(m)'
  PROVE  Right(m)'
<1>1. PICK n \in Nat :
        /\ n > 0 /\ toMember'[m][n] = RemoveMsg
        /\ DOMAIN toMember'[m] = DOMAIN toMember[m] \union {n}
        /\ \A i \in DOMAIN toMember[m] : i \in Nat /\ 0 < i /\ i < n /\ toMember'[m][i] = toMember[m][i]
  BY WireGrows, FrameTypes
<1>2. RemoveMsg.kind = "remove"
  BY DEF RemoveMsg
<1>3. Unclaimed(m)'
  BY <1>1, <1>2 DEF Unclaimed, Covered, Withdraws, Said, After
<1>4. Dead(m)'
  BY <1>1, <1>2 DEF Dead, After
<1>5. open \in BOOLEAN
  BY DEF OwnerTypes
<1> QED
  BY <1>3, <1>4, <1>5 DEF Right

(* A snapshot is sent to m.                                                *)
LEMMA RightSent ==
  ASSUME OwnerTypes, CurrentInv, NEW m \in Members, Right(m), NEW c \in Copy,
         Current(c), c.members = room.members,
         cache'[m] = cache[m], toMember'[m] = Append(toMember[m], StateMsg(c)),
         room' = room, open' = open, overlapped' = overlapped,
         missed' = missed \/ (open /\ c = room /\ missed' = missed \ {m}),
         c # room => (Coming(m) => Coming(m)'), ToBeTold(m) => ToBeTold(m)'
  PROVE  Right(m)'
<1> DEFINE f == StateMsg(c)
<1>0. f \in Frames /\ f.kind = "state" /\ f.room = c
  BY FrameTypes DEF StateMsg
<1> HIDE DEF f
<1>1. PICK n \in Nat :
        /\ n > 0 /\ toMember'[m][n] = f
        /\ DOMAIN toMember'[m] = DOMAIN toMember[m] \union {n}
        /\ \A i \in DOMAIN toMember[m] : i \in Nat /\ 0 < i /\ i < n /\ toMember'[m][i] = toMember[m][i]
  BY <1>0, WireGrows DEF f
<1>2. Settled(m) => Settled(m)'
  BY <1>0, <1>1 DEF Settled, Said, After
<1>3. c = room => Settled(m)'
  BY <1>0, <1>1 DEF Settled, Said, After
<1>4. m \notin room.members /\ Unclaimed(m) => Unclaimed(m)'
  BY <1>0, <1>1 DEF Unclaimed, Covered, Withdraws, Said, After
<1>5. m \notin room.members /\ c = room => Unclaimed(m)'
  <2> SUFFICES ASSUME m \notin room.members, c = room
               PROVE  Unclaimed(m)'
    OBVIOUS
  <2>1. \A d \in cache[m] : d.seq <= room.seq
    BY DEF CurrentInv, Current
  <2>2. \A i \in DOMAIN toMember[m] : Said(m, i) => toMember[m][i].room.seq <= room.seq
    BY DEF CurrentInv, Current
  <2> QED
    BY <2>1, <2>2, <1>0, <1>1 DEF Unclaimed, Covered, Withdraws, Said, After
<1>6. Dead(m) => Dead(m)'
  BY <1>0, <1>1 DEF Dead, After
<1>7. open \in BOOLEAN
  BY DEF OwnerTypes
<1> QED
  BY <1>2, <1>3, <1>4, <1>5, <1>6, <1>7 DEF Right

(* m reads what comes first.                                               *)
LEMMA RightRead ==
  ASSUME OwnerTypes, RestTypes, CurrentInv, NEW m \in Members, Right(m), HandleAtMember(m)
  PROVE  Right(m)'
<1> DEFINE w == toMember[m]
           v == toMember'[m]
           msg == Head(w)
<1>1. /\ w # <<>> /\ v = Tail(w) /\ m \in Members
      /\ room' = room /\ open' = open /\ job' = job /\ overlapped' = overlapped
      /\ missed' = IF msg.kind = "state" /\ ~Known(m) THEN missed \union {m} ELSE missed
  BY DEF HandleAtMember, OwnerTypes, ownerVars, history
<1>2. /\ 1 \in DOMAIN w /\ msg = w[1]
      /\ \A i \in DOMAIN w : i \in Nat /\ i > 0
      /\ \A i \in DOMAIN w : i > 1 => i - 1 \in DOMAIN v
      /\ \A i \in DOMAIN v : i \in Nat /\ i > 0 /\ i + 1 \in DOMAIN w /\ v[i] = w[i + 1]
  BY <1>1, WireRead
<1>3. \A i \in DOMAIN w : i > 1 => i - 1 \in DOMAIN v /\ i - 1 > 0 /\ v[i - 1] = w[i]
  BY <1>2
<1>4. msg \in Frames /\ w \in Seq(Frames)
  BY <1>2 DEF OwnerTypes
<1>5. msg.kind \in {"invite", "state", "remove"}
  BY <1>4 DEF Frames
<1>6. (Coming(m) => Coming(m)') /\ (ToBeTold(m) => ToBeTold(m)')
  BY <1>1 DEF Coming, Brings, ToBeTold, Tells
<1>7. ASSUME Settled(m) => Settled(m)', Unclaimed(m) => Unclaimed(m)', Dead(m) => Dead(m)'
      PROVE  Right(m)'
  BY <1>1, <1>6, <1>7 DEF Right
<1> HIDE DEF msg
<1>s. ASSUME NEW i \in DOMAIN w, i > 1, Said(m, i), w[i].room = room,
             \A j \in After(m, i) : w[j].kind # "remove"
      PROVE  Settled(m)'
  <2> DEFINE k == i - 1
  <2>1. k \in DOMAIN v /\ v[k] = w[i]
    BY <1>s, <1>3
  <2>2. \A j \in DOMAIN v : j > k => v[j].kind # "remove"
    BY <1>s, <1>2 DEF After
  <2> QED
    BY <1>s, <2>1, <2>2, <1>1 DEF Settled, Said, After
<1>u. ASSUME Unclaimed(m), NEW i \in DOMAIN v, v[i].kind = "state", m \in v[i].room.members
      PROVE  \E j \in DOMAIN v :
               /\ j > i
               /\ \/ v[j].kind = "remove"
                  \/ v[j].kind = "state" /\ m \notin v[j].room.members /\ v[i].room.seq <= v[j].room.seq
  <2>1. i + 1 \in DOMAIN w /\ w[i + 1] = v[i] /\ i \in Nat
    BY <1>u, <1>2
  <2>2. Covered(m, i + 1, w[i + 1].room)
    BY <1>u, <2>1 DEF Unclaimed, Said
  <2>3. PICK j \in DOMAIN w : j > i + 1 /\ Withdraws(m, j, v[i].room)
    BY <1>u, <2>1, <2>2 DEF Covered, After
  <2>4. j \in Nat /\ j - 1 \in DOMAIN v /\ j - 1 > i /\ v[j - 1] = w[j]
    BY <2>1, <2>3, <1>2, <1>3
  <2> QED
    BY <2>3, <2>4 DEF Withdraws, Said
<1>v. ASSUME Unclaimed(m), \A c \in cache'[m] : Covered(m, 0, c)'
      PROVE  Unclaimed(m)'
  BY <1>u, <1>v DEF Unclaimed, Covered, Withdraws, Said, After
<1>c. ASSUME NEW c, NEW j \in DOMAIN w, j > 1, Withdraws(m, j, c)
      PROVE  Covered(m, 0, c)'
  BY <1>c, <1>3 DEF Withdraws, Said, Covered, After
<1>d. ASSUME NEW i \in DOMAIN w, i > 1, w[i].kind = "remove",
             \A j \in After(m, i) : w[j].kind # "invite"
      PROVE  Dead(m)'
  <2> DEFINE k == i - 1
  <2>1. k \in DOMAIN v /\ v[k] = w[i]
    BY <1>d, <1>3
  <2>2. \A j \in DOMAIN v : j > k => v[j].kind # "invite"
    BY <1>d, <1>2 DEF After
  <2> QED
    BY <1>d, <2>1, <2>2 DEF Dead, After
<1>8. CASE msg.kind = "invite"
  <2>1. cache'[m] = IF Known(m) THEN cache[m] ELSE {Stub}
    BY <1>8 DEF HandleAtMember, Invited, RestTypes, CacheTypes, msg
  <2>2. Settled(m) => Settled(m)'
    <3>1. CASE cache[m] = {room} /\ \A j \in After(m, 0) : w[j].kind # "remove"
      BY <3>1, <2>1, <1>1, <1>2 DEF Settled, After, Known
    <3>2. \A i \in DOMAIN w : Said(m, i) => i > 1
      BY <1>2, <1>8 DEF Said
    <3> QED
      BY <3>1, <3>2, <1>s DEF Settled
  <2>3. Unclaimed(m) => Unclaimed(m)'
    <3> SUFFICES ASSUME Unclaimed(m), NEW c \in cache'[m], m \in c.members
                 PROVE  Covered(m, 0, c)'
      BY <1>v DEF Covered
    <3>1. c \in cache[m]
      BY <2>1 DEF Stub
    <3>2. PICK j \in DOMAIN w : j > 0 /\ Withdraws(m, j, c)
      BY <3>1 DEF Unclaimed, Covered, After
    <3>3. j > 1
      BY <3>2, <1>2, <1>8 DEF Withdraws, Said
    <3> QED
      BY <3>2, <3>3, <1>c
  <2>4. Dead(m) => Dead(m)'
    <3>1. \A i \in DOMAIN w : w[i].kind = "remove" => i > 1
      BY <1>2, <1>8
    <3> QED
      BY <3>1, <1>2, <1>8, <1>d DEF Dead, After
  <2> QED
    BY <1>7, <2>2, <2>3, <2>4
<1>9. CASE msg.kind = "remove"
  <2>1. cache'[m] = {}
    BY <1>9 DEF HandleAtMember, Removed, RestTypes, CacheTypes, msg
  <2>2. Settled(m) => Settled(m)'
    <3>1. \A i \in DOMAIN w : Said(m, i) => i > 1
      BY <1>2, <1>9 DEF Said
    <3> QED
      BY <3>1, <1>2, <1>9, <1>s DEF Settled, After
  <2>3. Unclaimed(m) => Unclaimed(m)'
    BY <2>1, <1>v
  <2>4. Dead(m) => Dead(m)'
    <3> SUFFICES ASSUME Dead(m) PROVE Dead(m)'
      OBVIOUS
    <3>1. CASE \E i \in DOMAIN w : i > 1 /\ w[i].kind = "remove" /\ \A j \in After(m, i) : w[j].kind # "invite"
      BY <3>1, <1>d
    <3>2. CASE \A j \in DOMAIN w : j > 1 => w[j].kind # "invite"
      BY <3>2, <2>1, <1>2 DEF Dead, After
    <3> QED
      BY <3>1, <3>2, <1>2 DEF Dead, After
  <2> QED
    BY <1>7, <2>2, <2>3, <2>4
<1>10. CASE msg.kind = "state" /\ ~Known(m)
  BY <1>10, <1>1 DEF Right
<1>11. CASE msg.kind = "state" /\ Known(m)
  <2> DEFINE c == msg.room
  <2>1. PICK d \in Copy : cache[m] = {d}
    BY <1>11 DEF Known, RestTypes, CacheTypes
  <2>2. c \in Copy
    BY <1>4, <1>11 DEF Frames
  <2>3. CopyOf(m) = d
    BY <2>1 DEF CopyOf
  <2>4. cache'[m] = IF d.seq <= c.seq THEN {c} ELSE {d}
    <3>1. cache'[m] = Synced(m, c)
      BY <1>11 DEF HandleAtMember, RestTypes, CacheTypes, msg
    <3> QED
      BY <3>1, <2>1, <2>3, <1>11 DEF Synced, Accepts
  <2>5. Current(c) /\ Current(d) /\ Said(m, 1) /\ w[1].room = c
    BY <1>2, <1>11, <2>1 DEF CurrentInv, Said
  <2>6. c.seq \in Nat /\ d.seq \in Nat /\ room.seq \in Nat
    BY <2>1, <2>2 DEF Copy, OwnerTypes
  <2> HIDE DEF c
  <2>7. Settled(m) => Settled(m)'
    <3>1. CASE cache[m] = {room} /\ \A j \in After(m, 0) : w[j].kind # "remove"
      <4>1. cache'[m] = {room}
        BY <3>1, <2>1, <2>4, <2>5, <2>6 DEF Current
      <4> QED
        BY <3>1, <4>1, <1>1, <1>2 DEF Settled, After
    <3>2. CASE c = room /\ \A j \in After(m, 1) : w[j].kind # "remove"
      <4>1. cache'[m] = {room}
        BY <3>2, <2>4, <2>5, <2>6 DEF Current
      <4> QED
        BY <3>2, <4>1, <1>1, <1>2 DEF Settled, After
    <3>3. \A i \in DOMAIN w : i # 1 => i > 1
      BY <1>2
    <3> QED
      BY <3>1, <3>2, <3>3, <2>5, <1>s DEF Settled
  <2>8. Unclaimed(m) => Unclaimed(m)'
    <3> SUFFICES ASSUME Unclaimed(m), NEW e \in cache'[m], m \in e.members
                 PROVE  Covered(m, 0, e)'
      BY <1>v DEF Covered
    <3>1. CASE d.seq <= c.seq
      <4>1. e = c
        BY <3>1, <2>4
      <4>2. PICK j \in DOMAIN w : j > 1 /\ Withdraws(m, j, c)
        BY <4>1, <1>2, <2>5 DEF Unclaimed, Covered, After
      <4> QED
        BY <4>1, <4>2, <1>c
    <3>2. CASE ~(d.seq <= c.seq)
      <4>1. e = d
        BY <3>2, <2>4
      <4>2. PICK j \in DOMAIN w : j > 0 /\ Withdraws(m, j, d)
        BY <4>1, <2>1 DEF Unclaimed, Covered, After
      <4>3. j # 1
        BY <4>2, <3>2, <1>2, <1>11, <2>5 DEF Withdraws
      <4> QED
        BY <4>1, <4>2, <4>3, <1>2, <1>c
    <3> QED
      BY <3>1, <3>2
  <2>9. Dead(m) => Dead(m)'
    <3>1. \A i \in DOMAIN w : w[i].kind = "remove" => i > 1
      BY <1>2, <1>11
    <3> QED
      BY <3>1, <2>1, <1>d DEF Dead
  <2> QED
    BY <1>7, <2>7, <2>8, <2>9
<1> QED
  BY <1>5, <1>8, <1>9, <1>10, <1>11

----------------------------------------------------------------------------
(* What a step leaves of the whole.                                        *)

LEMMA CurrentKept ==
  ASSUME CurrentInv, NEW t \in Threads, job \in [Threads -> Jobs],
         NEW j, Becomes(t, j), JobCurrent(j), UNCHANGED <<cache, toMember, room>>
  PROVE  CurrentInv'
<1>1. \A u \in Threads : job'[u] = j \/ job'[u] = job[u]
  BY DEF Becomes
<1>2. \A u \in Threads : JobCurrent(job[u])'
  BY <1>1 DEF CurrentInv, JobCurrent
<1> QED
  BY <1>2 DEF CurrentInv, Current, Said

LEMMA CurrentChanged ==
  ASSUME OwnerTypes, RestTypes, CurrentInv, NEW t \in Threads, room'.seq = room.seq + 1,
         NEW j, Becomes(t, j), j.at # "send", j.at = "tell" => \E p \in Members : j.peer = {p},
         UNCHANGED <<cache, toMember>>
  PROVE  CurrentInv'
<1>1. room.seq \in Nat
  BY DEF OwnerTypes, Copy
<1>2. \A m \in Members : \A c \in cache[m] : c.seq \in Nat /\ Current(c)'
  BY <1>1 DEF RestTypes, CacheTypes, Copy, CurrentInv, Current
<1>3. \A m \in Members : \A i \in DOMAIN toMember[m] : Said(m, i) => Current(toMember[m][i].room)'
  <2> SUFFICES ASSUME NEW m \in Members, NEW i \in DOMAIN toMember[m], Said(m, i)
               PROVE  Current(toMember[m][i].room)'
    OBVIOUS
  <2>1. toMember[m][i] \in Frames
    BY DEF OwnerTypes
  <2>2. toMember[m][i].room.seq \in Nat /\ toMember[m][i].room.seq <= room.seq
    BY <2>1 DEF Frames, Copy, CurrentInv, Current, Said
  <2>3. toMember'[m][i] = toMember[m][i]
    OBVIOUS
  <2> QED
    BY <1>1, <2>2, <2>3 DEF Current
<1>4. \A u \in Threads : job'[u] = j \/ (job'[u] = job[u] /\ job[u].seq \in Nat)
  BY DEF Becomes, OwnerTypes, Jobs
<1>5. \A u \in Threads : JobCurrent(job[u])'
  BY <1>1, <1>4 DEF CurrentInv, JobCurrent
<1> QED
  BY <1>1, <1>2, <1>3, <1>5 DEF CurrentInv, Said

LEMMA CurrentSent ==
  ASSUME OwnerTypes, CurrentInv, NEW t \in Threads, NEW j, Becomes(t, j), JobCurrent(j),
         UNCHANGED <<cache, room>>, NEW p \in Members, NEW f \in Frames, ToMember(p, f),
         f.kind = "state" => Current(f.room)
  PROVE  CurrentInv'
<1>1. \A u \in Threads : job'[u] = j \/ job'[u] = job[u]
  BY DEF Becomes, OwnerTypes
<1>2. \A u \in Threads : JobCurrent(job[u])'
  BY <1>1 DEF CurrentInv, JobCurrent
<1>3. ASSUME NEW m \in Members, NEW i \in DOMAIN toMember'[m], Said(m, i)'
      PROVE  Current(toMember'[m][i].room)
  <2>1. CASE toMember'[m] = toMember[m]
    BY <1>3, <2>1 DEF CurrentInv, Said
  <2>2. CASE m = p /\ toMember'[m] = Append(toMember[m], f)
    <3>1. PICK n \in Nat :
            /\ n > 0 /\ toMember'[m][n] = f
            /\ DOMAIN toMember'[m] = DOMAIN toMember[m] \union {n}
            /\ \A k \in DOMAIN toMember[m] : k \in Nat /\ 0 < k /\ k < n /\ toMember'[m][k] = toMember[m][k]
      BY <2>2, WireGrows
    <3> QED
      BY <1>3, <3>1 DEF CurrentInv, Said
  <2> QED
    BY <2>1, <2>2 DEF ToMember, OwnerTypes
<1> QED
  BY <1>2, <1>3 DEF CurrentInv, Current, Said

LEMMA DisbandKept ==
  ASSUME OwnerTypes, DisbandInv, NEW t \in Threads, NEW j, Becomes(t, j), open' = open,
         ~open => overlapped \subseteq overlapped',
         j.at = "disband" => At(t, "disband"), j.at \in {"ticket", "admit"} => open
  PROVE  DisbandInv'
<1>1. At(User, "disband")' => At(User, "disband")
  BY MembersAreThreads DEF At, Becomes, OwnerTypes
<1>2. ~open => UnderWay' \subseteq UnderWay
  BY UnderWayStep DEF OwnerTypes
<1> QED
  BY <1>1, <1>2 DEF DisbandInv

(* A step of a thread that writes nothing and changes nothing of the room. *)
LEMMA PlainCopies ==
  ASSUME OwnerTypes, CopyInv, NEW t \in Threads, NEW j, Becomes(t, j), JobCurrent(j),
         UNCHANGED <<cache, toMember, room, open, missed>>, overlapped \subseteq overlapped',
         j.at # "disband", j.at \in {"ticket", "admit"} => open,
         \A m \in Members : m \in room.members /\ Brings(job[t], m) => Brings(j, m),
         \A m \in Members : Tells(t, job[t], m) => Tells(t, j, m)
  PROVE  CopyInv'
<1>1. CurrentInv'
  BY CurrentKept DEF OwnerTypes, CopyInv
<1>2. DisbandInv'
  BY DisbandKept DEF CopyInv
<1>3. ASSUME NEW m \in Members
      PROVE  Right(m)'
  <2>1. m \in room.members /\ Coming(m) => Coming(m)'
    BY ComingKept DEF OwnerTypes
  <2>2. ToBeTold(m) => ToBeTold(m)'
    BY ToldKept DEF OwnerTypes
  <2> QED
    BY <2>1, <2>2, RightKept DEF CopyInv
<1> QED
  BY <1>1, <1>2, <1>3 DEF CopyInv

(* The room changes; its thread goes on to publish it.                     *)
LEMMA ChangedCopies ==
  ASSUME OwnerTypes, RestTypes, CopyInv, NEW t \in Threads, NEW j, Becomes(t, j),
         j.at = "publish", ~At(t, "tell"), ~At(t, "disband"), room'.seq = room.seq + 1,
         UNCHANGED <<cache, toMember, open, missed>>, overlapped \subseteq overlapped',
         room.members \subseteq room'.members,
         ~open => room'.members \ room.members \subseteq overlapped
  PROVE  CopyInv'
<1>1. CurrentInv'
  BY CurrentChanged DEF CopyInv
<1>2. DisbandInv'
  BY DisbandKept DEF CopyInv
<1>3. \A m : Coming(m)'
  BY DEF Coming, Brings, Becomes, OwnerTypes
<1>4. ASSUME NEW m \in Members
      PROVE  Right(m)'
  <2>1. ToBeTold(m) => ToBeTold(m)'
    BY ToldKept DEF OwnerTypes, Tells, At
  <2>2. CASE m \in room'.members <=> m \in room.members
    BY <1>3, <2>1, <2>2, RightOverChange DEF CopyInv
  <2>3. CASE m \in room'.members \ room.members
    BY <1>3, <2>3 DEF Right, CopyInv, OwnerTypes
  <2> QED
    BY <2>2, <2>3
<1> QED
  BY <1>1, <1>2, <1>4 DEF CopyInv

LEMMA IdleJob == Idle.at = "idle" /\ JobCurrent(Idle)
BY DEF Idle, JobCurrent

LEMMA JobParts ==
  \A at, p : /\ Job(at, p).at = at /\ Job(at, p).peer = {p} /\ Job(at, p).left = {}
BY DEF Job

LEMMA RefuseCopies ==
  ASSUME OwnerTypes, CopyInv, NEW t \in Threads, At(t, "idle"), Refuse(t), cache' = cache
  PROVE  CopyInv'
BY PlainCopies, IdleJob DEF Refuse, ownerVars, history, Brings, Tells, At

LEMMA InviteCopies ==
  ASSUME OwnerTypes, CopyInv, NEW t \in Threads, At(t, "idle"), NEW p \in Members, open,
         OwnerInvite(t, p), cache' = cache
  PROVE  CopyInv'
<1>1. CASE p \notin connected
  BY <1>1, PlainCopies, IdleJob DEF OwnerInvite, ownerVars, history, Brings, Tells, At
<1>2. CASE p \in connected
  <2> DEFINE j == Job("ticket", p)
  <2>1. j.at = "ticket" /\ JobCurrent(j)
    BY JobParts DEF JobCurrent
  <2>2. /\ ToMember(p, InviteMsg) /\ Becomes(t, j)
        /\ room' = room /\ open' = open /\ tickets' = tickets /\ missed' = missed
    BY <1>2 DEF OwnerInvite, ownerVars
  <2> HIDE DEF j
  <2>3. CurrentInv'
    BY <2>1, <2>2, CurrentSent, FrameTypes DEF CopyInv, InviteMsg
  <2>4. DisbandInv'
    BY <2>1, <2>2, DisbandKept DEF CopyInv
  <2>5. ASSUME NEW m \in Members
        PROVE  (Coming(m) => Coming(m)') /\ (ToBeTold(m) => ToBeTold(m)')
    <3>1. ~Brings(job[t], m) /\ ~Tells(t, job[t], m)
      BY DEF Brings, Tells, At
    <3> QED
      BY <2>2, <3>1, ComingKept, ToldKept DEF OwnerTypes
  <2>6. ASSUME NEW m \in Members
        PROVE  Right(m)'
    <3>1. CASE m = p
      <4>1. toMember'[m] = Append(toMember[m], InviteMsg)
        BY <1>2, <2>2, <3>1 DEF ToMember, OwnerTypes
      <4> QED
        BY <4>1, <2>2, <2>5, RightInvited DEF CopyInv
    <3>2. CASE m # p
      <4>1. toMember'[m] = toMember[m]
        BY <2>2, <3>2 DEF ToMember, OwnerTypes
      <4> QED
        BY <4>1, <2>2, <2>5, RightKept DEF CopyInv
    <3> QED
      BY <3>1, <3>2
  <2> QED
    BY <2>3, <2>4, <2>6 DEF CopyInv
<1> QED
  BY <1>1, <1>2

LEMMA RemoveCopies ==
  ASSUME OwnerTypes, RestTypes, CopyInv, NEW t \in Threads, At(t, "idle"), NEW p \in Members, open,
         OwnerRemove(t, p), cache' = cache
  PROVE  CopyInv'
<1>1. CASE p \notin room.members
  BY <1>1, PlainCopies, IdleJob DEF OwnerRemove, ownerVars, history, Brings, Tells, At
<1>2. CASE p \in room.members
  <2> DEFINE j == Job("tell", p)
  <2>1. j.at = "tell" /\ j.peer = {p}
    BY JobParts
  <2>2. /\ Becomes(t, j) /\ room' = Without(p) /\ open' = open /\ toMember' = toMember
        /\ missed' = missed /\ overlapped \subseteq overlapped'
    BY <1>2 DEF OwnerRemove
  <2>3. room'.seq = room.seq + 1 /\ room'.members = room.members \ {p}
    BY <2>2 DEF Without, OwnerTypes, Copy
  <2> HIDE DEF j
  <2>4. CurrentInv'
    BY <2>1, <2>2, <2>3, CurrentChanged DEF CopyInv
  <2>5. DisbandInv'
    BY <2>1, <2>2, DisbandKept DEF CopyInv
  <2>6. ASSUME NEW m \in Members
        PROVE  Right(m)'
    <3>1. Coming(m)'
      BY <2>1, <2>2 DEF Coming, Brings, Becomes, OwnerTypes
    <3>2. CASE m = p
      <4>1. ToBeTold(m)'
        BY <2>1, <2>2, <3>2 DEF ToBeTold, Tells, Becomes, OwnerTypes
      <4> QED
        BY <2>2, <2>3, <3>2, <4>1 DEF Right
    <3>3. CASE m # p
      <4>1. ToBeTold(m) => ToBeTold(m)'
        BY <2>2, ToldKept DEF OwnerTypes, Tells, At
      <4> QED
        BY <2>2, <2>3, <3>1, <3>3, <4>1, RightOverChange DEF CopyInv
    <3> QED
      BY <3>2, <3>3
  <2> QED
    BY <2>4, <2>5, <2>6 DEF CopyInv
<1> QED
  BY <1>1, <1>2

LEMMA ChangeCopies ==
  ASSUME OwnerTypes, RestTypes, CopyInv, NEW t \in Threads, At(t, "idle"), NEW c \in Copy,
         c.members = room.members, c.seq = room.seq, Change(t, c), cache' = cache
  PROVE  CopyInv'
<1> DEFINE j == [Idle EXCEPT !.at = "publish"]
<1>1. j.at = "publish" /\ Becomes(t, j)
  BY DEF Idle, Change
<1>2. room'.seq = room.seq + 1 /\ room'.members = room.members
  BY DEF Change, Copy
<1>3. ~At(t, "tell") /\ ~At(t, "disband")
  BY DEF At
<1>4. UNCHANGED <<toMember, open, missed, overlapped>>
  BY DEF Change, history
<1> HIDE DEF j
<1> QED
  BY <1>1, <1>2, <1>3, <1>4, ChangedCopies

LEMMA DisbandCopies ==
  ASSUME OwnerTypes, RestTypes, CopyInv, At(User, "idle"), open, Disband, cache' = cache
  PROVE  CopyInv'
<1> DEFINE j == [Idle EXCEPT !.at = "disband", !.left = room.members]
<1>1. j.at = "disband" /\ j.left = room.members /\ User \in Threads
  BY MembersAreThreads DEF Idle
<1>2. /\ Becomes(User, j) /\ open' = FALSE /\ toMember' = toMember /\ missed' = missed
      /\ overlapped' = overlapped \union UnderWay
  BY DEF Disband
<1>3. room'.seq = room.seq + 1 /\ room'.members = room.members
  BY DEF Disband, OwnerTypes, Copy
<1> HIDE DEF j
<1>4. CurrentInv'
  BY <1>1, <1>2, <1>3, CurrentChanged DEF CopyInv
<1>5. UnderWay' \subseteq UnderWay
  BY <1>1, <1>2, UnderWayStep DEF OwnerTypes
<1>6. DisbandInv'
  BY <1>2, <1>5 DEF DisbandInv
<1>7. ASSUME NEW m \in Members
      PROVE  Right(m)'
  <2>1. CASE m \in room.members
    <3>1. ToBeTold(m)'
      BY <1>1, <1>2, <2>1 DEF ToBeTold, Tells, Becomes, OwnerTypes
    <3> QED
      BY <1>2, <3>1 DEF Right
  <2>2. CASE m \notin room.members
    <3>1. ToBeTold(m) => ToBeTold(m)'
      BY <1>1, <1>2, ToldKept DEF OwnerTypes, Tells, At
    <3>2. Unclaimed(m) => Unclaimed(m)'
      BY <1>2 DEF Unclaimed, Covered, Withdraws, Said, After
    <3> QED
      BY <1>2, <1>3, <2>2, <3>1, <3>2 DEF Right, CopyInv
  <2> QED
    BY <2>1, <2>2
<1> QED
  BY <1>4, <1>6, <1>7 DEF CopyInv

LEMMA OwnerCommandCopies ==
  ASSUME OwnerTypes, RestTypes, CopyInv, NEW op \in AllOwnerOps, NEW p \in Members,
         OwnerCommand(op, p)
  PROVE  CopyInv'
<1>1. User \in Threads /\ At(User, "idle") /\ open /\ cache' = cache
  BY MembersAreThreads DEF OwnerCommand, memberVars
<1>2. CASE OwnerInvite(User, p)
  BY <1>1, <1>2, InviteCopies
<1>3. CASE OwnerRemove(User, p)
  BY <1>1, <1>3, RemoveCopies
<1>4. CASE Permit(p)
  <2>1. PICK can \in {room.can \union {p}, room.can \ {p}} :
          Change(User, [room EXCEPT !.can = can])
    BY <1>4 DEF Permit
  <2> DEFINE c == [room EXCEPT !.can = can]
  <2>2. c \in Copy /\ c.members = room.members /\ c.seq = room.seq
    BY <1>4 DEF Permit, OwnerTypes, Copy
  <2> HIDE DEF c
  <2>3. Change(User, c)
    BY <2>1 DEF c
  <2> QED
    BY <1>1, <2>2, <2>3, ChangeCopies
<1>5. CASE Change(User, [room EXCEPT !.colours = ~@])
  <2> DEFINE c == [room EXCEPT !.colours = ~@]
  <2>1. c \in Copy /\ c.members = room.members /\ c.seq = room.seq
    <3>1. room \in Copy /\ (~room.colours) \in BOOLEAN
      BY DEF OwnerTypes, Copy
    <3> QED
      BY <3>1 DEF Copy
  <2> HIDE DEF c
  <2>2. Change(User, c)
    BY <1>5 DEF c
  <2> QED
    BY <1>1, <2>1, <2>2, ChangeCopies
<1>6. CASE Disband
  BY <1>1, <1>6, DisbandCopies
<1> QED
  BY <1>2, <1>3, <1>4, <1>5, <1>6 DEF OwnerCommand

LEMMA HandleAtOwnerCopies ==
  ASSUME OwnerTypes, RestTypes, CopyInv, NEW m \in Members, HandleAtOwner(m)
  PROVE  CopyInv'
<1> DEFINE msg == Head(toOwner[m])
<1>1. m \in Threads /\ At(m, "idle") /\ cache' = cache
  BY MembersAreThreads DEF HandleAtOwner, memberVars
<1>2. msg.peer \in Members
  <2>1. toOwner[m] \in Seq(Asks) /\ toOwner[m] # <<>>
    BY DEF HandleAtOwner, RestTypes
  <2>2. msg \in Asks
    BY <2>1
  <2> QED
    BY <2>2 DEF Asks
<1>3. CASE Refuse(m)
  BY <1>1, <1>3, RefuseCopies
<1>4. ~Brings(job[m], m) /\ \A n : ~Brings(job[m], n) /\ ~Tells(m, job[m], n)
  BY <1>1 DEF Brings, Tells, At
<1>5. CASE open /\ HandleJoin(m) /\ ~Refuse(m)
  <2>1. /\ Becomes(m, Job("admit", m)) /\ UNCHANGED <<open, room, toMember, overlapped, missed>>
    BY <1>5 DEF HandleJoin, history
  <2>2. Job("admit", m).at = "admit" /\ JobCurrent(Job("admit", m))
    BY JobParts DEF JobCurrent
  <2> QED
    BY <1>1, <1>4, <1>5, <2>1, <2>2, PlainCopies
<1>6. CASE open /\ OwnerRemove(m, m)
  BY <1>1, <1>6, RemoveCopies
<1>7. CASE open /\ HandleAdd(m, msg.peer) /\ ~Refuse(m)
  <2>1. OwnerInvite(m, msg.peer)
    BY <1>7 DEF HandleAdd
  <2> QED
    BY <1>1, <1>2, <1>7, <2>1, InviteCopies
<1>8. CASE HandleColor(m) /\ ~Refuse(m)
  <2>1. Change(m, room) /\ room \in Copy
    BY <1>8 DEF HandleColor, OwnerTypes
  <2> QED
    BY <1>1, <2>1, ChangeCopies
<1>9. CASE HandleSync(m) /\ ~Refuse(m)
  <2>1. Becomes(m, Job("reply", m)) /\ UNCHANGED <<open, room, toMember, overlapped, missed>>
    BY <1>9 DEF HandleSync, ownerVars, history
  <2>2. Job("reply", m).at = "reply" /\ JobCurrent(Job("reply", m))
    BY JobParts DEF JobCurrent
  <2> QED
    BY <1>1, <1>4, <2>1, <2>2, PlainCopies
<1> QED
  BY <1>3, <1>5, <1>6, <1>7, <1>8, <1>9 DEF HandleAtOwner

LEMMA ThreadCopies ==
  ASSUME OwnerTypes, RestTypes, CopyInv, NEW t \in Threads,
         RecordTicket(t) \/ Admit(t) \/ TellRemoved(t) \/ Publish(t) \/ SendDone(t)
  PROVE  CopyInv'
<1>1. /\ job[t] \in Jobs /\ room \in Copy
      /\ room.members \subseteq Members /\ room.seq \in Nat
  BY DEF OwnerTypes, Copy
<1>2. CASE RecordTicket(t)
  <2>1. /\ Becomes(t, Idle)
        /\ UNCHANGED <<cache, toMember, room, open, missed, overlapped>>
    BY <1>2 DEF RecordTicket, memberVars, history
  <2>2. \A m : ~Brings(job[t], m) /\ ~Tells(t, job[t], m)
    BY <1>2 DEF RecordTicket, Brings, Tells, At
  <2> QED
    BY <2>1, <2>2, IdleJob, PlainCopies
<1>3. CASE Admit(t)
  <2> DEFINE j == [Idle EXCEPT !.at = "publish"]
  <2>1. j.at = "publish" /\ JobCurrent(j)
    BY DEF Idle, JobCurrent
  <2>2. /\ Becomes(t, j) /\ At(t, "admit") /\ ~At(t, "tell") /\ ~At(t, "disband")
        /\ UNCHANGED <<cache, toMember, open, missed>> /\ overlapped \subseteq overlapped'
    BY <1>3 DEF Admit, memberVars, At
  <2> HIDE DEF j
  <2>3. CASE job[t].peer \subseteq room.members
    <3>1. room' = room
      BY <1>3, <2>3 DEF Admit
    <3>2. \A m : Brings(j, m) /\ ~Tells(t, job[t], m)
      BY <2>1, <2>2 DEF Brings, Tells, At
    <3> QED
      BY <2>1, <2>2, <3>1, <3>2, PlainCopies
  <2>4. CASE ~(job[t].peer \subseteq room.members)
    <3>1. room'.seq = room.seq + 1 /\ room'.members = room.members \union job[t].peer
      BY <1>1, <1>3, <2>4 DEF Admit, Copy
    <3>2. job[t].peer \subseteq UnderWay
      BY <2>2, UnderWayMeans
    <3>3. ~open => room'.members \ room.members \subseteq overlapped
      BY <3>1, <3>2 DEF CopyInv, DisbandInv
    <3> QED
      BY <2>1, <2>2, <3>1, <3>3, ChangedCopies
  <2> QED
    BY <2>3, <2>4
<1>4. CASE TellRemoved(t)
  <2> DEFINE j == [Idle EXCEPT !.at = "publish"]
  <2>1. j.at = "publish" /\ JobCurrent(j)
    BY DEF Idle, JobCurrent
  <2>2. /\ Becomes(t, j) /\ At(t, "tell") /\ UNCHANGED <<cache, room, open, overlapped>>
        /\ \E p \in job[t].peer : Notify(p, RemoveMsg)
    BY <1>4 DEF TellRemoved, memberVars, ownerVars, history
  <2> HIDE DEF j
  <2>3. PICK q \in Members : job[t].peer = {q}
    BY <2>2 DEF CopyInv, CurrentInv, JobCurrent, At
  <2>4. /\ ToMember(q, RemoveMsg) /\ RemoveMsg.kind = "remove"
        /\ missed' = IF q \notin connected THEN missed \union {q} ELSE missed
    BY <2>2, <2>3 DEF Notify, RemoveMsg
  <2>5. CurrentInv'
    BY <2>1, <2>2, <2>4, CurrentSent, FrameTypes DEF CopyInv
  <2>6. DisbandInv'
    BY <2>1, <2>2, DisbandKept DEF CopyInv
  <2>7. \A m : Coming(m)'
    BY <2>1, <2>2 DEF Coming, Brings, Becomes, OwnerTypes
  <2>8. ASSUME NEW m \in Members
        PROVE  Right(m)'
    <3>1. CASE m = q /\ q \notin connected
      BY <2>4, <3>1 DEF Right
    <3>2. CASE m = q /\ q \in connected
      <4>1. toMember'[m] = Append(toMember[m], RemoveMsg) /\ missed' = missed
        BY <2>4, <3>2 DEF ToMember, OwnerTypes
      <4> QED
        BY <4>1, <2>2, <2>7, RightTold DEF CopyInv
    <3>3. CASE m # q
      <4>1. toMember'[m] = toMember[m] /\ (m \in missed => m \in missed')
        BY <2>4, <3>3 DEF ToMember, OwnerTypes
      <4>2. ~Tells(t, job[t], m)
        BY <2>2, <2>3, <3>3 DEF Tells, At
      <4>3. ToBeTold(m) => ToBeTold(m)'
        BY <2>2, <4>2, ToldKept DEF OwnerTypes
      <4> QED
        BY <2>2, <2>7, <4>1, <4>3, RightKept DEF CopyInv
    <3> QED
      BY <3>1, <3>2, <3>3
  <2> QED
    BY <2>5, <2>6, <2>8 DEF CopyInv
<1>5. CASE Publish(t)
  <2> DEFINE left == IF At(t, "reply") THEN job[t].peer ELSE room.members
             j == [Idle EXCEPT !.at = "send", !.seq = room.seq, !.colours = room.colours,
                               !.left = left]
  <2>1. j.at = "send" /\ j.seq = room.seq /\ j.colours = room.colours /\ j.left = left
    BY DEF Idle
  <2>2. /\ Becomes(t, j) /\ (At(t, "publish") \/ At(t, "reply"))
        /\ UNCHANGED <<cache, toMember, room, open, missed, overlapped>>
    BY <1>5 DEF Publish, memberVars, ownerVars, history
  <2> HIDE DEF j
  <2>3. JobCurrent(j)
    BY <1>1, <2>1 DEF JobCurrent
  <2>4. \A m : ~Tells(t, job[t], m)
    BY <2>2 DEF Tells, At
  <2>5. \A m \in room.members : Brings(job[t], m) => Brings(j, m)
    BY <2>1, <2>2 DEF Brings, At
  <2> QED
    BY <2>1, <2>2, <2>3, <2>4, <2>5, PlainCopies
<1>6. CASE SendDone(t)
  <2>1. /\ Becomes(t, Idle) /\ job[t].left = {} /\ (At(t, "send") \/ At(t, "disband"))
        /\ UNCHANGED <<cache, toMember, room, open, missed, overlapped>>
    BY <1>6 DEF SendDone, memberVars, ownerVars, history
  <2>2. \A m : ~Brings(job[t], m) /\ ~Tells(t, job[t], m)
    BY <2>1 DEF Brings, Tells, At
  <2> QED
    BY <2>1, <2>2, IdleJob, PlainCopies
<1> QED
  BY <1>2, <1>3, <1>4, <1>5, <1>6

(* One recipient of a snapshot.                                            *)
LEMMA SendCopies ==
  ASSUME OwnerTypes, RestTypes, CopyInv, NEW t \in Threads, NEW p \in Members, SendState(t, p)
  PROVE  CopyInv'
<1> DEFINE j == [job[t] EXCEPT !.left = @ \ {p}]
           c == SnapshotOf(t)
           f == StateMsg(c)
<1>1. /\ job[t] \in Jobs /\ room \in Copy /\ room.seq \in Nat /\ job[t].seq \in Nat
      /\ job[t].colours \in BOOLEAN
  BY DEF OwnerTypes, Copy, Jobs
<1>2. /\ j.at = job[t].at /\ j.seq = job[t].seq /\ j.colours = job[t].colours
      /\ j.left = job[t].left \ {p}
  BY <1>1 DEF Jobs
<1>3. /\ c \in Copy /\ c.members = room.members /\ c.seq = job[t].seq
      /\ (c.seq = room.seq /\ job[t].colours = room.colours => c = room)
  BY <1>1 DEF SnapshotOf, Copy
<1>4. /\ At(t, "send") /\ Becomes(t, j) /\ Notify(p, f)
      /\ UNCHANGED <<cache, room, open, overlapped>>
  BY DEF SendState, memberVars, ownerVars, history
<1>5. f.kind = "state" /\ f.room = c /\ f \in Frames
  BY <1>3, FrameTypes DEF StateMsg
<1>6. ToMember(p, f) /\ missed' = IF p \notin connected THEN missed \union {p}
                                  ELSE IF open /\ c = room THEN missed \ {p} ELSE missed
  BY <1>4, <1>5 DEF Notify
<1> HIDE DEF j, c
<1>7. job[t].seq <= room.seq /\ (job[t].seq = room.seq => job[t].colours = room.colours)
  BY <1>4 DEF CopyInv, CurrentInv, JobCurrent, At
<1>8. Current(c) /\ (c # room => job[t].seq # room.seq)
  BY <1>3, <1>7 DEF Current
<1>9. JobCurrent(j) /\ j.at = "send"
  BY <1>2, <1>4, <1>7 DEF JobCurrent, At
<1>10. CurrentInv'
  <2> HIDE DEF f
  <2> QED
    BY <1>4, <1>5, <1>6, <1>8, <1>9, CurrentSent DEF CopyInv
<1>11. DisbandInv'
  BY <1>4, <1>9, DisbandKept DEF CopyInv
<1>12. ASSUME NEW m \in Members
       PROVE  ToBeTold(m) => ToBeTold(m)'
  <2>1. ~Tells(t, job[t], m)
    BY <1>4 DEF Tells, At
  <2> QED
    BY <1>4, <2>1, ToldKept DEF OwnerTypes
<1>13. ASSUME NEW m \in Members, m # p \/ c # room
       PROVE  Coming(m) => Coming(m)'
  <2>1. Brings(job[t], m) => Brings(j, m)
    BY <1>2, <1>4, <1>8, <1>13 DEF Brings, At
  <2> QED
    BY <1>4, <2>1, ComingKept DEF OwnerTypes
<1>14. ASSUME NEW m \in Members
       PROVE  Right(m)'
  <2>1. CASE m = p /\ p \notin connected
    BY <1>6, <2>1 DEF Right
  <2>2. CASE m = p /\ p \in connected
    <3>1. /\ toMember'[m] = Append(toMember[m], StateMsg(c))
          /\ missed' = missed \/ (open /\ c = room /\ missed' = missed \ {m})
      BY <1>6, <2>2 DEF ToMember, OwnerTypes
    <3> QED
      BY <3>1, <1>3, <1>4, <1>8, <1>12, <1>13, RightSent DEF CopyInv
  <2>3. CASE m # p
    <3>1. toMember'[m] = toMember[m] /\ (m \in missed => m \in missed')
      BY <1>6, <2>3 DEF ToMember, OwnerTypes
    <3> QED
      BY <3>1, <2>3, <1>4, <1>12, <1>13, RightKept DEF CopyInv
  <2> QED
    BY <2>1, <2>2, <2>3
<1> QED
  BY <1>10, <1>11, <1>14 DEF CopyInv

(* A member of the room that is gone is told.                              *)
LEMMA TellDisbandedCopies ==
  ASSUME OwnerTypes, RestTypes, CopyInv, NEW p \in Members, TellDisbanded(p)
  PROVE  CopyInv'
<1> DEFINE j == [job[User] EXCEPT !.left = @ \ {p}]
<1>0. User \in Threads
  BY MembersAreThreads
<1>1. j.at = job[User].at /\ j.left = job[User].left \ {p}
  BY <1>0 DEF OwnerTypes, Jobs
<1>2. /\ At(User, "disband") /\ Becomes(User, j) /\ ToMember(p, RemoveMsg)
      /\ missed' = IF p \notin connected THEN missed \union {p} ELSE missed
      /\ UNCHANGED <<cache, room, open, overlapped>>
  BY DEF TellDisbanded, Notify, RemoveMsg, memberVars, ownerVars, history
<1> HIDE DEF j
<1>3. ~open /\ j.at = "disband" /\ JobCurrent(j)
  BY <1>1, <1>2 DEF CopyInv, DisbandInv, JobCurrent, At
<1>4. CurrentInv'
  BY <1>0, <1>2, <1>3, CurrentSent, FrameTypes DEF CopyInv, RemoveMsg
<1>5. DisbandInv'
  BY <1>0, <1>2, <1>3, DisbandKept DEF CopyInv
<1>6. ASSUME NEW m \in Members
      PROVE  Right(m)'
  <2>1. CASE m = p /\ p \notin connected
    BY <1>2, <2>1 DEF Right
  <2>2. CASE m = p /\ p \in connected
    <3>1. toMember'[m] = Append(toMember[m], RemoveMsg) /\ missed' = missed
      BY <1>2, <2>2 DEF ToMember, OwnerTypes
    <3> QED
      BY <3>1, <1>2, <1>3, RightTold DEF CopyInv
  <2>3. CASE m # p
    <3>1. toMember'[m] = toMember[m] /\ (m \in missed => m \in missed')
      BY <1>2, <2>3 DEF ToMember, OwnerTypes
    <3>2. /\ Tells(User, job[User], m) => Tells(User, j, m)
          /\ ~Brings(job[User], m)
      BY <1>1, <1>2, <1>3, <2>3 DEF Tells, Brings, At
    <3>3. (ToBeTold(m) => ToBeTold(m)') /\ (Coming(m) => Coming(m)')
      BY <1>0, <1>2, <3>2, ToldKept, ComingKept DEF OwnerTypes
    <3> QED
      BY <3>1, <3>3, <1>2, RightKept DEF CopyInv
  <2> QED
    BY <2>1, <2>2, <2>3
<1> QED
  BY <1>4, <1>5, <1>6 DEF CopyInv

(* A message to a member: it changes the copy and the wire of that member. *)
LEMMA HandleAtMemberCopies ==
  ASSUME OwnerTypes, RestTypes, CopyInv, NEW m \in Members, HandleAtMember(m)
  PROVE  CopyInv'
<1> DEFINE w == toMember[m]
           msg == Head(w)
<1>1. /\ w # <<>> /\ toMember'[m] = Tail(w)
      /\ \A n \in Members \ {m} : toMember'[n] = toMember[n] /\ cache'[n] = cache[n]
      /\ m \in missed => m \in missed'
      /\ \A n \in Members \ {m} : n \in missed => n \in missed'
      /\ UNCHANGED <<room, open, overlapped, job>>
  BY DEF HandleAtMember, OwnerTypes, RestTypes, CacheTypes, ownerVars, history
<1>2. /\ 1 \in DOMAIN w /\ msg = w[1] /\ w \in Seq(Frames)
      /\ \A i \in DOMAIN toMember'[m] : i + 1 \in DOMAIN w /\ toMember'[m][i] = w[i + 1]
  BY <1>1, WireRead DEF OwnerTypes
<1>3. msg \in Frames /\ msg.kind \in {"invite", "state", "remove"}
  BY <1>2 DEF Frames
<1>4. msg.kind = "state" => Current(msg.room)
  BY <1>2 DEF CopyInv, CurrentInv, Said
<1>5. Current(Stub)
  BY DEF Current, Stub, CopyInv, CurrentInv, OwnerTypes, Copy
<1>6. \A c \in cache'[m] : c \in cache[m] \/ c = Stub \/ (msg.kind = "state" /\ c = msg.room)
  <2>1. CASE msg.kind = "invite"
    BY <2>1 DEF HandleAtMember, Invited, RestTypes, CacheTypes
  <2>2. CASE msg.kind = "state"
    BY <2>2 DEF HandleAtMember, Synced, RestTypes, CacheTypes
  <2>3. CASE msg.kind = "remove"
    BY <2>3 DEF HandleAtMember, Removed, RestTypes, CacheTypes
  <2> QED
    BY <1>3, <2>1, <2>2, <2>3
<1> HIDE DEF msg
<1>7. \A n \in Members : \A c \in cache'[n] : Current(c)
  BY <1>1, <1>4, <1>5, <1>6 DEF CopyInv, CurrentInv
<1>8. ASSUME NEW n \in Members, NEW i \in DOMAIN toMember'[n], Said(n, i)'
      PROVE  Current(toMember'[n][i].room)
  <2>1. CASE n = m
    BY <1>2, <1>8, <2>1 DEF CopyInv, CurrentInv, Said
  <2>2. CASE n # m
    BY <1>1, <1>8, <2>2 DEF CopyInv, CurrentInv, Said
  <2> QED
    BY <2>1, <2>2
<1>9. CurrentInv'
  BY <1>1, <1>7, <1>8 DEF CopyInv, CurrentInv, Current, JobCurrent
<1>10. DisbandInv'
  BY <1>1, UnderWaySame DEF CopyInv, DisbandInv, At
<1>11. ASSUME NEW n \in Members
       PROVE  Right(n)'
  <2>1. CASE n = m
    BY <2>1, RightRead DEF CopyInv
  <2>2. CASE n # m
    <3>1. (Coming(n) => Coming(n)') /\ (ToBeTold(n) => ToBeTold(n)')
      BY <1>1 DEF Coming, Brings, ToBeTold, Tells
    <3> QED
      BY <1>1, <2>2, <3>1, RightKept DEF CopyInv
  <2> QED
    BY <2>1, <2>2
<1> QED
  BY <1>9, <1>10, <1>11 DEF CopyInv

(* The owner, its threads and its room stay as they are; a copy or a wire  *)
(* is emptied only together with "missed".                                 *)
LEMMA FarCopies ==
  ASSUME OwnerTypes, RestTypes, CopyInv, UNCHANGED <<room, open, overlapped, job>>,
         \A m \in Members :
           \/ cache'[m] = cache[m] /\ toMember'[m] = toMember[m] /\ (m \in missed => m \in missed')
           \/ /\ m \in missed'
              /\ cache'[m] = cache[m] \/ cache'[m] = {}
              /\ toMember'[m] = toMember[m] \/ toMember'[m] = <<>>
  PROVE  CopyInv'
<1>1. \A m \in Members : \A c \in cache'[m] : Current(c)
  BY DEF CopyInv, CurrentInv
<1>2. ASSUME NEW m \in Members, NEW i \in DOMAIN toMember'[m], Said(m, i)'
      PROVE  Current(toMember'[m][i].room)
  <2>1. toMember'[m] = toMember[m]
    BY <1>2
  <2> QED
    BY <1>2, <2>1 DEF CopyInv, CurrentInv, Said
<1>3. CurrentInv'
  BY <1>1, <1>2 DEF CopyInv, CurrentInv, Current, JobCurrent
<1>4. DisbandInv'
  BY UnderWaySame DEF CopyInv, DisbandInv, At
<1>5. ASSUME NEW m \in Members
      PROVE  Right(m)'
  <2>1. CASE m \in missed'
    BY <2>1 DEF Right
  <2>2. CASE m \notin missed'
    <3>1. (Coming(m) => Coming(m)') /\ (ToBeTold(m) => ToBeTold(m)')
      BY DEF Coming, Brings, ToBeTold, Tells
    <3> QED
      BY <2>2, <3>1, RightKept DEF CopyInv
  <2> QED
    BY <2>1, <2>2
<1> QED
  BY <1>3, <1>4, <1>5 DEF CopyInv

LEMMA MemberCopies ==
  ASSUME OwnerTypes, RestTypes, CopyInv, NEW m \in Members,
         \/ Leave(m) \/ LeaveDone(m) \/ Forget(m)
         \/ \E kind \in {"join", "add", "color", "sync"}, p \in Members : Request(m, kind, p)
  PROVE  CopyInv'
<1>1. UNCHANGED <<room, open, overlapped, job, toMember>>
  BY DEF Leave, LeaveDone, Forget, Request, MemberCommand, ownerVars, history
<1>2. \/ cache' = cache /\ missed' = missed
      \/ cache' = [cache EXCEPT ![m] = {}] /\ missed' = missed \union {m}
  BY DEF Leave, LeaveDone, Forget, Request, memberVars
<1>3. \A n \in Members :
        \/ cache'[n] = cache[n] /\ (n \in missed => n \in missed')
        \/ cache'[n] = {} /\ n \in missed'
  BY <1>2 DEF RestTypes, CacheTypes
<1> QED
  BY <1>1, <1>3, FarCopies

LEMMA FaultCopies ==
  ASSUME OwnerTypes, RestTypes, CopyInv, NEW m \in Members,
         Cut(m) \/ Reconnect(m) \/ Unfriend(m)
  PROVE  CopyInv'
<1>1. UNCHANGED <<room, open, overlapped, job, cache>>
  BY DEF Cut, Reconnect, Unfriend, ownerVars, memberVars, history
<1>2. \A n \in Members :
        \/ toMember'[n] = toMember[n] /\ (n \in missed => n \in missed')
        \/ toMember'[n] = <<>> /\ n \in missed'
  BY DEF Cut, LoseConnections, Reconnect, Unfriend, OwnerTypes
<1> QED
  BY <1>1, <1>2, FarCopies

LEMMA RestartCopies ==
  ASSUME OwnerTypes, CopyInv, OwnerRestart
  PROVE  CopyInv'
<1>1. /\ UNCHANGED <<room, open, cache>> /\ missed' = Members
      /\ \A m \in Members : toMember'[m] = <<>>
      /\ \A t \in Threads : job'[t] = Idle
  BY DEF OwnerRestart, LoseConnections, ownerVars, memberVars
<1>2. CurrentInv'
  BY <1>1, IdleJob DEF CopyInv, CurrentInv, Current, Said, JobCurrent
<1>3. UnderWay' = {}
  BY <1>1, UnderWayMeansNext, IdleJob DEF At
<1>4. DisbandInv'
  BY <1>1, <1>3, IdleJob, MembersAreThreads DEF DisbandInv, At
<1> QED
  BY <1>1, <1>2, <1>4 DEF CopyInv, Right

LEMMA CopyInit == Init => CopyInv
<1> SUFFICES ASSUME Init
             PROVE  CopyInv
  OBVIOUS
<1>1. CurrentInv
  BY IdleJob DEF Init, CurrentInv
<1>2. DisbandInv
  BY IdleJob, MembersAreThreads DEF Init, DisbandInv, At
<1>3. ASSUME NEW m \in Members
      PROVE  Right(m)
  <2>1. open /\ m \notin room.members /\ cache[m] = {} /\ DOMAIN toMember[m] = {}
    BY DEF Init
  <2> QED
    BY <2>1 DEF Right, Unclaimed
<1> QED
  BY <1>1, <1>2, <1>3 DEF CopyInv

LEMMA CopyStep == TypeOK /\ CopyInv /\ [Next]_vars => CopyInv'
<1> SUFFICES ASSUME OwnerTypes, RestTypes, CopyInv, [Next]_vars
             PROVE  CopyInv'
  BY TypeParts
<1>1. CASE UNCHANGED vars
  BY <1>1, FarCopies DEF vars
<1>2. CASE Next
  BY <1>2, OwnerCommandCopies, ThreadCopies, SendCopies, TellDisbandedCopies, HandleAtOwnerCopies,
     HandleAtMemberCopies, MemberCopies, FaultCopies, RestartCopies DEF Next
<1> QED
  BY <1>1, <1>2

(* However the snapshots, the removals and the invitations were ordered:   *)
(* when nothing is under way, a member's copy that missed nothing is the   *)
(* owner's room, and a copy of anybody else does not list its holder, but  *)
(* for an admission that a disband overtook (_send_room_state and          *)
(* handle_room_msg, whose sequence check this rests on).                   *)
THEOREM CopiesCorrect == Spec => []CopiesAgree
BY TypeInit, TypeStep, CopyInit, CopyStep, CopyInvAgrees, PTL DEF Spec

=============================================================================
