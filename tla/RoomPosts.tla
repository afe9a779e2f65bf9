----------------------------- MODULE RoomPosts -----------------------------
(***************************************************************************)
(* What the members of a room say (rooms.py): texts, which the author      *)
(* writes to every member, and file offers, which the owner passes on.     *)
(*                                                                         *)
(* A host checks each post against its own copy of the roster.  How the    *)
(* copies come about is the business of Rooms; here the owner changes the  *)
(* roster and the snapshots travel on the same sockets as the posts.  A    *)
(* text to a peer without a socket is held until there is one; a file      *)
(* offer or a snapshot is dropped.                                         *)
(*                                                                         *)
(* A fan-out goes through the shared roster while it writes: on the owner, *)
(* where rosters are changed in place, a change of its size in between     *)
(* raises an error in the thread that is at it.                            *)
(***************************************************************************)
EXTENDS Integers, Sequences, FiniteSets

CONSTANTS
  Owner, Others,  \* the hosts
  Friends,        \* pairs of hosts (sets of two) that may have a socket
  Texts, Files,   \* the posts
  Author,         \* Author[p]: the host whose user posts p
  MaxRoster,      \* bound: changes of the roster
  MaxFault        \* bound: connections lost

Hosts == {Owner} \union Others
Posts == Texts \union Files
Pair(g, h) == {g, h}

ASSUME PostsType ==
  /\ Owner \notin Others /\ Texts \intersect Files = {}
  /\ Author \in [Posts -> Hosts]
ASSUME FriendsOfOwner ==
  /\ Friends \subseteq SUBSET Hosts
  /\ \A m \in Others : Pair(Owner, m) \in Friends
ASSUME BoundsAreNat == MaxRoster \in Nat /\ MaxFault \in Nat

(* The threads that fan out: each host's commands, and the owner's readers.*)
Threads == {<<h, "user">> : h \in Hosts} \union {<<Owner, m>> : m \in Others}
User(h) == <<h, "user">>
Reader(m) == <<Owner, m>>
HostOf(t) == t[1]

VARIABLES
  roster,   \* roster[h]: the members on h's copy of the room, {} if it has none
  up,       \* pairs with an active socket
  wire,     \* wire[g][h]: frames on their way from g to h
  hold,     \* hold[g][h]: texts g holds for h
  fan,      \* fan[t]: the fan-out t is at: none or one
  posted,   \* posts whose author has begun to post them
  shown,    \* shown[h][p]: how often h has p in its history
  missed,   \* history: missed[h]: posts that were dropped on the way to h
  churned,  \* history: members that were admitted or removed
  outsider, \* history: posts begun by a member whom no other host lists, or is
            \* about to
  faults, changes

vars == <<roster, up, wire, hold, fan, posted, shown, missed, churned, outsider, faults, changes>>

Text(p) == [kind |-> "text", post |-> p]
File(p) == [kind |-> "file", post |-> p]
State(r) == [kind |-> "state", roster |-> r]
Gone == [kind |-> "gone"]
Frame(p) == IF p \in Texts THEN Text(p) ELSE File(p)
FramePosts(s) == {s[i].post : i \in {j \in DOMAIN s : s[j].kind \in {"text", "file"}}}

Init ==
  /\ \E r \in SUBSET Others :
       roster = [h \in Hosts |-> IF h \in r \union {Owner} THEN r \union {Owner} ELSE {}]
  /\ up = Friends
  /\ wire = [g \in Hosts |-> [h \in Hosts |-> <<>>]]
  /\ hold = [g \in Hosts |-> [h \in Hosts |-> <<>>]]
  /\ fan = [t \in Threads |-> {}]
  /\ posted = {}
  /\ shown = [h \in Hosts |-> [p \in Posts |-> 0]]
  /\ missed = [h \in Hosts |-> {}]
  /\ churned = {} /\ outsider = {}
  /\ faults = 0 /\ changes = 0

----------------------------------------------------------------------------
Connected(g, h) == Pair(g, h) \in up

(* Mutant: what was written is held as well.                               *)
WritePost_HoldsToo(g, h, p) ==
  /\ wire' = IF Connected(g, h) THEN [wire EXCEPT ![g][h] = Append(@, Frame(p))] ELSE wire
  /\ IF p \in Texts
     THEN hold' = [hold EXCEPT ![g][h] = Append(@, Frame(p))] /\ UNCHANGED missed
     ELSE missed' = [missed EXCEPT ![h] = @ \union {p}] /\ UNCHANGED hold

(* _write of a post by g to h.                                             *)
WritePost(g, h, p) ==
  IF Connected(g, h)
  THEN /\ wire' = [wire EXCEPT ![g][h] = Append(@, Frame(p))]
       /\ UNCHANGED <<hold, missed>>
  ELSE /\ IF p \in Texts
          THEN hold' = [hold EXCEPT ![g][h] = Append(@, Frame(p))] /\ UNCHANGED missed
          ELSE missed' = [missed EXCEPT ![h] = @ \union {p}] /\ UNCHANGED hold
       /\ UNCHANGED wire

Show(h, p) == shown' = [shown EXCEPT ![h][p] = @ + 1]

(* A fan-out: the post, the roster it goes through, and who has been       *)
(* written to.                                                             *)
Begin(t, p) ==
  fan' = [fan EXCEPT ![t] = {[post |-> p, over |-> roster[HostOf(t)], done |-> {}]}]

(* A member's copy is replaced as a whole, so the fan-out goes on with the *)
(* one it began with; the owner's own is changed under its feet.           *)
Over(t, f) == IF HostOf(t) = Owner THEN roster[Owner] ELSE f.over
Upset(t, f) == Cardinality(Over(t, f)) # Cardinality(f.over)
Left(t, f) == Over(t, f) \ (f.done \union {HostOf(t)})

----------------------------------------------------------------------------
(* Someone else has m on the roster, or will when a snapshot arrives.      *)
Listed(m) ==
  \E h \in Hosts \ {m} :
     m \in roster[h] \/ \E i \in DOMAIN wire[Owner][h] :
                          wire[Owner][h][i].kind = "state" /\ m \in wire[Owner][h][i].roster
Note(p) ==
  outsider' = IF Author[p] = Owner \/ Listed(Author[p]) THEN outsider ELSE outsider \union {p}

(* send_room_text, or post_room_file by the owner: the fan-out begins.     *)
Post(p) ==
  LET h == Author[p]
  IN  /\ p \notin posted
      /\ fan[User(h)] = {}
      /\ roster[h] # {}
      /\ p \in Texts \/ h = Owner
      /\ posted' = posted \union {p}
      /\ Begin(User(h), p)
      /\ Note(p)
      /\ UNCHANGED <<roster, up, wire, hold, shown, missed, churned, faults, changes>>

(* post_room_file by a member: handed to the owner, if there is a socket,  *)
(* and shown at once.                                                      *)
PostFile(p) ==
  LET h == Author[p]
  IN  /\ p \in Files \ posted
      /\ h # Owner
      /\ fan[User(h)] = {}
      /\ roster[h] # {}
      /\ Connected(h, Owner)
      /\ posted' = posted \union {p}
      /\ WritePost(h, Owner, p)
      /\ Show(h, p)
      /\ Note(p)
      /\ UNCHANGED <<roster, up, fan, churned, faults, changes>>

FanNext(t, h) ==
  \E f \in fan[t] :
     /\ ~Upset(t, f)
     /\ h \in Left(t, f)
     /\ WritePost(HostOf(t), h, f.post)
     /\ fan' = [fan EXCEPT ![t] = {[f EXCEPT !.done = @ \union {h}]}]
     /\ UNCHANGED <<roster, up, posted, shown, churned, outsider, faults, changes>>

(* Everybody written to: the post is shown here.                           *)
FanEnd(t) ==
  \E f \in fan[t] :
     /\ ~Upset(t, f)
     /\ Left(t, f) = {}
     /\ Show(HostOf(t), f.post)
     /\ fan' = [fan EXCEPT ![t] = {}]
     /\ UNCHANGED <<roster, up, wire, hold, posted, missed, churned, outsider, faults, changes>>

(* The socket between g and h goes, with what is on it: an offer on its    *)
(* way to the owner is lost for everybody.                                 *)
LostFor(i, g, h) ==
  IF i = h THEN FramePosts(wire[g][h])
  ELSE IF h = Owner THEN FramePosts(wire[g][h]) \intersect Files ELSE {}
Break(g, h, S) ==
  /\ up' = up \ {Pair(g, h)}
  /\ wire' = [wire EXCEPT ![g][h] = <<>>, ![h][g] = <<>>]
  /\ missed' = [i \in Hosts |-> missed[i] \union S \union LostFor(i, g, h) \union LostFor(i, h, g)]

(* The roster's size changed: the error ends the command, or the reader's  *)
(* thread and with it the socket.                                          *)
FanBreaks(t) ==
  \E f \in fan[t] :
     /\ Upset(t, f)
     /\ fan' = [fan EXCEPT ![t] = {}]
     /\ IF t = User(Owner)
        THEN missed' = [h \in Hosts |-> missed[h] \union {f.post}] /\ UNCHANGED <<up, wire>>
        ELSE Break(Owner, t[2], {f.post})
     /\ UNCHANGED <<roster, hold, posted, shown, churned, outsider, faults, changes>>

----------------------------------------------------------------------------
(* A frame arrives.                                                        *)

Arrives(g, h) ==
  /\ wire[g][h] # <<>>
  /\ h = Owner => fan[Reader(g)] = {}
  /\ wire' = [wire EXCEPT ![g][h] = Tail(@)]
Next1(g, h) == Head(wire[g][h])

(* Mutant: any friend may write to a room we have.                         *)
TextAllowed_Any(h, g, p) == roster[h] # {}

(* _handle_incoming: a room's text from someone on our copy of its roster. *)
TextAllowed(h, g, p) == g \in roster[h]

HearText(g, h) ==
  /\ Arrives(g, h)
  /\ Next1(g, h).kind = "text"
  /\ LET p == Next1(g, h).post
     IN  IF TextAllowed(h, g, p) THEN Show(h, p) ELSE UNCHANGED shown
  /\ UNCHANGED <<roster, up, hold, fan, posted, missed, churned, outsider, faults, changes>>

(* The owner passes a member's offer on to everybody.                      *)
Relay(g) ==
  /\ Arrives(g, Owner)
  /\ Next1(g, Owner).kind = "file"
  /\ LET p == Next1(g, Owner).post
     IN  IF g \in roster[Owner]
         THEN Begin(Reader(g), p) ELSE UNCHANGED fan
  /\ UNCHANGED <<roster, up, hold, posted, shown, missed, churned, outsider, faults, changes>>

(* Mutant: the owner may not write on behalf of another.                   *)
FileAllowed_Writer(h, g, p) == {g, Author[p]} \subseteq roster[h] /\ Author[p] = g

(* handle_room_file_msg: both the writer and the author are on the roster. *)
FileAllowed(h, g, p) == {g, Author[p]} \subseteq roster[h]

HearFile(h) ==
  /\ Arrives(Owner, h)
  /\ Next1(Owner, h).kind = "file"
  /\ LET p == Next1(Owner, h).post
     IN  IF FileAllowed(h, Owner, p) THEN Show(h, p) ELSE UNCHANGED shown
  /\ UNCHANGED <<roster, up, hold, fan, posted, missed, churned, outsider, faults, changes>>

HearRoster(h) ==
  /\ Arrives(Owner, h)
  /\ Next1(Owner, h).kind \in {"state", "gone"}
  /\ roster' = [roster EXCEPT ![h] = IF Next1(Owner, h).kind = "gone" THEN {}
                                     ELSE Next1(Owner, h).roster]
  /\ UNCHANGED <<up, hold, fan, posted, shown, missed, churned, outsider, faults, changes>>

----------------------------------------------------------------------------
(* The owner's roster, by its user or a member's reader; each member is    *)
(* told if it has a socket.                                                *)
Change(m, r) ==
  /\ changes < MaxRoster
  /\ changes' = changes + 1
  /\ roster' = [roster EXCEPT ![Owner] = r]
  /\ wire' = [wire EXCEPT ![Owner] = [h \in Hosts |->
       IF h = Owner \/ ~Connected(Owner, h) THEN @[h]
       ELSE IF h \in r THEN Append(@[h], State(r))
       ELSE IF h = m THEN Append(@[h], Gone) ELSE @[h]]]
  /\ churned' = churned \union {m}
  /\ UNCHANGED <<up, hold, fan, posted, shown, missed, faults>>
Admit(m) ==
  /\ m \notin roster[Owner]
  /\ Change(m, roster[Owner] \union {m})
  /\ outsider' = {p \in outsider : Author[p] # m}
Remove(m) ==
  /\ m \in roster[Owner]
  /\ Change(m, roster[Owner] \ {m})
  /\ UNCHANGED outsider

(* A connection is lost with what is on it, and comes back.                *)
Disconnect(g, h) ==
  /\ faults < MaxFault
  /\ faults' = faults + 1
  /\ Connected(g, h)
  /\ Break(g, h, {})
  /\ UNCHANGED <<roster, hold, fan, posted, shown, churned, outsider, changes>>
Connect(g, h) ==
  /\ Pair(g, h) \in Friends \ up
  /\ up' = up \union {Pair(g, h)}
  /\ wire' = [wire EXCEPT ![g][h] = hold[g][h], ![h][g] = hold[h][g]]
  /\ hold' = [hold EXCEPT ![g][h] = <<>>, ![h][g] = <<>>]
  /\ UNCHANGED <<roster, fan, posted, shown, missed, churned, outsider, faults, changes>>

Next ==
  \/ \E p \in Posts : Post(p) \/ PostFile(p)
  \/ \E t \in Threads : FanEnd(t) \/ FanBreaks(t) \/ \E h \in Hosts : FanNext(t, h)
  \/ \E g, h \in Hosts : HearText(g, h) \/ Disconnect(g, h) \/ Connect(g, h)
  \/ \E m \in Others : Relay(m) \/ HearFile(m) \/ HearRoster(m) \/ Admit(m) \/ Remove(m)

Spec == Init /\ [][Next]_vars

----------------------------------------------------------------------------
(* Nobody sees a post twice - but for the author of a file offer, to whom  *)
(* the owner's broadcast comes back.                                       *)
ShownOnce ==
  \A h \in Hosts, p \in Posts :
     (p \in Texts \/ h # Author[p]) => shown[h][p] <= 1

Quiet ==
  /\ \A t \in Threads : fan[t] = {}
  /\ \A g, h \in Hosts : wire[g][h] = <<>>
  /\ up = Friends

(* Everybody hears: once nothing is under way, a post is in the history of *)
(* every steady member who can hear its author, whoever else comes and     *)
(* goes meanwhile, save what a broken connection or fan-out took.          *)
EverybodyHears ==
  Quiet =>
    \A p \in posted, h \in Hosts :
      (/\ h # Author[p]
       /\ {h, Author[p]} \subseteq roster[Owner] \ churned
       /\ p \in Files \/ Pair(h, Author[p]) \in Friends) =>
        shown[h][p] = 1 \/ p \in missed[h]

(* A member the owner removed, who remains a direct friend and may still   *)
(* have the room, gets nothing into the others' histories.                 *)
RemovedIsUnheard ==
  \A p \in outsider, h \in Hosts : h # Author[p] => shown[h][p] = 0
=============================================================================
