--------------------------- MODULE RoomPostsProofs ---------------------------
(***************************************************************************)
(* For every set of hosts, friendships and posts, and every bound: no post *)
(* is shown twice, what a removed member says is not heard, and everybody  *)
(* who stays hears what nothing took away.                                 *)
(***************************************************************************)
EXTENDS RoomPosts, TLAPS

TextFrames == [kind : {"text"}, post : Texts]
FileFrames == [kind : {"file"}, post : Files]
StateFrames == [kind : {"state"}, roster : SUBSET Hosts]
Frames == TextFrames \union FileFrames \union StateFrames \union [kind : {"gone"}]
Fans == [post : Posts, over : SUBSET Hosts, done : SUBSET Hosts]

Types ==
  /\ roster \in [Hosts -> SUBSET Hosts]
  /\ up \subseteq Friends
  /\ wire \in [Hosts -> [Hosts -> Seq(Frames)]]
  /\ hold \in [Hosts -> [Hosts -> Seq(TextFrames)]]
  /\ fan \in [Threads -> SUBSET Fans]
  /\ posted \subseteq Posts
  /\ shown \in [Hosts -> [Posts -> Nat]]
  /\ missed \in [Hosts -> SUBSET Posts]
  /\ churned \subseteq Others

(* A sequence of frames carries a post; it does so once.                   *)
Brings(f, p) == f.kind \in {"text", "file"} /\ f.post = p
Carries(s, p) == \E i \in DOMAIN s : Brings(s[i], p)
Single(s, p) == \A i, j \in DOMAIN s : Brings(s[i], p) /\ Brings(s[j], p) => i = j

(* A text goes from its author to each host, a file offer from the owner,  *)
(* who has it from its author; and the thread that fans it out.            *)
Route(g, h, p) ==
  /\ g # h
  /\ g = IF p \in Texts \/ h = Owner THEN Author[p] ELSE Owner
FanOf(p) == IF p \in Texts \/ Author[p] = Owner THEN User(Author[p]) ELSE Reader(Author[p])

WireHome(g, h, p) == Carries(wire[g][h], p) => p \in posted /\ Route(g, h, p)
HoldHome(g, h, p) == Carries(hold[g][h], p) => p \in posted /\ Route(g, h, p)
FanHome(t, f) ==
  /\ fan[t] = {f}
  /\ f.post \in posted /\ t = FanOf(f.post) /\ HostOf(t) \notin f.done
HomeInv ==
  /\ \A g, h \in Hosts, p \in Posts : WireHome(g, h, p) /\ HoldHome(g, h, p)
  /\ \A t \in Threads : \A f \in fan[t] : FanHome(t, f)

(* Where a post is, on its way to h.                                       *)
Fanned(p) == \E f \in fan[FanOf(p)] : f.post = p
Pending(h, p) == \E f \in fan[FanOf(p)] : f.post = p /\ h \notin f.done
Upstream(p) == p \in Files /\ Author[p] # Owner /\ Carries(wire[Author[p]][Owner], p)
Written(h, p) == \E g \in Hosts : Carries(wire[g][h], p)
Held(h, p) == \E g \in Hosts : Carries(hold[g][h], p)

(* It is in one place only.                                                *)
Once(h, p) ==
  /\ p \notin posted => shown[h][p] = 0
  /\ Upstream(p) => shown[h][p] = 0 /\ ~Fanned(p) /\ (h # Owner => ~Written(h, p))
  /\ Pending(h, p) => shown[h][p] = 0 /\ ~Written(h, p) /\ ~Held(h, p)
  /\ Written(h, p) => shown[h][p] = 0 /\ ~Held(h, p)
  /\ Held(h, p) => shown[h][p] = 0
  /\ shown[h][p] <= 1
  /\ \A g \in Hosts : Single(wire[g][h], p) /\ Single(hold[g][h], p)
Minds(h, p) == p \in Texts \/ h # Author[p]
OnceInv ==
  \A h \in Hosts, p \in Posts : Minds(h, p) => Once(h, p)

(* No other host lists the author of an outsider's post.                   *)
Unlisted(m) ==
  /\ m # Owner
  /\ \A h \in Hosts \ {m} :
       /\ m \notin roster[h]
       /\ \A i \in DOMAIN wire[Owner][h] :
            wire[Owner][h][i].kind = "state" => m \notin wire[Owner][h][i].roster
Unheard(p) ==
  /\ p \in posted /\ Unlisted(Author[p])
  /\ p \in Files => ~Fanned(p)
  /\ \A h \in Hosts \ {Author[p]} : shown[h][p] = 0
UnheardInv == \A p \in outsider : Unheard(p)

(* The members that were and are on the roster; what their copies, and the *)
(* snapshots on their way to them, have in common.                         *)
Steady == roster[Owner] \ churned
Keeps(f) == f.kind # "gone" /\ (f.kind = "state" => Steady \subseteq f.roster)
SteadyInv ==
  /\ Owner \in roster[Owner]
  /\ \A h \in Steady :
       /\ Steady \subseteq roster[h]
       /\ \A i \in DOMAIN wire[Owner][h] : Keeps(wire[Owner][h][i])
  /\ \A t \in Threads : \A f \in fan[t] : HostOf(t) \in Steady => Steady \subseteq f.over
WireOf(g, h) == IF Connected(g, h) THEN hold[g][h] = <<>> ELSE wire[g][h] = <<>>
WireInv == \A g, h \in Hosts : WireOf(g, h)

(* Where a post is that somebody is to hear.                               *)
Entitled(h, p) ==
  /\ p \in posted /\ h # Author[p] /\ {h, Author[p]} \subseteq Steady
  /\ p \in Files \/ Pair(h, Author[p]) \in Friends
Reaches(h, p) ==
  \/ shown[h][p] >= 1 \/ p \in missed[h]
  \/ Upstream(p) \/ Pending(h, p) \/ Written(h, p) \/ Held(h, p)
HearInv == \A h \in Hosts, p \in Posts : Entitled(h, p) => Reaches(h, p)

PostInv == HomeInv /\ OnceInv

----------------------------------------------------------------------------
(* Sequences of frames.                                                    *)

LEMMA CarriesAppend ==
  ASSUME NEW S, NEW s \in Seq(S), NEW f \in S, NEW p
  PROVE  /\ Carries(Append(s, f), p) <=> Carries(s, p) \/ Brings(f, p)
         /\ Single(s, p) /\ ~(Carries(s, p) /\ Brings(f, p)) => Single(Append(s, f), p)
<1> DEFINE r == Append(s, f)
           n == Len(s) + 1
<1>1. /\ DOMAIN r = DOMAIN s \union {n} /\ n \notin DOMAIN s /\ r[n] = f
      /\ \A i \in DOMAIN s : r[i] = s[i]
  OBVIOUS
<1> HIDE DEF r, n
<1>2. Carries(r, p) <=> Carries(s, p) \/ Brings(f, p)
  BY <1>1 DEF Carries
<1>3. Single(s, p) /\ ~(Carries(s, p) /\ Brings(f, p)) => Single(r, p)
  BY <1>1 DEF Carries, Single
<1> QED
  BY <1>2, <1>3 DEF r

LEMMA CarriesTail ==
  ASSUME NEW S, NEW s \in Seq(S), s # <<>>, NEW p
  PROVE  /\ Carries(Tail(s), p) => Carries(s, p)
         /\ Carries(s, p) => Brings(Head(s), p) \/ Carries(Tail(s), p)
         /\ Brings(Head(s), p) => Carries(s, p)
         /\ Single(s, p) => Single(Tail(s), p)
         /\ Single(s, p) /\ Brings(Head(s), p) => ~Carries(Tail(s), p)
<1> DEFINE r == Tail(s)
<1>1. 1 \in DOMAIN s /\ Head(s) = s[1]
  OBVIOUS
<1>2. \A i \in DOMAIN r : i \in Nat /\ i + 1 \in DOMAIN s /\ r[i] = s[i + 1] /\ i + 1 # 1
  OBVIOUS
<1>3. \A i \in DOMAIN s : i # 1 => i - 1 \in DOMAIN r /\ r[i - 1] = s[i]
  OBVIOUS
<1> HIDE DEF r
<1>4. Carries(r, p) => Carries(s, p)
  BY <1>2 DEF Carries
<1>5. Carries(s, p) => Brings(Head(s), p) \/ Carries(r, p)
  BY <1>1, <1>3 DEF Carries
<1>6. Brings(Head(s), p) => Carries(s, p)
  BY <1>1 DEF Carries
<1>7. Single(s, p) => Single(r, p)
  <2> SUFFICES ASSUME Single(s, p), NEW i \in DOMAIN r, NEW j \in DOMAIN r, Brings(r[i], p), Brings(r[j], p)
               PROVE  i = j
    BY DEF Single
  <2>1. i + 1 = j + 1
    BY <1>2 DEF Single
  <2> QED
    BY <2>1, <1>2
<1>8. Single(s, p) /\ Brings(Head(s), p) => ~Carries(r, p)
  BY <1>1, <1>2 DEF Single, Carries
<1> QED
  BY <1>4, <1>5, <1>6, <1>7, <1>8 DEF r

LEMMA CarriesNothing ==
  ASSUME NEW p
  PROVE  ~Carries(<<>>, p) /\ Single(<<>>, p)
BY DEF Carries, Single

LEMMA FramePostsMeans ==
  ASSUME NEW s, NEW p
  PROVE  p \in FramePosts(s) <=> Carries(s, p)
BY DEF FramePosts, Carries, Brings

LEMMA FrameMeans ==
  ASSUME NEW p \in Posts
  PROVE  /\ Frame(p) \in Frames
         /\ p \in Texts => Frame(p) \in TextFrames
         /\ \A q : Brings(Frame(p), q) <=> q = p
BY DEF Frame, Text, File, Frames, TextFrames, FileFrames, Brings, Posts

(* What stands in a frame that is read.                                    *)
LEMMA HeadMeans ==
  ASSUME Types, NEW g \in Hosts, NEW h \in Hosts, wire[g][h] # <<>>
  PROVE  /\ Next1(g, h) \in Frames
         /\ Next1(g, h).kind = "text" => Next1(g, h).post \in Texts
         /\ Next1(g, h).kind = "file" => Next1(g, h).post \in Files
         /\ Next1(g, h).kind = "state" => Next1(g, h).roster \in SUBSET Hosts
         /\ \A p : Brings(Next1(g, h), p) <=> Next1(g, h).kind \in {"text", "file"} /\ Next1(g, h).post = p
         /\ Next1(g, h) = wire[g][h][1] /\ 1 \in DOMAIN wire[g][h]
<1>1. wire[g][h] \in Seq(Frames)
  BY DEF Types
<1>2. Next1(g, h) \in Frames /\ Next1(g, h) = wire[g][h][1] /\ 1 \in DOMAIN wire[g][h]
  BY <1>1 DEF Next1
<1> QED
  BY <1>2 DEF Frames, TextFrames, FileFrames, StateFrames, Brings

LEMMA HostFacts ==
  /\ Owner \in Hosts /\ Others \subseteq Hosts /\ Owner \notin Others
  /\ Texts \subseteq Posts /\ Files \subseteq Posts
  /\ \A p \in Posts : Author[p] \in Hosts /\ (p \in Files <=> p \notin Texts)
  /\ \A h \in Hosts : h # Owner => h \in Others
BY PostsType DEF Hosts, Posts

LEMMA ThreadFacts ==
  /\ \A h \in Hosts : User(h) \in Threads /\ HostOf(User(h)) = h
  /\ \A m \in Others : Reader(m) \in Threads /\ HostOf(Reader(m)) = Owner /\ Reader(m)[2] = m
  /\ \A t \in Threads : HostOf(t) \in Hosts
  /\ \A t \in Threads : t # User(Owner) /\ HostOf(t) = Owner => t[2] \in Others
  /\ \A p \in Posts : FanOf(p) \in Threads
  /\ \A p \in Posts : HostOf(FanOf(p)) = IF p \in Texts THEN Author[p] ELSE Owner
<1>1. \A h \in Hosts : User(h) \in Threads /\ HostOf(User(h)) = h
  BY DEF Threads, User, HostOf
<1>2. \A m \in Others : Reader(m) \in Threads /\ HostOf(Reader(m)) = Owner /\ Reader(m)[2] = m
  BY DEF Threads, Reader, HostOf
<1>3. \A t \in Threads : HostOf(t) \in Hosts
  BY HostFacts DEF Threads, HostOf
<1>4. \A t \in Threads : t # User(Owner) /\ HostOf(t) = Owner => t[2] \in Others
  BY HostFacts DEF Threads, HostOf, User
<1> QED
  BY <1>1, <1>2, <1>3, <1>4, HostFacts DEF FanOf

----------------------------------------------------------------------------
(* Types.                                                                  *)

LEMMA SetEntry ==
  ASSUME NEW R, NEW w \in [Hosts -> [Hosts -> R]], NEW g \in Hosts, NEW h \in Hosts, NEW s \in R
  PROVE  /\ [w EXCEPT ![g][h] = s] \in [Hosts -> [Hosts -> R]]
         /\ \A i, j \in Hosts : [w EXCEPT ![g][h] = s][i][j] = IF i = g /\ j = h THEN s ELSE w[i][j]
OBVIOUS

LEMMA SetEntries ==
  ASSUME NEW R, NEW w \in [Hosts -> [Hosts -> R]], NEW g \in Hosts, NEW h \in Hosts,
         NEW s \in R, NEW r \in R, NEW v, v = [w EXCEPT ![g][h] = s, ![h][g] = r]
  PROVE  /\ v \in [Hosts -> [Hosts -> R]]
         /\ \A i, j \in Hosts : v[i][j] = IF i = h /\ j = g THEN r ELSE IF i = g /\ j = h THEN s ELSE w[i][j]
<1> DEFINE u == [w EXCEPT ![g][h] = s]
<1>1. u \in [Hosts -> [Hosts -> R]]
  BY SetEntry
<1>2. \A i, j \in Hosts : u[i][j] = IF i = g /\ j = h THEN s ELSE w[i][j]
  OBVIOUS
<1>3. v = [u EXCEPT ![h][g] = r]
  OBVIOUS
<1> HIDE DEF u
<1>4. v \in [Hosts -> [Hosts -> R]]
  BY ONLY <1>1, <1>3, SetEntry, g \in Hosts, h \in Hosts, r \in R
<1>5. \A i, j \in Hosts : v[i][j] = IF i = h /\ j = g THEN r ELSE u[i][j]
  BY <1>1, <1>3
<1> QED
  BY <1>2, <1>4, <1>5

(* _write: on the wire, held, or missed.                                   *)
LEMMA WriteParts ==
  ASSUME Types, NEW g \in Hosts, NEW h \in Hosts, NEW p \in Posts, WritePost(g, h, p)
  PROVE  /\ wire' \in [Hosts -> [Hosts -> Seq(Frames)]]
         /\ hold' \in [Hosts -> [Hosts -> Seq(TextFrames)]]
         /\ missed' \in [Hosts -> SUBSET Posts] /\ \A i \in Hosts : missed[i] \subseteq missed'[i]
         /\ \A i, j \in Hosts : (i # g \/ j # h) => wire'[i][j] = wire[i][j] /\ hold'[i][j] = hold[i][j]
         /\ IF Connected(g, h)
            THEN wire'[g][h] = Append(wire[g][h], Frame(p)) /\ hold' = hold /\ missed' = missed
            ELSE /\ wire' = wire
                 /\ IF p \in Texts THEN hold'[g][h] = Append(hold[g][h], Frame(p)) /\ missed' = missed
                    ELSE hold' = hold /\ p \in missed'[h]
<1>1. wire[g][h] \in Seq(Frames) /\ hold[g][h] \in Seq(TextFrames)
  BY DEF Types
<1>2. CASE Connected(g, h)
  <2> DEFINE s == Append(wire[g][h], Frame(p))
  <2>1. s \in Seq(Frames)
    BY <1>1, FrameMeans
  <2>2. wire' = [wire EXCEPT ![g][h] = s] /\ hold' = hold /\ missed' = missed
    BY <1>2 DEF WritePost
  <2> HIDE DEF s
  <2>3. /\ wire' \in [Hosts -> [Hosts -> Seq(Frames)]] /\ wire'[g][h] = s
        /\ \A i, j \in Hosts : i # g \/ j # h => wire'[i][j] = wire[i][j]
    BY <2>1, <2>2 DEF Types
  <2> QED
    BY <1>2, <2>2, <2>3 DEF Types, s
<1>3. CASE ~Connected(g, h) /\ p \in Texts
  <2> DEFINE s == Append(hold[g][h], Frame(p))
  <2>1. s \in Seq(TextFrames)
    BY <1>1, <1>3, FrameMeans
  <2>2. hold' = [hold EXCEPT ![g][h] = s] /\ wire' = wire /\ missed' = missed
    BY <1>3 DEF WritePost
  <2> HIDE DEF s
  <2>3. /\ hold' \in [Hosts -> [Hosts -> Seq(TextFrames)]] /\ hold'[g][h] = s
        /\ \A i, j \in Hosts : i # g \/ j # h => hold'[i][j] = hold[i][j]
    BY <2>1, <2>2 DEF Types
  <2> QED
    BY <1>3, <2>2, <2>3 DEF Types, s
<1>4. CASE ~Connected(g, h) /\ p \notin Texts
  <2>1. wire' = wire /\ hold' = hold /\ missed' = [missed EXCEPT ![h] = @ \union {p}]
    BY <1>4 DEF WritePost
  <2>2. /\ missed' \in [Hosts -> SUBSET Posts] /\ p \in missed'[h]
        /\ \A i \in Hosts : missed[i] \subseteq missed'[i]
    BY <2>1 DEF Types
  <2> QED
    BY <1>4, <2>1, <2>2 DEF Types
<1> QED
  BY <1>2, <1>3, <1>4

(* The socket between g and h breaks.                                      *)
LEMMA BreakParts ==
  ASSUME Types, NEW g \in Hosts, NEW h \in Hosts, NEW S \in SUBSET Posts, Break(g, h, S)
  PROVE  /\ wire' \in [Hosts -> [Hosts -> Seq(Frames)]] /\ up' \subseteq up
         /\ missed' \in [Hosts -> SUBSET Posts]
         /\ \A i \in Hosts : missed[i] \union S \union LostFor(i, g, h) \union LostFor(i, h, g) = missed'[i]
         /\ wire'[g][h] = <<>> /\ wire'[h][g] = <<>>
         /\ \A i, j \in Hosts : Pair(i, j) # Pair(g, h) => wire'[i][j] = wire[i][j]
         /\ \A i, j \in Hosts : wire'[i][j] = wire[i][j] \/ wire'[i][j] = <<>>
<1>1. wire' = [wire EXCEPT ![g][h] = <<>>, ![h][g] = <<>>]
  BY DEF Break
<1>0. wire \in [Hosts -> [Hosts -> Seq(Frames)]] /\ <<>> \in Seq(Frames)
  BY DEF Types
<1>2. \A i, j \in Hosts : wire'[i][j] = IF (i = g /\ j = h) \/ (i = h /\ j = g) THEN <<>> ELSE wire[i][j]
  BY <1>0, <1>1, SetEntries
<1>3. wire' \in [Hosts -> [Hosts -> Seq(Frames)]]
  BY <1>0, <1>1, SetEntries
<1>4. \A i, j \in Hosts : FramePosts(wire[i][j]) \subseteq Posts
  <2> SUFFICES ASSUME NEW i \in Hosts, NEW j \in Hosts, NEW p \in FramePosts(wire[i][j])
               PROVE  p \in Posts
    OBVIOUS
  <2>1. PICK k \in DOMAIN wire[i][j] : Brings(wire[i][j][k], p)
    BY FramePostsMeans DEF Carries
  <2>2. wire[i][j][k] \in Frames
    <3>1. wire[i][j] \in Seq(Frames)
      BY DEF Types
    <3> QED
      BY <3>1
  <2> QED
    BY <2>1, <2>2, HostFacts DEF Brings, Frames, TextFrames, FileFrames, StateFrames
<1>5. \A i \in Hosts : LostFor(i, g, h) \subseteq Posts /\ LostFor(i, h, g) \subseteq Posts
  BY <1>4 DEF LostFor
<1>6. missed' = [i \in Hosts |-> missed[i] \union S \union LostFor(i, g, h) \union LostFor(i, h, g)]
  BY DEF Break
<1>7. missed' \in [Hosts -> SUBSET Posts]
  BY <1>5, <1>6 DEF Types
<1>8. up' \subseteq up
  BY DEF Break
<1> QED
  BY <1>2, <1>3, <1>6, <1>7, <1>8 DEF Pair

LEMMA ArrivesParts ==
  ASSUME Types, NEW g \in Hosts, NEW h \in Hosts, Arrives(g, h)
  PROVE  /\ wire' \in [Hosts -> [Hosts -> Seq(Frames)]]
         /\ wire[g][h] # <<>> /\ wire[g][h] \in Seq(Frames)
         /\ wire'[g][h] = Tail(wire[g][h])
         /\ \A i, j \in Hosts : i # g \/ j # h => wire'[i][j] = wire[i][j]
<1> DEFINE s == Tail(wire[g][h])
<1>1. wire[g][h] \in Seq(Frames) /\ wire[g][h] # <<>>
  BY DEF Types, Arrives
<1>2. s \in Seq(Frames)
  BY <1>1
<1>3. wire' = [wire EXCEPT ![g][h] = s]
  BY DEF Arrives
<1> HIDE DEF s
<1>4. /\ wire' \in [Hosts -> [Hosts -> Seq(Frames)]] /\ wire'[g][h] = s
      /\ \A i, j \in Hosts : i # g \/ j # h => wire'[i][j] = wire[i][j]
  BY <1>2, <1>3 DEF Types
<1> QED
  BY <1>1, <1>4 DEF s

LEMMA ConnectParts ==
  ASSUME Types, NEW g \in Hosts, NEW h \in Hosts, Connect(g, h)
  PROVE  /\ wire' \in [Hosts -> [Hosts -> Seq(Frames)]]
         /\ hold' \in [Hosts -> [Hosts -> Seq(TextFrames)]]
         /\ \A i, j \in Hosts :
              IF Pair(i, j) = Pair(g, h)
              THEN wire'[i][j] = hold[i][j] /\ hold'[i][j] = <<>>
              ELSE wire'[i][j] = wire[i][j] /\ hold'[i][j] = hold[i][j]
<1>1. /\ wire' = [wire EXCEPT ![g][h] = hold[g][h], ![h][g] = hold[h][g]]
      /\ hold' = [hold EXCEPT ![g][h] = <<>>, ![h][g] = <<>>]
  BY DEF Connect
<1>2. /\ wire \in [Hosts -> [Hosts -> Seq(Frames)]]
      /\ hold \in [Hosts -> [Hosts -> Seq(TextFrames)]] /\ <<>> \in Seq(TextFrames)
  BY DEF Types
<1>5. \A i, j \in Hosts : hold[i][j] \in Seq(Frames)
  <2> SUFFICES ASSUME NEW i \in Hosts, NEW j \in Hosts PROVE hold[i][j] \in Seq(Frames)
    OBVIOUS
  <2>1. hold[i][j] \in Seq(TextFrames)
    BY DEF Types
  <2>2. TextFrames \subseteq Frames
    BY DEF Frames
  <2> QED
    BY <2>1, <2>2
<1>3. /\ wire' \in [Hosts -> [Hosts -> Seq(Frames)]]
      /\ \A i, j \in Hosts :
           wire'[i][j] = IF (i = g /\ j = h) \/ (i = h /\ j = g) THEN hold[i][j] ELSE wire[i][j]
  BY <1>1, <1>2, <1>5, SetEntries
<1>4. /\ hold' \in [Hosts -> [Hosts -> Seq(TextFrames)]]
      /\ \A i, j \in Hosts :
           hold'[i][j] = IF (i = g /\ j = h) \/ (i = h /\ j = g) THEN <<>> ELSE hold[i][j]
  BY <1>1, <1>2, SetEntries
<1>8. \A i, j \in Hosts : Pair(i, j) = Pair(g, h) <=> (i = g /\ j = h) \/ (i = h /\ j = g)
  BY DEF Pair
<1> QED
  BY <1>3, <1>4, <1>8

LEMMA ShowParts ==
  ASSUME Types, NEW h \in Hosts, NEW p \in Posts, Show(h, p)
  PROVE  /\ shown' \in [Hosts -> [Posts -> Nat]]
         /\ shown'[h][p] = shown[h][p] + 1
         /\ \A i \in Hosts, q \in Posts : i # h \/ q # p => shown'[i][q] = shown[i][q]
         /\ \A i \in Hosts, q \in Posts : shown[i][q] \in Nat
<1>1. \A i \in Hosts, q \in Posts : shown[i][q] \in Nat
  BY DEF Types
<1>2. shown' = [shown EXCEPT ![h][p] = shown[h][p] + 1]
  BY DEF Show
<1>3. shown[h][p] + 1 \in Nat
  BY <1>1
<1> QED
  BY <1>1, <1>2, <1>3 DEF Types

LEMMA BeginParts ==
  ASSUME Types, NEW t \in Threads, NEW p \in Posts, Begin(t, p)
  PROVE  /\ fan' \in [Threads -> SUBSET Fans]
         /\ \A u \in Threads : u # t => fan'[u] = fan[u]
         /\ \E f \in Fans : fan'[t] = {f} /\ f.post = p /\ f.done = {} /\ f.over = roster[HostOf(t)]
<1> DEFINE f == [post |-> p, over |-> roster[HostOf(t)], done |-> {}]
<1>1. f \in Fans /\ f.post = p /\ f.done = {} /\ f.over = roster[HostOf(t)]
  BY ThreadFacts DEF Types, Fans
<1>2. fan' = [fan EXCEPT ![t] = {f}]
  BY DEF Begin
<1> HIDE DEF f
<1>3. /\ fan' \in [Threads -> SUBSET Fans] /\ fan'[t] = {f}
      /\ \A u \in Threads : u # t => fan'[u] = fan[u]
  BY <1>1, <1>2 DEF Types
<1> QED
  BY <1>1, <1>3

(* One recipient more is done.                                             *)
LEMMA FanNextParts ==
  ASSUME Types, NEW t \in Threads, NEW h \in Hosts, FanNext(t, h)
  PROVE  /\ fan' \in [Threads -> SUBSET Fans]
         /\ \A u \in Threads : u # t => fan'[u] = fan[u]
         /\ \E f \in fan[t], e \in Fans :
              /\ ~Upset(t, f) /\ h \in Left(t, f) /\ WritePost(HostOf(t), h, f.post)
              /\ fan'[t] = {e}
              /\ e.post = f.post /\ e.over = f.over /\ e.done = f.done \union {h}
<1>1. PICK f \in fan[t] : /\ ~Upset(t, f) /\ h \in Left(t, f) /\ WritePost(HostOf(t), h, f.post)
                          /\ fan' = [fan EXCEPT ![t] = {[f EXCEPT !.done = @ \union {h}]}]
  BY DEF FanNext
<1> DEFINE D == f.done \union {h}
           e == [f EXCEPT !.done = D]
<1>2. f \in Fans
  BY DEF Types
<1>3. D \in SUBSET Hosts
  BY <1>2 DEF Fans
<1>4. fan' = [fan EXCEPT ![t] = {e}]
  BY <1>1
<1> HIDE DEF D
<1>5. e \in Fans /\ e.post = f.post /\ e.over = f.over /\ e.done = D
  BY <1>2, <1>3 DEF Fans
<1> HIDE DEF e
<1>6. /\ fan' \in [Threads -> SUBSET Fans] /\ fan'[t] = {e}
      /\ \A u \in Threads : u # t => fan'[u] = fan[u]
  BY ONLY <1>4, <1>5, Types, t \in Threads DEF Types
<1> QED
  BY <1>1, <1>5, <1>6 DEF D

LEMMA EmptiedParts ==
  ASSUME Types, NEW t \in Threads, fan' = [fan EXCEPT ![t] = {}]
  PROVE  /\ fan' \in [Threads -> SUBSET Fans] /\ fan'[t] = {}
         /\ \A u \in Threads : u # t => fan'[u] = fan[u]
BY DEF Types

(* The roster changes; who has a socket is told.                           *)
LEMMA ChangeParts ==
  ASSUME Types, NEW m \in Others, NEW r \in SUBSET Hosts, Change(m, r)
  PROVE  /\ wire' \in [Hosts -> [Hosts -> Seq(Frames)]]
         /\ roster' \in [Hosts -> SUBSET Hosts]
         /\ roster'[Owner] = r /\ \A h \in Hosts : h # Owner => roster'[h] = roster[h]
         /\ \A i, j \in Hosts :
              \/ wire'[i][j] = wire[i][j]
              \/ /\ i = Owner /\ Connected(Owner, j)
                 /\ \E f \in Frames :
                      /\ wire'[i][j] = Append(wire[i][j], f)
                      /\ IF j \in r THEN f = State(r) ELSE f = Gone /\ j = m
<1> DEFINE next(h) == IF h = Owner \/ ~Connected(Owner, h) THEN wire[Owner][h]
                      ELSE IF h \in r THEN Append(wire[Owner][h], State(r))
                      ELSE IF h = m THEN Append(wire[Owner][h], Gone) ELSE wire[Owner][h]
           w == [h \in Hosts |-> next(h)]
<1>1. State(r) \in Frames /\ Gone \in Frames
  BY DEF State, Gone, Frames, StateFrames
<1>2. \A h \in Hosts : wire[Owner][h] \in Seq(Frames)
  BY HostFacts DEF Types
<1>3. \A h \in Hosts : next(h) \in Seq(Frames)
  BY <1>1, <1>2
<1>4. wire' = [wire EXCEPT ![Owner] = w]
  BY DEF Change
<1>5. \A h \in Hosts :
        \/ next(h) = wire[Owner][h]
        \/ /\ Connected(Owner, h)
           /\ \E f \in Frames :
                /\ next(h) = Append(wire[Owner][h], f)
                /\ IF h \in r THEN f = State(r) ELSE f = Gone /\ h = m
  BY <1>1
<1> HIDE DEF next
<1>6. w \in [Hosts -> Seq(Frames)] /\ \A h \in Hosts : w[h] = next(h)
  BY <1>3
<1> HIDE DEF w
<1>7. /\ wire' \in [Hosts -> [Hosts -> Seq(Frames)]] /\ wire'[Owner] = w
      /\ \A i \in Hosts : i # Owner => wire'[i] = wire[i]
  BY <1>4, <1>6, HostFacts DEF Types
<1>8. /\ roster' \in [Hosts -> SUBSET Hosts] /\ roster'[Owner] = r
      /\ \A h \in Hosts : h # Owner => roster'[h] = roster[h]
  BY HostFacts DEF Change, Types
<1> QED
  BY <1>5, <1>6, <1>7, <1>8

LEMMA RosterParts ==
  ASSUME Types, NEW h \in Others, HearRoster(h)
  PROVE  /\ roster' \in [Hosts -> SUBSET Hosts]
         /\ \A i \in Hosts : i # h => roster'[i] = roster[i]
         /\ Arrives(Owner, h) /\ Next1(Owner, h).kind \in {"state", "gone"}
         /\ roster'[h] = IF Next1(Owner, h).kind = "gone" THEN {} ELSE Next1(Owner, h).roster
<1> DEFINE r == IF Next1(Owner, h).kind = "gone" THEN {} ELSE Next1(Owner, h).roster
<1>1. Arrives(Owner, h) /\ Next1(Owner, h).kind \in {"state", "gone"} /\ wire[Owner][h] # <<>>
  BY DEF HearRoster, Arrives
<1>2. r \in SUBSET Hosts
  BY <1>1, HeadMeans, HostFacts
<1>3. roster' = [roster EXCEPT ![h] = r]
  BY DEF HearRoster
<1> HIDE DEF r
<1>4. roster' \in [Hosts -> SUBSET Hosts] /\ roster'[h] = r /\ \A i \in Hosts : i # h => roster'[i] = roster[i]
  BY <1>2, <1>3, HostFacts DEF Types
<1> QED
  BY <1>1, <1>4 DEF r

----------------------------------------------------------------------------

LEMMA TypesInit == Init => Types
<1> SUFFICES ASSUME Init
             PROVE  Types
  OBVIOUS
<1>1. PICK r \in SUBSET Others :
        roster = [h \in Hosts |-> IF h \in r \union {Owner} THEN r \union {Owner} ELSE {}]
  BY DEF Init
<1>2. r \union {Owner} \in SUBSET Hosts
  BY HostFacts
<1>3. roster \in [Hosts -> SUBSET Hosts]
  BY <1>1, <1>2
<1>4. <<>> \in Seq(Frames) /\ <<>> \in Seq(TextFrames)
  OBVIOUS
<1>5. wire \in [Hosts -> [Hosts -> Seq(Frames)]] /\ hold \in [Hosts -> [Hosts -> Seq(TextFrames)]]
  BY <1>4 DEF Init
<1>6. fan \in [Threads -> SUBSET Fans]
  BY DEF Init
<1>7. shown \in [Hosts -> [Posts -> Nat]] /\ missed \in [Hosts -> SUBSET Posts]
  BY DEF Init
<1> QED
  BY <1>3, <1>5, <1>6, <1>7 DEF Init, Types

LEMMA TypesStep == Types /\ [Next]_vars => Types'
<1> SUFFICES ASSUME Types, [Next]_vars
             PROVE  Types'
  OBVIOUS
<1> USE HostFacts, ThreadFacts
<1>1. CASE UNCHANGED vars
  BY <1>1 DEF vars, Types
<1>2. ASSUME NEW p \in Posts, Post(p) PROVE Types'
  <2>1. Begin(User(Author[p]), p) /\ User(Author[p]) \in Threads
    BY <1>2 DEF Post
  <2>2. fan' \in [Threads -> SUBSET Fans]
    BY <2>1, BeginParts
  <2> QED
    BY <1>2, <2>2 DEF Post, Types
<1>3. ASSUME NEW p \in Posts, PostFile(p) PROVE Types'
  <2>1. WritePost(Author[p], Owner, p) /\ Show(Author[p], p)
    BY <1>3 DEF PostFile
  <2>2. /\ wire' \in [Hosts -> [Hosts -> Seq(Frames)]] /\ hold' \in [Hosts -> [Hosts -> Seq(TextFrames)]]
        /\ missed' \in [Hosts -> SUBSET Posts]
    BY <2>1, WriteParts
  <2>3. shown' \in [Hosts -> [Posts -> Nat]]
    BY <2>1, ShowParts
  <2> QED
    BY <1>3, <2>2, <2>3 DEF PostFile, Types
<1>4. ASSUME NEW t \in Threads, FanEnd(t) PROVE Types'
  <2>1. PICK f \in fan[t] : Show(HostOf(t), f.post) /\ fan' = [fan EXCEPT ![t] = {}]
    BY <1>4 DEF FanEnd
  <2>2. f.post \in Posts
    BY DEF Types, Fans
  <2>3. shown' \in [Hosts -> [Posts -> Nat]] /\ fan' \in [Threads -> SUBSET Fans]
    BY <2>1, <2>2, ShowParts, EmptiedParts
  <2> QED
    BY <1>4, <2>3 DEF FanEnd, Types
<1>5. ASSUME NEW t \in Threads, FanBreaks(t) PROVE Types'
  <2>1. PICK f \in fan[t] : /\ Upset(t, f) /\ fan' = [fan EXCEPT ![t] = {}]
                            /\ IF t = User(Owner)
                               THEN missed' = [h \in Hosts |-> missed[h] \union {f.post}] /\ UNCHANGED <<up, wire>>
                               ELSE Break(Owner, t[2], {f.post})
    BY <1>5 DEF FanBreaks
  <2>2. f.post \in Posts
    BY DEF Types, Fans
  <2>3. fan' \in [Threads -> SUBSET Fans]
    BY <2>1, EmptiedParts
  <2>4. CASE t = User(Owner)
    <3>1. missed' \in [Hosts -> SUBSET Posts] /\ UNCHANGED <<up, wire>>
      BY <2>1, <2>2, <2>4 DEF Types
    <3> QED
      BY <1>5, <2>3, <3>1 DEF FanBreaks, Types
  <2>5. CASE t # User(Owner)
    <3>1. HostOf(t) = Owner
      BY <2>1 DEF Upset, Over
    <3>2. t[2] \in Hosts /\ {f.post} \in SUBSET Posts /\ Break(Owner, t[2], {f.post})
      BY <2>1, <2>2, <2>5, <3>1
    <3>3. wire' \in [Hosts -> [Hosts -> Seq(Frames)]] /\ up' \subseteq up /\ missed' \in [Hosts -> SUBSET Posts]
      BY <3>2, BreakParts
    <3> QED
      BY <1>5, <2>3, <3>3 DEF FanBreaks, Types
  <2> QED
    BY <2>4, <2>5
<1>6. ASSUME NEW t \in Threads, NEW h \in Hosts, FanNext(t, h) PROVE Types'
  <2>1. PICK f \in fan[t] : WritePost(HostOf(t), h, f.post)
    BY <1>6, FanNextParts
  <2>2. f.post \in Posts
    BY DEF Types, Fans
  <2>3. /\ wire' \in [Hosts -> [Hosts -> Seq(Frames)]] /\ hold' \in [Hosts -> [Hosts -> Seq(TextFrames)]]
        /\ missed' \in [Hosts -> SUBSET Posts]
    BY <2>1, <2>2, WriteParts
  <2>4. fan' \in [Threads -> SUBSET Fans]
    BY <1>6, FanNextParts
  <2> QED
    BY <1>6, <2>3, <2>4 DEF FanNext, Types
<1>7. ASSUME NEW g \in Hosts, NEW h \in Hosts, HearText(g, h) PROVE Types'
  <2>1. Arrives(g, h) /\ wire[g][h] # <<>> /\ Next1(g, h).kind = "text"
    BY <1>7 DEF HearText, Arrives
  <2>2. wire' \in [Hosts -> [Hosts -> Seq(Frames)]] /\ Next1(g, h).post \in Posts
    BY <2>1, ArrivesParts, HeadMeans
  <2>3. shown' \in [Hosts -> [Posts -> Nat]]
    <3>1. Show(h, Next1(g, h).post) \/ shown' = shown
      BY <1>7 DEF HearText
    <3> QED
      BY <2>2, <3>1, ShowParts DEF Types
  <2> QED
    BY <1>7, <2>2, <2>3 DEF HearText, Types
<1>8. ASSUME NEW g \in Hosts, NEW h \in Hosts, Disconnect(g, h) PROVE Types'
  <2>1. /\ wire' \in [Hosts -> [Hosts -> Seq(Frames)]] /\ up' \subseteq up
        /\ missed' \in [Hosts -> SUBSET Posts]
    <3>1. Break(g, h, {}) /\ {} \in SUBSET Posts
      BY <1>8 DEF Disconnect
    <3> QED
      BY <3>1, BreakParts
  <2> QED
    BY <1>8, <2>1 DEF Disconnect, Types
<1>9. ASSUME NEW g \in Hosts, NEW h \in Hosts, Connect(g, h) PROVE Types'
  <2>1. wire' \in [Hosts -> [Hosts -> Seq(Frames)]] /\ hold' \in [Hosts -> [Hosts -> Seq(TextFrames)]]
    BY <1>9, ConnectParts
  <2>2. up' \subseteq Friends /\ UNCHANGED <<roster, fan, posted, shown, missed, churned>>
    BY <1>9 DEF Connect, Types
  <2> QED
    BY <2>1, <2>2 DEF Types
<1>10. ASSUME NEW m \in Others, Relay(m) PROVE Types'
  <2>1. Arrives(m, Owner) /\ wire[m][Owner] # <<>> /\ Next1(m, Owner).kind = "file"
    BY <1>10 DEF Relay, Arrives
  <2>2. wire' \in [Hosts -> [Hosts -> Seq(Frames)]] /\ Next1(m, Owner).post \in Posts
    BY <2>1, ArrivesParts, HeadMeans
  <2>3. fan' \in [Threads -> SUBSET Fans]
    <3>1. Begin(Reader(m), Next1(m, Owner).post) \/ fan' = fan
      BY <1>10 DEF Relay
    <3> QED
      BY <2>2, <3>1, BeginParts DEF Types
  <2> QED
    BY <1>10, <2>2, <2>3 DEF Relay, Types
<1>11. ASSUME NEW h \in Others, HearFile(h) PROVE Types'
  <2>1. Arrives(Owner, h) /\ wire[Owner][h] # <<>> /\ Next1(Owner, h).kind = "file"
    BY <1>11 DEF HearFile, Arrives
  <2>2. wire' \in [Hosts -> [Hosts -> Seq(Frames)]] /\ Next1(Owner, h).post \in Posts
    BY <2>1, ArrivesParts, HeadMeans
  <2>3. shown' \in [Hosts -> [Posts -> Nat]]
    <3>1. Show(h, Next1(Owner, h).post) \/ shown' = shown
      BY <1>11 DEF HearFile
    <3> QED
      BY <2>2, <3>1, ShowParts DEF Types
  <2> QED
    BY <1>11, <2>2, <2>3 DEF HearFile, Types
<1>12. ASSUME NEW h \in Others, HearRoster(h) PROVE Types'
  <2>1. roster' \in [Hosts -> SUBSET Hosts] /\ Arrives(Owner, h)
    BY <1>12, RosterParts
  <2>2. wire' \in [Hosts -> [Hosts -> Seq(Frames)]]
    BY <2>1, ArrivesParts
  <2> QED
    BY <1>12, <2>1, <2>2 DEF HearRoster, Types
<1>13. ASSUME NEW m \in Others, Admit(m) \/ Remove(m) PROVE Types'
  <2>1. PICK r \in SUBSET Hosts : Change(m, r)
    <3>1. roster[Owner] \in SUBSET Hosts
      BY DEF Types
    <3> QED
      BY <1>13, <3>1 DEF Admit, Remove
  <2>2. wire' \in [Hosts -> [Hosts -> Seq(Frames)]] /\ roster' \in [Hosts -> SUBSET Hosts]
    BY <2>1, ChangeParts
  <2> QED
    BY <2>1, <2>2 DEF Change, Types
<1> QED
  BY <1>1, <1>2, <1>3, <1>4, <1>5, <1>6, <1>7, <1>8, <1>9, <1>10, <1>11, <1>12, <1>13 DEF Next

----------------------------------------------------------------------------
(* What the steps do to the posts on the wires: a pair of hosts has p no   *)
(* oftener, or still has it.                                               *)
WireFewer(g, h, p) ==
  /\ Carries(wire'[g][h], p) => Carries(wire[g][h], p)
  /\ Single(wire[g][h], p) => Single(wire'[g][h], p)
HoldFewer(g, h, p) ==
  /\ Carries(hold'[g][h], p) => Carries(hold[g][h], p)
  /\ Single(hold[g][h], p) => Single(hold'[g][h], p)

LEMMA FewerSame ==
  /\ wire' = wire => \A g, h, p : WireFewer(g, h, p)
  /\ hold' = hold => \A g, h, p : HoldFewer(g, h, p)
BY DEF WireFewer, HoldFewer

LEMMA HeldAreTexts ==
  ASSUME Types, NEW g \in Hosts, NEW h \in Hosts, NEW p, Carries(hold[g][h], p)
  PROVE  p \in Texts
<1>1. hold[g][h] \in Seq(TextFrames)
  BY DEF Types
<1>2. PICK i \in DOMAIN hold[g][h] : Brings(hold[g][h][i], p)
  BY DEF Carries
<1>3. hold[g][h][i] \in TextFrames
  BY <1>1, <1>2
<1> QED
  BY <1>2, <1>3 DEF TextFrames, Brings

LEMMA WriteCarries ==
  ASSUME Types, NEW g \in Hosts, NEW h \in Hosts, NEW p \in Posts, WritePost(g, h, p)
  PROVE  /\ \A i, j \in Hosts : \A q : i # g \/ j # h \/ q # p => WireFewer(i, j, q) /\ HoldFewer(i, j, q)
         /\ \A i, j \in Hosts : \A q : (Carries(wire[i][j], q) => Carries(wire'[i][j], q))
                                       /\ (Carries(hold[i][j], q) => Carries(hold'[i][j], q))
         /\ IF Connected(g, h)
            THEN /\ Carries(wire'[g][h], p) /\ hold' = hold
                 /\ Single(wire[g][h], p) /\ ~Carries(wire[g][h], p) => Single(wire'[g][h], p)
            ELSE /\ wire' = wire
                 /\ IF p \in Texts
                    THEN /\ Carries(hold'[g][h], p)
                         /\ Single(hold[g][h], p) /\ ~Carries(hold[g][h], p) => Single(hold'[g][h], p)
                    ELSE hold' = hold /\ p \in missed'[h]
<1>1. /\ \A i, j \in Hosts : (i # g \/ j # h) => wire'[i][j] = wire[i][j] /\ hold'[i][j] = hold[i][j]
      /\ IF Connected(g, h)
         THEN wire'[g][h] = Append(wire[g][h], Frame(p)) /\ hold' = hold
         ELSE /\ wire' = wire
              /\ IF p \in Texts THEN hold'[g][h] = Append(hold[g][h], Frame(p))
                 ELSE hold' = hold /\ p \in missed'[h]
  BY WriteParts
<1>2. /\ Frame(p) \in Frames /\ (p \in Texts => Frame(p) \in TextFrames)
      /\ \A q : Brings(Frame(p), q) <=> q = p
  BY FrameMeans
<1>3. wire[g][h] \in Seq(Frames) /\ hold[g][h] \in Seq(TextFrames)
  BY DEF Types
<1>4. \A q : LET s == Append(wire[g][h], Frame(p))
             IN  /\ Carries(s, q) <=> Carries(wire[g][h], q) \/ q = p
                 /\ Single(wire[g][h], q) /\ ~(Carries(wire[g][h], q) /\ q = p) => Single(s, q)
  BY <1>2, <1>3, CarriesAppend
<1>5. p \in Texts =>
        \A q : LET s == Append(hold[g][h], Frame(p))
               IN  /\ Carries(s, q) <=> Carries(hold[g][h], q) \/ q = p
                   /\ Single(hold[g][h], q) /\ ~(Carries(hold[g][h], q) /\ q = p) => Single(s, q)
  BY <1>2, <1>3, CarriesAppend
<1>6. CASE Connected(g, h)
  BY <1>1, <1>4, <1>6 DEF WireFewer, HoldFewer
<1>7. CASE ~Connected(g, h) /\ p \in Texts
  BY <1>1, <1>5, <1>7 DEF WireFewer, HoldFewer
<1>8. CASE ~Connected(g, h) /\ p \notin Texts
  BY <1>1, <1>8 DEF WireFewer, HoldFewer
<1> QED
  BY <1>6, <1>7, <1>8

LEMMA ArrivesCarries ==
  ASSUME Types, NEW g \in Hosts, NEW h \in Hosts, Arrives(g, h)
  PROVE  /\ \A i, j \in Hosts : \A q : WireFewer(i, j, q)
         /\ \A i, j \in Hosts : \A q :
              Carries(wire[i][j], q) => Carries(wire'[i][j], q) \/ (i = g /\ j = h /\ Brings(Next1(g, h), q))
         /\ \A q : Brings(Next1(g, h), q) => /\ Carries(wire[g][h], q)
                                             /\ Single(wire[g][h], q) => ~Carries(wire'[g][h], q)
<1>1. /\ wire[g][h] # <<>> /\ wire[g][h] \in Seq(Frames)
      /\ wire'[g][h] = Tail(wire[g][h])
      /\ \A i, j \in Hosts : i # g \/ j # h => wire'[i][j] = wire[i][j]
  BY ArrivesParts
<1> DEFINE s == wire[g][h]
<1>2. \A q : /\ Carries(Tail(s), q) => Carries(s, q)
             /\ Carries(s, q) => Brings(Head(s), q) \/ Carries(Tail(s), q)
             /\ Brings(Head(s), q) => Carries(s, q)
             /\ Single(s, q) => Single(Tail(s), q)
             /\ Single(s, q) /\ Brings(Head(s), q) => ~Carries(Tail(s), q)
  BY <1>1, CarriesTail
<1>3. Next1(g, h) = Head(s)
  BY DEF Next1
<1> QED
  BY <1>1, <1>2, <1>3 DEF WireFewer

LEMMA BreakCarries ==
  ASSUME Types, NEW g \in Hosts, NEW h \in Hosts, NEW S \in SUBSET Posts, Break(g, h, S)
  PROVE  \A i, j \in Hosts : \A q : WireFewer(i, j, q)
<1>1. \A i, j \in Hosts : wire'[i][j] = wire[i][j] \/ wire'[i][j] = <<>>
  BY BreakParts
<1>2. \A q : ~Carries(<<>>, q) /\ Single(<<>>, q)
  BY CarriesNothing
<1> QED
  BY <1>1, <1>2 DEF WireFewer

LEMMA ChangeCarries ==
  ASSUME Types, NEW m \in Others, NEW r \in SUBSET Hosts, Change(m, r)
  PROVE  \A i, j \in Hosts : \A q : WireFewer(i, j, q) /\ (Carries(wire[i][j], q) => Carries(wire'[i][j], q))
<1> SUFFICES ASSUME NEW i \in Hosts, NEW j \in Hosts, NEW q
             PROVE  WireFewer(i, j, q) /\ (Carries(wire[i][j], q) => Carries(wire'[i][j], q))
  OBVIOUS
<1>1. CASE wire'[i][j] = wire[i][j]
  BY <1>1 DEF WireFewer
<1>2. CASE \E f \in Frames : wire'[i][j] = Append(wire[i][j], f) /\ (f = State(r) \/ f = Gone)
  <2>1. PICK f \in Frames : wire'[i][j] = Append(wire[i][j], f) /\ (f = State(r) \/ f = Gone)
    BY <1>2
  <2>2. ~Brings(f, q)
    BY <2>1 DEF Brings, State, Gone
  <2>3. wire[i][j] \in Seq(Frames)
    BY DEF Types
  <2> QED
    BY <2>1, <2>2, <2>3, CarriesAppend DEF WireFewer
<1>3. \/ wire'[i][j] = wire[i][j]
      \/ \E f \in Frames :
           /\ wire'[i][j] = Append(wire[i][j], f)
           /\ IF j \in r THEN f = State(r) ELSE f = Gone /\ j = m
  BY ChangeParts
<1> QED
  BY <1>1, <1>2, <1>3

LEMMA ConnectCarries ==
  ASSUME Types, NEW g \in Hosts, NEW h \in Hosts, Connect(g, h)
  PROVE  /\ \A i, j \in Hosts : \A q : HoldFewer(i, j, q)
         /\ \A i, j \in Hosts : \A q :
              Single(hold[i][j], q) /\ Single(wire[i][j], q) => Single(wire'[i][j], q)
         /\ \A i, j \in Hosts : \A q :
              IF Pair(i, j) = Pair(g, h)
              THEN (Carries(wire'[i][j], q) <=> Carries(hold[i][j], q)) /\ ~Carries(hold'[i][j], q)
              ELSE /\ Carries(wire'[i][j], q) <=> Carries(wire[i][j], q)
                   /\ Carries(hold'[i][j], q) <=> Carries(hold[i][j], q)
<1>1. \A i, j \in Hosts :
        IF Pair(i, j) = Pair(g, h)
        THEN wire'[i][j] = hold[i][j] /\ hold'[i][j] = <<>>
        ELSE wire'[i][j] = wire[i][j] /\ hold'[i][j] = hold[i][j]
  BY ConnectParts
<1>2. \A q : ~Carries(<<>>, q) /\ Single(<<>>, q)
  BY CarriesNothing
<1> QED
  BY <1>1, <1>2 DEF HoldFewer

----------------------------------------------------------------------------
(* Where posts can be.                                                     *)

LEMMA OneRoute ==
  ASSUME NEW g, NEW i, NEW h, NEW p, Route(g, h, p), Route(i, h, p)
  PROVE  g = i
BY DEF Route

LEMMA HomeKept ==
  ASSUME HomeInv, posted \subseteq posted', \A t \in Threads : fan'[t] \subseteq fan[t],
         \A g, h \in Hosts, p \in Posts : WireFewer(g, h, p) /\ HoldFewer(g, h, p)
  PROVE  HomeInv'
<1>1. \A g, h \in Hosts, p \in Posts : WireHome(g, h, p)' /\ HoldHome(g, h, p)'
  BY DEF HomeInv, WireHome, HoldHome, WireFewer, HoldFewer
<1>2. \A t \in Threads : \A f \in fan'[t] : FanHome(t, f)'
  BY DEF HomeInv, FanHome
<1> QED
  BY <1>1, <1>2 DEF HomeInv

LEMMA OnceKept ==
  ASSUME NEW h \in Hosts, NEW p \in Posts, Once(h, p), posted \subseteq posted',
         shown'[h][p] = shown[h][p], Upstream(p)' => Upstream(p),
         Fanned(p)' => Fanned(p), Pending(h, p)' => Pending(h, p),
         \A g \in Hosts : WireFewer(g, h, p) /\ HoldFewer(g, h, p)
  PROVE  Once(h, p)'
<1>1. (Written(h, p)' => Written(h, p)) /\ (Held(h, p)' => Held(h, p))
  BY DEF Written, Held, WireFewer, HoldFewer
<1>2. \A g \in Hosts : Single(wire'[g][h], p) /\ Single(hold'[g][h], p)
  BY DEF Once, WireFewer, HoldFewer
<1> QED
  BY <1>1, <1>2 DEF Once

LEMMA FewerUpstream ==
  ASSUME NEW p \in Posts, WireFewer(Author[p], Owner, p)
  PROVE  Upstream(p)' => Upstream(p)
BY DEF Upstream, WireFewer

LEMMA FewerFanned ==
  ASSUME NEW p \in Posts, fan'[FanOf(p)] \subseteq fan[FanOf(p)]
  PROVE  (Fanned(p)' => Fanned(p)) /\ \A h : Pending(h, p)' => Pending(h, p)
BY DEF Fanned, Pending

(* A step that only takes away.                                            *)
LEMMA PostsKept ==
  ASSUME Types, PostInv, posted' = posted, shown' = shown,
         \A t \in Threads : fan'[t] \subseteq fan[t],
         \A g, h \in Hosts, p \in Posts : WireFewer(g, h, p) /\ HoldFewer(g, h, p)
  PROVE  PostInv'
<1>1. HomeInv'
  BY HomeKept DEF PostInv
<1>2. ASSUME NEW h \in Hosts, NEW p \in Posts, Minds(h, p)
      PROVE  Once(h, p)'
  <2>1. Author[p] \in Hosts /\ Owner \in Hosts /\ FanOf(p) \in Threads
    BY HostFacts, ThreadFacts
  <2>2. Once(h, p)
    BY <1>2 DEF PostInv, OnceInv
  <2> QED
    BY <2>1, <2>2, OnceKept, FewerUpstream, FewerFanned
<1> QED
  BY <1>1, <1>2 DEF PostInv, OnceInv, Minds

----------------------------------------------------------------------------
(* Each step keeps every post in one place.                                *)

LEMMA PostOnce ==
  ASSUME Types, PostInv, NEW p \in Posts, Post(p)
  PROVE  PostInv'
<1> DEFINE t == User(Author[p])
<1>1. /\ Author[p] \in Hosts /\ t \in Threads /\ HostOf(t) = Author[p]
      /\ \A q \in Posts : FanOf(q) \in Threads
  BY HostFacts, ThreadFacts
<1>2. /\ p \notin posted /\ fan[t] = {} /\ posted' = posted \union {p} /\ Begin(t, p)
      /\ wire' = wire /\ hold' = hold /\ shown' = shown /\ t = FanOf(p)
  BY HostFacts DEF Post, FanOf
<1> HIDE DEF t
<1>3. PICK e \in Fans : fan'[t] = {e} /\ e.post = p /\ e.done = {}
  BY <1>1, <1>2, BeginParts
<1>4. \A u \in Threads : u # t => fan'[u] = fan[u]
  BY <1>1, <1>2, BeginParts
<1>5. \A g, h, q : WireFewer(g, h, q) /\ HoldFewer(g, h, q)
  BY <1>2, FewerSame
<1>6. HomeInv'
  <2>1. \A g, h \in Hosts, q \in Posts : WireHome(g, h, q)' /\ HoldHome(g, h, q)'
    BY <1>2 DEF PostInv, HomeInv, WireHome, HoldHome
  <2>2. \A u \in Threads : \A f \in fan'[u] : FanHome(u, f)'
    <3> SUFFICES ASSUME NEW u \in Threads, NEW f \in fan'[u]
                 PROVE  FanHome(u, f)'
      OBVIOUS
    <3>1. CASE u = t
      BY <1>1, <1>2, <1>3, <3>1 DEF FanHome
    <3>2. CASE u # t
      BY <1>2, <1>4, <3>2 DEF PostInv, HomeInv, FanHome
    <3> QED
      BY <3>1, <3>2
  <2> QED
    BY <2>1, <2>2 DEF HomeInv
<1>7. ASSUME NEW h \in Hosts, NEW q \in Posts, Minds(h, q)
      PROVE  Once(h, q)'
  <2>1. Once(h, q)
    BY <1>7 DEF PostInv, OnceInv
  <2>2. Upstream(q)' <=> Upstream(q)
    BY <1>2 DEF Upstream
  <2>3. CASE q # p
    <3>1. (Fanned(q)' => Fanned(q)) /\ (Pending(h, q)' => Pending(h, q))
      <4>1. CASE FanOf(q) = t
        BY <1>3, <2>3, <4>1 DEF Fanned, Pending
      <4>2. CASE FanOf(q) # t
        BY <1>1, <1>4, <4>2 DEF Fanned, Pending
      <4> QED
        BY <4>1, <4>2
    <3> QED
      BY <1>2, <1>5, <2>1, <2>2, <3>1, OnceKept
  <2>4. CASE q = p
    <3>1. \A g, j \in Hosts : ~Carries(wire[g][j], p) /\ ~Carries(hold[g][j], p)
      BY <1>2 DEF PostInv, HomeInv, WireHome, HoldHome
    <3>2. ~Written(h, p)' /\ ~Held(h, p)' /\ ~Upstream(p)'
      BY <1>1, <1>2, <2>2, <3>1, HostFacts DEF Written, Held, Upstream
    <3> QED
      BY <1>2, <2>1, <2>4, <3>2 DEF Once
  <2> QED
    BY <2>3, <2>4
<1> QED
  BY <1>6, <1>7 DEF PostInv, OnceInv, Minds

LEMMA PostFileOnce ==
  ASSUME Types, PostInv, NEW p \in Posts, PostFile(p)
  PROVE  PostInv'
<1> DEFINE a == Author[p]
<1>1. /\ a \in Hosts /\ Owner \in Hosts /\ p \in Posts /\ \A q \in Posts : FanOf(q) \in Threads
      /\ p \in Files /\ p \notin Texts
  BY HostFacts, ThreadFacts DEF PostFile
<1>2. /\ p \notin posted /\ a # Owner /\ Connected(a, Owner) /\ WritePost(a, Owner, p) /\ Show(a, p)
      /\ posted' = posted \union {p} /\ fan' = fan
  BY DEF PostFile
<1>3. /\ \A i, j \in Hosts : \A q : i # a \/ j # Owner \/ q # p => WireFewer(i, j, q) /\ HoldFewer(i, j, q)
      /\ Carries(wire'[a][Owner], p) /\ hold' = hold
      /\ Single(wire[a][Owner], p) /\ ~Carries(wire[a][Owner], p) => Single(wire'[a][Owner], p)
  BY <1>1, <1>2, WriteCarries
<1>4. \A g, h \in Hosts : ~Carries(wire[g][h], p) /\ ~Carries(hold[g][h], p)
  BY <1>2 DEF PostInv, HomeInv, WireHome, HoldHome
<1>5. \A i \in Hosts, q \in Posts : i # a \/ q # p => shown'[i][q] = shown[i][q]
  BY <1>1, <1>2, ShowParts
<1>6. ~Fanned(p)
  BY <1>1, <1>2 DEF Fanned, PostInv, HomeInv, FanHome
<1>7. Route(a, Owner, p)
  BY <1>2 DEF Route
<1> HIDE DEF a
<1>8. HomeInv'
  <2>1. \A g, h \in Hosts, q \in Posts : WireHome(g, h, q)' /\ HoldHome(g, h, q)'
    <3> SUFFICES ASSUME NEW g \in Hosts, NEW h \in Hosts, NEW q \in Posts
                 PROVE  WireHome(g, h, q)' /\ HoldHome(g, h, q)'
      OBVIOUS
    <3>1. CASE g = a /\ h = Owner /\ q = p
      BY <1>2, <1>3, <1>4, <1>7, <3>1 DEF WireHome, HoldHome
    <3>2. CASE ~(g = a /\ h = Owner /\ q = p)
      BY <1>2, <1>3, <3>2 DEF PostInv, HomeInv, WireHome, HoldHome, WireFewer, HoldFewer
    <3> QED
      BY <3>1, <3>2
  <2>2. \A u \in Threads : \A f \in fan'[u] : FanHome(u, f)'
    BY <1>2 DEF PostInv, HomeInv, FanHome
  <2> QED
    BY <2>1, <2>2 DEF HomeInv
<1>9. ASSUME NEW h \in Hosts, NEW q \in Posts, Minds(h, q)
      PROVE  Once(h, q)'
  <2>1. Once(h, q)
    BY <1>9 DEF PostInv, OnceInv
  <2>2. CASE q # p
    <3>1. WireFewer(Author[q], Owner, q)
      BY <1>1, <1>3, <2>2, HostFacts
    <3>2. (Fanned(q)' => Fanned(q)) /\ (Pending(h, q)' => Pending(h, q))
      BY <1>2 DEF Fanned, Pending
    <3> QED
      BY <1>2, <1>3, <1>5, <2>1, <2>2, <3>1, <3>2, FewerUpstream, OnceKept
  <2>3. CASE q = p
    <3>1. h # a
      BY <1>1, <1>9, <2>3 DEF Minds, a
    <3>2. shown'[h][p] = 0
      BY <1>2, <1>5, <2>1, <2>3, <3>1 DEF Once
    <3>3. ~Fanned(p)' /\ ~Pending(h, p)'
      BY <1>2, <1>6 DEF Fanned, Pending
    <3>4. ~Held(h, p)'
      BY <1>3, <1>4 DEF Held
    <3>5. h # Owner => ~Written(h, p)'
      BY <1>3, <1>4 DEF Written, WireFewer
    <3>6. \A g \in Hosts : Single(wire'[g][h], p) /\ Single(hold'[g][h], p)
      BY <1>3, <1>4, <2>1, <2>3 DEF Once, WireFewer, HoldFewer
    <3> QED
      BY <1>2, <2>3, <3>2, <3>3, <3>4, <3>5, <3>6 DEF Once
  <2> QED
    BY <2>2, <2>3
<1> QED
  BY <1>8, <1>9 DEF PostInv, OnceInv, Minds

LEMMA FanNextOnce ==
  ASSUME Types, PostInv, NEW t \in Threads, NEW h \in Hosts, FanNext(t, h)
  PROVE  PostInv'
<1> DEFINE g == HostOf(t)
<1>1. PICK f \in fan[t], e \in Fans :
        /\ h \in Left(t, f) /\ WritePost(g, h, f.post)
        /\ fan'[t] = {e} /\ e.post = f.post /\ e.done = f.done \union {h}
  BY FanNextParts
<1>7. posted' = posted /\ shown' = shown
  BY DEF FanNext
<1> DEFINE p == f.post
<1>0. p \in Posts
  BY DEF Types, Fans
<1>2. /\ p \in Posts /\ g \in Hosts /\ Owner \in Hosts /\ \A q \in Posts : FanOf(q) \in Threads
  BY <1>0, HostFacts, ThreadFacts
<1>3. fan[t] = {f} /\ p \in posted /\ t = FanOf(p) /\ g \notin f.done
  BY DEF PostInv, HomeInv, FanHome
<1>4. h # g /\ h \notin f.done
  BY <1>1 DEF Left
<1>5. g = IF p \in Texts THEN Author[p] ELSE Owner
  BY <1>2, <1>3, ThreadFacts
<1>6. Route(g, h, p)
  BY <1>4, <1>5 DEF Route
<1>8. \A u \in Threads : u # t => fan'[u] = fan[u]
  BY FanNextParts
<1> HIDE DEF g, p
<1>9. /\ \A i, j \in Hosts : \A q : i # g \/ j # h \/ q # p => WireFewer(i, j, q) /\ HoldFewer(i, j, q)
      /\ IF Connected(g, h)
         THEN /\ Carries(wire'[g][h], p) /\ hold' = hold
              /\ Single(wire[g][h], p) /\ ~Carries(wire[g][h], p) => Single(wire'[g][h], p)
         ELSE /\ wire' = wire
              /\ IF p \in Texts
                 THEN /\ Carries(hold'[g][h], p)
                      /\ Single(hold[g][h], p) /\ ~Carries(hold[g][h], p) => Single(hold'[g][h], p)
                 ELSE hold' = hold
  <2>1. WritePost(g, h, p)
    BY <1>1 DEF g, p
  <2> QED
    BY <1>2, <2>1, WriteCarries
<1>10. HomeInv'
  <2>1. \A i, j \in Hosts, q \in Posts : WireHome(i, j, q)' /\ HoldHome(i, j, q)'
    <3> SUFFICES ASSUME NEW i \in Hosts, NEW j \in Hosts, NEW q \in Posts
                 PROVE  WireHome(i, j, q)' /\ HoldHome(i, j, q)'
      OBVIOUS
    <3>1. CASE i = g /\ j = h /\ q = p
      BY <1>7, <1>3, <1>6, <3>1 DEF WireHome, HoldHome
    <3>2. CASE ~(i = g /\ j = h /\ q = p)
      BY <1>7, <1>9, <3>2 DEF PostInv, HomeInv, WireHome, HoldHome, WireFewer, HoldFewer
    <3> QED
      BY <3>1, <3>2
  <2>2. \A u \in Threads : \A d \in fan'[u] : FanHome(u, d)'
    <3> SUFFICES ASSUME NEW u \in Threads, NEW d \in fan'[u]
                 PROVE  FanHome(u, d)'
      OBVIOUS
    <3>1. CASE u = t
      BY <1>1, <1>3, <1>4, <1>7, <3>1 DEF FanHome, g, p
    <3>2. CASE u # t
      BY <1>7, <1>8, <3>2 DEF PostInv, HomeInv, FanHome
    <3> QED
      BY <3>1, <3>2
  <2> QED
    BY <2>1, <2>2 DEF HomeInv
<1>11. ASSUME NEW j \in Hosts, NEW q \in Posts, Minds(j, q)
       PROVE  Once(j, q)'
  <2>1. Once(j, q)
    BY <1>11 DEF PostInv, OnceInv
  <2>2. (Fanned(q)' => Fanned(q)) /\ (Pending(j, q)' => Pending(j, q))
    <3>1. CASE FanOf(q) = t
      BY <1>1, <1>3, <3>1 DEF Fanned, Pending, p
    <3>2. CASE FanOf(q) # t
      BY <1>2, <1>8, <3>2 DEF Fanned, Pending
    <3> QED
      BY <3>1, <3>2
  <2>3. Upstream(q)' => Upstream(q)
    <3>1. q \in Files => WireFewer(Author[q], Owner, q)
      BY <1>2, <1>4, <1>5, <1>9, HostFacts
    <3> QED
      BY <3>1, FewerUpstream DEF Upstream
  <2>4. CASE j # h \/ q # p
    BY <1>7, <1>2, <1>9, <2>1, <2>2, <2>3, <2>4, OnceKept
  <2>5. CASE j = h /\ q = p
    <3>1. Pending(h, p) /\ Fanned(p)
      BY <1>3, <1>4 DEF Pending, Fanned, p
    <3>2. shown[h][p] = 0 /\ ~Written(h, p) /\ ~Held(h, p) /\ ~Upstream(p)
      BY <2>1, <2>5, <3>1 DEF Once
    <3>3. ~Pending(h, p)'
      BY <1>1, <1>3 DEF Pending
    <3>4. \A i \in Hosts : ~Carries(wire[i][h], p) /\ ~Carries(hold[i][h], p)
      BY <3>2 DEF Written, Held
    <3>5. \A i \in Hosts : Single(wire'[i][h], p) /\ Single(hold'[i][h], p)
      BY <1>9, <2>1, <2>5, <3>4 DEF Once, WireFewer, HoldFewer
    <3>6. Written(h, p)' => ~Held(h, p)'
      BY <1>9, <3>4 DEF Written, Held
    <3> QED
      BY <1>7, <1>3, <2>3, <2>5, <3>2, <3>3, <3>5, <3>6 DEF Once
  <2> QED
    BY <2>4, <2>5
<1> QED
  BY <1>10, <1>11 DEF PostInv, OnceInv, Minds

LEMMA FanEndOnce ==
  ASSUME Types, PostInv, NEW t \in Threads, FanEnd(t)
  PROVE  PostInv'
<1> DEFINE g == HostOf(t)
<1>1. PICK f \in fan[t] : /\ Show(g, f.post) /\ fan' = [fan EXCEPT ![t] = {}]
                          /\ posted' = posted /\ wire' = wire /\ hold' = hold
  BY DEF FanEnd
<1> DEFINE p == f.post
<1>2. p \in Posts /\ g \in Hosts /\ \A q \in Posts : FanOf(q) \in Threads
  BY ThreadFacts DEF Types, Fans
<1>3. fan[t] = {f} /\ p \in posted /\ t = FanOf(p) /\ g \notin f.done
  BY DEF PostInv, HomeInv, FanHome
<1>4. fan'[t] = {} /\ \A u \in Threads : u # t => fan'[u] = fan[u]
  BY <1>1, EmptiedParts
<1>5. \A i, j, q : WireFewer(i, j, q) /\ HoldFewer(i, j, q)
  BY <1>1, FewerSame
<1>6. /\ shown'[g][p] = shown[g][p] + 1
      /\ \A i \in Hosts, q \in Posts : i # g \/ q # p => shown'[i][q] = shown[i][q]
  BY <1>1, <1>2, ShowParts
<1> HIDE DEF g
<1>7. \A u \in Threads : fan'[u] \subseteq fan[u]
  BY <1>4
<1>8. HomeInv'
  BY <1>1, <1>5, <1>7, HomeKept DEF PostInv
<1>9. ASSUME NEW j \in Hosts, NEW q \in Posts, Minds(j, q)
      PROVE  Once(j, q)'
  <2>1. Once(j, q)
    BY <1>9 DEF PostInv, OnceInv
  <2>2. (Fanned(q)' => Fanned(q)) /\ (Pending(j, q)' => Pending(j, q)) /\ (Upstream(q)' => Upstream(q))
    BY <1>2, <1>5, <1>7, FewerFanned, FewerUpstream
  <2>3. CASE j # g \/ q # p
    BY <1>1, <1>5, <1>6, <2>1, <2>2, <2>3, OnceKept
  <2>4. CASE j = g /\ q = p
    <3>1. Pending(j, p) /\ Fanned(p)
      BY <1>3, <2>4 DEF Pending, Fanned
    <3>2. shown[j][p] = 0 /\ ~Written(j, p) /\ ~Held(j, p) /\ ~Upstream(p)
      BY <2>1, <2>4, <3>1 DEF Once
    <3>3. ~Pending(j, p)' /\ ~Written(j, p)' /\ ~Held(j, p)' /\ ~Upstream(p)'
      BY <1>1, <1>3, <1>4, <2>2, <2>4, <3>2 DEF Pending, Written, Held
    <3>4. shown'[j][p] = 1
      BY <1>6, <2>4, <3>2
    <3> QED
      BY <1>1, <1>3, <2>1, <2>4, <3>3, <3>4 DEF Once
  <2> QED
    BY <2>3, <2>4
<1> QED
  BY <1>8, <1>9 DEF PostInv, OnceInv, Minds

LEMMA FanBreaksParts ==
  ASSUME Types, NEW t \in Threads, FanBreaks(t)
  PROVE  /\ fan'[t] = {} /\ \A u \in Threads : u # t => fan'[u] = fan[u]
         /\ HostOf(t) = Owner
         /\ \A i, j \in Hosts : \A q : WireFewer(i, j, q) /\ HoldFewer(i, j, q)
         /\ \E f \in fan[t] :
              /\ f.post \in Posts
              /\ IF t = User(Owner)
                 THEN missed' = [h \in Hosts |-> missed[h] \union {f.post}] /\ wire' = wire /\ up' = up
                 ELSE t[2] \in Others /\ Break(Owner, t[2], {f.post})
<1>1. PICK f \in fan[t] : /\ Upset(t, f) /\ fan' = [fan EXCEPT ![t] = {}]
                          /\ IF t = User(Owner)
                             THEN missed' = [h \in Hosts |-> missed[h] \union {f.post}] /\ UNCHANGED <<up, wire>>
                             ELSE Break(Owner, t[2], {f.post})
  BY DEF FanBreaks
<1>2. f.post \in Posts
  BY DEF Types, Fans
<1>3. fan'[t] = {} /\ \A u \in Threads : u # t => fan'[u] = fan[u]
  BY <1>1, EmptiedParts
<1>4. HostOf(t) = Owner
  BY <1>1 DEF Upset, Over
<1>5. t # User(Owner) => t[2] \in Others
  BY <1>4, ThreadFacts
<1>6. \A i, j \in Hosts : \A q : HoldFewer(i, j, q)
  BY FewerSame DEF FanBreaks
<1>7. \A i, j \in Hosts : \A q : WireFewer(i, j, q)
  <2>1. CASE t = User(Owner)
    BY <1>1, <2>1, FewerSame
  <2>2. CASE t # User(Owner)
    <3>1. t[2] \in Hosts /\ Owner \in Hosts /\ {f.post} \in SUBSET Posts /\ Break(Owner, t[2], {f.post})
      BY <1>1, <1>2, <1>5, <2>2, HostFacts
    <3> QED
      BY <3>1, BreakCarries
  <2> QED
    BY <2>1, <2>2
<1> QED
  BY <1>1, <1>2, <1>3, <1>4, <1>5, <1>6, <1>7

LEMMA FanBreaksOnce ==
  ASSUME Types, PostInv, NEW t \in Threads, FanBreaks(t)
  PROVE  PostInv'
<1>1. /\ \A u \in Threads : fan'[u] \subseteq fan[u]
      /\ \A i, j \in Hosts : \A q : WireFewer(i, j, q) /\ HoldFewer(i, j, q)
  BY FanBreaksParts
<1>2. posted' = posted /\ shown' = shown
  BY DEF FanBreaks
<1> QED
  BY <1>1, <1>2, PostsKept

(* h hears p from g: now it is in its history and nowhere else.            *)
LEMMA HeardOnce ==
  ASSUME Types, PostInv, NEW g \in Hosts, NEW h \in Hosts, Arrives(g, h),
         NEW p \in Posts, Brings(Next1(g, h), p), p \in Texts \/ h # Owner,
         Show(h, p) \/ shown' = shown, posted' = posted, fan' = fan, hold' = hold
  PROVE  PostInv'
<1>1. /\ \A i, j \in Hosts : \A q : WireFewer(i, j, q)
      /\ Carries(wire[g][h], p)
      /\ Single(wire[g][h], p) => ~Carries(wire'[g][h], p)
  BY ArrivesCarries
<1>2. \A i, j, q : HoldFewer(i, j, q)
  BY FewerSame
<1>3. HomeInv'
  BY <1>1, <1>2, HomeKept DEF PostInv
<1>4. p \in posted /\ Route(g, h, p)
  BY <1>1 DEF PostInv, HomeInv, WireHome
<1>5. /\ \A i \in Hosts, q \in Posts : i # h \/ q # p => shown'[i][q] = shown[i][q]
      /\ shown'[h][p] = shown[h][p] + 1 \/ shown'[h][p] = shown[h][p]
  <2>1. CASE Show(h, p)
    BY <2>1, ShowParts
  <2>2. CASE shown' = shown
    BY <2>2
  <2> QED
    BY <2>1, <2>2
<1>6. ASSUME NEW j \in Hosts, NEW q \in Posts, Minds(j, q)
      PROVE  Once(j, q)'
  <2>1. Once(j, q)
    BY <1>6 DEF PostInv, OnceInv
  <2>2. Author[q] \in Hosts /\ Owner \in Hosts
    BY HostFacts
  <2>3. (Fanned(q)' => Fanned(q)) /\ (Pending(j, q)' => Pending(j, q)) /\ (Upstream(q)' => Upstream(q))
    BY <1>1, <2>2, FewerUpstream DEF Fanned, Pending
  <2>4. CASE shown'[j][q] = shown[j][q]
    BY <1>1, <1>2, <2>1, <2>3, <2>4, OnceKept
  <2>5. CASE j = h /\ q = p /\ shown'[h][p] = shown[h][p] + 1
    <3>1. Written(h, p)
      BY <1>1 DEF Written
    <3>2. shown[h][p] = 0 /\ ~Held(h, p) /\ ~Pending(h, p)
      BY <2>1, <2>5, <3>1 DEF Once
    <3>3. ~Upstream(p)
      BY <2>1, <2>5, <3>1, HostFacts DEF Once, Upstream
    <3>4. ~Written(h, p)'
      <4> SUFFICES ASSUME NEW i \in Hosts, Carries(wire'[i][h], p)
                   PROVE  FALSE
        BY DEF Written
      <4>1. Carries(wire[i][h], p)
        BY <1>1 DEF WireFewer
      <4>2. Route(i, h, p)
        BY <4>1 DEF PostInv, HomeInv, WireHome
      <4>3. i = g
        BY <1>4, <4>2, OneRoute
      <4> QED
        BY <1>1, <2>1, <2>5, <4>3 DEF Once
    <3>5. ~Held(h, p)'
      BY <3>2 DEF Held
    <3>6. \A i \in Hosts : Single(wire'[i][h], p) /\ Single(hold'[i][h], p)
      BY <1>1, <1>2, <2>1, <2>5 DEF Once, WireFewer, HoldFewer
    <3> QED
      BY <1>4, <2>3, <2>5, <3>2, <3>3, <3>4, <3>5, <3>6 DEF Once
  <2> QED
    BY <1>5, <2>4, <2>5
<1> QED
  BY <1>3, <1>6 DEF PostInv, OnceInv, Minds

LEMMA HearTextOnce ==
  ASSUME Types, PostInv, NEW g \in Hosts, NEW h \in Hosts, HearText(g, h)
  PROVE  PostInv'
<1> DEFINE p == Next1(g, h).post
<1>1. Arrives(g, h) /\ wire[g][h] # <<>> /\ Next1(g, h).kind = "text"
  BY DEF HearText, Arrives
<1>2. p \in Texts /\ p \in Posts /\ Brings(Next1(g, h), p)
  BY <1>1, HeadMeans, HostFacts
<1>3. (Show(h, p) \/ shown' = shown) /\ posted' = posted /\ fan' = fan /\ hold' = hold
  BY DEF HearText
<1> HIDE DEF p
<1> QED
  BY <1>1, <1>2, <1>3, HeardOnce

LEMMA HearFileOnce ==
  ASSUME Types, PostInv, NEW h \in Others, HearFile(h)
  PROVE  PostInv'
<1> DEFINE p == Next1(Owner, h).post
<1>0. Owner \in Hosts /\ h \in Hosts /\ h # Owner
  BY HostFacts
<1>1. Arrives(Owner, h) /\ wire[Owner][h] # <<>> /\ Next1(Owner, h).kind = "file"
  BY DEF HearFile, Arrives
<1>2. p \in Posts /\ Brings(Next1(Owner, h), p)
  BY <1>0, <1>1, HeadMeans, HostFacts
<1>3. (Show(h, p) \/ shown' = shown) /\ posted' = posted /\ fan' = fan /\ hold' = hold
  BY DEF HearFile
<1> HIDE DEF p
<1> QED
  BY <1>0, <1>1, <1>2, <1>3, HeardOnce

LEMMA RelayOnce ==
  ASSUME Types, PostInv, NEW m \in Others, Relay(m)
  PROVE  PostInv'
<1> DEFINE p == Next1(m, Owner).post
           t == Reader(m)
<1>1. /\ Arrives(m, Owner) /\ wire[m][Owner] # <<>> /\ Next1(m, Owner).kind = "file" /\ fan[t] = {}
      /\ posted' = posted /\ shown' = shown /\ hold' = hold
      /\ Begin(t, p) \/ fan' = fan
  BY DEF Relay, Arrives
<1>2. Owner \in Hosts /\ m \in Hosts /\ m # Owner /\ \A q \in Posts : FanOf(q) \in Threads
  BY HostFacts, ThreadFacts
<1>3. p \in Files /\ p \in Posts /\ p \notin Texts /\ Brings(Next1(m, Owner), p)
  BY <1>1, <1>2, HeadMeans, HostFacts
<1>4. t \in Threads /\ HostOf(t) = Owner
  BY ThreadFacts
<1> HIDE DEF p
<1>5. /\ \A i, j \in Hosts : \A q : WireFewer(i, j, q)
      /\ Carries(wire[m][Owner], p)
      /\ Single(wire[m][Owner], p) => ~Carries(wire'[m][Owner], p)
  BY <1>1, <1>2, <1>3, ArrivesCarries
<1>6. \A i, j, q : HoldFewer(i, j, q)
  BY <1>1, FewerSame
<1>7. p \in posted /\ m = Author[p]
  BY <1>2, <1>3, <1>5 DEF PostInv, HomeInv, WireHome, Route
<1>8. t = FanOf(p)
  BY <1>2, <1>3, <1>7 DEF FanOf
<1>9. CASE fan' = fan
  BY <1>1, <1>5, <1>6, <1>9, PostsKept
<1>10. CASE Begin(t, p)
  <2> HIDE DEF t
  <2>1. PICK e \in Fans : fan'[t] = {e} /\ e.post = p /\ e.done = {}
    BY <1>3, <1>4, <1>10, BeginParts
  <2>2. \A u \in Threads : u # t => fan'[u] = fan[u]
    BY <1>3, <1>4, <1>10, BeginParts
  <2>3. HomeInv'
    <3>1. \A g, h \in Hosts, q \in Posts : WireHome(g, h, q)' /\ HoldHome(g, h, q)'
      BY <1>1, <1>5 DEF PostInv, HomeInv, WireHome, HoldHome, WireFewer
    <3>2. \A u \in Threads : \A f \in fan'[u] : FanHome(u, f)'
      <4> SUFFICES ASSUME NEW u \in Threads, NEW f \in fan'[u]
                   PROVE  FanHome(u, f)'
        OBVIOUS
      <4>1. CASE u = t
        BY <1>1, <1>7, <1>8, <2>1, <4>1 DEF FanHome
      <4>2. CASE u # t
        BY <1>1, <2>2, <4>2 DEF PostInv, HomeInv, FanHome
      <4> QED
        BY <4>1, <4>2
    <3> QED
      BY <3>1, <3>2 DEF HomeInv
  <2>4. Upstream(p)
    BY <1>2, <1>3, <1>5, <1>7 DEF Upstream
  <2>5. Single(wire[m][Owner], p)
    BY <1>2, <1>3, <1>7 DEF PostInv, OnceInv, Minds, Once
  <2>6. ASSUME NEW j \in Hosts, NEW q \in Posts, Minds(j, q)
        PROVE  Once(j, q)'
    <3>1. Once(j, q)
      BY <2>6 DEF PostInv, OnceInv
    <3>2. CASE q # p
      <4>1. (Fanned(q)' => Fanned(q)) /\ (Pending(j, q)' => Pending(j, q))
        <5>1. CASE FanOf(q) = t
          BY <2>1, <3>2, <5>1 DEF Fanned, Pending
        <5>2. CASE FanOf(q) # t
          BY <1>2, <2>2, <5>2 DEF Fanned, Pending
        <5> QED
          BY <5>1, <5>2
      <4>2. Upstream(q)' => Upstream(q)
        BY <1>2, <1>5, HostFacts, FewerUpstream
      <4> QED
        BY <1>1, <1>5, <1>6, <3>1, <4>1, <4>2, OnceKept
    <3>3. CASE q = p
      <4>1. shown'[j][q] = 0
        BY <1>1, <2>4, <3>1, <3>3 DEF Once
      <4>2. ~Upstream(q)'
        BY <1>5, <1>7, <2>5, <3>3 DEF Upstream
      <4>3. ~Held(j, q)'
        BY <1>1, <1>3, <3>3, HeldAreTexts DEF Held
      <4>4. ~Written(j, q)'
        <5> SUFFICES ASSUME NEW i \in Hosts, Carries(wire'[i][j], q)
                     PROVE  FALSE
          BY DEF Written
        <5>1. Carries(wire[i][j], q)
          BY <1>5 DEF WireFewer
        <5>2. j = Owner
          BY <2>4, <3>1, <3>3, <5>1 DEF Once, Written
        <5>3. i = m
          BY <1>3, <1>7, <3>3, <5>1, <5>2 DEF PostInv, HomeInv, WireHome, Route
        <5> QED
          BY <1>5, <2>5, <3>3, <5>2, <5>3
      <4>5. \A i \in Hosts : Single(wire'[i][j], q) /\ Single(hold'[i][j], q)
        BY <1>1, <1>5, <3>1 DEF Once, WireFewer
      <4>6. q \in posted'
        BY <1>1, <1>7, <3>3
      <4> QED
        BY <4>1, <4>2, <4>3, <4>4, <4>5, <4>6 DEF Once
    <3> QED
      BY <3>2, <3>3
  <2> QED
    BY <2>3, <2>6 DEF PostInv, OnceInv, Minds
<1> QED
  BY <1>1, <1>9, <1>10

LEMMA RosterOnce ==
  ASSUME Types, PostInv, NEW m \in Others, HearRoster(m) \/ Admit(m) \/ Remove(m)
  PROVE  PostInv'
<1>1. Owner \in Hosts /\ m \in Hosts
  BY HostFacts
<1>2. UNCHANGED <<posted, shown, fan, hold>>
  BY DEF HearRoster, Admit, Remove, Change
<1>3. \A i, j \in Hosts : \A q : WireFewer(i, j, q)
  <2>1. CASE HearRoster(m)
    <3>1. Arrives(Owner, m)
      BY <2>1 DEF HearRoster
    <3> QED
      BY <1>1, <3>1, ArrivesCarries
  <2>2. CASE Admit(m) \/ Remove(m)
    <3>1. roster[Owner] \in SUBSET Hosts
      BY <1>1 DEF Types
    <3>2. PICK r \in SUBSET Hosts : Change(m, r)
      BY <1>1, <2>2, <3>1 DEF Admit, Remove
    <3> QED
      BY <3>2, ChangeCarries
  <2> QED
    BY <2>1, <2>2
<1>4. \A i, j, q : HoldFewer(i, j, q)
  BY <1>2, FewerSame
<1> QED
  BY <1>2, <1>3, <1>4, PostsKept

LEMMA DisconnectOnce ==
  ASSUME Types, PostInv, NEW g \in Hosts, NEW h \in Hosts, Disconnect(g, h)
  PROVE  PostInv'
<1>1. UNCHANGED <<posted, shown, fan, hold>> /\ Break(g, h, {}) /\ {} \in SUBSET Posts
  BY DEF Disconnect
<1>2. \A i, j \in Hosts : \A q : WireFewer(i, j, q)
  BY <1>1, BreakCarries
<1>3. \A i, j, q : HoldFewer(i, j, q)
  BY <1>1, FewerSame
<1> QED
  BY <1>1, <1>2, <1>3, PostsKept

LEMMA ConnectOnce ==
  ASSUME Types, PostInv, NEW g \in Hosts, NEW h \in Hosts, Connect(g, h)
  PROVE  PostInv'
<1>1. UNCHANGED <<posted, shown, fan>>
  BY DEF Connect
<1>2. /\ \A i, j \in Hosts : \A q : HoldFewer(i, j, q)
      /\ \A i, j \in Hosts : \A q :
           Single(hold[i][j], q) /\ Single(wire[i][j], q) => Single(wire'[i][j], q)
      /\ \A i, j \in Hosts : \A q :
           IF Pair(i, j) = Pair(g, h)
           THEN (Carries(wire'[i][j], q) <=> Carries(hold[i][j], q)) /\ ~Carries(hold'[i][j], q)
           ELSE /\ Carries(wire'[i][j], q) <=> Carries(wire[i][j], q)
                /\ Carries(hold'[i][j], q) <=> Carries(hold[i][j], q)
  BY ConnectCarries
<1>3. HomeInv'
  <2>1. \A i, j \in Hosts, q \in Posts : WireHome(i, j, q)' /\ HoldHome(i, j, q)'
    BY <1>1, <1>2 DEF PostInv, HomeInv, WireHome, HoldHome
  <2>2. \A u \in Threads : \A f \in fan'[u] : FanHome(u, f)'
    BY <1>1 DEF PostInv, HomeInv, FanHome
  <2> QED
    BY <2>1, <2>2 DEF HomeInv
<1>4. ASSUME NEW j \in Hosts, NEW q \in Posts, Minds(j, q)
      PROVE  Once(j, q)'
  <2>1. Once(j, q)
    BY <1>4 DEF PostInv, OnceInv
  <2>2. (Fanned(q)' => Fanned(q)) /\ (Pending(j, q)' => Pending(j, q))
    BY <1>1 DEF Fanned, Pending
  <2>3. Upstream(q)' => Upstream(q)
    BY <1>2, HostFacts, HeldAreTexts DEF Upstream
  <2>4. \A i \in Hosts : Single(wire'[i][j], q) /\ Single(hold'[i][j], q)
    BY <1>2, <2>1 DEF Once, HoldFewer
  <2>5. Held(j, q)' => Held(j, q)
    BY <1>2 DEF Held, HoldFewer
  <2>6. Written(j, q)' => Written(j, q) \/ Held(j, q)
    BY <1>2 DEF Written, Held
  <2>7. Held(j, q) => ~Upstream(q)
    BY HostFacts, HeldAreTexts DEF Held, Upstream
  <2>8. Written(j, q)' => ~Held(j, q)'
    <3> SUFFICES ASSUME NEW i \in Hosts, Carries(wire'[i][j], q),
                        NEW k \in Hosts, Carries(hold'[k][j], q)
                 PROVE  FALSE
      BY DEF Written, Held
    <3>1. Pair(k, j) # Pair(g, h) /\ Carries(hold[k][j], q)
      BY <1>2
    <3>2. ~Carries(wire[i][j], q)
      BY <2>1, <3>1 DEF Once, Written, Held
    <3>3. Pair(i, j) = Pair(g, h) /\ Carries(hold[i][j], q)
      BY <1>2, <3>2
    <3>4. Route(i, j, q) /\ Route(k, j, q)
      BY <3>1, <3>3 DEF PostInv, HomeInv, HoldHome
    <3> QED
      BY <3>1, <3>3, <3>4, OneRoute
  <2> QED
    BY <1>1, <2>1, <2>2, <2>3, <2>4, <2>5, <2>6, <2>7, <2>8 DEF Once
<1> QED
  BY <1>3, <1>4 DEF PostInv, OnceInv, Minds

LEMMA PostInit == Init => PostInv
<1> SUFFICES ASSUME Init
             PROVE  PostInv
  OBVIOUS
<1>1. /\ \A g, h \in Hosts : wire[g][h] = <<>> /\ hold[g][h] = <<>>
      /\ \A t \in Threads : fan[t] = {}
      /\ \A h \in Hosts, p \in Posts : shown[h][p] = 0
  BY DEF Init
<1>2. \A g, h \in Hosts : \A p : /\ ~Carries(wire[g][h], p) /\ ~Carries(hold[g][h], p)
                                 /\ Single(wire[g][h], p) /\ Single(hold[g][h], p)
  BY <1>1, CarriesNothing
<1>3. HomeInv
  BY <1>1, <1>2 DEF HomeInv, WireHome, HoldHome
<1>4. ASSUME NEW h \in Hosts, NEW p \in Posts
      PROVE  Once(h, p)
  <2>1. ~Upstream(p) /\ ~Fanned(p) /\ ~Pending(h, p) /\ ~Written(h, p) /\ ~Held(h, p)
    BY <1>1, <1>2, HostFacts, ThreadFacts DEF Upstream, Fanned, Pending, Written, Held
  <2> QED
    BY <1>1, <1>2, <2>1 DEF Once
<1> QED
  BY <1>3, <1>4 DEF PostInv, OnceInv

LEMMA PostStep == Types /\ PostInv /\ [Next]_vars => PostInv'
<1> SUFFICES ASSUME Types, PostInv, [Next]_vars
             PROVE  PostInv'
  OBVIOUS
<1>1. CASE UNCHANGED vars
  BY <1>1, FewerSame, PostsKept DEF vars
<1>2. CASE Next
  BY <1>2, PostOnce, PostFileOnce, FanNextOnce, FanEndOnce, FanBreaksOnce, HearTextOnce, HearFileOnce,
     RelayOnce, RosterOnce, DisconnectOnce, ConnectOnce DEF Next
<1> QED
  BY <1>1, <1>2

(* No post is shown twice, however the sockets come and go and whatever is *)
(* held and flushed (send_room_text, post_room_file and the readers).      *)
THEOREM ShownCorrect == Spec => []ShownOnce
<1>1. PostInv => ShownOnce
  BY DEF PostInv, OnceInv, Minds, Once, ShownOnce
<1> QED
  BY <1>1, TypesInit, TypesStep, PostInit, PostStep, PTL DEF Spec

----------------------------------------------------------------------------
(* What a removed member says.                                             *)

(* No snapshot is on its way to j that was not there before.               *)
Familiar(j) ==
  \A i \in DOMAIN wire'[Owner][j] :
     wire'[Owner][j][i].kind \in {"state", "gone"} =>
       \E k \in DOMAIN wire[Owner][j] : wire[Owner][j][k] = wire'[Owner][j][i]

LEMMA FamiliarSame ==
  ASSUME NEW j, wire'[Owner][j] = wire[Owner][j]
  PROVE  Familiar(j)
BY DEF Familiar

LEMMA WriteFamiliar ==
  ASSUME Types, NEW g \in Hosts, NEW h \in Hosts, NEW p \in Posts, WritePost(g, h, p), NEW j \in Hosts
  PROVE  Familiar(j)
<1>1. CASE wire'[Owner][j] = wire[Owner][j]
  BY <1>1, FamiliarSame
<1>2. CASE g = Owner /\ h = j /\ Connected(g, h)
  <2> DEFINE s == wire[g][h]
  <2>0. wire[g][h] \in Seq(Frames) /\ Frame(p).kind \in {"text", "file"}
    BY DEF Types, Frame, Text, File
  <2>1. s \in Seq(Frames) /\ Frame(p) \in Frames /\ Frame(p).kind \in {"text", "file"}
    BY <2>0, FrameMeans
  <2>2. wire'[g][h] = Append(s, Frame(p))
    BY <1>2, WriteParts
  <2>3. /\ DOMAIN Append(s, Frame(p)) = DOMAIN s \union {Len(s) + 1}
        /\ Append(s, Frame(p))[Len(s) + 1] = Frame(p)
        /\ \A i \in DOMAIN s : Append(s, Frame(p))[i] = s[i]
    BY <2>1
  <2> HIDE DEF s
  <2>4. \A i \in DOMAIN wire'[g][h] : wire'[g][h][i].kind \in {"state", "gone"} => i \in DOMAIN s /\ s[i] = wire'[g][h][i]
    BY <2>1, <2>2, <2>3
  <2> QED
    BY <1>2, <2>4 DEF Familiar, s
<1> QED
  BY <1>1, <1>2, WriteParts, HostFacts

LEMMA ArrivesFamiliar ==
  ASSUME Types, NEW g \in Hosts, NEW h \in Hosts, Arrives(g, h), NEW j \in Hosts
  PROVE  Familiar(j)
<1>1. CASE g # Owner \/ h # j
  BY <1>1, FamiliarSame, ArrivesParts, HostFacts
<1>2. CASE g = Owner /\ h = j
  <2> DEFINE s == wire[g][h]
  <2>1. s \in Seq(Frames) /\ s # <<>> /\ wire'[g][h] = Tail(s)
    BY ArrivesParts
  <2>2. \A i \in DOMAIN Tail(s) : i + 1 \in DOMAIN s /\ Tail(s)[i] = s[i + 1]
    BY <2>1
  <2> HIDE DEF s
  <2> QED
    BY <1>2, <2>1, <2>2 DEF Familiar, s
<1> QED
  BY <1>1, <1>2

LEMMA BreakFamiliar ==
  ASSUME Types, NEW g \in Hosts, NEW h \in Hosts, NEW S \in SUBSET Posts, Break(g, h, S), NEW j \in Hosts
  PROVE  Familiar(j)
<1>1. wire'[Owner][j] = wire[Owner][j] \/ wire'[Owner][j] = <<>>
  BY BreakParts, HostFacts
<1> QED
  BY <1>1, FamiliarSame DEF Familiar

LEMMA ConnectFamiliar ==
  ASSUME Types, NEW g \in Hosts, NEW h \in Hosts, Connect(g, h), NEW j \in Hosts
  PROVE  Familiar(j)
<1>1. wire'[Owner][j] = wire[Owner][j] \/ wire'[Owner][j] = hold[Owner][j]
  BY ConnectParts, HostFacts
<1>2. hold[Owner][j] \in Seq(TextFrames)
  BY HostFacts DEF Types
<1>3. \A i \in DOMAIN hold[Owner][j] : hold[Owner][j][i] \in TextFrames
  BY <1>2
<1>4. \A f \in TextFrames : f.kind = "text"
  BY DEF TextFrames
<1> QED
  BY <1>1, <1>3, <1>4, FamiliarSame DEF Familiar

(* Only a change of the roster sends a snapshot.                           *)
LEMMA NewsFromChanges ==
  ASSUME Types, HomeInv, [Next]_vars
  PROVE  (\E m \in Others : Admit(m) \/ Remove(m)) \/ \A j \in Hosts : Familiar(j)
<1> SUFFICES ASSUME NEW j \in Hosts
             PROVE  (\E m \in Others : Admit(m) \/ Remove(m)) \/ Familiar(j)
  OBVIOUS
<1> USE HostFacts, ThreadFacts
<1>1. CASE UNCHANGED vars
  BY <1>1, FamiliarSame DEF vars
<1>2. ASSUME NEW p \in Posts, Post(p) \/ PostFile(p) PROVE Familiar(j)
  <2>1. wire' = wire \/ WritePost(Author[p], Owner, p)
    BY <1>2 DEF Post, PostFile
  <2> QED
    BY <2>1, FamiliarSame, WriteFamiliar
<1>3. ASSUME NEW t \in Threads, FanEnd(t) PROVE Familiar(j)
  BY <1>3, FamiliarSame DEF FanEnd
<1>4. ASSUME NEW t \in Threads, FanBreaks(t) PROVE Familiar(j)
  <2>1. PICK f \in fan[t] : IF t = User(Owner) THEN wire' = wire ELSE Break(Owner, t[2], {f.post})
    BY <1>4 DEF FanBreaks
  <2>2. f.post \in Posts /\ {f.post} \in SUBSET Posts
    <3>1. f \in Fans
      BY DEF Types
    <3>2. f.post \in Posts
      BY <3>1 DEF Fans
    <3> QED
      BY <3>2
  <2>3. CASE t = User(Owner)
    BY <2>1, <2>3, FamiliarSame
  <2>4. CASE t # User(Owner) /\ HostOf(t) = Owner
    BY <2>1, <2>2, <2>4, BreakFamiliar
  <2>5. CASE HostOf(t) # Owner
    BY <1>4, <2>5 DEF FanBreaks, Upset, Over
  <2> QED
    BY <2>3, <2>4, <2>5
<1>5. ASSUME NEW t \in Threads, NEW h \in Hosts, FanNext(t, h) PROVE Familiar(j)
  <2>1. PICK f \in fan[t] : WritePost(HostOf(t), h, f.post)
    BY <1>5 DEF FanNext
  <2>2. f.post \in Posts
    BY DEF Types, Fans
  <2> QED
    BY <2>1, <2>2, WriteFamiliar
<1>6. ASSUME NEW g \in Hosts, NEW h \in Hosts, HearText(g, h) PROVE Familiar(j)
  BY <1>6, ArrivesFamiliar DEF HearText
<1>7. ASSUME NEW g \in Hosts, NEW h \in Hosts, Disconnect(g, h) PROVE Familiar(j)
  <2>1. {} \in SUBSET Posts /\ Break(g, h, {})
    BY <1>7 DEF Disconnect
  <2> QED
    BY <2>1, BreakFamiliar
<1>8. ASSUME NEW g \in Hosts, NEW h \in Hosts, Connect(g, h) PROVE Familiar(j)
  BY <1>8, ConnectFamiliar
<1>9. ASSUME NEW m \in Others, Relay(m) \/ HearFile(m) \/ HearRoster(m) PROVE Familiar(j)
  BY <1>9, ArrivesFamiliar DEF Relay, HearFile, HearRoster
<1> QED
  BY <1>1, <1>2, <1>3, <1>4, <1>5, <1>6, <1>7, <1>8, <1>9 DEF Next

(* Who is on no other host's roster comes onto one by the owner's word.    *)
LEMMA UnlistedKept ==
  ASSUME Types, HomeInv, [Next]_vars, NEW m, Unlisted(m), m \in Others => ~Admit(m)
  PROVE  Unlisted(m)'
<1> USE HostFacts
<1>1. m # Owner
  BY DEF Unlisted
<1>2. ASSUME NEW h \in Hosts, h # m
      PROVE  /\ m \notin roster'[h]
             /\ \A i \in DOMAIN wire'[Owner][h] :
                  wire'[Owner][h][i].kind = "state" => m \notin wire'[Owner][h][i].roster
  <2>1. /\ m \notin roster[h] /\ m \notin roster[Owner]
        /\ \A i \in DOMAIN wire[Owner][h] :
             wire[Owner][h][i].kind = "state" => m \notin wire[Owner][h][i].roster
    BY <1>1, <1>2 DEF Unlisted
  <2>2. CASE \E o \in Others : Admit(o) \/ Remove(o)
    <3>1. PICK o \in Others : Admit(o) \/ Remove(o)
      BY <2>2
    <3>2. roster[Owner] \in SUBSET Hosts
      BY DEF Types
    <3>3. PICK r \in SUBSET Hosts : Change(o, r) /\ m \notin r
      <4>1. CASE Admit(o)
        BY <2>1, <3>1, <3>2, <4>1 DEF Admit
      <4>2. CASE Remove(o)
        BY <2>1, <3>1, <3>2, <4>2 DEF Remove
      <4> QED
        BY <3>1, <4>1, <4>2
    <3>4. m \notin roster'[h]
      BY <2>1, <3>3, ChangeParts
    <3>5. CASE wire'[Owner][h] = wire[Owner][h]
      BY <2>1, <3>4, <3>5
    <3>6. CASE wire'[Owner][h] # wire[Owner][h]
      <4>1. PICK f \in Frames : wire'[Owner][h] = Append(wire[Owner][h], f) /\ (f = State(r) \/ f = Gone)
        BY <3>3, <3>6, ChangeParts
      <4>2. wire[Owner][h] \in Seq(Frames) /\ (f.kind = "state" => m \notin f.roster)
        <5>1. wire[Owner][h] \in Seq(Frames)
          BY DEF Types
        <5>2. f.kind = "state" => m \notin f.roster
          BY <3>3, <4>1 DEF State, Gone
        <5> QED
          BY <5>1, <5>2
      <4>3. /\ DOMAIN wire'[Owner][h] = DOMAIN wire[Owner][h] \union {Len(wire[Owner][h]) + 1}
            /\ wire'[Owner][h][Len(wire[Owner][h]) + 1] = f
            /\ \A i \in DOMAIN wire[Owner][h] : wire'[Owner][h][i] = wire[Owner][h][i]
        BY <4>1, <4>2
      <4> QED
        BY <2>1, <3>4, <4>2, <4>3
    <3> QED
      BY <3>5, <3>6
  <2>3. CASE ~(\E o \in Others : Admit(o) \/ Remove(o))
    <3>1. Familiar(h)
      BY <2>3, NewsFromChanges
    <3>2. m \notin roster'[h]
      <4>1. CASE roster' = roster
        BY <2>1, <4>1
      <4>2. CASE \E o \in Others : HearRoster(o)
        <5>1. PICK o \in Others : HearRoster(o)
          BY <4>2
        <5>2. CASE o = h
          <6>1. /\ Next1(Owner, h).kind \in {"state", "gone"} /\ wire[Owner][h] # <<>>
                /\ roster'[h] = IF Next1(Owner, h).kind = "gone" THEN {} ELSE Next1(Owner, h).roster
            BY <5>1, <5>2, RosterParts DEF Arrives
          <6>2. Next1(Owner, h) = wire[Owner][h][1] /\ 1 \in DOMAIN wire[Owner][h]
            BY <6>1, HeadMeans
          <6> QED
            BY <2>1, <6>1, <6>2
        <5>3. CASE o # h
          BY <2>1, <5>1, <5>3, RosterParts
        <5> QED
          BY <5>2, <5>3
      <4> QED
        BY <2>3, <4>1, <4>2 DEF Next, vars, Post, PostFile, FanEnd, FanBreaks, FanNext, HearText, Disconnect,
             Connect, Relay, HearFile
    <3> QED
      BY <2>1, <3>1, <3>2 DEF Familiar
  <2> QED
    BY <2>2, <2>3
<1> QED
  BY <1>1, <1>2 DEF Unlisted

LEMMA PostedGrows ==
  ASSUME [Next]_vars
  PROVE  posted \subseteq posted'
BY DEF Next, vars, Post, PostFile, FanEnd, FanBreaks, FanNext, HearText, Disconnect, Connect, Relay,
   HearFile, HearRoster, Admit, Remove, Change

(* A post that is read: who wrote it.                                      *)
LEMMA ReadIsHome ==
  ASSUME Types, HomeInv, NEW g \in Hosts, NEW h \in Hosts, wire[g][h] # <<>>,
         Next1(g, h).kind \in {"text", "file"}
  PROVE  /\ Next1(g, h).post \in Posts /\ Next1(g, h).post \in posted
         /\ Route(g, h, Next1(g, h).post)
         /\ Next1(g, h).post \in Texts <=> Next1(g, h).kind = "text"
<1> DEFINE p == Next1(g, h).post
<1>1. p \in Posts /\ Brings(Next1(g, h), p) /\ (p \in Texts <=> Next1(g, h).kind = "text")
  BY HeadMeans, HostFacts
<1>2. Brings(wire[g][h][1], p) /\ 1 \in DOMAIN wire[g][h]
  BY <1>1, HeadMeans
<1> HIDE DEF p
<1>3. Carries(wire[g][h], p)
  BY <1>2 DEF Carries
<1>4. p \in posted /\ Route(g, h, p)
  BY <1>1, <1>3 DEF HomeInv, WireHome
<1> QED
  BY <1>1, <1>4 DEF p

(* What is put into a history comes from its author, at home, from a       *)
(* fan-out that is over, or from someone the host lists.                   *)
LEMMA ShownBy ==
  ASSUME Types, HomeInv, [Next]_vars, NEW h \in Hosts, NEW p \in Posts, shown'[h][p] # shown[h][p]
  PROVE  \/ p \notin posted /\ h = Author[p]
         \/ Fanned(p) /\ h = HostOf(FanOf(p))
         \/ Author[p] \in roster[h]
<1> USE HostFacts, ThreadFacts
<1>0. ASSUME NEW i \in Hosts, NEW q \in Posts, Show(i, q)
      PROVE  i = h /\ q = p
  BY <1>0, ShowParts
<1>1. ASSUME NEW q \in Posts, PostFile(q) PROVE p \notin posted /\ h = Author[p]
  <2>1. Show(Author[q], q) /\ q \notin posted
    BY <1>1 DEF PostFile
  <2> QED
    BY <1>0, <2>1
<1>2. ASSUME NEW t \in Threads, FanEnd(t) PROVE Fanned(p) /\ h = HostOf(FanOf(p))
  <2>1. PICK f \in fan[t] : Show(HostOf(t), f.post)
    BY <1>2 DEF FanEnd
  <2>2. f \in Fans
    BY DEF Types
  <2>3. f.post \in Posts
    BY <2>2 DEF Fans
  <2>4. HostOf(t) = h /\ f.post = p
    BY <1>0, <2>1, <2>3
  <2>5. t = FanOf(p)
    BY <2>4 DEF HomeInv, FanHome
  <2> QED
    BY <2>4, <2>5 DEF Fanned
<1>3. ASSUME NEW i \in Hosts, NEW j \in Hosts, HearText(i, j) PROVE Author[p] \in roster[h]
  <2>1. /\ wire[i][j] # <<>> /\ Next1(i, j).kind = "text"
        /\ IF i \in roster[j] THEN Show(j, Next1(i, j).post) ELSE shown' = shown
    BY <1>3 DEF HearText, Arrives, TextAllowed
  <2>2. Next1(i, j).post \in Posts /\ Next1(i, j).post \in Texts /\ Route(i, j, Next1(i, j).post)
    BY <2>1, ReadIsHome
  <2>3. i \in roster[j] /\ Show(j, Next1(i, j).post)
    BY <2>1
  <2>4. j = h /\ Next1(i, j).post = p
    BY <1>0, <2>2, <2>3
  <2> QED
    BY <2>2, <2>3, <2>4 DEF Route
<1>4. ASSUME NEW j \in Others, HearFile(j) PROVE Author[p] \in roster[h]
  <2>1. /\ wire[Owner][j] # <<>> /\ Next1(Owner, j).kind = "file"
        /\ IF {Owner, Author[Next1(Owner, j).post]} \subseteq roster[j]
           THEN Show(j, Next1(Owner, j).post) ELSE shown' = shown
    BY <1>4 DEF HearFile, Arrives, FileAllowed
  <2>2. Next1(Owner, j).post \in Posts
    BY <2>1, ReadIsHome
  <2>3. Author[Next1(Owner, j).post] \in roster[j] /\ Show(j, Next1(Owner, j).post)
    BY <2>1
  <2> QED
    BY <1>0, <2>2, <2>3
<1>5. CASE shown' = shown
  BY <1>5
<1> QED
  BY <1>1, <1>2, <1>3, <1>4, <1>5 DEF Next, vars, Post, FanBreaks, FanNext, Disconnect, Connect, Relay,
     HearRoster, Admit, Remove, Change

(* The owner fans out a member's file offer if it lists the member.        *)
LEMMA FannedBy ==
  ASSUME Types, HomeInv, [Next]_vars, NEW p \in Files, Author[p] # Owner, Fanned(p)'
  PROVE  Fanned(p) \/ Author[p] \in roster[Owner]
<1> USE HostFacts, ThreadFacts
<1>0. FanOf(p) \in Threads /\ p \in Posts
  OBVIOUS
<1>1. CASE \E q \in Posts : Post(q)
  <2>1. PICK q \in Posts : Post(q)
    BY <1>1
  <2>2. Begin(User(Author[q]), q) /\ q # p
    BY <2>1 DEF Post
  <2>3. CASE FanOf(p) = User(Author[q])
    <3>1. \E e \in Fans : fan'[FanOf(p)] = {e} /\ e.post = q
      BY <1>0, <2>2, <2>3, BeginParts
    <3> QED
      BY <2>2, <3>1 DEF Fanned
  <2>4. CASE FanOf(p) # User(Author[q])
    BY <1>0, <2>2, <2>4, BeginParts DEF Fanned
  <2> QED
    BY <2>3, <2>4
<1>2. CASE \E m \in Others : Relay(m)
  <2>1. PICK m \in Others : Relay(m)
    BY <1>2
  <2>2. /\ wire[m][Owner] # <<>> /\ Next1(m, Owner).kind = "file" /\ m \in Hosts
        /\ IF m \in roster[Owner] THEN Begin(Reader(m), Next1(m, Owner).post) ELSE fan' = fan
    BY <2>1 DEF Relay, Arrives
  <2>3. Next1(m, Owner).post \in Posts /\ Route(m, Owner, Next1(m, Owner).post)
    BY <2>2, ReadIsHome
  <2>4. CASE m \notin roster[Owner]
    BY <2>2, <2>4 DEF Fanned
  <2>5. CASE m \in roster[Owner]
    <3>1. CASE FanOf(p) = Reader(m)
      <4>1. \E e \in Fans : fan'[FanOf(p)] = {e} /\ e.post = Next1(m, Owner).post
        BY <1>0, <2>2, <2>3, <2>5, <3>1, BeginParts
      <4>2. p = Next1(m, Owner).post
        BY <4>1 DEF Fanned
      <4> QED
        BY <2>3, <2>5, <4>2 DEF Route
    <3>2. CASE FanOf(p) # Reader(m)
      BY <1>0, <2>2, <2>3, <2>5, <3>2, BeginParts DEF Fanned
    <3> QED
      BY <3>1, <3>2
  <2> QED
    BY <2>4, <2>5
<1>3. CASE \E t \in Threads, h \in Hosts : FanNext(t, h)
  <2>1. PICK t \in Threads, h \in Hosts : FanNext(t, h)
    BY <1>3
  <2>2. /\ \A u \in Threads : u # t => fan'[u] = fan[u]
        /\ \E f \in fan[t], e \in Fans : fan'[t] = {e} /\ e.post = f.post
    BY <2>1, FanNextParts
  <2> QED
    BY <1>0, <2>2 DEF Fanned
<1>4. CASE \E t \in Threads : FanEnd(t) \/ FanBreaks(t)
  <2>1. PICK t \in Threads : fan' = [fan EXCEPT ![t] = {}]
    BY <1>4 DEF FanEnd, FanBreaks
  <2> QED
    BY <1>0, <2>1, EmptiedParts DEF Fanned
<1>5. CASE fan' = fan
  BY <1>5 DEF Fanned
<1> QED
  BY <1>1, <1>2, <1>3, <1>4, <1>5 DEF Next, vars, PostFile, HearText, Disconnect, Connect,
     HearFile, HearRoster, Admit, Remove, Change

(* The posts of the unlisted.                                              *)
LEMMA OutsidersBy ==
  ASSUME [Next]_vars, NEW p \in outsider'
  PROVE  \/ p \in outsider /\ (Author[p] \in Others => ~Admit(Author[p]))
         \/ /\ p \in Posts /\ p \notin posted /\ p \in posted'
            /\ Author[p] # Owner /\ ~Listed(Author[p])
            /\ roster' = roster /\ (fan' = fan \/ p \in Texts)
<1>1. ASSUME Author[p] \in Others, Admit(Author[p]) PROVE FALSE
  BY <1>1 DEF Admit
<1>2. CASE p \in outsider
  BY <1>1, <1>2
<1>3. ASSUME NEW q \in Posts, Note(q), p \notin outsider
      PROVE  q = p /\ Author[p] # Owner /\ ~Listed(Author[p])
  BY <1>3 DEF Note
<1>4. ASSUME NEW q \in Posts, Post(q) \/ PostFile(q), p \notin outsider
      PROVE  /\ p \in Posts /\ p \notin posted /\ p \in posted'
             /\ Author[p] # Owner /\ ~Listed(Author[p])
             /\ roster' = roster /\ (fan' = fan \/ p \in Texts)
  <2>1. Note(q)
    BY <1>4 DEF Post, PostFile
  <2>2. q = p /\ Author[p] # Owner /\ ~Listed(Author[p])
    BY <1>3, <1>4, <2>1
  <2> QED
    BY <1>4, <2>2 DEF Post, PostFile
<1> QED
  BY <1>2, <1>4 DEF Next, vars, FanEnd, FanBreaks, FanNext, HearText, Disconnect, Connect, Relay,
     HearFile, HearRoster, Admit, Remove, Change

LEMMA UnheardStep == Types /\ PostInv /\ UnheardInv /\ [Next]_vars => UnheardInv'
<1> SUFFICES ASSUME Types, PostInv, UnheardInv, [Next]_vars, NEW p \in outsider'
             PROVE  Unheard(p)'
  BY DEF UnheardInv
<1> USE HostFacts
<1>1. HomeInv /\ posted \subseteq posted' /\ posted \subseteq Posts
  BY PostedGrows DEF PostInv, Types
<1>2. \/ p \in outsider /\ (Author[p] \in Others => ~Admit(Author[p]))
      \/ /\ p \in Posts /\ p \notin posted /\ p \in posted'
         /\ Author[p] # Owner /\ ~Listed(Author[p])
         /\ roster' = roster /\ (fan' = fan \/ p \in Texts)
  BY OutsidersBy
<1>3. CASE p \in outsider /\ (Author[p] \in Others => ~Admit(Author[p]))
  <2>1. /\ p \in posted /\ Unlisted(Author[p]) /\ (p \in Files => ~Fanned(p))
        /\ \A h \in Hosts \ {Author[p]} : shown[h][p] = 0
    BY <1>3 DEF UnheardInv, Unheard
  <2>2. p \in Posts /\ p \in posted' /\ Author[p] # Owner /\ \A h \in Hosts \ {Author[p]} : Author[p] \notin roster[h]
    BY <1>1, <2>1 DEF Unlisted
  <2>3. Unlisted(Author[p])'
    BY <1>1, <1>3, <2>1, UnlistedKept
  <2>4. p \in Files => ~Fanned(p)'
    BY <1>1, <2>1, <2>2, FannedBy
  <2>5. ASSUME NEW h \in Hosts, h # Author[p]
        PROVE  shown'[h][p] = 0
    <3>1. shown[h][p] = 0 /\ Author[p] \notin roster[h]
      BY <2>1, <2>2, <2>5
    <3>2. ~(Fanned(p) /\ h = HostOf(FanOf(p)))
      BY <2>1, <2>2, <2>5, ThreadFacts
    <3> QED
      BY <1>1, <2>1, <2>2, <2>5, <3>1, <3>2, ShownBy
  <2> QED
    BY <2>2, <2>3, <2>4, <2>5 DEF Unheard
<1>4. CASE /\ p \in Posts /\ p \notin posted /\ p \in posted'
           /\ Author[p] # Owner /\ ~Listed(Author[p])
           /\ roster' = roster /\ (fan' = fan \/ p \in Texts)
  <2>1. Unlisted(Author[p])
    BY <1>4 DEF Unlisted, Listed
  <2>2. Author[p] \in Others => ~Admit(Author[p])
    <3> SUFFICES ASSUME Author[p] \in Others, Admit(Author[p])
                 PROVE  FALSE
      OBVIOUS
    <3>1. posted' = posted
      BY DEF Admit, Change
    <3> QED
      BY <1>4, <3>1
  <2>3. Unlisted(Author[p])'
    BY <1>1, <2>1, <2>2, UnlistedKept
  <2>4. p \in Files => ~Fanned(p)'
    <3> SUFFICES ASSUME p \in Files, Fanned(p)'
                 PROVE  FALSE
      OBVIOUS
    <3>1. fan' = fan
      BY <1>4
    <3>2. Fanned(p)
      BY <3>1 DEF Fanned
    <3> QED
      BY <1>1, <1>4, <3>2, ThreadFacts DEF HomeInv, FanHome, Fanned
  <2>5. ASSUME NEW h \in Hosts, h # Author[p]
        PROVE  shown'[h][p] = 0
    <3>1. shown[h][p] = 0
      BY <1>4, <2>5 DEF PostInv, OnceInv, Minds, Once
    <3>2. Author[p] \notin roster[h]
      BY <2>1, <2>5 DEF Unlisted
    <3>3. ~Fanned(p)
      BY <1>1, <1>4, ThreadFacts DEF HomeInv, FanHome, Fanned
    <3> QED
      BY <1>1, <1>4, <2>5, <3>1, <3>2, <3>3, ShownBy
  <2> QED
    BY <1>4, <2>3, <2>4, <2>5 DEF Unheard
<1> QED
  BY <1>2, <1>3, <1>4

(* What a member says whom the owner removed, and whose copy may still     *)
(* hold the room, no other host shows (_handle_incoming, post_room_file    *)
(* and handle_room_file_msg ask their own copy of the roster).             *)
THEOREM RemovedCorrect == Spec => []RemovedIsUnheard
<1>1. Init => UnheardInv
  BY DEF Init, UnheardInv
<1>2. UnheardInv => RemovedIsUnheard
  BY DEF UnheardInv, Unheard, RemovedIsUnheard
<1> QED
  BY <1>1, <1>2, TypesInit, TypesStep, PostInit, PostStep, UnheardStep, PTL DEF Spec

----------------------------------------------------------------------------
(* What the steady members have.                                           *)

LEMMA SteadyShrinks ==
  ASSUME Types, SteadyInv, [Next]_vars
  PROVE  Steady' \subseteq Steady /\ Steady' \subseteq roster'[Owner] /\ Owner \in roster'[Owner]
<1> USE HostFacts
<1>1. Steady' \subseteq roster'[Owner] /\ Owner \in roster[Owner] /\ roster[Owner] \in SUBSET Hosts
  BY DEF Steady, SteadyInv, Types
<1>2. CASE \E m \in Others : Admit(m) \/ Remove(m)
  <2>1. PICK m \in Others : Admit(m) \/ Remove(m)
    BY <1>2
  <2>2. CASE Admit(m)
    <3>1. PICK r \in SUBSET Hosts : r = roster[Owner] \union {m} /\ Change(m, r)
      BY <1>1, <2>2 DEF Admit
    <3>2. roster'[Owner] = r
      BY <3>1, ChangeParts
    <3>3. churned' = churned \union {m}
      BY <3>1 DEF Change
    <3> QED
      BY <1>1, <3>1, <3>2, <3>3 DEF Steady
  <2>3. CASE Remove(m)
    <3>1. PICK r \in SUBSET Hosts : r = roster[Owner] \ {m} /\ Change(m, r)
      BY <1>1, <2>3 DEF Remove
    <3>2. roster'[Owner] = r
      BY <3>1, ChangeParts
    <3>3. churned' = churned \union {m}
      BY <3>1 DEF Change
    <3> QED
      BY <1>1, <3>1, <3>2, <3>3 DEF Steady
  <2> QED
    BY <2>1, <2>2, <2>3
<1>3. CASE \E h \in Others : HearRoster(h)
  <2>1. PICK h \in Others : HearRoster(h)
    BY <1>3
  <2>2. roster'[Owner] = roster[Owner] /\ churned' = churned
    BY <2>1, RosterParts DEF HearRoster
  <2> QED
    BY <1>1, <2>2 DEF Steady
<1>4. CASE roster' = roster /\ churned' = churned
  BY <1>1, <1>4 DEF Steady
<1> QED
  BY <1>2, <1>3, <1>4 DEF Next, vars, Post, PostFile, FanEnd, FanBreaks, FanNext, HearText, Disconnect,
     Connect, Relay, HearFile

LEMMA SteadyCopies ==
  ASSUME Types, HomeInv, SteadyInv, [Next]_vars, NEW h \in Steady'
  PROVE  Steady' \subseteq roster'[h]
<1> USE HostFacts
<1>1. /\ h \in Steady /\ Steady' \subseteq Steady /\ Steady' \subseteq roster'[Owner]
      /\ roster[Owner] \in SUBSET Hosts /\ h \in Hosts
  BY SteadyShrinks DEF Types, Steady
<1>2. Steady \subseteq roster[h] /\ \A i \in DOMAIN wire[Owner][h] : Keeps(wire[Owner][h][i])
  BY <1>1 DEF SteadyInv
<1>3. CASE \E m \in Others : Admit(m) \/ Remove(m)
  <2>1. PICK m \in Others : Admit(m) \/ Remove(m)
    BY <1>3
  <2>2. PICK r \in SUBSET Hosts : Change(m, r)
    BY <1>1, <2>1 DEF Admit, Remove
  <2>3. h # Owner => roster'[h] = roster[h]
    BY <1>1, <2>2, ChangeParts
  <2> QED
    BY <1>1, <1>2, <2>3
<1>4. CASE \E o \in Others : HearRoster(o)
  <2>1. PICK o \in Others : HearRoster(o)
    BY <1>4
  <2>2. CASE o # h
    BY <1>1, <1>2, <2>1, <2>2, RosterParts
  <2>3. CASE o = h
    <3>1. /\ Next1(Owner, h).kind \in {"state", "gone"} /\ wire[Owner][h] # <<>>
          /\ roster'[h] = IF Next1(Owner, h).kind = "gone" THEN {} ELSE Next1(Owner, h).roster
      BY <2>1, <2>3, RosterParts DEF Arrives
    <3>2. Next1(Owner, h) = wire[Owner][h][1] /\ 1 \in DOMAIN wire[Owner][h]
      BY <1>1, <3>1, HeadMeans
    <3>3. Keeps(Next1(Owner, h))
      BY <1>2, <3>2
    <3> QED
      BY <1>1, <3>1, <3>3 DEF Keeps
  <2> QED
    BY <2>2, <2>3
<1>5. CASE roster' = roster
  BY <1>1, <1>2, <1>5
<1> QED
  BY <1>3, <1>4, <1>5 DEF Next, vars, Post, PostFile, FanEnd, FanBreaks, FanNext, HearText, Disconnect,
     Connect, Relay, HearFile

LEMMA SteadyNews ==
  ASSUME Types, HomeInv, SteadyInv, [Next]_vars, Types', NEW h \in Steady', NEW i \in DOMAIN wire'[Owner][h]
  PROVE  /\ wire'[Owner][h][i].kind # "gone"
         /\ wire'[Owner][h][i].kind = "state" => Steady' \subseteq wire'[Owner][h][i].roster
<1> USE HostFacts
<1>1. /\ h \in Steady /\ Steady' \subseteq Steady /\ Steady' \subseteq roster'[Owner]
      /\ roster[Owner] \in SUBSET Hosts /\ h \in Hosts
  BY SteadyShrinks DEF Types, Steady
<1>2. \A k \in DOMAIN wire[Owner][h] : Keeps(wire[Owner][h][k])
  BY <1>1 DEF SteadyInv
<1> DEFINE f == wire'[Owner][h][i]
<1>3. f.kind # "gone" /\ (f.kind = "state" => Steady' \subseteq f.roster)
  <2>1. ASSUME NEW k \in DOMAIN wire[Owner][h], wire[Owner][h][k] = f
        PROVE  f.kind # "gone" /\ (f.kind = "state" => Steady' \subseteq f.roster)
    BY <1>1, <1>2, <2>1 DEF Keeps
  <2>2. CASE \E m \in Others : Admit(m) \/ Remove(m)
    <3>1. PICK m \in Others : Admit(m) \/ Remove(m)
      BY <2>2
    <3>2. PICK r \in SUBSET Hosts : Change(m, r)
      BY <1>1, <3>1 DEF Admit, Remove
    <3>3. roster'[Owner] = r
      BY <3>2, ChangeParts
    <3>4. CASE wire'[Owner][h] = wire[Owner][h]
      BY <2>1, <3>4
    <3>5. CASE wire'[Owner][h] # wire[Owner][h]
      <4>1. PICK e \in Frames : /\ wire'[Owner][h] = Append(wire[Owner][h], e)
                                /\ IF h \in r THEN e = State(r) ELSE e = Gone /\ h = m
        BY <1>1, <3>2, <3>5, ChangeParts
      <4>2. e = State(r)
        BY <1>1, <3>3, <4>1
      <4>3. wire[Owner][h] \in Seq(Frames)
        BY <1>1 DEF Types
      <4>4. (i \in DOMAIN wire[Owner][h] /\ wire[Owner][h][i] = f) \/ f = e
        BY <4>1, <4>3
      <4>5. CASE f = e
        BY <1>1, <3>3, <4>2, <4>5 DEF State
      <4> QED
        BY <2>1, <4>4, <4>5
    <3> QED
      BY <3>4, <3>5
  <2>3. CASE Familiar(h)
    <3>1. CASE f.kind \in {"state", "gone"}
      BY <2>1, <2>3, <3>1 DEF Familiar
    <3> QED
      BY <3>1
  <2> QED
    BY <1>1, <2>2, <2>3, NewsFromChanges
<1> QED
  BY <1>3

LEMMA SteadyFans ==
  ASSUME Types, HomeInv, SteadyInv, [Next]_vars, NEW t \in Threads, NEW f \in fan'[t], HostOf(t) \in Steady'
  PROVE  Steady' \subseteq f.over
<1> USE HostFacts, ThreadFacts
<1>1. HostOf(t) \in Steady /\ Steady' \subseteq Steady /\ Steady \subseteq roster[HostOf(t)]
  BY SteadyShrinks DEF SteadyInv
<1>2. CASE f \in fan[t]
  BY <1>1, <1>2 DEF SteadyInv
<1>3. ASSUME NEW u \in Threads, NEW q \in Posts, Begin(u, q)
      PROVE  Steady' \subseteq f.over
  <2>1. CASE u = t
    <3>1. \E e \in Fans : fan'[t] = {e} /\ e.over = roster[HostOf(t)]
      BY <1>3, <2>1, BeginParts
    <3> QED
      BY <1>1, <3>1
  <2>2. CASE u # t
    BY <1>2, <1>3, <2>2, BeginParts
  <2> QED
    BY <2>1, <2>2
<1>4. ASSUME NEW u \in Threads, NEW h \in Hosts, FanNext(u, h)
      PROVE  Steady' \subseteq f.over
  <2>1. CASE u = t
    <3>1. \E d \in fan[t], e \in Fans : fan'[t] = {e} /\ e.over = d.over
      BY <1>4, <2>1, FanNextParts
    <3>2. PICK d \in fan[t] : f.over = d.over
      BY <3>1
    <3> QED
      BY <1>1, <3>2 DEF SteadyInv
  <2>2. CASE u # t
    BY <1>2, <1>4, <2>2, FanNextParts
  <2> QED
    BY <2>1, <2>2
<1>5. ASSUME NEW u \in Threads, FanEnd(u) \/ FanBreaks(u)
      PROVE  Steady' \subseteq f.over
  <2>1. fan' = [fan EXCEPT ![u] = {}]
    BY <1>5 DEF FanEnd, FanBreaks
  <2>2. f \in fan[t]
    BY <2>1, EmptiedParts
  <2> QED
    BY <1>2, <2>2
<1>6. ASSUME NEW q \in Posts, Post(q)
      PROVE  Steady' \subseteq f.over
  BY <1>3, <1>6 DEF Post
<1>7. ASSUME NEW m \in Others, Relay(m)
      PROVE  Steady' \subseteq f.over
  <2>1. /\ wire[m][Owner] # <<>> /\ Next1(m, Owner).kind = "file" /\ m \in Hosts
        /\ Begin(Reader(m), Next1(m, Owner).post) \/ fan' = fan
    BY <1>7 DEF Relay, Arrives
  <2>2. Next1(m, Owner).post \in Posts
    BY <2>1, ReadIsHome
  <2> QED
    BY <1>2, <1>3, <2>1, <2>2
<1>8. CASE fan' = fan
  BY <1>2, <1>8
<1> QED
  BY <1>4, <1>5, <1>6, <1>7, <1>8 DEF Next, vars, PostFile, HearText, Disconnect, Connect, HearFile,
     HearRoster, Admit, Remove, Change

LEMMA SteadyStep == Types /\ HomeInv /\ SteadyInv /\ [Next]_vars => SteadyInv'
<1> SUFFICES ASSUME Types, HomeInv, SteadyInv, [Next]_vars
             PROVE  SteadyInv'
  OBVIOUS
<1>1. Types'
  BY TypesStep
<1>2. \A h \in Steady' : Steady' \subseteq roster'[h]
  BY SteadyCopies
<1>3. \A h \in Steady' : \A i \in DOMAIN wire'[Owner][h] :
        /\ wire'[Owner][h][i].kind # "gone"
        /\ wire'[Owner][h][i].kind = "state" => Steady' \subseteq wire'[Owner][h][i].roster
  BY <1>1, SteadyNews
<1>4. \A t \in Threads : \A f \in fan'[t] : HostOf(t) \in Steady' => Steady' \subseteq f.over
  BY SteadyFans
<1>5. Owner \in roster'[Owner]
  BY SteadyShrinks
<1> QED
  BY <1>2, <1>3, <1>4, <1>5 DEF SteadyInv, Keeps

----------------------------------------------------------------------------
(* A socket's two ends: what is on it, or is held for want of it.          *)

LEMMA WriteWires ==
  ASSUME Types, WireInv, NEW g \in Hosts, NEW h \in Hosts, NEW p \in Posts, WritePost(g, h, p), up' = up,
         NEW i \in Hosts, NEW j \in Hosts
  PROVE  WireOf(i, j)'
<1>1. Connected(i, j)' <=> Connected(i, j)
  BY DEF Connected
<1>2. WireOf(i, j)
  BY DEF WireInv, WireOf
<1>3. CASE i # g \/ j # h
  <2>1. wire'[i][j] = wire[i][j] /\ hold'[i][j] = hold[i][j]
    <3>1. \A k, l \in Hosts : k # g \/ l # h => wire'[k][l] = wire[k][l] /\ hold'[k][l] = hold[k][l]
      BY WriteParts
    <3> QED
      BY <1>3, <3>1
  <2> QED
    BY <1>1, <1>2, <2>1 DEF WireOf
<1>4. CASE i = g /\ j = h
  BY <1>1, <1>2, <1>4, WriteParts DEF WireOf
<1> QED
  BY <1>3, <1>4

LEMMA BreakWires ==
  ASSUME Types, WireInv, NEW g \in Hosts, NEW h \in Hosts, NEW S \in SUBSET Posts, Break(g, h, S), hold' = hold,
         NEW i \in Hosts, NEW j \in Hosts
  PROVE  WireOf(i, j)'
<1>1. WireOf(i, j)
  BY DEF WireInv, WireOf
<1>2. up' = up \ {Pair(g, h)}
  BY DEF Break
<1>3. CASE Pair(i, j) = Pair(g, h)
  <2>1. ~Connected(i, j)'
    BY <1>2, <1>3 DEF Connected
  <2>2. (i = g /\ j = h) \/ (i = h /\ j = g)
    BY <1>3 DEF Pair
  <2>3. wire'[i][j] = <<>>
    BY <2>2, BreakParts
  <2> QED
    BY <2>1, <2>3 DEF WireOf
<1>4. CASE Pair(i, j) # Pair(g, h)
  <2>1. Connected(i, j)' <=> Connected(i, j)
    BY <1>2, <1>4 DEF Connected
  <2>2. wire'[i][j] = wire[i][j]
    BY <1>4, BreakParts
  <2> QED
    BY <1>1, <2>1, <2>2 DEF WireOf
<1> QED
  BY <1>3, <1>4

LEMMA ArrivesWires ==
  ASSUME Types, WireInv, NEW g \in Hosts, NEW h \in Hosts, Arrives(g, h), UNCHANGED <<up, hold>>,
         NEW i \in Hosts, NEW j \in Hosts
  PROVE  WireOf(i, j)'
<1>1. Connected(i, j)' <=> Connected(i, j)
  BY DEF Connected
<1>2. WireOf(i, j)
  BY DEF WireInv, WireOf
<1>3. i # g \/ j # h => wire'[i][j] = wire[i][j]
  BY ArrivesParts
<1>4. i = g /\ j = h => wire[i][j] # <<>>
  BY ArrivesParts
<1> QED
  BY <1>1, <1>2, <1>3, <1>4 DEF WireOf

LEMMA ConnectWires ==
  ASSUME Types, WireInv, NEW g \in Hosts, NEW h \in Hosts, Connect(g, h),
         NEW i \in Hosts, NEW j \in Hosts
  PROVE  WireOf(i, j)'
<1>1. up' = up \union {Pair(g, h)}
  BY DEF Connect
<1>2. WireOf(i, j)
  BY DEF WireInv, WireOf
<1>3. CASE Pair(i, j) = Pair(g, h)
  <2>1. Connected(i, j)'
    BY <1>1, <1>3 DEF Connected
  <2>2. hold'[i][j] = <<>>
    BY <1>3, ConnectParts
  <2> QED
    BY <2>1, <2>2 DEF WireOf
<1>4. CASE Pair(i, j) # Pair(g, h)
  <2>1. Connected(i, j)' <=> Connected(i, j)
    BY <1>1, <1>4 DEF Connected
  <2>2. wire'[i][j] = wire[i][j] /\ hold'[i][j] = hold[i][j]
    BY <1>4, ConnectParts
  <2> QED
    BY <1>2, <2>1, <2>2 DEF WireOf
<1> QED
  BY <1>3, <1>4

LEMMA ChangeWires ==
  ASSUME Types, WireInv, NEW m \in Others, Admit(m) \/ Remove(m), NEW i \in Hosts, NEW j \in Hosts
  PROVE  WireOf(i, j)'
<1>1. roster[Owner] \in SUBSET Hosts
  BY HostFacts DEF Types
<1>2. PICK r \in SUBSET Hosts : Change(m, r)
  BY <1>1, HostFacts DEF Admit, Remove
<1>3. up' = up /\ hold' = hold
  BY <1>2 DEF Change
<1>4. Connected(i, j)' <=> Connected(i, j)
  BY <1>3 DEF Connected
<1>5. wire'[i][j] = wire[i][j] \/ (i = Owner /\ Connected(Owner, j))
  BY <1>2, ChangeParts
<1> QED
  BY <1>3, <1>4, <1>5 DEF WireInv, WireOf

LEMMA BrokenBy ==
  ASSUME Types, HomeInv, NEW t \in Threads, FanBreaks(t)
  PROVE  \E f \in fan[t] :
           /\ f.post \in Posts /\ t = FanOf(f.post) /\ fan[t] = {f}
           /\ fan' = [fan EXCEPT ![t] = {}]
           /\ \/ missed' = [h \in Hosts |-> missed[h] \union {f.post}] /\ UNCHANGED <<up, wire>>
              \/ t[2] \in Others /\ Break(Owner, t[2], {f.post})
<1> USE HostFacts, ThreadFacts
<1>1. PICK f \in fan[t] :
        /\ Upset(t, f) /\ fan' = [fan EXCEPT ![t] = {}]
        /\ IF t = User(Owner)
           THEN missed' = [h \in Hosts |-> missed[h] \union {f.post}] /\ UNCHANGED <<up, wire>>
           ELSE Break(Owner, t[2], {f.post})
  BY DEF FanBreaks
<1>2. HostOf(t) = Owner
  BY <1>1 DEF Upset, Over
<1>3. f \in Fans
  BY DEF Types
<1>4. f.post \in Posts
  BY <1>3 DEF Fans
<1>5. fan[t] = {f} /\ t = FanOf(f.post)
  BY DEF HomeInv, FanHome
<1>6. t # User(Owner) => t[2] \in Others
  BY <1>2
<1> QED
  BY <1>1, <1>4, <1>5, <1>6

LEMMA WireStep == Types /\ HomeInv /\ WireInv /\ [Next]_vars => WireInv'
<1> SUFFICES ASSUME Types, HomeInv, WireInv, [Next]_vars, NEW i \in Hosts, NEW j \in Hosts
             PROVE  WireOf(i, j)'
  BY DEF WireInv, WireOf
<1> USE HostFacts, ThreadFacts
<1>1. CASE UNCHANGED <<wire, hold, up>>
  BY <1>1 DEF WireInv, WireOf, Connected
<1>2. ASSUME NEW p \in Posts, PostFile(p) PROVE WireOf(i, j)'
  BY <1>2, WriteWires DEF PostFile
<1>3. ASSUME NEW t \in Threads, NEW h \in Hosts, FanNext(t, h) PROVE WireOf(i, j)'
  <2>1. PICK f \in fan[t] : WritePost(HostOf(t), h, f.post) /\ up' = up
    BY <1>3 DEF FanNext
  <2>2. f \in Fans
    BY DEF Types
  <2>3. f.post \in Posts
    BY <2>2 DEF Fans
  <2> QED
    BY <2>1, <2>3, WriteWires
<1>4. ASSUME NEW t \in Threads, FanBreaks(t) PROVE WireOf(i, j)'
  <2>1. PICK f \in fan[t] : /\ f.post \in Posts
                            /\ UNCHANGED <<up, wire>> \/ (t[2] \in Others /\ Break(Owner, t[2], {f.post}))
    BY <1>4, BrokenBy
  <2>2. hold' = hold /\ {f.post} \in SUBSET Posts
    BY <1>4, <2>1 DEF FanBreaks
  <2> QED
    BY <1>1, <2>1, <2>2, BreakWires
<1>5. ASSUME NEW g \in Hosts, NEW h \in Hosts, Disconnect(g, h) PROVE WireOf(i, j)'
  <2>1. {} \in SUBSET Posts /\ Break(g, h, {}) /\ hold' = hold
    BY <1>5 DEF Disconnect
  <2> QED
    BY <2>1, BreakWires
<1>6. ASSUME NEW g \in Hosts, NEW h \in Hosts, HearText(g, h) PROVE WireOf(i, j)'
  BY <1>6, ArrivesWires DEF HearText
<1>7. ASSUME NEW m \in Others, Relay(m) \/ HearFile(m) \/ HearRoster(m) PROVE WireOf(i, j)'
  BY <1>7, ArrivesWires DEF Relay, HearFile, HearRoster
<1> QED
  BY <1>1, <1>2, <1>3, <1>4, <1>5, <1>6, <1>7, ConnectWires, ChangeWires DEF Next, vars, Post, FanEnd

----------------------------------------------------------------------------
(* Where a post goes from where it is.                                     *)

LEMMA HistoryGrows ==
  ASSUME Types, HomeInv, [Next]_vars, NEW h \in Hosts, NEW p \in Posts
  PROVE  /\ shown[h][p] >= 1 => shown'[h][p] >= 1
         /\ missed[h] \subseteq missed'[h]
<1> USE HostFacts, ThreadFacts
<1>0. shown[h][p] \in Nat /\ shown'[h][p] \in Nat
  <2>1. Types'
    BY TypesStep
  <2> QED
    BY <2>1 DEF Types
<1>1. shown[h][p] >= 1 => shown'[h][p] >= 1
  <2>1. ASSUME NEW i \in Hosts, NEW q \in Posts, Show(i, q)
        PROVE  shown'[h][p] >= shown[h][p]
    BY <1>0, <2>1, ShowParts
  <2>2. ASSUME shown' = shown
        PROVE  shown'[h][p] >= shown[h][p]
    BY <1>0, <2>2
  <2>3. ASSUME NEW q \in Posts, PostFile(q) PROVE shown'[h][p] >= shown[h][p]
    BY <2>1, <2>3 DEF PostFile
  <2>4. ASSUME NEW t \in Threads, FanEnd(t) PROVE shown'[h][p] >= shown[h][p]
    <3>1. PICK f \in fan[t] : Show(HostOf(t), f.post)
      BY <2>4 DEF FanEnd
    <3>2. f \in Fans
      BY DEF Types
    <3>3. f.post \in Posts
      BY <3>2 DEF Fans
    <3> QED
      BY <2>1, <3>1, <3>3
  <2>5. ASSUME NEW i \in Hosts, NEW j \in Hosts, HearText(i, j) PROVE shown'[h][p] >= shown[h][p]
    <3>1. /\ wire[i][j] # <<>> /\ Next1(i, j).kind = "text"
          /\ Show(j, Next1(i, j).post) \/ shown' = shown
      BY <2>5 DEF HearText, Arrives
    <3>2. Next1(i, j).post \in Posts
      BY <3>1, ReadIsHome
    <3> QED
      BY <2>1, <2>2, <3>1, <3>2
  <2>6. ASSUME NEW j \in Others, HearFile(j) PROVE shown'[h][p] >= shown[h][p]
    <3>1. /\ wire[Owner][j] # <<>> /\ Next1(Owner, j).kind = "file"
          /\ Show(j, Next1(Owner, j).post) \/ shown' = shown
      BY <2>6 DEF HearFile, Arrives
    <3>2. Next1(Owner, j).post \in Posts
      BY <3>1, ReadIsHome
    <3> QED
      BY <2>1, <2>2, <3>1, <3>2
  <2>7. shown'[h][p] >= shown[h][p]
    BY <2>2, <2>3, <2>4, <2>5, <2>6 DEF Next, vars, Post, FanBreaks, FanNext, Disconnect, Connect, Relay,
       HearRoster, Admit, Remove, Change
  <2> QED
    BY <1>0, <2>7
<1>2. missed[h] \subseteq missed'[h]
  <2>1. ASSUME NEW g \in Hosts, NEW i \in Hosts, NEW q \in Posts, WritePost(g, i, q)
        PROVE  missed[h] \subseteq missed'[h]
    BY <2>1, WriteParts
  <2>2. ASSUME NEW g \in Hosts, NEW i \in Hosts, NEW S \in SUBSET Posts, Break(g, i, S)
        PROVE  missed[h] \subseteq missed'[h]
    BY <2>2 DEF Break
  <2>3. ASSUME NEW q \in Posts, PostFile(q) PROVE missed[h] \subseteq missed'[h]
    BY <2>1, <2>3 DEF PostFile
  <2>4. ASSUME NEW t \in Threads, NEW i \in Hosts, FanNext(t, i) PROVE missed[h] \subseteq missed'[h]
    <3>1. PICK f \in fan[t] : WritePost(HostOf(t), i, f.post)
      BY <2>4 DEF FanNext
    <3>2. f \in Fans
      BY DEF Types
    <3>3. f.post \in Posts
      BY <3>2 DEF Fans
    <3> QED
      BY <2>1, <3>1, <3>3
  <2>5. ASSUME NEW t \in Threads, FanBreaks(t) PROVE missed[h] \subseteq missed'[h]
    <3>1. PICK f \in fan[t] : /\ f.post \in Posts
                              /\ \/ missed' = [i \in Hosts |-> missed[i] \union {f.post}]
                                 \/ t[2] \in Others /\ Break(Owner, t[2], {f.post})
      BY <2>5, BrokenBy
    <3>2. {f.post} \in SUBSET Posts
      BY <3>1
    <3>3. missed' = [i \in Hosts |-> missed[i] \union {f.post}] => missed[h] \subseteq missed'[h]
      OBVIOUS
    <3> QED
      BY <2>2, <3>1, <3>2, <3>3
  <2>6. ASSUME NEW g \in Hosts, NEW i \in Hosts, Disconnect(g, i) PROVE missed[h] \subseteq missed'[h]
    BY <2>2, <2>6 DEF Disconnect
  <2> QED
    BY <2>3, <2>4, <2>5, <2>6 DEF Next, vars, Post, FanEnd, HearText, Connect, Relay, HearFile,
       HearRoster, Admit, Remove, Change
<1> QED
  BY <1>1, <1>2

(* A frame stays on the wire, or is read, or goes down with the socket.    *)
Read(g, h, p) ==
  /\ wire[g][h] # <<>> /\ Brings(Next1(g, h), p)
  /\ HearText(g, h) \/ (h = Owner /\ Relay(g)) \/ (g = Owner /\ HearFile(h))
LEMMA WireFate ==
  ASSUME Types, HomeInv, WireInv, [Next]_vars, NEW g \in Hosts, NEW h \in Hosts, NEW p \in Posts,
         Carries(wire[g][h], p)
  PROVE  \/ Carries(wire'[g][h], p)
         \/ Read(g, h, p)
         \/ \A i \in Hosts : LostFor(i, g, h) \subseteq missed'[i]
<1> DEFINE Goal == \/ Carries(wire'[g][h], p)
                   \/ Read(g, h, p)
                   \/ \A i \in Hosts : LostFor(i, g, h) \subseteq missed'[i]
<1> USE HostFacts, ThreadFacts
<1>1. CASE wire' = wire
  BY <1>1
<1>2. ASSUME NEW k \in Hosts, NEW j \in Hosts, NEW q \in Posts, WritePost(k, j, q) PROVE Goal
  BY <1>2, WriteCarries
<1>3. ASSUME NEW k \in Hosts, NEW j \in Hosts, NEW S \in SUBSET Posts, Break(k, j, S) PROVE Goal
  <2>1. \A a, b \in Hosts : Pair(a, b) # Pair(k, j) => wire'[a][b] = wire[a][b]
    BY <1>3, BreakParts
  <2>3. \A i \in Hosts : missed[i] \union S \union LostFor(i, k, j) \union LostFor(i, j, k) = missed'[i]
    BY <1>3, BreakParts
  <2>2. CASE Pair(g, h) = Pair(k, j)
    <3>1. (g = k /\ h = j) \/ (g = j /\ h = k)
      BY <2>2 DEF Pair
    <3> QED
      BY <2>3, <3>1
  <2> QED
    BY <2>1, <2>2
<1>4. ASSUME NEW k \in Hosts, NEW j \in Hosts, Arrives(k, j),
             HearText(k, j) \/ (j = Owner /\ Relay(k)) \/ (k = Owner /\ HearFile(j))
      PROVE  Goal
  <2>1. Carries(wire'[g][h], p) \/ (g = k /\ h = j /\ Brings(Next1(k, j), p))
    BY <1>4, ArrivesCarries
  <2> QED
    BY <1>4, <2>1 DEF Read, Arrives
<1>5. ASSUME NEW m \in Others, HearRoster(m) PROVE Goal
  <2>1. Arrives(Owner, m) /\ ~Brings(Next1(Owner, m), p)
    BY <1>5 DEF HearRoster, Brings
  <2>2. Carries(wire'[g][h], p) \/ (g = Owner /\ h = m /\ Brings(Next1(Owner, m), p))
    BY <2>1, ArrivesCarries
  <2> QED
    BY <2>1, <2>2
<1>6. ASSUME NEW m \in Others, Admit(m) \/ Remove(m) PROVE Goal
  <2>1. roster[Owner] \in SUBSET Hosts
    BY DEF Types
  <2>2. PICK r \in SUBSET Hosts : Change(m, r)
    BY <1>6, <2>1 DEF Admit, Remove
  <2> QED
    BY <2>2, ChangeCarries
<1>7. ASSUME NEW k \in Hosts, NEW j \in Hosts, Connect(k, j) PROVE Goal
  <2>1. Pair(g, h) # Pair(k, j) => wire'[g][h] = wire[g][h]
    BY <1>7, ConnectParts
  <2>2. wire[g][h] # <<>>
    BY CarriesNothing
  <2>3. Connected(g, h)
    BY <2>2 DEF WireInv, WireOf
  <2>4. Pair(g, h) # Pair(k, j)
    BY <1>7, <2>3 DEF Connect, Connected
  <2> QED
    BY <2>1, <2>4
<1>8. ASSUME NEW q \in Posts, PostFile(q) PROVE Goal
  BY <1>2, <1>8 DEF PostFile
<1>9. ASSUME NEW t \in Threads, NEW i \in Hosts, FanNext(t, i) PROVE Goal
  <2>1. PICK f \in fan[t] : WritePost(HostOf(t), i, f.post)
    BY <1>9 DEF FanNext
  <2>2. f \in Fans
    BY DEF Types
  <2>3. f.post \in Posts
    BY <2>2 DEF Fans
  <2> QED
    BY <1>2, <2>1, <2>3
<1>10. ASSUME NEW t \in Threads, FanBreaks(t) PROVE Goal
  <2>1. PICK f \in fan[t] : /\ f.post \in Posts
                            /\ \/ wire' = wire
                               \/ t[2] \in Others /\ Break(Owner, t[2], {f.post})
    BY <1>10, BrokenBy
  <2>2. {f.post} \in SUBSET Posts
    BY <2>1
  <2> QED
    BY <1>1, <1>3, <2>1, <2>2
<1>11. ASSUME NEW k \in Hosts, NEW j \in Hosts, HearText(k, j) \/ Disconnect(k, j) PROVE Goal
  BY <1>3, <1>4, <1>11 DEF HearText, Disconnect
<1>12. ASSUME NEW m \in Others, Relay(m) \/ HearFile(m) PROVE Goal
  BY <1>4, <1>12 DEF Relay, HearFile
<1> QED
  BY <1>1, <1>5, <1>6, <1>7, <1>8, <1>9, <1>10, <1>11, <1>12 DEF Next, vars, Post, FanEnd

(* What is held goes onto the new socket.                                  *)
LEMMA HoldFate ==
  ASSUME Types, [Next]_vars, NEW g \in Hosts, NEW h \in Hosts, NEW p \in Posts, Carries(hold[g][h], p)
  PROVE  Carries(hold'[g][h], p) \/ Carries(wire'[g][h], p)
<1> USE HostFacts, ThreadFacts
<1>1. CASE hold' = hold
  BY <1>1
<1>2. ASSUME NEW k \in Hosts, NEW j \in Hosts, NEW q \in Posts, WritePost(k, j, q)
      PROVE  Carries(hold'[g][h], p)
  BY <1>2, WriteCarries
<1>3. ASSUME NEW q \in Posts, PostFile(q) PROVE Carries(hold'[g][h], p)
  BY <1>2, <1>3 DEF PostFile
<1>4. ASSUME NEW t \in Threads, NEW i \in Hosts, FanNext(t, i) PROVE Carries(hold'[g][h], p)
  <2>1. PICK f \in fan[t] : WritePost(HostOf(t), i, f.post)
    BY <1>4 DEF FanNext
  <2>2. f \in Fans
    BY DEF Types
  <2>3. f.post \in Posts
    BY <2>2 DEF Fans
  <2> QED
    BY <1>2, <2>1, <2>3
<1>5. ASSUME NEW k \in Hosts, NEW j \in Hosts, Connect(k, j)
      PROVE  Carries(hold'[g][h], p) \/ Carries(wire'[g][h], p)
  BY <1>5, ConnectCarries
<1> QED
  BY <1>1, <1>3, <1>4, <1>5 DEF Next, vars, Post, FanEnd, FanBreaks, HearText, Disconnect, Relay, HearFile,
     HearRoster, Admit, Remove, Change

(* A fan-out goes on to h, writes to it, ends, or breaks.                  *)
LEMMA FanFate ==
  ASSUME Types, HomeInv, [Next]_vars, NEW h \in Hosts, NEW p \in Posts, Pending(h, p)
  PROVE  \/ Pending(h, p)' \/ p \in missed'[h]
         \/ WritePost(HostOf(FanOf(p)), h, p)
         \/ \E f \in fan[FanOf(p)] : /\ f.post = p /\ h \notin f.done
                                     /\ Left(FanOf(p), f) = {} /\ Show(HostOf(FanOf(p)), p)
<1> DEFINE t == FanOf(p)
           Goal == \/ Pending(h, p)' \/ p \in missed'[h] \/ WritePost(HostOf(t), h, p)
                   \/ \E f \in fan[t] : /\ f.post = p /\ h \notin f.done
                                        /\ Left(t, f) = {} /\ Show(HostOf(t), p)
<1> USE HostFacts, ThreadFacts
<1>1. PICK f \in fan[t] : f.post = p /\ h \notin f.done
  BY DEF Pending
<1>2. t \in Threads /\ fan[t] = {f}
  BY <1>1 DEF HomeInv, FanHome
<1>3. CASE fan'[t] = fan[t]
  BY <1>1, <1>3 DEF Pending
<1>4. ASSUME NEW u \in Threads, NEW q \in Posts, Begin(u, q), fan[u] = {} PROVE fan'[t] = fan[t]
  <2>1. \A v \in Threads : v # u => fan'[v] = fan[v]
    BY <1>4, BeginParts
  <2> QED
    BY <1>2, <1>4, <2>1
<1>5. ASSUME NEW u \in Threads, NEW i \in Hosts, FanNext(u, i) PROVE Goal
  <2>1. CASE u = t
    <3>0. PICK d \in fan[u], e \in Fans :
            /\ ~Upset(u, d) /\ i \in Left(u, d) /\ WritePost(HostOf(u), i, d.post)
            /\ fan'[u] = {e}
            /\ e.post = d.post /\ e.over = d.over /\ e.done = d.done \union {i}
      BY ONLY Types, <1>5, u \in Threads, i \in Hosts, FanNextParts
    <3>1. /\ d \in fan[t] /\ WritePost(HostOf(t), i, d.post) /\ fan'[t] = {e}
          /\ e.post = d.post /\ e.done = d.done \union {i}
      BY <2>1, <3>0
    <3>2. d = f
      BY <1>2, <3>1
    <3>3. CASE i = h
      BY <1>1, <3>1, <3>2, <3>3
    <3>4. CASE i # h
      BY <1>1, <3>1, <3>2, <3>4 DEF Pending
    <3> QED
      BY <3>3, <3>4
  <2>2. CASE u # t
    BY <1>2, <1>3, <1>5, <2>2, FanNextParts
  <2> QED
    BY <2>1, <2>2
<1>6. ASSUME NEW u \in Threads, FanEnd(u) PROVE Goal
  <2>1. PICK d \in fan[u] : Left(u, d) = {} /\ Show(HostOf(u), d.post) /\ fan' = [fan EXCEPT ![u] = {}]
    BY <1>6 DEF FanEnd
  <2>2. CASE u = t
    <3>1. d = f
      BY <1>2, <2>1, <2>2
    <3> QED
      BY <1>1, <2>1, <2>2, <3>1
  <2>3. CASE u # t
    BY <1>2, <1>3, <2>1, <2>3, EmptiedParts
  <2> QED
    BY <2>2, <2>3
<1>7. ASSUME NEW u \in Threads, FanBreaks(u) PROVE Goal
  <2>1. PICK d \in fan[u] :
          /\ d.post \in Posts /\ fan' = [fan EXCEPT ![u] = {}]
          /\ \/ missed' = [i \in Hosts |-> missed[i] \union {d.post}]
             \/ u[2] \in Others /\ Break(Owner, u[2], {d.post})
    BY <1>7, BrokenBy
  <2>2. CASE u = t
    <3>1. d = f
      BY <1>2, <2>2
    <3>2. missed' = [i \in Hosts |-> missed[i] \union {d.post}] => p \in missed'[h]
      BY <1>1, <3>1
    <3>3. Break(Owner, u[2], {d.post}) => p \in missed'[h]
      BY <1>1, <3>1 DEF Break
    <3> QED
      BY <2>1, <3>2, <3>3
  <2>3. CASE u # t
    BY <1>2, <1>3, <2>1, <2>3, EmptiedParts
  <2> QED
    BY <2>2, <2>3
<1>8. ASSUME NEW q \in Posts, Post(q) PROVE fan'[t] = fan[t]
  BY <1>4, <1>8 DEF Post
<1>9. ASSUME NEW m \in Others, Relay(m) PROVE fan'[t] = fan[t]
  <2>1. /\ wire[m][Owner] # <<>> /\ Next1(m, Owner).kind = "file" /\ fan[Reader(m)] = {} /\ m \in Hosts
        /\ Begin(Reader(m), Next1(m, Owner).post) \/ fan' = fan
    BY <1>9 DEF Relay, Arrives
  <2>2. Next1(m, Owner).post \in Posts
    BY <2>1, ReadIsHome
  <2> QED
    BY <1>4, <2>1, <2>2
<1>10. Goal
  BY <1>3, <1>5, <1>6, <1>7, <1>8, <1>9 DEF Next, vars, PostFile, HearText, Disconnect, Connect, HearFile,
     HearRoster, Admit, Remove, Change
<1> QED
  BY <1>10

----------------------------------------------------------------------------
(* Everybody hears.                                                        *)

LEMMA BegunPending ==
  ASSUME Types, NEW p \in Posts, Begin(FanOf(p), p), NEW h \in Hosts
  PROVE  Pending(h, p)'
<1>1. FanOf(p) \in Threads
  BY ThreadFacts
<1>2. \E f \in Fans : fan'[FanOf(p)] = {f} /\ f.post = p /\ f.done = {}
  BY <1>1, BeginParts
<1> QED
  BY <1>2 DEF Pending

LEMMA ShowingCounts ==
  ASSUME Types, NEW h \in Hosts, NEW p \in Posts, Show(h, p)
  PROVE  shown'[h][p] >= 1
BY ShowParts

(* The steady members' copies let the steady members' posts pass.          *)
LEMMA ReadReaches ==
  ASSUME Types, HomeInv, SteadyInv, NEW g \in Hosts, NEW h \in Hosts, NEW p \in Posts, Read(g, h, p),
         {h, Author[p]} \subseteq Steady, NEW j \in Hosts, j = h \/ (p \in Files /\ h = Owner)
  PROVE  shown'[j][p] >= 1 \/ Pending(j, p)'
<1> USE HostFacts
<1>1. /\ Author[p] \in roster[h] /\ Author[p] \in roster[Owner] /\ Owner \in roster[h]
  BY DEF SteadyInv, Steady, Types
<1>2. /\ wire[g][h] # <<>> /\ Next1(g, h).kind \in {"text", "file"} /\ Next1(g, h).post = p
  BY DEF Read, Brings
<1>3. Route(g, h, p) /\ (p \in Texts <=> Next1(g, h).kind = "text")
  BY <1>2, ReadIsHome
<1>4. CASE HearText(g, h)
  <2>1. p \in Texts /\ g = Author[p] /\ j = h
    BY <1>3, <1>4 DEF HearText, Route
  <2>2. Show(h, p)
    BY <1>1, <1>2, <1>4, <2>1 DEF HearText, TextAllowed
  <2> QED
    BY <2>1, <2>2, ShowingCounts
<1>5. CASE h = Owner /\ Relay(g)
  <2>1. p \in Files /\ g = Author[p] /\ g # Owner
    BY <1>3, <1>5 DEF Relay, Route
  <2>2. Begin(Reader(g), p)
    BY <1>1, <1>2, <1>5, <2>1 DEF Relay
  <2>3. FanOf(p) = Reader(g)
    BY <2>1 DEF FanOf
  <2> QED
    BY <2>2, <2>3, BegunPending
<1>6. CASE g = Owner /\ HearFile(h)
  <2>1. h # Owner
    BY <1>3, <1>6 DEF Route
  <2>2. Show(h, p)
    BY <1>1, <1>2, <1>6 DEF HearFile, FileAllowed
  <2> QED
    BY <2>1, <2>2, ShowingCounts
<1> QED
  BY <1>4, <1>5, <1>6 DEF Read

LEMMA NewReaches ==
  ASSUME Types, [Next]_vars, NEW h \in Hosts, NEW p \in Posts, p \notin posted, p \in posted'
  PROVE  Reaches(h, p)'
<1> USE HostFacts, ThreadFacts
<1>1. Post(p) \/ PostFile(p)
  <2>1. ASSUME NEW q \in Posts, Post(q) \/ PostFile(q) PROVE q = p
    BY <2>1 DEF Post, PostFile
  <2> QED
    BY <2>1 DEF Next, vars, FanEnd, FanBreaks, FanNext, HearText, Disconnect, Connect, Relay, HearFile,
       HearRoster, Admit, Remove, Change
<1>2. CASE Post(p)
  <2>1. Begin(User(Author[p]), p) /\ FanOf(p) = User(Author[p])
    BY <1>2 DEF Post, FanOf
  <2>2. Pending(h, p)'
    BY <2>1, BegunPending
  <2> QED
    BY <2>2 DEF Reaches
<1>3. CASE PostFile(p)
  <2>1. p \in Files /\ Author[p] # Owner /\ Connected(Author[p], Owner) /\ WritePost(Author[p], Owner, p)
    BY <1>3 DEF PostFile
  <2>2. Carries(wire'[Author[p]][Owner], p)
    BY <2>1, WriteCarries
  <2>3. Upstream(p)'
    BY <2>1, <2>2 DEF Upstream
  <2> QED
    BY <2>3 DEF Reaches
<1> QED
  BY <1>1, <1>2, <1>3

LEMMA WrittenReaches ==
  ASSUME Types, HomeInv, SteadyInv, WireInv, [Next]_vars, NEW h \in Hosts, NEW p \in Posts,
         {h, Author[p]} \subseteq Steady, Written(h, p)
  PROVE  Reaches(h, p)'
<1>1. PICK g \in Hosts : Carries(wire[g][h], p)
  BY DEF Written
<1>2. CASE Carries(wire'[g][h], p)
  BY <1>2 DEF Reaches, Written
<1>3. CASE Read(g, h, p)
  <2>1. shown'[h][p] >= 1 \/ Pending(h, p)'
    BY <1>3, ReadReaches
  <2> QED
    BY <2>1 DEF Reaches
<1>4. CASE \A i \in Hosts : LostFor(i, g, h) \subseteq missed'[i]
  <2>1. p \in LostFor(h, g, h)
    BY <1>1, FramePostsMeans DEF LostFor
  <2> QED
    BY <1>4, <2>1 DEF Reaches
<1> QED
  BY <1>1, <1>2, <1>3, <1>4, WireFate

LEMMA UpstreamReaches ==
  ASSUME Types, HomeInv, SteadyInv, WireInv, [Next]_vars, NEW h \in Hosts, NEW p \in Posts,
         Author[p] \in Steady, Upstream(p)
  PROVE  Reaches(h, p)'
<1> USE HostFacts
<1>1. p \in Files /\ Author[p] # Owner /\ Carries(wire[Author[p]][Owner], p)
  BY DEF Upstream
<1>2. CASE Carries(wire'[Author[p]][Owner], p)
  BY <1>1, <1>2 DEF Reaches, Upstream
<1>3. CASE Read(Author[p], Owner, p)
  <2>1. Owner \in Steady
    BY DEF SteadyInv, Steady, Types
  <2>2. shown'[h][p] >= 1 \/ Pending(h, p)'
    BY <1>1, <1>3, <2>1, ReadReaches
  <2> QED
    BY <2>2 DEF Reaches
<1>4. CASE \A i \in Hosts : LostFor(i, Author[p], Owner) \subseteq missed'[i]
  <2>1. p \in LostFor(h, Author[p], Owner)
    BY <1>1, FramePostsMeans DEF LostFor
  <2> QED
    BY <1>4, <2>1 DEF Reaches
<1> QED
  BY <1>1, <1>2, <1>3, <1>4, WireFate

LEMMA PendingReaches ==
  ASSUME Types, HomeInv, SteadyInv, [Next]_vars, NEW h \in Hosts, NEW p \in Posts,
         {h, Author[p]} \subseteq Steady, Pending(h, p)
  PROVE  Reaches(h, p)'
<1> DEFINE t == FanOf(p)
           g == HostOf(t)
<1> USE HostFacts
<1>1. t \in Threads /\ g \in Hosts /\ g \in {Author[p], Owner}
  BY ThreadFacts
<1>2. Owner \in Steady /\ g \in Steady
  BY <1>1 DEF SteadyInv, Steady, Types
<1>3. CASE Pending(h, p)' \/ p \in missed'[h]
  BY <1>3 DEF Reaches
<1>4. CASE WritePost(g, h, p)
  <2>1. Carries(wire'[g][h], p) \/ Carries(hold'[g][h], p) \/ p \in missed'[h]
    BY <1>1, <1>4, WriteCarries
  <2> QED
    BY <1>1, <2>1 DEF Reaches, Written, Held
<1>5. CASE \E f \in fan[t] : f.post = p /\ h \notin f.done /\ Left(t, f) = {} /\ Show(g, p)
  <2>1. PICK f \in fan[t] : f.post = p /\ h \notin f.done /\ Left(t, f) = {} /\ Show(g, p)
    BY <1>5
  <2>2. Steady \subseteq Over(t, f)
    BY <1>1, <1>2, <2>1 DEF SteadyInv, Over, Steady
  <2>3. h = g
    BY <2>1, <2>2 DEF Left
  <2>4. shown'[h][p] >= 1
    BY <2>1, <2>3, ShowingCounts
  <2> QED
    BY <2>4 DEF Reaches
<1> QED
  BY <1>3, <1>4, <1>5, FanFate

LEMMA HearStep == Types /\ PostInv /\ SteadyInv /\ WireInv /\ HearInv /\ [Next]_vars => HearInv'
<1> SUFFICES ASSUME Types, PostInv, SteadyInv, WireInv, HearInv, [Next]_vars,
                    NEW h \in Hosts, NEW p \in Posts, Entitled(h, p)'
             PROVE  Reaches(h, p)'
  BY DEF HearInv
<1>1. HomeInv /\ Steady' \subseteq Steady
  BY SteadyShrinks DEF PostInv
<1>2. p \in posted' /\ h # Author[p] /\ {h, Author[p]} \subseteq Steady
      /\ (p \in Files \/ Pair(h, Author[p]) \in Friends)
  BY <1>1 DEF Entitled
<1>3. CASE p \notin posted
  BY <1>2, <1>3, NewReaches
<1>4. CASE p \in posted
  <2>1. Reaches(h, p)
    BY <1>2, <1>4 DEF HearInv, Entitled
  <2>2. CASE shown[h][p] >= 1 \/ p \in missed[h]
    <3>1. shown'[h][p] >= 1 \/ p \in missed'[h]
      BY <1>1, <2>2, HistoryGrows
    <3> QED
      BY <3>1 DEF Reaches
  <2>3. CASE Upstream(p)
    BY <1>1, <1>2, <2>3, UpstreamReaches
  <2>4. CASE Pending(h, p)
    BY <1>1, <1>2, <2>4, PendingReaches
  <2>5. CASE Written(h, p)
    BY <1>1, <1>2, <2>5, WrittenReaches
  <2>6. CASE Held(h, p)
    <3>1. PICK g \in Hosts : Carries(hold[g][h], p)
      BY <2>6 DEF Held
    <3>2. Carries(hold'[g][h], p) \/ Carries(wire'[g][h], p)
      BY <3>1, HoldFate
    <3> QED
      BY <3>2 DEF Reaches, Held, Written
  <2> QED
    BY <2>1, <2>2, <2>3, <2>4, <2>5, <2>6 DEF Reaches
<1> QED
  BY <1>3, <1>4

LEMMA HearInit == Init => SteadyInv /\ WireInv /\ HearInv
<1> SUFFICES ASSUME Init
             PROVE  SteadyInv /\ WireInv /\ HearInv
  OBVIOUS
<1>1. PICK r \in SUBSET Others :
        roster = [h \in Hosts |-> IF h \in r \union {Owner} THEN r \union {Owner} ELSE {}]
  BY DEF Init
<1>2. /\ \A g, h \in Hosts : wire[g][h] = <<>> /\ hold[g][h] = <<>>
      /\ \A t \in Threads : fan[t] = {}
      /\ posted = {}
  BY DEF Init
<1>3. roster[Owner] = r \union {Owner} /\ \A h \in roster[Owner] : h \in Hosts /\ roster[h] = roster[Owner]
  BY <1>1, HostFacts
<1>4. SteadyInv
  BY <1>2, <1>3, HostFacts DEF SteadyInv, Steady
<1> QED
  BY <1>2, <1>4 DEF WireInv, WireOf, HearInv, Entitled

LEMMA HearMeans == Types /\ PostInv /\ WireInv /\ HearInv => EverybodyHears
<1> SUFFICES ASSUME Types, PostInv, WireInv, HearInv, Quiet, NEW p \in posted, NEW h \in Hosts,
                    h # Author[p], {h, Author[p]} \subseteq roster[Owner] \ churned,
                    p \in Files \/ Pair(h, Author[p]) \in Friends
             PROVE  shown[h][p] = 1 \/ p \in missed[h]
  BY DEF EverybodyHears
<1> USE HostFacts, ThreadFacts
<1>1. p \in Posts /\ shown[h][p] \in Nat
  BY DEF Types
<1>2. Reaches(h, p)
  BY <1>1 DEF HearInv, Entitled, Steady
<1>3. /\ \A g \in Hosts, i \in Hosts : ~Carries(wire[g][i], p)
      /\ \A t \in Threads : fan[t] = {}
  BY CarriesNothing DEF Quiet
<1>4. ~Upstream(p) /\ ~Pending(h, p) /\ ~Written(h, p)
  BY <1>1, <1>3 DEF Upstream, Pending, Written
<1>5. ~Held(h, p)
  <2> SUFFICES ASSUME NEW g \in Hosts, Carries(hold[g][h], p)
               PROVE  FALSE
    BY DEF Held
  <2>1. p \in Texts
    BY HeldAreTexts
  <2>2. g = Author[p]
    BY <1>1, <2>1 DEF PostInv, HomeInv, HoldHome, Route
  <2>3. Pair(g, h) \in Friends
    BY <1>1, <2>1, <2>2 DEF Pair
  <2>4. Connected(g, h)
    BY <2>3 DEF Quiet, Connected
  <2>5. hold[g][h] = <<>>
    BY <2>4 DEF WireInv, WireOf
  <2> QED
    BY <2>5, CarriesNothing
<1>6. shown[h][p] <= 1
  BY <1>1 DEF PostInv, OnceInv, Minds, Once
<1> QED
  BY <1>1, <1>2, <1>4, <1>5, <1>6 DEF Reaches

(* Once nothing is under way, the steady members have each other's posts,  *)
(* each once, but for what went down with a socket or a broken fan-out     *)
(* (send_room_text, post_room_file, the broadcast and _send_or_queue).     *)
THEOREM HearCorrect == Spec => []EverybodyHears
<1>1. PostInv => HomeInv
  BY DEF PostInv
<1> QED
  BY <1>1, TypesInit, TypesStep, PostInit, PostStep, HearInit, SteadyStep, WireStep, HearStep, HearMeans,
     PTL DEF Spec
=============================================================================
