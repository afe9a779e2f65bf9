---------------------------- MODULE HistoryProofs ----------------------------
(***************************************************************************)
(* Proofs about the history store: its types, that a redelivery shows no   *)
(* message twice and brings none back, that a removed friend's chat is     *)
(* forgotten, and that the file follows the store.                         *)
(***************************************************************************)
EXTENDS History, FiniteSetTheorems, TLAPS

(***************************************************************************)
(* The inductive invariant.  A message that no repetition has escaped the  *)
(* check of _seen_mids (it is not in again) is in one place: on its way in *)
(* a thread or among the held, or in the store, where it is remembered.    *)
(***************************************************************************)
Once(s, A) == \A i, j \in DOMAIN s : s[i].mid = s[j].mid /\ s[i].mid \notin A => i = j

(* The messages among the steps of q, to store or to hold.                 *)
Of(q) == {m \in Mids : \E i \in DOMAIN q : q[i].do # "clear" /\ q[i].of = m}
Carried == {m \in Mids : \E t \in Threads : m \in Of(todo[t])}

TodoOnce ==
  \A t, u \in Threads : \A i \in DOMAIN todo[t], j \in DOMAIN todo[u] :
    /\ todo[t][i].do # "clear" /\ todo[u][j].do # "clear"
    /\ todo[t][i].of = todo[u][j].of /\ todo[t][i].of \notin again
    => t = u /\ i = j
HeldOnce ==
  \A x, y \in Peers : \A i \in DOMAIN held[x], j \in DOMAIN held[y] :
    held[x][i] = held[y][j] /\ held[x][i] \notin again => x = y /\ i = j

HeldFrom == \A x \in Peers : \A i \in DOMAIN held[x] : PeerOf[held[x][i]] = x

Waiting == UNION {ToSet(held[x]) : x \in Peers}

(* On its way once, and then neither stored, nor removed, nor remembered.  *)
Apart ==
  \A m \in Mids \ again :
    /\ ~(m \in Carried /\ m \in Waiting)
    /\ m \in Carried \union Waiting => m \notin MidsOf(hist) \union seen \union gone
Counted ==
  \A m \in MidsOf(hist) \union MidsOf(file) \union Carried \union Waiting \union seen \union gone :
    copies[m] > 0
Remembered == \A m \in Inbound \ again : m \in MidsOf(hist) \union gone => m \in seen

(* Stored or about to be: its peer is on record, or about to be cleared.   *)
Trusted ==
  \A m \in (MidsOf(hist) \union InHand) \ left :
    record[PeerOf[m]] # "none" \/ PeerOf[m] \in Clearing

OnceInv ==
  /\ Once(hist, again) /\ Once(file, again) /\ TodoOnce /\ HeldOnce
  /\ Apart /\ Counted /\ Remembered
  /\ DeletedStaysDeleted

HistoryInv == TypeOK /\ OnceInv /\ HeldFrom /\ FileFollows /\ Trusted

-----------------------------------------------------------------------------
(***************************************************************************)
(* Sequences: what is left of a store is a part of it.                     *)
(***************************************************************************)
Part(r, s) ==
  \E f \in [DOMAIN r -> DOMAIN s] :
    /\ \A i, j \in DOMAIN r : f[i] = f[j] => i = j
    /\ \A i \in DOMAIN r : r[i] = s[f[i]]

LEMMA PartOf ==
  ASSUME NEW r, NEW s, Part(r, s), NEW A, NEW B, A \subseteq B
  PROVE  MidsOf(r) \subseteq MidsOf(s) /\ (Once(s, A) => Once(r, B))
<1>1. PICK f \in [DOMAIN r -> DOMAIN s] :
        /\ \A i, j \in DOMAIN r : f[i] = f[j] => i = j
        /\ \A i \in DOMAIN r : r[i] = s[f[i]]
  BY DEF Part
<1>2. MidsOf(r) \subseteq MidsOf(s)
  BY <1>1 DEF MidsOf
<1>3. ASSUME Once(s, A) PROVE Once(r, B)
  BY <1>1, <1>3 DEF Once
<1> QED
  BY <1>2, <1>3

LEMMA WholePart == \A s : Part(s, s)
<1> SUFFICES ASSUME NEW s PROVE Part(s, s)
  OBVIOUS
<1> DEFINE f == [i \in DOMAIN s |-> i]
<1>1. f \in [DOMAIN s -> DOMAIN s] /\ \A i \in DOMAIN s : f[i] = i
  OBVIOUS
<1> HIDE DEF f
<1> QED
  BY <1>1 DEF Part

LEMMA KeepingPart ==
  ASSUME NEW s \in Seq(Message), NEW S, NEW r \in Keeping(s, S)
  PROVE  /\ r \in Seq(Message) /\ Len(r) <= Len(s)
         /\ Part(r, s) /\ MidsOf(r) \subseteq S
<1> DEFINE I == {i \in DOMAIN s : s[i].mid \in S}
<1>1. PICK f \in Ascending(I) : r = [i \in DOMAIN f |-> s[f[i]]]
  BY DEF Keeping
<1>2. DOMAIN s = 1..Len(s) /\ Len(s) \in Nat /\ I \subseteq 1..Len(s)
  OBVIOUS
<1>3. Cardinality(I) \in Nat /\ Cardinality(I) <= Len(s)
  <2>1. IsFiniteSet(1..Len(s)) /\ Cardinality(1..Len(s)) = Len(s)
    BY <1>2, FS_Interval
  <2>2. IsFiniteSet(I) /\ Cardinality(I) <= Cardinality(1..Len(s))
    BY <1>2, <2>1, FS_Subset
  <2> QED
    BY <2>1, <2>2, FS_CardinalityType
<1> DEFINE n == Cardinality(I)
<1>4. /\ f \in [1..n -> I] /\ DOMAIN f = 1..n
      /\ \A i, j \in 1..n : i < j => f[i] < f[j]
  BY <1>1 DEF Ascending
<1>5. I \subseteq DOMAIN s /\ \A i \in I : s[i] \in Message /\ s[i].mid \in S
  OBVIOUS
<1> HIDE DEF n, I
<1>6. n \in Nat /\ n <= Len(s)
  BY <1>3 DEF n
<1>7. /\ DOMAIN r = 1..n
      /\ \A i \in 1..n : r[i] = s[f[i]] /\ f[i] \in I /\ r[i] \in Message /\ r[i].mid \in S
  BY <1>1, <1>4, <1>5
<1>8. r \in Seq(Message) /\ Len(r) = n
  <2>1. r = [i \in 1..n |-> s[f[i]]]
    BY <1>1, <1>4
  <2>2. r \in [1..n -> Message]
    BY <1>7, <2>1
  <2> QED
    BY <1>6, <2>2, <1>7
<1>9. \A i, j \in 1..n : f[i] = f[j] => i = j
  <2> SUFFICES ASSUME NEW i \in 1..n, NEW j \in 1..n, f[i] = f[j], i # j PROVE FALSE
    OBVIOUS
  <2>1. f[i] \in Int /\ f[j] \in Int
    <3>1. f[i] \in I /\ f[j] \in I
      BY <1>4
    <3>2. f[i] \in 1..Len(s) /\ f[j] \in 1..Len(s)
      BY <1>2, <3>1
    <3> QED
      BY <3>2
  <2>2. CASE i < j
    BY <1>4, <2>1, <2>2
  <2>3. CASE j < i
    BY <1>4, <2>1, <2>3
  <2> QED
    BY <1>6, <2>2, <2>3
<1>10. f \in [DOMAIN r -> DOMAIN s]
  BY <1>4, <1>5, <1>7
<1> QED
  BY <1>6, <1>7, <1>8, <1>9, <1>10 DEF Part, MidsOf

LEMMA NewestPart ==
  ASSUME NEW s \in Seq(Message)
  PROVE  /\ Newest(s) \in Seq(Message) /\ Len(Newest(s)) <= Limit
         /\ Part(Newest(s), s)
         /\ Len(s) <= Limit => Newest(s) = s
<1>1. Len(s) \in Nat /\ DOMAIN s = 1..Len(s) /\ Limit \in Nat \ {0}
  BY BoundsAreNat
<1>2. CASE Len(s) > Limit
  <2>1. PICK a \in 1..Len(s) : a = Len(s) - Limit + 1
    BY <1>1, <1>2
  <2>2. Newest(s) = SubSeq(s, a, Len(s))
    BY <1>2, <2>1 DEF Newest
  <2>3. /\ SubSeq(s, a, Len(s)) \in Seq(Message) /\ Len(SubSeq(s, a, Len(s))) = Limit
        /\ \A i \in 1..Limit : SubSeq(s, a, Len(s))[i] = s[a + i - 1]
    BY <1>1, <1>2, <2>1
  <2>4. PICK r \in Seq(Message) : r = Newest(s)
    BY <2>2, <2>3
  <2>5. DOMAIN r = 1..Limit /\ \A i \in 1..Limit : r[i] = s[a + i - 1] /\ a + i - 1 \in DOMAIN s
    BY <1>1, <1>2, <2>1, <2>2, <2>3, <2>4
  <2> DEFINE f == [i \in 1..Limit |-> a + i - 1]
  <2>6. f \in [DOMAIN r -> DOMAIN s] /\ \A i \in 1..Limit : f[i] = a + i - 1
    BY <2>5
  <2>7. \A i, j \in DOMAIN r : f[i] = f[j] => i = j
    BY <1>1, <2>5, <2>6
  <2> HIDE DEF f
  <2>9. \A i \in DOMAIN r : r[i] = s[f[i]]
    BY <2>5, <2>6
  <2>8. Part(r, s)
    BY <2>6, <2>7, <2>9, Zenon DEF Part
  <2> QED
    BY <1>1, <1>2, <2>2, <2>3, <2>4, <2>8
<1>3. CASE ~(Len(s) > Limit)
  <2>1. Newest(s) = SubSeq(s, 1, Len(s))
    BY <1>3 DEF Newest
  <2>2. SubSeq(s, 1, Len(s)) = s
    OBVIOUS
  <2>3. Newest(s) = s /\ Part(s, s)
    BY <2>1, <2>2, WholePart
  <2> QED
    BY <1>1, <1>3, <2>3
<1> QED
  BY <1>2, <1>3

(* Taking the first step off what a thread has to do.                      *)
LEMMA TailSteps ==
  ASSUME NEW q \in Seq(Task), q # <<>>
  PROVE  /\ Tail(q) \in Seq(Task) /\ Head(q) = q[1] /\ 1 \in DOMAIN q
         /\ \A i \in DOMAIN Tail(q) : Tail(q)[i] = q[i + 1] /\ i + 1 \in DOMAIN q /\ i + 1 # 1
         /\ ToSet(Tail(q)) \subseteq ToSet(q)
         /\ ToSet(q) = ToSet(Tail(q)) \union {Head(q)}
<1>1. /\ Tail(q) \in Seq(Task) /\ Head(q) = q[1] /\ Len(q) \in Nat \ {0}
      /\ Len(Tail(q)) = Len(q) - 1 /\ DOMAIN q = 1..Len(q) /\ DOMAIN Tail(q) = 1..Len(Tail(q))
  OBVIOUS
<1>2. \A i \in DOMAIN Tail(q) : Tail(q)[i] = q[i + 1] /\ i + 1 \in DOMAIN q /\ i + 1 # 1
  BY <1>1
<1>3. ToSet(Tail(q)) \union {Head(q)} \subseteq ToSet(q)
  BY <1>1, <1>2 DEF ToSet
<1>4. ToSet(q) \subseteq ToSet(Tail(q)) \union {Head(q)}
  <2> SUFFICES ASSUME NEW i \in DOMAIN q, i # 1
               PROVE  q[i] \in ToSet(Tail(q))
    BY <1>1 DEF ToSet
  <2>1. i - 1 \in DOMAIN Tail(q) /\ q[i] = Tail(q)[i - 1]
    BY <1>1
  <2> QED
    BY <2>1 DEF ToSet
<1> QED
  BY <1>1, <1>2, <1>3, <1>4

-----------------------------------------------------------------------------
(***************************************************************************)
(* Types.                                                                  *)
(***************************************************************************)
LEMMA TaskType ==
  /\ \A m \in Mids : Store(m) \in Task /\ Store(m).do = "append" /\ Store(m).of = m
  /\ \A m \in Requests : Ask(m) \in Task /\ Ask(m).do = "hold" /\ Ask(m).of = m
  /\ \A p \in Peers : Clear(p) \in Task /\ Clear(p).do = "clear" /\ Clear(p).of = p
  /\ \A k \in Task : \/ k.do = "append" /\ k.of \in Mids /\ k = Store(k.of)
                     \/ k.do = "hold" /\ k.of \in Requests /\ k = Ask(k.of)
                     \/ k.do = "clear" /\ k.of \in Peers /\ k = Clear(k.of)
<1>1. \A m \in Mids : Store(m) \in Task /\ Store(m).do = "append" /\ Store(m).of = m
  BY DEF Task, Store
<1>2. \A p \in Peers : Clear(p) \in Task /\ Clear(p).do = "clear" /\ Clear(p).of = p
  BY DEF Task, Clear
<1>3. \A m \in Requests : Ask(m) \in Task /\ Ask(m).do = "hold" /\ Ask(m).of = m
  BY DEF Task, Ask
<1>4. \A k \in Task : \/ \E m \in Mids : k = Store(m)
                      \/ \E m \in Requests : k = Ask(m)
                      \/ \E p \in Peers : k = Clear(p)
  BY DEF Task
<1> QED
  BY <1>1, <1>2, <1>3, <1>4

(* The held messages revealed: the steps the command's thread is given.    *)
LEMMA RevealType ==
  ASSUME NEW q \in Seq(Requests)
  PROVE  /\ [i \in DOMAIN q |-> Store(q[i])] \in Seq(Task)
         /\ DOMAIN [i \in DOMAIN q |-> Store(q[i])] = DOMAIN q
<1>1. Requests \subseteq Mids
  BY MessagesType DEF Mids
<1>2. Len(q) \in Nat /\ DOMAIN q = 1..Len(q) /\ \A i \in 1..Len(q) : q[i] \in Mids
  BY <1>1
<1>3. PICK f : f = [i \in DOMAIN q |-> Store(q[i])]
  OBVIOUS
<1>4. DOMAIN f = 1..Len(q) /\ \A i \in 1..Len(q) : f[i] \in Task
  BY <1>2, <1>3, TaskType
<1>5. f \in [1..Len(q) -> Task]
  BY <1>3, <1>4
<1> QED
  BY <1>2, <1>3, <1>4, <1>5

LEMMA SaveGives ==
  ASSUME TypeOK, Save
  PROVE  /\ \/ file' = hist' /\ unsaved' = FALSE
            \/ file' = file /\ unsaved' = TRUE
         /\ faults' \in 0..MaxFault
BY BoundsAreNat DEF TypeOK, Save, MayFail

(* A record is set, and saved or not.                                      *)
LEMMA RecordGives ==
  ASSUME TypeOK, NEW p \in Peers, NEW r \in Records, SetRecord(p, r)
  PROVE  /\ record' = [record EXCEPT ![p] = r]
         /\ record' \in [Peers -> Records] /\ config' \in [Peers -> Records]
         /\ ledger' \subseteq Peers /\ faults' \in 0..MaxFault
<1>1. record' = [record EXCEPT ![p] = r] /\ record' \in [Peers -> Records]
  BY DEF SetRecord, TypeOK
<1>2. config' = config \/ config' = record'
  BY DEF SetRecord
<1>3. ledger' \in {ledger, ledger \union {p}, ledger \ {p}}
  BY DEF SetRecord
<1>4. faults' \in 0..MaxFault
  BY BoundsAreNat DEF SetRecord, MayFail, TypeOK
<1> QED
  BY <1>1, <1>2, <1>3, <1>4 DEF TypeOK

LEMMA MidsType ==
  ASSUME NEW s \in Seq(Message)
  PROVE  MidsOf(s) \subseteq Mids /\ \A i \in DOMAIN s : s[i].mid \in MidsOf(s)
<1>1. \A i \in DOMAIN s : s[i] \in Message
  OBVIOUS
<1>2. \A e \in Message : e.mid \in Mids
  BY DEF Message
<1> QED
  BY <1>1, <1>2 DEF MidsOf

(* The marks of a message change, and nothing else of the store.           *)
Marked(s, n, k) == [s EXCEPT ![n].marks = @ \union {k}]

LEMMA MarkGives ==
  ASSUME NEW s \in Seq(Message), NEW n, NEW k \in Marks,
         NEW r, r = Marked(s, n, k)
  PROVE  /\ r \in Seq(Message) /\ Len(r) = Len(s) /\ DOMAIN r = DOMAIN s
         /\ \A i \in DOMAIN s : r[i].mid = s[i].mid
<1>1. Len(s) \in Nat /\ DOMAIN s = 1..Len(s) /\ \A i \in 1..Len(s) : s[i] \in Message
  OBVIOUS
<1>3. /\ DOMAIN r = 1..Len(s)
      /\ \A i \in 1..Len(s) : r[i] = IF i = n THEN [s[i] EXCEPT !.marks = @ \union {k}] ELSE s[i]
  BY <1>1 DEF Marked
<1>4. \A e \in Message : [e EXCEPT !.marks = @ \union {k}] \in Message
                         /\ [e EXCEPT !.marks = @ \union {k}].mid = e.mid
  BY DEF Message
<1>5. \A i \in 1..Len(s) : r[i] \in Message /\ r[i].mid = s[i].mid
  BY <1>1, <1>3, <1>4
<1>6. r = [i \in 1..Len(s) |-> r[i]]
  BY <1>3 DEF Marked
<1>7. r \in [1..Len(s) -> Message]
  BY <1>5, <1>6
<1>8. r \in Seq(Message) /\ Len(r) = Len(s)
  BY <1>1, <1>3, <1>7
<1> QED
  BY <1>1, <1>3, <1>5, <1>8

LEMMA AppendStore ==
  ASSUME NEW s \in Seq(Message), NEW m \in Mids
  PROVE  /\ Append(s, Entry(m)) \in Seq(Message)
         /\ MidsOf(Append(s, Entry(m))) = MidsOf(s) \union {m}
         /\ \A A, B : Once(s, A) /\ A \subseteq B /\ (m \in MidsOf(s) => m \in B)
                        => Once(Append(s, Entry(m)), B)
<1>1. Entry(m) \in Message /\ Entry(m).mid = m
  BY DEF Entry, Message
<1>2. /\ Append(s, Entry(m)) \in Seq(Message) /\ Len(s) \in Nat
      /\ DOMAIN s = 1..Len(s) /\ DOMAIN Append(s, Entry(m)) = 1..(Len(s) + 1)
      /\ \A i \in 1..Len(s) : Append(s, Entry(m))[i] = s[i]
      /\ Append(s, Entry(m))[Len(s) + 1] = Entry(m)
  BY <1>1
<1>3. PICK r \in Seq(Message) : r = Append(s, Entry(m))
  BY <1>2
<1>4. /\ DOMAIN r = 1..(Len(s) + 1) /\ \A i \in 1..Len(s) : r[i] = s[i]
      /\ r[Len(s) + 1].mid = m
  BY <1>1, <1>2, <1>3
<1>5. MidsOf(r) = MidsOf(s) \union {m}
  <2>1. MidsOf(r) \subseteq MidsOf(s) \union {m}
    BY <1>2, <1>4 DEF MidsOf
  <2>2. \A i \in DOMAIN s : i \in DOMAIN r /\ r[i] = s[i]
    BY <1>2, <1>4
  <2>3. Len(s) + 1 \in DOMAIN r
    BY <1>2, <1>4
  <2> QED
    BY <1>4, <2>1, <2>2, <2>3 DEF MidsOf
<1>6. ASSUME NEW A, NEW B, Once(s, A), A \subseteq B, m \in MidsOf(s) => m \in B
      PROVE  Once(r, B)
  <2> SUFFICES ASSUME NEW i \in DOMAIN r, NEW j \in DOMAIN r, r[i].mid = r[j].mid, r[i].mid \notin B
               PROVE  i = j
    BY DEF Once
  <2>1. \A l \in 1..Len(s) : s[l].mid \in MidsOf(s)
    BY <1>2 DEF MidsOf
  <2>2. CASE i \in 1..Len(s) /\ j \in 1..Len(s)
    BY <1>2, <1>4, <1>6, <2>2 DEF Once
  <2>3. CASE i \in 1..Len(s) /\ j \notin 1..Len(s)
    <3>1. j = Len(s) + 1
      BY <1>2, <1>4, <2>3
    <3> QED
      BY <1>4, <1>6, <2>1, <2>3, <3>1
  <2>4. CASE i \notin 1..Len(s) /\ j \in 1..Len(s)
    <3>1. i = Len(s) + 1
      BY <1>2, <1>4, <2>4
    <3> QED
      BY <1>4, <1>6, <2>1, <2>4, <3>1
  <2>5. CASE i \notin 1..Len(s) /\ j \notin 1..Len(s)
    BY <1>2, <1>4, <2>5
  <2> QED
    BY <2>2, <2>3, <2>4, <2>5
<1> QED
  BY <1>2, <1>3, <1>5, <1>6

LEMMA TypeStep == TypeOK /\ [Next]_vars => TypeOK'
<1> SUFFICES ASSUME TypeOK, [Next]_vars PROVE TypeOK'
  OBVIOUS
<1> USE DEF Threads
<1>0. /\ Inbound \subseteq Mids /\ Outbound \subseteq Mids /\ Requests \subseteq Inbound
      /\ \A m \in Mids : PeerOf[m] \in Peers
  BY MessagesType DEF Mids
<1>b. /\ HeldMax \in Nat /\ MaxCommand \in Nat /\ MaxFault \in Nat
      /\ MaxCopies \in [Mids -> Nat]
  BY BoundsAreNat
<1>a. ASSUME NEW t \in Readers, NEW m \in Inbound, Arrives(t, m)
      PROVE  /\ copies' \in [Mids -> Nat] /\ \A n \in Mids : copies'[n] <= MaxCopies[n]
             /\ UNCHANGED <<hist, file, seen, unsaved, held, gone, commands>>
  <2>1. /\ copies \in [Mids -> Nat] /\ \A n \in Mids : copies[n] <= MaxCopies[n]
        /\ m \in Mids /\ copies[m] < MaxCopies[m]
        /\ copies' = [copies EXCEPT ![m] = @ + 1]
    BY <1>0, <1>a DEF Arrives, TypeOK
  <2>2. \A n \in Mids : copies'[n] \in Nat /\ copies'[n] <= MaxCopies[n]
    BY <1>b, <2>1
  <2> QED
    BY <1>a, <2>1, <2>2 DEF Arrives, storeVars
<1>t. ASSUME NEW t \in Threads, NEW k \in Task, todo' = [todo EXCEPT ![t] = <<k>>]
      PROVE  todo' \in [Threads -> Seq(Task)]
  <2>1. <<k>> \in Seq(Task)
    OBVIOUS
  <2> QED
    BY <1>t, <2>1 DEF TypeOK
<1>1. ASSUME NEW t \in Readers, NEW m \in Inbound, Take(t, m) PROVE TypeOK'
  <2>1. Arrives(t, m) /\ Store(m) \in Task /\ t \in Threads
    BY <1>0, <1>1, TaskType DEF Take
  <2>2. todo' \in [Threads -> Seq(Task)]
    BY <1>1, <1>t, <2>1 DEF Take
  <2>3. again' \subseteq Mids /\ UNCHANGED <<record, config, ledger, left, faults>>
    BY <1>0, <1>1 DEF Take, TypeOK, friendVars
  <2> QED
    BY <1>a, <2>1, <2>2, <2>3 DEF TypeOK
<1>2. ASSUME NEW t \in Readers, NEW m \in Inbound, Hold(t, m) PROVE TypeOK'
  <2>1. Arrives(t, m) /\ Ask(m) \in Task /\ t \in Threads
    BY <1>0, <1>2, TaskType DEF Hold
  <2>2. todo' \in [Threads -> Seq(Task)]
    BY <1>2, <1>t, <2>1 DEF Hold
  <2>3. again' \subseteq Mids /\ UNCHANGED <<record, config, ledger, left, faults>>
    BY <1>0, <1>2 DEF Hold, TypeOK, friendVars
  <2> QED
    BY <1>a, <2>1, <2>2, <2>3 DEF TypeOK
<1>15. ASSUME NEW t \in Readers, NEW m \in Inbound, Post(t, m) PROVE TypeOK'
  <2>1. Arrives(t, m) /\ Store(m) \in Task /\ t \in Threads
    BY <1>0, <1>15, TaskType DEF Post
  <2>2. todo' \in [Threads -> Seq(Task)]
    BY <1>15, <1>t, <2>1 DEF Post
  <2>3. /\ again' \subseteq Mids /\ left' \subseteq Mids
        /\ UNCHANGED <<record, config, ledger, faults>>
    BY <1>0, <1>15 DEF Post, TypeOK, friendVars
  <2> QED
    BY <1>a, <2>1, <2>2, <2>3 DEF TypeOK
<1>16. ASSUME NEW t \in Readers, NEW m \in Inbound, Mutual(t, m) PROVE TypeOK'
  <2>1. Arrives(t, m) /\ SetRecord(PeerOf[m], "friend") /\ UNCHANGED <<todo, again, left>>
    BY <1>16 DEF Mutual
  <2>2. PeerOf[m] \in Peers /\ "friend" \in Records
    BY <1>0 DEF Records
  <2>3. /\ record' \in [Peers -> Records] /\ config' \in [Peers -> Records]
        /\ ledger' \subseteq Peers /\ faults' \in 0..MaxFault
    BY <2>1, <2>2, RecordGives
  <2> QED
    BY <1>a, <2>1, <2>3 DEF TypeOK
<1>3. ASSUME NEW t \in Readers, NEW m \in Inbound, Drop(t, m) PROVE TypeOK'
  <2>1. Arrives(t, m) /\ UNCHANGED <<record, config, ledger, todo, again, left, faults>>
    BY <1>3 DEF Drop, friendVars
  <2> QED
    BY <1>a, <2>1 DEF TypeOK
<1>4. ASSUME NEW t \in Threads, DoAppend(t) PROVE TypeOK'
  <2>1. /\ todo[t] \in Seq(Task) /\ todo[t] # <<>>
        /\ todo' = [todo EXCEPT ![t] = Tail(@)] /\ Head(todo[t]).do = "append"
    BY <1>4 DEF DoAppend, Now, Due, Next1, TypeOK
  <2>2. PICK m \in Mids : m = Head(todo[t]).of
    <3>1. Head(todo[t]) \in Task
      BY <2>1
    <3> QED
      BY <2>1, <3>1, TaskType
  <2>3. seen' = seen \union {m} /\ hist' = Newest(Append(hist, Entry(m))) /\ Save
    BY <1>4, <2>2 DEF DoAppend
  <2>4. hist' \in Seq(Message) /\ Len(hist') <= Limit
    BY <2>3, AppendStore, NewestPart DEF TypeOK
  <2>5. file' \in Seq(Message) /\ Len(file') <= Limit /\ unsaved' \in BOOLEAN
        /\ faults' \in 0..MaxFault
    BY <2>3, <2>4, SaveGives DEF TypeOK
  <2>6. todo' \in [Threads -> Seq(Task)]
    BY <2>1, TailSteps DEF TypeOK
  <2>7. seen' \subseteq Mids
    BY <2>3 DEF TypeOK
  <2> QED
    BY <1>4, <2>4, <2>5, <2>6, <2>7 DEF DoAppend, TypeOK, friendVars
<1>17. ASSUME NEW t \in Threads, DoHold(t) PROVE TypeOK'
  <2>1. /\ todo[t] \in Seq(Task) /\ todo[t] # <<>>
        /\ todo' = [todo EXCEPT ![t] = Tail(@)] /\ Head(todo[t]).do = "hold"
        /\ UNCHANGED <<hist, file, seen, unsaved, copies, again, left, gone, commands>>
    BY <1>17 DEF DoHold, Now, Due, Next1, TypeOK, storeVars
  <2>2. PICK m \in Requests : m = Head(todo[t]).of
    <3>1. Head(todo[t]) \in Task
      BY <2>1
    <3> QED
      BY <2>1, <3>1, TaskType
  <2>3. PICK p \in Peers : p = PeerOf[m]
    BY <1>0
  <2>4. /\ \/ record[p] = "pending" /\ UNCHANGED <<friendVars, faults>>
           \/ record[p] # "pending" /\ SetRecord(p, "pending")
        /\ held' = IF MayHold(p) THEN [held EXCEPT ![p] = Append(@, m)] ELSE held
    BY <1>17, <2>2, <2>3 DEF DoHold
  <2>5. /\ record' \in [Peers -> Records] /\ config' \in [Peers -> Records]
        /\ ledger' \subseteq Peers /\ faults' \in 0..MaxFault
    <3>1. CASE UNCHANGED <<friendVars, faults>>
      BY <3>1 DEF friendVars, TypeOK
    <3>2. CASE SetRecord(p, "pending")
      <4>1. "pending" \in Records
        BY DEF Records
      <4> QED
        BY <3>2, <4>1, RecordGives
    <3> QED
      BY <2>4, <3>1, <3>2
  <2>6. held' \in [Peers -> Seq(Requests)] /\ \A x \in Peers : Len(held'[x]) <= HeldMax
    <3>1. \A x \in Peers : held[x] \in Seq(Requests) /\ Len(held[x]) <= HeldMax
      BY DEF TypeOK
    <3>2. \A x \in Peers : \/ held'[x] = held[x]
                           \/ /\ x = p /\ held'[x] = Append(held[x], m)
                              /\ Len(held[x]) < HeldMax
      BY <2>4 DEF MayHold, TypeOK
    <3>3. ASSUME NEW x \in Peers PROVE held'[x] \in Seq(Requests) /\ Len(held'[x]) <= HeldMax
      <4>1. PICK q \in Seq(Requests) : q = held[x]
        BY <3>1
      <4>2. /\ Append(q, m) \in Seq(Requests) /\ Len(Append(q, m)) = Len(q) + 1
            /\ Len(q) \in Nat /\ Len(q) <= HeldMax
        BY <3>1, <4>1
      <4>3. \/ held'[x] = q
            \/ held'[x] = Append(q, m) /\ Len(q) < HeldMax
        BY <3>2, <4>1
      <4>4. Len(q) < HeldMax => Len(q) + 1 <= HeldMax
        BY <1>b, <4>2
      <4>5. CASE held'[x] = q
        BY <4>1, <4>2, <4>5
      <4>6. CASE held'[x] = Append(q, m) /\ Len(q) < HeldMax
        BY <4>2, <4>4, <4>6
      <4> QED
        BY <4>3, <4>5, <4>6
    <3>4. held' = [x \in Peers |-> held'[x]]
      BY <2>4 DEF TypeOK
    <3> QED
      BY <3>3, <3>4
  <2>7. todo' \in [Threads -> Seq(Task)]
    BY <2>1, TailSteps DEF TypeOK
  <2> QED
    BY <2>1, <2>5, <2>6, <2>7 DEF TypeOK
<1>e. ASSUME NEW S, Erase(S)
      PROVE  /\ hist' \in Seq(Message) /\ Len(hist') <= Limit
             /\ file' \in Seq(Message) /\ Len(file') <= Limit /\ unsaved' \in BOOLEAN
             /\ faults' \in 0..MaxFault
             /\ gone' \subseteq Mids /\ seen' \subseteq Mids
  <2>1. hist \in Seq(Message) /\ Len(hist) <= Limit /\ Len(hist) \in Nat
    BY DEF TypeOK
  <2>2. hist' \in Seq(Message) /\ Len(hist') <= Len(hist)
    BY <1>e, <2>1, KeepingPart DEF Erase
  <2>3. Len(hist') \in Nat /\ Limit \in Nat
    BY <2>2, BoundsAreNat
  <2>4. Len(hist') <= Limit
    BY <2>1, <2>2, <2>3
  <2>5. file' \in Seq(Message) /\ Len(file') <= Limit /\ unsaved' \in BOOLEAN
        /\ faults' \in 0..MaxFault
    BY <1>e, <2>2, <2>4, SaveGives DEF Erase, TypeOK
  <2>6. MidsOf(hist) \subseteq Mids
    BY <2>1, MidsType
  <2> QED
    BY <1>e, <2>2, <2>4, <2>5, <2>6 DEF Erase, TypeOK
<1>5. ASSUME NEW t \in Threads, DoClear(t) PROVE TypeOK'
  <2>1. /\ todo[t] \in Seq(Task) /\ todo[t] # <<>>
        /\ todo' = [todo EXCEPT ![t] = Tail(@)]
        /\ Erase(FromPeer(Head(todo[t]).of))
    BY <1>5 DEF DoClear, Now, Due, Next1, TypeOK
  <2>2. todo' \in [Threads -> Seq(Task)]
    BY <2>1, TailSteps DEF TypeOK
  <2>3. left' \subseteq Mids
    BY <1>5 DEF DoClear, InHand, TypeOK
  <2>4. UNCHANGED <<record, config, ledger, held, copies, again, commands>>
    BY <1>5 DEF DoClear, friendVars
  <2> QED
    BY <1>e, <2>1, <2>2, <2>3, <2>4 DEF TypeOK
<1>r. ASSUME NEW p \in Peers, NEW r \in Records, SetRecord(p, r)
      PROVE  /\ record' \in [Peers -> Records] /\ config' \in [Peers -> Records]
             /\ ledger' \subseteq Peers /\ faults' \in 0..MaxFault
  BY <1>r, RecordGives
<1>i. "none" \in Records /\ "friend" \in Records
  BY DEF Records
<1>6. ASSUME NEW t \in Threads, NEW p \in Peers, Unfriend(t, p) PROVE TypeOK'
  <2>1. SetRecord(p, "none") /\ UNCHANGED <<hist, file, seen, unsaved, held, copies, again, left, gone>>
    BY <1>6 DEF Unfriend, storeVars
  <2>2. Clear(p) \in Task
    BY TaskType
  <2>3. todo' \in [Threads -> Seq(Task)]
    BY <1>6, <1>t, <2>2 DEF Unfriend
  <2>4. commands' \in 0..MaxCommand
    BY <1>6, <1>b DEF Unfriend, Command, TypeOK
  <2> QED
    BY <1>i, <1>r, <2>1, <2>3, <2>4 DEF TypeOK
<1>7. ASSUME NEW m \in Outbound, Send(m) PROVE TypeOK'
  <2>1. Store(m) \in Task /\ "user" \in Threads
    BY <1>0, TaskType
  <2>2. todo' \in [Threads -> Seq(Task)]
    BY <1>7, <1>t, <2>1 DEF Send
  <2>3. commands' \in 0..MaxCommand
    BY <1>7, <1>b DEF Send, UserFree, Command, TypeOK
  <2>4. copies' \in [Mids -> Nat] /\ \A n \in Mids : copies'[n] <= MaxCopies[n]
    <3>1. /\ copies \in [Mids -> Nat] /\ \A n \in Mids : copies[n] <= MaxCopies[n]
          /\ m \in Mids /\ MaxCopies[m] > 0 /\ copies' = [copies EXCEPT ![m] = 1]
      BY <1>0, <1>7 DEF Send, TypeOK
    <3>2. \A n \in Mids : copies'[n] \in Nat /\ copies'[n] <= MaxCopies[n]
      BY <1>b, <3>1
    <3> QED
      BY <3>1, <3>2
  <2>5. /\ left' \subseteq Mids
        /\ UNCHANGED <<hist, file, seen, unsaved, record, config, ledger, held, again, gone, faults>>
    BY <1>0, <1>7 DEF Send, TypeOK, storeVars, friendVars
  <2> QED
    BY <2>2, <2>3, <2>4, <2>5 DEF TypeOK
<1>c. ASSUME UserFree \/ Command PROVE commands' \in 0..MaxCommand
  BY <1>b, <1>c DEF UserFree, Command, TypeOK
<1>d. ASSUME NEW p \in Peers, held' \in {held, [held EXCEPT ![p] = <<>>]}
      PROVE  held' \in [Peers -> Seq(Requests)] /\ \A x \in Peers : Len(held'[x]) <= HeldMax
  <2>1. CASE held' = held
    BY <2>1 DEF TypeOK
  <2>2. CASE held' = [held EXCEPT ![p] = <<>>]
    BY <1>b, <2>2 DEF TypeOK
  <2> QED
    BY <1>d, <2>1, <2>2
<1>8. ASSUME NEW p \in Peers, Accept(p) PROVE TypeOK'
  <2>1. [i \in DOMAIN held[p] |-> Store(held[p][i])] \in Seq(Task)
    BY RevealType DEF TypeOK
  <2>2. todo' \in [Threads -> Seq(Task)]
    BY <1>8, <2>1 DEF Accept, TypeOK
  <2>3. /\ SetRecord(p, "friend") /\ UserFree /\ held' = [held EXCEPT ![p] = <<>>]
        /\ UNCHANGED <<hist, file, seen, unsaved, copies, again, left, gone>>
    BY <1>8 DEF Accept, storeVars
  <2> QED
    BY <1>c, <1>d, <1>i, <1>r, <2>2, <2>3 DEF TypeOK
<1>18. ASSUME NEW p \in Peers, Confirm(p) PROVE TypeOK'
  <2>1. /\ SetRecord(p, "friend") /\ Command
        /\ UNCHANGED <<hist, file, seen, unsaved, held, todo, copies, again, left, gone>>
    BY <1>18 DEF Confirm, storeVars
  <2> QED
    BY <1>c, <1>i, <1>r, <2>1 DEF TypeOK
<1>l. ASSUME NEW p \in Peers, Strike(p) PROVE SetRecord(p, "none") /\ left' \subseteq Mids
  BY <1>l DEF Strike, FromPeer, TypeOK
<1>9. ASSUME NEW p \in Peers, Reject(p) PROVE TypeOK'
  <2>1. /\ Strike(p) /\ UserFree /\ held' = [held EXCEPT ![p] = <<>>]
        /\ UNCHANGED <<hist, file, seen, unsaved, todo, copies, again, gone>>
    BY <1>9 DEF Reject, storeVars
  <2> QED
    BY <1>c, <1>d, <1>i, <1>l, <1>r, <2>1 DEF TypeOK
<1>19. ASSUME NEW p \in Peers, Withdraw(p) PROVE TypeOK'
  <2>1. /\ Command /\ held' \in {held, [held EXCEPT ![p] = <<>>]}
        /\ UNCHANGED <<hist, file, seen, unsaved, todo, copies, again, gone>>
        /\ Strike(p) \/ UNCHANGED <<record, config, ledger, left, faults>>
    BY <1>19 DEF Withdraw, storeVars, friendVars
  <2>2. commands' \in 0..MaxCommand
    BY <1>c, <2>1
  <2>3. held' \in [Peers -> Seq(Requests)] /\ \A x \in Peers : Len(held'[x]) <= HeldMax
    BY <1>d, <2>1
  <2>4. /\ record' \in [Peers -> Records] /\ config' \in [Peers -> Records]
        /\ ledger' \subseteq Peers /\ faults' \in 0..MaxFault /\ left' \subseteq Mids
    <3>1. CASE Strike(p)
      BY <1>i, <1>l, <1>r, <3>1
    <3>2. CASE UNCHANGED <<record, config, ledger, left, faults>>
      BY <3>2 DEF TypeOK
    <3> QED
      BY <2>1, <3>1, <3>2
  <2> QED
    BY <2>1, <2>2, <2>3, <2>4 DEF TypeOK
<1>10. ASSUME NEW S, Erase(S), UserFree,
              UNCHANGED <<friendVars, held, todo, copies, again, left>>
       PROVE  TypeOK'
  BY <1>10, <1>c, <1>e DEF TypeOK, friendVars
<1>11. ASSUME NEW m \in Mids, Delete(m) PROVE TypeOK'
  <2>1. CASE m \in MidsOf(hist)
    BY <1>10, <1>11, <2>1 DEF Delete
  <2>2. CASE m \notin MidsOf(hist)
    BY <1>11, <1>c, <2>2 DEF Delete, TypeOK, storeVars, friendVars
  <2> QED
    BY <2>1, <2>2
<1>12. ASSUME NEW m \in Mids, NEW k \in Marks, Mark(m, k) PROVE TypeOK'
  <2>1. hist' \in Seq(Message) /\ Len(hist') <= Limit
    <3>1. PICK n : n = First(m)
      OBVIOUS
    <3>2. hist' = Marked(hist, n, k)
      BY <1>12, <3>1 DEF Mark, Marked
    <3>3. hist \in Seq(Message) /\ Len(hist) <= Limit
      BY DEF TypeOK
    <3> QED
      BY <3>2, <3>3, MarkGives
  <2>2. file' \in Seq(Message) /\ Len(file') <= Limit /\ unsaved' \in BOOLEAN
        /\ faults' \in 0..MaxFault
    BY <1>12, <2>1, SaveGives DEF Mark, TypeOK
  <2>3. commands' \in 0..MaxCommand
    BY <1>12, <1>b DEF Mark, Command, TypeOK
  <2> QED
    BY <1>12, <2>1, <2>2, <2>3 DEF Mark, TypeOK, friendVars
<1>13. ASSUME Restart PROVE TypeOK'
  <2>1. hist' \in Seq(Message) /\ Len(hist') <= Limit /\ unsaved' \in BOOLEAN
    <3>1. <<>> \in Seq(Message) /\ Len(<<>>) = 0 /\ Limit \in Nat
      BY BoundsAreNat
    <3>2. Newest(file) \in Seq(Message) /\ Len(Newest(file)) <= Limit
      BY NewestPart DEF TypeOK
    <3>3. hist' = Newest(file) \/ hist' = <<>>
      BY <1>13 DEF Restart
    <3>4. unsaved' \in BOOLEAN
      BY <1>13 DEF Restart, TypeOK
    <3>5. CASE hist' = Newest(file)
      BY <3>2, <3>4, <3>5
    <3>6. CASE hist' = <<>>
      BY <3>1, <3>4, <3>6
    <3> QED
      BY <3>3, <3>5, <3>6
  <2>2. held' \in [Peers -> Seq(Requests)] /\ \A x \in Peers : Len(held'[x]) <= HeldMax
    BY <1>13, <1>b DEF Restart
  <2>3. todo' \in [Threads -> Seq(Task)]
    BY <1>13 DEF Restart
  <2>4. MidsOf(file) \subseteq Mids
    BY MidsType DEF TypeOK
  <2>5. again' \subseteq Mids /\ left' \subseteq Mids
    BY <1>0, <1>13, <2>4 DEF Restart, TypeOK
  <2>6. faults' \in 0..MaxFault
    BY <1>13, <1>b DEF Restart, MayFail, TypeOK
  <2>7. record' \in [Peers -> Records] /\ config' \in [Peers -> Records]
    <3>1. \A p \in Peers : config[p] \in Records
      BY DEF TypeOK
    <3>2. record' = [p \in Peers |->
                       IF config[p] = "none" /\ p \in ledger THEN "friend" ELSE config[p]]
      BY <1>13 DEF Restart
    <3>3. record' \in [Peers -> Records]
      BY <1>i, <3>1, <3>2
    <3>4. config' = config \/ config' = record'
      BY <1>13 DEF Restart
    <3> QED
      BY <3>3, <3>4 DEF TypeOK
  <2>8. /\ seen' = {} /\ gone' = {} /\ UNCHANGED <<file, ledger, copies, commands>>
    BY <1>13 DEF Restart
  <2> QED
    BY <2>1, <2>2, <2>3, <2>5, <2>6, <2>7, <2>8 DEF TypeOK
<1>14. CASE UNCHANGED vars
  BY <1>14 DEF vars, TypeOK
<1>20. ASSUME NEW p \in Peers, ClearChat(p) PROVE TypeOK'
  BY <1>10, <1>20 DEF ClearChat
<1>21. ASSUME ClearAll PROVE TypeOK'
  BY <1>10, <1>21 DEF ClearAll
<1> QED
  BY <1>1, <1>2, <1>3, <1>4, <1>5, <1>6, <1>7, <1>8, <1>9, <1>11, <1>12, <1>13, <1>14,
     <1>15, <1>16, <1>17, <1>18, <1>19, <1>20, <1>21
     DEF Next

LEMMA TypeInit == Init => TypeOK
<1> SUFFICES ASSUME Init PROVE TypeOK
  OBVIOUS
<1>1. hist \in Seq(Message) /\ Len(hist) <= Limit /\ file \in Seq(Message) /\ Len(file) <= Limit
  BY BoundsAreNat DEF Init
<1>2. held \in [Peers -> Seq(Requests)] /\ \A p \in Peers : Len(held[p]) <= HeldMax
  BY BoundsAreNat DEF Init
<1>3. /\ todo \in [Threads -> Seq(Task)] /\ copies \in [Mids -> Nat]
      /\ \A m \in Mids : copies[m] <= MaxCopies[m]
      /\ commands \in 0..MaxCommand /\ faults \in 0..MaxFault
  BY BoundsAreNat DEF Init
<1>4. record \in [Peers -> Records] /\ config \in [Peers -> Records] /\ ledger \subseteq Peers
  BY DEF Init
<1> QED
  BY <1>1, <1>2, <1>3, <1>4 DEF Init, TypeOK

(* Every state keeps the types, the caps of the held messages and          *)
(* HISTORY_LIMIT (append_history, _hold_friend_request).                   *)
THEOREM TypeCorrect == Spec => []TypeOK
BY TypeInit, TypeStep, PTL DEF Spec

-----------------------------------------------------------------------------
(***************************************************************************)
(* What the steps do to the places of the messages.                        *)
(***************************************************************************)
LEMMA InHandIs ==
  /\ \A m \in Mids : m \in InHand <=> \E t \in Threads : Store(m) \in ToSet(todo[t])
  /\ \A p \in Peers : p \in Clearing <=> \E t \in Threads : Clear(p) \in ToSet(todo[t])
  /\ InHand \subseteq Mids /\ Clearing \subseteq Peers
BY DEF InHand, Clearing

LEMMA InHandNext ==
  /\ \A m \in Mids : m \in InHand' <=> \E t \in Threads : Store(m) \in ToSet(todo'[t])
  /\ \A p \in Peers : p \in Clearing' <=> \E t \in Threads : Clear(p) \in ToSet(todo'[t])
  /\ InHand' \subseteq Mids /\ Clearing' \subseteq Peers
BY DEF InHand, Clearing

LEMMA CarriedIs ==
  /\ \A m \in Mids : m \in Carried <=> \E t \in Threads : m \in Of(todo[t])
  /\ \A m \in Mids : m \in Carried' <=> \E t \in Threads : m \in Of(todo'[t])
  /\ Carried \subseteq Mids /\ Carried' \subseteq Mids
BY DEF Carried

LEMMA OneTask ==
  ASSUME NEW k \in Task
  PROVE  \E q \in Seq(Task) : q = <<k>> /\ DOMAIN q = {1} /\ q[1] = k /\ ToSet(q) = {k}
<1>1. <<k>> \in Seq(Task) /\ DOMAIN <<k>> = {1} /\ <<k>>[1] = k
  OBVIOUS
<1>2. ToSet(<<k>>) = {k}
  BY <1>1 DEF ToSet
<1> QED
  BY <1>1, <1>2, Zenon

LEMMA TodoSame ==
  ASSUME TodoOnce, UNCHANGED todo, again \subseteq again'
  PROVE  TodoOnce' /\ InHand' = InHand /\ Carried' = Carried /\ Clearing' = Clearing
<1>1. InHand' = InHand /\ Carried' = Carried /\ Clearing' = Clearing
  BY DEF InHand, Carried, Clearing
<1>2. TodoOnce'
  BY DEF TodoOnce
<1> QED
  BY <1>1, <1>2

(* A thread that had nothing to do is given steps.                         *)
LEMMA TodoAdds ==
  ASSUME TypeOK, NEW t \in Threads, ~Due(t), NEW q \in Seq(Task),
         todo' = [todo EXCEPT ![t] = q]
  PROVE  /\ todo'[t] = q /\ \A u \in Threads : u # t => todo'[u] = todo[u]
         /\ InHand' = InHand \union {m \in Mids : Store(m) \in ToSet(q)}
         /\ Clearing' = Clearing \union {p \in Peers : Clear(p) \in ToSet(q)}
<1>1. /\ todo'[t] = q /\ todo[t] = <<>>
      /\ \A u \in Threads : u # t => todo'[u] = todo[u]
  BY DEF TypeOK, Due
<1>2. ToSet(todo[t]) = {}
  BY <1>1 DEF ToSet
<1>3. InHand' = InHand \union {m \in Mids : Store(m) \in ToSet(q)}
  <2>1. \A m \in Mids : m \in InHand' <=> m \in InHand \/ Store(m) \in ToSet(q)
    BY <1>1, <1>2, InHandIs, InHandNext
  <2> QED
    BY <2>1, InHandIs, InHandNext
<1>4. Clearing' = Clearing \union {p \in Peers : Clear(p) \in ToSet(q)}
  <2>1. \A p \in Peers : p \in Clearing' <=> p \in Clearing \/ Clear(p) \in ToSet(q)
    BY <1>1, <1>2, InHandIs, InHandNext
  <2> QED
    BY <2>1, InHandIs, InHandNext
<1> QED
  BY <1>1, <1>3, <1>4

LEMMA TodoGains ==
  ASSUME TypeOK, TodoOnce, NEW t \in Threads, ~Due(t), NEW q \in Seq(Task),
         todo' = [todo EXCEPT ![t] = q], again \subseteq again',
         \A i, j \in DOMAIN q :
           /\ q[i].do # "clear" /\ q[j].do # "clear"
           /\ q[i].of = q[j].of /\ q[i].of \notin again'
           => i = j,
         \A m \in Of(q) \ again' : m \notin Carried
  PROVE  TodoOnce' /\ Carried' = Carried \union Of(q)
<1>1. /\ todo'[t] = q /\ \A u \in Threads : u # t => todo'[u] = todo[u]
      /\ todo[t] = <<>>
  BY DEF TypeOK, Due
<1>2. Of(todo[t]) = {} /\ Of(q) \subseteq Mids
  <2>1. DOMAIN <<>> = {}
    OBVIOUS
  <2> QED
    BY <1>1, <2>1 DEF Of
<1>3. Carried' = Carried \union Of(q)
  <2>1. \A m \in Mids : m \in Carried' <=> m \in Carried \/ m \in Of(q)
    BY <1>1, <1>2, CarriedIs
  <2> QED
    BY <1>2, <2>1, CarriedIs
<1>5. ASSUME NEW u \in Threads, u # t, NEW i \in DOMAIN q, NEW j \in DOMAIN todo[u],
             q[i].do # "clear", todo[u][j].do # "clear",
             q[i].of = todo[u][j].of, q[i].of \notin again'
      PROVE  FALSE
  <2>1. q[i] \in Task
    OBVIOUS
  <2>2. PICK m \in Mids : m = q[i].of
    BY <1>5, <2>1, TaskType, MessagesType DEF Mids
  <2>3. m \in Of(q) /\ m \in Of(todo[u])
    BY <1>5, <2>2 DEF Of
  <2> QED
    BY <1>5, <2>2, <2>3, CarriedIs
<1>6. TodoOnce'
  <2> SUFFICES ASSUME NEW u \in Threads, NEW v \in Threads,
                      NEW i \in DOMAIN todo'[u], NEW j \in DOMAIN todo'[v],
                      todo'[u][i].do # "clear", todo'[v][j].do # "clear",
                      todo'[u][i].of = todo'[v][j].of, todo'[u][i].of \notin again'
               PROVE  u = v /\ i = j
    BY DEF TodoOnce
  <2>1. CASE u = t /\ v = t
    BY <1>1, <2>1
  <2>2. CASE u = t /\ v # t
    BY <1>1, <1>5, <2>2
  <2>3. CASE u # t /\ v = t
    BY <1>1, <1>5, <2>3
  <2>4. CASE u # t /\ v # t
    <3>1. todo'[u][i].of \notin again
      OBVIOUS
    <3> QED
      BY <1>1, <2>4, <3>1 DEF TodoOnce
  <2> QED
    BY <2>1, <2>2, <2>3, <2>4
<1> QED
  BY <1>3, <1>6

(* One message on its way in one more thread.                              *)
LEMMA OneCarried ==
  ASSUME TypeOK, TodoOnce, NEW t \in Threads, ~Due(t), NEW k \in Task, k.do # "clear",
         todo' = [todo EXCEPT ![t] = <<k>>], again \subseteq again',
         k.of \in Carried => k.of \in again'
  PROVE  TodoOnce' /\ Carried' = Carried \union {k.of}
<1>1. PICK q \in Seq(Task) : q = <<k>> /\ DOMAIN q = {1} /\ q[1] = k
  BY OneTask
<1>2. k.of \in Mids
  BY TaskType, MessagesType DEF Mids
<1>3. Of(q) = {k.of}
  BY <1>1, <1>2 DEF Of
<1>4. /\ todo' = [todo EXCEPT ![t] = q]
      /\ \A i, j \in DOMAIN q :
           /\ q[i].do # "clear" /\ q[j].do # "clear"
           /\ q[i].of = q[j].of /\ q[i].of \notin again'
           => i = j
  BY <1>1
<1>5. \A m \in Of(q) \ again' : m \notin Carried
  BY <1>3
<1>6. TodoOnce' /\ Carried' = Carried \union Of(q)
  BY <1>4, <1>5, TodoGains
<1> QED
  BY <1>3, <1>6

LEMMA TodoOne ==
  ASSUME TypeOK, NEW t \in Threads, ~Due(t), NEW k \in Task,
         todo' = [todo EXCEPT ![t] = <<k>>]
  PROVE  /\ InHand' = InHand \union {m \in Mids : Store(m) = k}
         /\ Clearing' = Clearing \union {p \in Peers : Clear(p) = k}
<1>1. PICK q \in Seq(Task) : q = <<k>> /\ DOMAIN q = {1} /\ q[1] = k /\ ToSet(q) = {k}
  BY OneTask
<1>2. todo' = [todo EXCEPT ![t] = q]
  BY <1>1
<1>3. /\ InHand' = InHand \union {m \in Mids : Store(m) \in ToSet(q)}
      /\ Clearing' = Clearing \union {p \in Peers : Clear(p) \in ToSet(q)}
  BY <1>2, TodoAdds
<1> QED
  BY <1>1, <1>3

(* A thread has taken its first step.                                      *)
LEMMA TodoLoses ==
  ASSUME TypeOK, TodoOnce, NEW t \in Threads, Due(t), Next1(t), again \subseteq again'
  PROVE  LET k == Head(todo[t]) IN
         /\ TodoOnce' /\ Carried' \subseteq Carried
         /\ Clearing' \subseteq Clearing /\ InHand' \subseteq InHand
         /\ k.do # "clear" => /\ k.of \in Carried /\ Clearing' = Clearing
                             /\ (k.of \notin again => k.of \notin Carried')
         /\ k.do = "append" => k.of \in InHand
         /\ k.do = "hold" => k.of \in Requests
         /\ k.do = "clear" => /\ k.of \in Peers /\ InHand' = InHand
                             /\ Clearing \subseteq Clearing' \union {k.of}
<1>1. /\ todo[t] \in Seq(Task) /\ todo[t] # <<>>
      /\ todo'[t] = Tail(todo[t])
      /\ \A u \in Threads : u # t => todo'[u] = todo[u]
  BY DEF TypeOK, Due, Next1
<1>2. PICK k \in Task : k = Head(todo[t])
  BY <1>1
<1>3. /\ k = todo[t][1] /\ 1 \in DOMAIN todo[t]
      /\ \A i \in DOMAIN todo'[t] : /\ todo'[t][i] = todo[t][i + 1]
                                    /\ i + 1 \in DOMAIN todo[t] /\ i + 1 # 1 /\ i \in Nat
      /\ ToSet(todo[t]) = ToSet(todo'[t]) \union {k}
  BY <1>1, <1>2, TailSteps
<1>4. TodoOnce'
  <2> SUFFICES ASSUME NEW u \in Threads, NEW v \in Threads,
                      NEW i \in DOMAIN todo'[u], NEW j \in DOMAIN todo'[v],
                      todo'[u][i].do # "clear", todo'[v][j].do # "clear",
                      todo'[u][i].of = todo'[v][j].of, todo'[u][i].of \notin again'
               PROVE  u = v /\ i = j
    BY DEF TodoOnce
  <2>0. todo'[u][i].of \notin again
    OBVIOUS
  <2>1. CASE u = t /\ v = t
    <3>1. i + 1 = j + 1 /\ i \in Nat /\ j \in Nat
      BY <1>3, <2>0, <2>1 DEF TodoOnce
    <3> QED
      BY <2>1, <3>1
  <2>2. CASE u = t /\ v # t
    <3>1. /\ i + 1 \in DOMAIN todo[t] /\ j \in DOMAIN todo[v]
          /\ todo[t][i + 1].do # "clear" /\ todo[v][j].do # "clear"
          /\ todo[t][i + 1].of = todo[v][j].of /\ todo[t][i + 1].of \notin again
      BY <1>1, <1>3, <2>0, <2>2
    <3>2. t = v
      BY <3>1, Zenon DEF TodoOnce
    <3> QED
      BY <2>2, <3>2
  <2>3. CASE u # t /\ v = t
    <3>1. /\ j + 1 \in DOMAIN todo[t] /\ i \in DOMAIN todo[u]
          /\ todo[u][i].do # "clear" /\ todo[t][j + 1].do # "clear"
          /\ todo[u][i].of = todo[t][j + 1].of /\ todo[u][i].of \notin again
      BY <1>1, <1>3, <2>0, <2>3
    <3>2. t = u
      BY <3>1, Zenon DEF TodoOnce
    <3> QED
      BY <2>3, <3>2
  <2>4. CASE u # t /\ v # t
    BY <1>1, <2>0, <2>4 DEF TodoOnce
  <2> QED
    BY <2>1, <2>2, <2>3, <2>4
<1>5. /\ \A m \in Mids : m \in InHand <=> m \in InHand' \/ Store(m) = k
      /\ \A p \in Peers : p \in Clearing <=> p \in Clearing' \/ Clear(p) = k
  BY <1>1, <1>3, InHandIs, InHandNext
<1>6. InHand' \subseteq InHand /\ Clearing' \subseteq Clearing
  BY <1>5, InHandNext
<1>7. Of(todo'[t]) \subseteq Of(todo[t])
  BY <1>3 DEF Of
<1>8. Carried' \subseteq Carried
  BY <1>1, <1>7, CarriedIs
<1>9. CASE k.do # "clear"
  <2>1. PICK m \in Mids : m = k.of
    BY <1>9, TaskType, MessagesType DEF Mids
  <2>2. m \in Carried
    <3>1. m \in Of(todo[t])
      BY <1>3, <1>9, <2>1 DEF Of
    <3> QED
      BY <3>1, CarriedIs
  <2>3. ASSUME m \notin again, m \in Carried' PROVE FALSE
    <3>1. PICK u \in Threads : m \in Of(todo'[u])
      BY <2>3, CarriedIs
    <3>2. PICK i \in DOMAIN todo'[u] : todo'[u][i].do # "clear" /\ todo'[u][i].of = m
      BY <3>1 DEF Of
    <3>3. CASE u = t
      BY <1>3, <1>9, <2>1, <2>3, <3>2, <3>3 DEF TodoOnce
    <3>4. CASE u # t
      BY <1>1, <1>3, <1>9, <2>1, <2>3, <3>2, <3>4 DEF TodoOnce
    <3> QED
      BY <3>3, <3>4
  <2>4. Clearing' = Clearing
    <3>1. \A p \in Peers : Clear(p) # k
      BY <1>9, TaskType
    <3> QED
      BY <1>5, <3>1, InHandIs, InHandNext
  <2>5. k.do = "append" => k.of \in InHand
    BY <1>5, TaskType
  <2>6. k.do = "hold" => k.of \in Requests
    BY TaskType
  <2> QED
    BY <1>2, <1>4, <1>6, <1>8, <1>9, <2>1, <2>2, <2>3, <2>4, <2>5, <2>6
<1>10. CASE k.do = "clear"
  <2>1. k.of \in Peers /\ k = Clear(k.of) /\ \A m \in Mids : Store(m) # k
    BY <1>10, TaskType
  <2>2. InHand' = InHand /\ Clearing \subseteq Clearing' \union {k.of}
    <3>1. \A p \in Peers : Clear(p) = k => p = k.of
      BY TaskType
    <3> QED
      BY <1>5, <2>1, <3>1, InHandIs, InHandNext
  <2> QED
    BY <1>2, <1>4, <1>6, <1>8, <1>10, <2>1, <2>2
<1> QED
  BY <1>9, <1>10

LEMMA WaitingIs ==
  /\ \A m : m \in Waiting <=> \E p \in Peers : m \in ToSet(held[p])
  /\ \A m : m \in Waiting' <=> \E p \in Peers : m \in ToSet(held'[p])
BY DEF Waiting

LEMMA HeldSame ==
  ASSUME HeldOnce, HeldFrom, UNCHANGED held, again \subseteq again'
  PROVE  HeldOnce' /\ HeldFrom' /\ Waiting' = Waiting
<1>1. Waiting' = Waiting
  BY DEF Waiting
<1>2. HeldOnce'
  BY DEF HeldOnce
<1>3. HeldFrom'
  BY DEF HeldFrom
<1> QED
  BY <1>1, <1>2, <1>3

LEMMA HeldGains ==
  ASSUME TypeOK, HeldOnce, HeldFrom, NEW m \in Requests, again \subseteq again',
         m \in Waiting => m \in again',
         held' = [held EXCEPT ![PeerOf[m]] = Append(@, m)]
  PROVE  HeldOnce' /\ HeldFrom' /\ Waiting' = Waiting \union {m}
<1>1. PICK p \in Peers : p = PeerOf[m]
  BY MessagesType DEF Mids
<1>2. PICK q \in Seq(Requests) : q = held[p]
  BY DEF TypeOK
<1>3. /\ held'[p] = Append(q, m) /\ \A x \in Peers : x # p => held'[x] = held[x]
  BY <1>1, <1>2 DEF TypeOK
<1>4. /\ Len(q) \in Nat /\ DOMAIN q = 1..Len(q) /\ DOMAIN held'[p] = 1..(Len(q) + 1)
      /\ \A i \in 1..Len(q) : held'[p][i] = q[i]
      /\ held'[p][Len(q) + 1] = m
  BY <1>3
<1>5. Waiting' = Waiting \union {m}
  <2>1. ToSet(held'[p]) = ToSet(q) \union {m}
    <3>1. ToSet(held'[p]) \subseteq ToSet(q) \union {m}
      BY <1>4 DEF ToSet
    <3>2. \A i \in DOMAIN q : i \in DOMAIN held'[p] /\ held'[p][i] = q[i]
      BY <1>4
    <3>3. Len(q) + 1 \in DOMAIN held'[p]
      BY <1>4
    <3> QED
      BY <1>4, <3>1, <3>2, <3>3 DEF ToSet
  <2>2. \A n : n \in Waiting' <=> n \in Waiting \/ n = m
    BY <1>2, <1>3, <2>1, WaitingIs
  <2> QED
    BY <2>2
<1>6. HeldFrom'
  <2> SUFFICES ASSUME NEW x \in Peers, NEW i \in DOMAIN held'[x]
               PROVE  PeerOf[held'[x][i]] = x
    BY DEF HeldFrom
  <2>1. CASE x # p
    BY <1>3, <2>1 DEF HeldFrom
  <2>2. CASE x = p /\ i = Len(q) + 1
    BY <1>1, <1>4, <2>2
  <2>3. CASE x = p /\ i # Len(q) + 1
    <3>1. i \in DOMAIN held[p] /\ held'[p][i] = held[p][i]
      BY <1>2, <1>4, <2>3
    <3> QED
      BY <2>3, <3>1 DEF HeldFrom
  <2> QED
    BY <2>1, <2>2, <2>3
<1>7. HeldOnce'
  <2> SUFFICES ASSUME NEW x \in Peers, NEW y \in Peers,
                      NEW i \in DOMAIN held'[x], NEW j \in DOMAIN held'[y],
                      held'[x][i] = held'[y][j], held'[x][i] \notin again'
               PROVE  x = y /\ i = j
    BY DEF HeldOnce
  <2>1. \A z \in Peers : \A l \in DOMAIN held'[z] :
          \/ l \in DOMAIN held[z] /\ held'[z][l] = held[z][l]
          \/ z = p /\ l = Len(q) + 1 /\ held'[z][l] = m
    BY <1>2, <1>3, <1>4
  <2>2. CASE held'[x][i] = m
    <3>1. m \notin Waiting
      BY <2>2
    <3>2. \A z \in Peers : \A l \in DOMAIN held[z] : held[z][l] # m
      BY <3>1, WaitingIs DEF ToSet
    <3> QED
      BY <2>1, <2>2, <3>2
  <2>3. CASE held'[x][i] # m
    <3>1. /\ i \in DOMAIN held[x] /\ held'[x][i] = held[x][i]
          /\ j \in DOMAIN held[y] /\ held'[y][j] = held[y][j]
      BY <2>1, <2>3
    <3>2. held[x][i] = held[y][j] /\ held[x][i] \notin again
      BY <3>1
    <3> QED
      BY <3>1, <3>2, SMT DEF HeldOnce
  <2> QED
    BY <2>2, <2>3
<1> QED
  BY <1>5, <1>6, <1>7

(* The held messages of a peer are given to a thread, or dropped.          *)
LEMMA HeldEmptied ==
  ASSUME TypeOK, HeldOnce, HeldFrom, NEW p \in Peers, again \subseteq again',
         held' = [held EXCEPT ![p] = <<>>]
  PROVE  /\ HeldOnce' /\ HeldFrom' /\ Waiting' \subseteq Waiting
         /\ ToSet(held[p]) \subseteq Waiting
         /\ \A m \in ToSet(held[p]) \ again : m \notin Waiting'
<1>1. held'[p] = <<>> /\ \A x \in Peers : x # p => held'[x] = held[x]
  BY DEF TypeOK
<1>2. ToSet(<<>>) = {} /\ DOMAIN <<>> = {}
  BY DEF ToSet
<1>3. \A x \in Peers : \A i \in DOMAIN held'[x] : x # p /\ i \in DOMAIN held[x] /\ held'[x][i] = held[x][i]
  BY <1>1, <1>2
<1>4. HeldOnce'
  BY <1>3 DEF HeldOnce
<1>5. HeldFrom'
  BY <1>3 DEF HeldFrom
<1>6. \A m : m \in Waiting' => \E x \in Peers : x # p /\ m \in ToSet(held[x])
  BY <1>1, <1>2, WaitingIs
<1>7. \A m \in ToSet(held[p]) \ again : m \notin Waiting'
  <2> SUFFICES ASSUME NEW m \in ToSet(held[p]), m \notin again, m \in Waiting' PROVE FALSE
    OBVIOUS
  <2>1. PICK x \in Peers : x # p /\ m \in ToSet(held[x])
    BY <1>6
  <2>2. PICK i \in DOMAIN held[p] : held[p][i] = m
    BY DEF ToSet
  <2>3. PICK j \in DOMAIN held[x] : held[x][j] = m
    BY <2>1 DEF ToSet
  <2> QED
    BY <2>1, <2>2, <2>3 DEF HeldOnce
<1>8. Waiting' \subseteq Waiting /\ ToSet(held[p]) \subseteq Waiting
  BY <1>6, WaitingIs
<1> QED
  BY <1>4, <1>5, <1>7, <1>8

(* A message that is not on its way yet is where a check can find it.      *)
LEMMA WayIs ==
  ASSUME TypeOK PROVE OnTheWay = Carried \union Waiting
<1>1. InHand \union Asking \subseteq Carried
  <2>1. ASSUME NEW m \in Mids, NEW t \in Threads, Store(m) \in ToSet(todo[t]) PROVE m \in Carried
    <3>1. PICK i \in DOMAIN todo[t] : todo[t][i] = Store(m)
      BY <2>1 DEF ToSet
    <3>2. m \in Of(todo[t])
      BY <3>1, TaskType DEF Of
    <3> QED
      BY <3>2, CarriedIs
  <2>2. ASSUME NEW m \in Requests, NEW t \in Threads, Ask(m) \in ToSet(todo[t]) PROVE m \in Carried
    <3>1. PICK i \in DOMAIN todo[t] : todo[t][i] = Ask(m)
      BY <2>2 DEF ToSet
    <3>2. m \in Mids
      BY MessagesType DEF Mids
    <3>3. m \in Of(todo[t])
      BY <3>1, <3>2, TaskType DEF Of
    <3> QED
      BY <3>2, <3>3, CarriedIs
  <2> QED
    BY <2>1, <2>2 DEF InHand, Asking
<1>2. Carried \subseteq InHand \union Asking
  <2> SUFFICES ASSUME NEW m \in Carried PROVE m \in InHand \union Asking
    OBVIOUS
  <2>1. PICK t \in Threads : m \in Of(todo[t])
    BY DEF Carried
  <2>2. PICK i \in DOMAIN todo[t] : todo[t][i].do # "clear" /\ todo[t][i].of = m
    BY <2>1 DEF Of
  <2>3. todo[t][i] \in Task /\ todo[t][i] \in ToSet(todo[t]) /\ m \in Mids
    BY <2>1, <2>2 DEF TypeOK, ToSet, Of
  <2>4. todo[t][i] = Store(m) \/ (m \in Requests /\ todo[t][i] = Ask(m))
    BY <2>2, <2>3, TaskType
  <2> QED
    BY <2>3, <2>4 DEF InHand, Asking
<1> QED
  BY <1>1, <1>2 DEF OnTheWay, Waiting

(* What erasing does to the store.                                         *)
LEMMA EraseGives ==
  ASSUME TypeOK, OnceInv, NEW S, Erase(S), again' = again
  PROVE  /\ Once(hist, again)' /\ Once(file, again)'
         /\ MidsOf(hist') \subseteq MidsOf(hist) \ S
         /\ MidsOf(file') \subseteq MidsOf(file) \union MidsOf(hist)
         /\ gone' = gone \union (MidsOf(hist) \intersect S) /\ seen' = seen
<1>1. hist' \in Keeping(hist, Mids \ S) /\ Save
  BY DEF Erase
<1>2. Part(hist', hist) /\ MidsOf(hist') \subseteq Mids \ S
  BY <1>1, KeepingPart DEF TypeOK
<1>3. MidsOf(hist') \subseteq MidsOf(hist) /\ Once(hist', again)
  BY <1>2, PartOf DEF OnceInv
<1>4. file' = hist' \/ file' = file
  BY <1>1, SaveGives
<1>5. Once(file', again)
  BY <1>3, <1>4 DEF OnceInv
<1> QED
  BY <1>2, <1>3, <1>4, <1>5 DEF Erase

LEMMA PlacesTyped ==
  ASSUME TypeOK
  PROVE  /\ MidsOf(hist) \subseteq Mids /\ MidsOf(file) \subseteq Mids
         /\ InHand \subseteq Mids /\ Carried \subseteq Mids /\ Waiting \subseteq Mids
         /\ seen \subseteq Mids /\ gone \subseteq Mids
<1>1. Requests \subseteq Mids
  BY MessagesType DEF Mids
<1>2. \A p \in Peers : ToSet(held[p]) \subseteq Requests
  BY DEF TypeOK, ToSet
<1>3. Waiting \subseteq Mids
  BY <1>1, <1>2, WaitingIs
<1> QED
  BY <1>3, MidsType, InHandIs, CarriedIs DEF TypeOK

-----------------------------------------------------------------------------
(***************************************************************************)
(* Each message stays in one place.                                        *)
(***************************************************************************)
LEMMA OnceStep == TypeOK /\ OnceInv /\ HeldFrom /\ [Next]_vars => OnceInv' /\ HeldFrom'
<1> SUFFICES ASSUME TypeOK, OnceInv, HeldFrom, [Next]_vars PROVE OnceInv' /\ HeldFrom'
  OBVIOUS
<1> USE DEF Threads
<1>0. Inbound \subseteq Mids /\ Outbound \subseteq Mids /\ Requests \subseteq Inbound
      /\ Inbound \intersect Outbound = {}
  BY MessagesType DEF Mids
<1>c. \A m \in Mids : copies[m] \in Nat
  BY BoundsAreNat DEF TypeOK
<1>o. /\ Once(hist, again) /\ Once(file, again) /\ TodoOnce /\ HeldOnce
      /\ Apart /\ Counted /\ Remembered /\ DeletedStaysDeleted
  BY DEF OnceInv
<1>h. /\ MidsOf(hist) \subseteq Mids /\ MidsOf(file) \subseteq Mids
      /\ Carried \subseteq Mids /\ Waiting \subseteq Mids
      /\ seen \subseteq Mids /\ gone \subseteq Mids
  BY PlacesTyped
(* The store stays as it is.                                               *)
<1>s. ASSUME UNCHANGED <<hist, file>>, again \subseteq again'
      PROVE  /\ Once(hist, again)' /\ Once(file, again)'
             /\ MidsOf(hist') = MidsOf(hist) /\ MidsOf(file') = MidsOf(file)
  BY <1>o, <1>s DEF Once
<1>q. ASSUME Once(hist, again)', Once(file, again)', TodoOnce', HeldOnce', HeldFrom',
             Apart', Counted', Remembered', DeletedStaysDeleted'
      PROVE  OnceInv' /\ HeldFrom'
  BY <1>q DEF OnceInv
<1> HIDE DEF Threads
(* Nothing moves, or less is on its way.                                   *)
<1>n. ASSUME UNCHANGED <<hist, file, seen, gone, again>>, TodoOnce', HeldOnce', HeldFrom',
             Carried' \subseteq Carried, Waiting' \subseteq Waiting,
             \A m \in Mids : copies[m] > 0 => copies'[m] > 0
      PROVE  OnceInv' /\ HeldFrom'
  <2>1. /\ Once(hist, again)' /\ Once(file, again)'
        /\ MidsOf(hist') = MidsOf(hist) /\ MidsOf(file') = MidsOf(file)
    BY <1>n, <1>s
  <2>2. Apart' /\ Remembered' /\ DeletedStaysDeleted'
    BY <1>n, <1>o, <2>1 DEF Apart, Remembered, DeletedStaysDeleted
  <2>3. Counted'
    BY <1>h, <1>n, <1>o, <2>1 DEF Counted
  <2> QED
    BY <1>n, <1>q, <2>1, <2>2, <2>3
(* A message starts on its way, in a thread.                               *)
<1>w. ASSUME NEW m \in Mids, UNCHANGED <<hist, file, seen, gone>>,
             again \subseteq again', again' \subseteq again \union {m},
             m \in OnTheWay => m \in again',
             m \notin again' => m \notin MidsOf(hist) \union seen \union gone,
             TodoOnce', HeldOnce', HeldFrom',
             Carried' = Carried \union {m}, Waiting' = Waiting,
             copies' = [copies EXCEPT ![m] = @ + 1] \/ copies' = [copies EXCEPT ![m] = 1]
      PROVE  OnceInv' /\ HeldFrom'
  <2>0. OnTheWay = Carried \union Waiting /\ again \subseteq again'
    BY <1>w, WayIs
  <2>1. /\ Once(hist, again)' /\ Once(file, again)'
        /\ MidsOf(hist') = MidsOf(hist) /\ MidsOf(file') = MidsOf(file)
    BY <1>s, <1>w, <2>0
  <2>2. Apart'
    BY <1>o, <1>w, <2>0, <2>1 DEF Apart
  <2>3. Remembered' /\ DeletedStaysDeleted'
    BY <1>o, <1>w, <2>0, <2>1 DEF Remembered, DeletedStaysDeleted
  <2>4. \A n \in Mids : copies'[n] > 0 \/ (n # m /\ copies'[n] = copies[n])
    BY <1>c, <1>w DEF TypeOK
  <2>5. Counted'
    BY <1>h, <1>o, <1>w, <2>1, <2>4 DEF Counted
  <2> QED
    BY <1>q, <1>w, <2>1, <2>2, <2>3, <2>5
(* Messages are erased, and more are not on their way.                     *)
<1>e. ASSUME NEW S, Erase(S), UNCHANGED <<held, copies, again>>, TodoOnce', Carried' \subseteq Carried
      PROVE  OnceInv' /\ HeldFrom'
  <2>1. /\ Once(hist, again)' /\ Once(file, again)'
        /\ MidsOf(hist') \subseteq MidsOf(hist) \ S
        /\ MidsOf(file') \subseteq MidsOf(file) \union MidsOf(hist)
        /\ gone' = gone \union (MidsOf(hist) \intersect S) /\ seen' = seen
    BY <1>e, EraseGives
  <2>2. HeldOnce' /\ HeldFrom' /\ Waiting' = Waiting
    BY <1>e, <1>o, HeldSame
  <2>3. Apart'
    BY <1>e, <1>h, <1>o, <2>1, <2>2 DEF Apart
  <2>4. Remembered'
    BY <1>e, <1>o, <2>1 DEF Remembered
  <2>5. DeletedStaysDeleted'
    BY <1>e, <1>o, <2>1 DEF DeletedStaysDeleted
  <2>6. Counted'
    BY <1>e, <1>o, <2>1, <2>2 DEF Counted
  <2> QED
    BY <1>e, <1>q, <2>1, <2>2, <2>3, <2>4, <2>5, <2>6
(* A reader takes a message.                                               *)
<1>r. ASSUME NEW t \in Threads, NEW m \in Mids, NEW k \in Task, k.do # "clear", k.of = m,
             ~Due(t), todo' = [todo EXCEPT ![t] = <<k>>],
             UNCHANGED <<hist, file, seen, gone, held>>,
             again \subseteq again', again' \subseteq again \union {m},
             m \in OnTheWay => m \in again',
             m \notin again' => m \notin MidsOf(hist) \union seen \union gone,
             copies' = [copies EXCEPT ![m] = @ + 1] \/ copies' = [copies EXCEPT ![m] = 1]
      PROVE  OnceInv' /\ HeldFrom'
  <2>1. OnTheWay = Carried \union Waiting
    BY WayIs
  <2>2. k.of \in Carried => k.of \in again'
    BY <1>r, <2>1
  <2>3. TodoOnce' /\ Carried' = Carried \union {k.of}
    BY <1>o, <1>r, <2>2, OneCarried
  <2>4. HeldOnce' /\ HeldFrom' /\ Waiting' = Waiting
    BY <1>o, <1>r, HeldSame
  <2> QED
    BY <1>r, <1>w, <2>3, <2>4
<1>1. ASSUME NEW t \in Readers, NEW m \in Inbound, Take(t, m) PROVE OnceInv' /\ HeldFrom'
  <2>1. /\ t \in Threads /\ ~Due(t) /\ m \in Mids
        /\ todo' = [todo EXCEPT ![t] = <<Store(m)>>]
        /\ again' = again \union ({m} \intersect OnTheWay)
        /\ UNCHANGED <<hist, file, seen, gone, held>>
        /\ copies' = [copies EXCEPT ![m] = @ + 1]
    BY <1>0, <1>1 DEF Take, Arrives, storeVars, Threads
  <2>2. m \notin seen
    BY <1>1 DEF Take, IsNew
  <2>3. m \notin again' => m \notin MidsOf(hist) \union seen \union gone
    BY <1>o, <2>1, <2>2 DEF Remembered
  <2>4. Store(m) \in Task /\ Store(m).do # "clear" /\ Store(m).of = m
    BY <2>1, TaskType
  <2> QED
    BY <1>r, <2>1, <2>3, <2>4
<1>2. ASSUME NEW t \in Readers, NEW m \in Inbound, Hold(t, m) PROVE OnceInv' /\ HeldFrom'
  <2>1. /\ t \in Threads /\ ~Due(t) /\ m \in Mids /\ m \in Requests
        /\ todo' = [todo EXCEPT ![t] = <<Ask(m)>>]
        /\ again' = again \union ({m} \intersect OnTheWay)
        /\ UNCHANGED <<hist, file, seen, gone, held>>
        /\ copies' = [copies EXCEPT ![m] = @ + 1]
    BY <1>0, <1>2 DEF Hold, Arrives, storeVars, Threads
  <2>2. m \notin seen
    BY <1>2 DEF Hold, IsNew
  <2>3. m \notin again' => m \notin MidsOf(hist) \union seen \union gone
    BY <1>o, <2>1, <2>2 DEF Remembered
  <2>4. Ask(m) \in Task /\ Ask(m).do # "clear" /\ Ask(m).of = m
    BY <2>1, TaskType
  <2> QED
    BY <1>r, <2>1, <2>3, <2>4
<1>16. ASSUME NEW t \in Readers, NEW m \in Inbound, Post(t, m) PROVE OnceInv' /\ HeldFrom'
  <2>1. /\ t \in Threads /\ ~Due(t) /\ m \in Mids
        /\ todo' = [todo EXCEPT ![t] = <<Store(m)>>]
        /\ again' = again \union ({m} \intersect (OnTheWay \union seen))
        /\ UNCHANGED <<hist, file, seen, gone, held>>
        /\ copies' = [copies EXCEPT ![m] = @ + 1]
    BY <1>0, <1>16 DEF Post, Arrives, storeVars, Threads
  <2>2. m \notin again' => m \notin MidsOf(hist) \union seen \union gone
    BY <1>o, <2>1 DEF Remembered
  <2>3. Store(m) \in Task /\ Store(m).do # "clear" /\ Store(m).of = m
    BY <2>1, TaskType
  <2> QED
    BY <1>r, <2>1, <2>2, <2>3
<1>3. ASSUME NEW t \in Readers, NEW m \in Inbound, Drop(t, m) \/ Mutual(t, m) PROVE OnceInv' /\ HeldFrom'
  <2>1. /\ UNCHANGED <<hist, file, seen, gone, again, todo, held>>
        /\ copies' = [copies EXCEPT ![m] = @ + 1]
    BY <1>3 DEF Drop, Mutual, Arrives, storeVars
  <2>2. \A n \in Mids : copies[n] > 0 => copies'[n] > 0
    BY <1>0, <1>c, <2>1 DEF TypeOK
  <2>3. TodoOnce' /\ Carried' = Carried /\ HeldOnce' /\ HeldFrom' /\ Waiting' = Waiting
    BY <1>o, <2>1, TodoSame, HeldSame
  <2> QED
    BY <1>n, <2>1, <2>2, <2>3
<1>4. ASSUME NEW t \in Threads, DoAppend(t) PROVE OnceInv' /\ HeldFrom'
  <2>1. /\ Due(t) /\ Next1(t) /\ Head(todo[t]).do # "clear"
        /\ UNCHANGED <<held, copies, again, gone>>
    BY <1>4 DEF DoAppend, Now
  <2>2. /\ TodoOnce' /\ Carried' \subseteq Carried
        /\ Head(todo[t]).of \in Carried
        /\ Head(todo[t]).of \notin again => Head(todo[t]).of \notin Carried'
    BY <1>o, <2>1, TodoLoses
  <2>3. PICK m \in Mids : m = Head(todo[t]).of
    BY <1>h, <2>2
  <2>4. /\ seen' = seen \union {m} /\ hist' = Newest(Append(hist, Entry(m))) /\ Save
    BY <1>4, <2>3 DEF DoAppend
  <2>5. m \in Carried /\ Carried' \subseteq Carried /\ (m \notin again => m \notin Carried')
    BY <2>2, <2>3
  <2>6. m \in MidsOf(hist) \union gone \union Waiting => m \in again
    BY <1>h, <1>o, <2>5 DEF Apart
  <2>7. PICK s \in Seq(Message) : s = Append(hist, Entry(m))
    BY AppendStore DEF TypeOK
  <2>8. MidsOf(s) = MidsOf(hist) \union {m} /\ Once(s, again)
    BY <1>o, <2>6, <2>7, AppendStore DEF TypeOK
  <2>9. MidsOf(hist') \subseteq MidsOf(hist) \union {m} /\ Once(hist', again)
    <3>1. hist' = Newest(s) /\ Part(Newest(s), s)
      BY <2>4, <2>7, NewestPart
    <3> QED
      BY <2>8, <3>1, PartOf
  <2>10. file' = hist' \/ file' = file
    BY <2>4, SaveGives
  <2>11. Once(file', again) /\ MidsOf(file') \subseteq MidsOf(file) \union MidsOf(hist) \union {m}
    BY <1>o, <2>9, <2>10
  <2>12. HeldOnce' /\ HeldFrom' /\ Waiting' = Waiting
    BY <1>o, <2>1, HeldSame
  <2>13. Apart'
    BY <1>o, <2>1, <2>4, <2>5, <2>6, <2>9, <2>12 DEF Apart
  <2>14. Counted'
    BY <1>o, <2>1, <2>4, <2>5, <2>9, <2>11, <2>12 DEF Counted
  <2>15. Remembered' /\ DeletedStaysDeleted'
    BY <1>o, <2>1, <2>4, <2>6, <2>9 DEF Remembered, DeletedStaysDeleted
  <2>16. Once(hist, again)' /\ Once(file, again)'
    BY <2>1, <2>9, <2>11
  <2> QED
    BY <1>q, <2>2, <2>12, <2>13, <2>14, <2>15, <2>16
<1>5. ASSUME NEW t \in Threads, DoClear(t) PROVE OnceInv' /\ HeldFrom'
  <2>1. /\ Due(t) /\ Next1(t) /\ Head(todo[t]).do = "clear"
        /\ Erase(FromPeer(Head(todo[t]).of))
        /\ UNCHANGED <<held, copies, again>>
    BY <1>5 DEF DoClear, Now
  <2>2. TodoOnce' /\ Carried' \subseteq Carried
    BY <1>o, <2>1, TodoLoses
  <2> QED
    BY <1>e, <2>1, <2>2
<1>6. ASSUME NEW t \in Threads, NEW p \in Peers, Unfriend(t, p) PROVE OnceInv' /\ HeldFrom'
  <2>1. /\ ~Due(t) /\ todo' = [todo EXCEPT ![t] = <<Clear(p)>>]
        /\ UNCHANGED <<hist, file, seen, gone, again, held, copies>>
    BY <1>6 DEF Unfriend, storeVars
  <2>0. Clear(p) \in Task /\ Clear(p).do = "clear"
    BY TaskType
  <2>2. PICK q \in Seq(Task) : /\ q = <<Clear(p)>>
                              /\ DOMAIN q = {1} /\ q[1] = Clear(p) /\ ToSet(q) = {Clear(p)}
    BY <2>0, OneTask
  <2>3. DOMAIN q = {1} /\ q[1] = Clear(p) /\ ToSet(q) = {Clear(p)} /\ Clear(p).do = "clear"
    BY <2>0, <2>2
  <2>4. todo' = [todo EXCEPT ![t] = q] /\ again \subseteq again'
    BY <2>1, <2>2
  <2>5. \A i, j \in DOMAIN q :
           /\ q[i].do # "clear" /\ q[j].do # "clear"
           /\ q[i].of = q[j].of /\ q[i].of \notin again'
           => i = j
    BY <2>3
  <2>6. Of(q) = {}
    BY <2>3 DEF Of
  <2>8. \A m \in Of(q) \ again' : m \notin Carried
    BY <2>6
  <2>9. TodoOnce' /\ Carried' = Carried \union Of(q)
    BY <1>o, <2>1, <2>4, <2>5, <2>8, TodoGains
  <2>7. HeldOnce' /\ HeldFrom' /\ Waiting' = Waiting
    BY <1>o, <2>1, HeldSame
  <2> QED
    BY <1>n, <2>1, <2>6, <2>7, <2>9
<1>7. ASSUME NEW m \in Outbound, Send(m) PROVE OnceInv' /\ HeldFrom'
  <2>1. /\ "user" \in Threads /\ ~Due("user") /\ m \in Mids /\ copies[m] = 0
        /\ todo' = [todo EXCEPT !["user"] = <<Store(m)>>]
        /\ UNCHANGED <<hist, file, seen, gone, again, held>>
        /\ copies' = [copies EXCEPT ![m] = 1]
    BY <1>0, <1>7 DEF Send, UserFree, storeVars, Threads
  <2>2. m \notin MidsOf(hist) \union MidsOf(file) \union Carried \union Waiting \union seen \union gone
    BY <1>o, <2>1 DEF Counted
  <2>3. OnTheWay = Carried \union Waiting /\ again \subseteq again' /\ again' \subseteq again \union {m}
    BY <2>1, WayIs
  <2>4. Store(m) \in Task /\ Store(m).do # "clear" /\ Store(m).of = m
    BY <2>1, TaskType
  <2> QED
    BY <1>r, <2>1, <2>2, <2>3, <2>4
<1>8. ASSUME NEW p \in Peers, Accept(p) PROVE OnceInv' /\ HeldFrom'
  <2>1. /\ "user" \in Threads /\ ~Due("user")
        /\ held' = [held EXCEPT ![p] = <<>>]
        /\ todo' = [todo EXCEPT !["user"] = [i \in DOMAIN held[p] |-> Store(held[p][i])]]
        /\ UNCHANGED <<hist, file, seen, gone, again, copies>>
    BY <1>8 DEF Accept, UserFree, storeVars, Threads
  <2>2. PICK r \in Seq(Requests) : r = held[p]
    BY DEF TypeOK
  <2>3. PICK q \in Seq(Task) : q = [i \in DOMAIN r |-> Store(r[i])]
    BY RevealType
  <2>4. /\ DOMAIN q = DOMAIN r /\ \A i \in DOMAIN r : q[i] = Store(r[i]) /\ r[i] \in Mids
        /\ todo' = [todo EXCEPT !["user"] = q]
    BY <1>0, <2>1, <2>2, <2>3
  <2>5. /\ HeldOnce' /\ HeldFrom' /\ Waiting' \subseteq Waiting
        /\ ToSet(r) \subseteq Waiting
        /\ \A m \in ToSet(r) \ again : m \notin Waiting'
    BY <1>o, <2>1, <2>2, HeldEmptied
  <2>6. \A i, j \in DOMAIN q :
           /\ q[i].do # "clear" /\ q[j].do # "clear"
           /\ q[i].of = q[j].of /\ q[i].of \notin again'
           => i = j
    <3>1. \A i, j \in DOMAIN r : r[i] = r[j] /\ r[i] \notin again => i = j
      BY <1>o, <2>2 DEF HeldOnce
    <3> QED
      BY <2>1, <2>4, <3>1, TaskType
  <2>7. Of(q) = ToSet(r)
    <3>1. \A i \in DOMAIN r : q[i].do # "clear" /\ q[i].of = r[i]
      BY <2>4, TaskType
    <3> QED
      BY <2>4, <3>1 DEF Of, ToSet
  <2>8. \A m \in Of(q) \ again' : m \notin Carried
    BY <1>h, <1>o, <2>1, <2>5, <2>7 DEF Apart
  <2>9. TodoOnce' /\ Carried' = Carried \union ToSet(r)
    <3>1. TodoOnce' /\ Carried' = Carried \union Of(q)
      BY <1>o, <2>1, <2>4, <2>6, <2>8, TodoGains
    <3> QED
      BY <2>7, <3>1
  <2>10. /\ Once(hist, again)' /\ Once(file, again)'
         /\ MidsOf(hist') = MidsOf(hist) /\ MidsOf(file') = MidsOf(file)
    BY <1>s, <2>1
  <2>11. Apart'
    BY <1>h, <1>o, <2>1, <2>5, <2>9, <2>10 DEF Apart
  <2>12. Counted' /\ Remembered' /\ DeletedStaysDeleted'
    BY <1>o, <2>1, <2>5, <2>9, <2>10 DEF Counted, Remembered, DeletedStaysDeleted
  <2> QED
    BY <1>q, <2>5, <2>9, <2>10, <2>11, <2>12
<1>9. ASSUME NEW p \in Peers, Reject(p) PROVE OnceInv' /\ HeldFrom'
  <2>1. /\ held' = [held EXCEPT ![p] = <<>>]
        /\ UNCHANGED <<hist, file, seen, gone, again, copies, todo>>
    BY <1>9 DEF Reject, storeVars
  <2>2. HeldOnce' /\ HeldFrom' /\ Waiting' \subseteq Waiting
    BY <1>o, <2>1, HeldEmptied
  <2>3. TodoOnce' /\ Carried' = Carried
    BY <1>o, <2>1, TodoSame
  <2> QED
    BY <1>n, <2>1, <2>2, <2>3
<1>10. ASSUME NEW S, Erase(S), UNCHANGED <<held, todo, copies, again>>
       PROVE  OnceInv' /\ HeldFrom'
  <2>1. TodoOnce' /\ Carried' = Carried
    BY <1>10, <1>o, TodoSame
  <2> HIDE DEF Erase
  <2> QED
    BY <1>10, <1>e, <2>1
<1>11. ASSUME UNCHANGED <<hist, file, seen, gone, again, copies, todo, held>>
       PROVE  OnceInv' /\ HeldFrom'
  <2>1. TodoOnce' /\ Carried' = Carried /\ HeldOnce' /\ HeldFrom' /\ Waiting' = Waiting
    BY <1>11, <1>o, TodoSame, HeldSame
  <2> QED
    BY <1>11, <1>n, <2>1
<1>12. ASSUME NEW m \in Mids, Delete(m) PROVE OnceInv' /\ HeldFrom'
  <2>1. CASE m \in MidsOf(hist)
    BY <1>10, <1>12, <2>1 DEF Delete
  <2>2. CASE m \notin MidsOf(hist)
    BY <1>11, <1>12, <2>2 DEF Delete, storeVars
  <2> QED
    BY <2>1, <2>2
<1>13. ASSUME NEW m \in Mids, NEW k \in Marks, Mark(m, k) PROVE OnceInv' /\ HeldFrom'
  <2>1. PICK n : n = First(m)
    OBVIOUS
  <2>2. /\ hist' = Marked(hist, n, k) /\ Save
        /\ UNCHANGED <<seen, gone, again, copies, todo, held>>
    BY <1>13, <2>1 DEF Mark, Marked
  <2>3. DOMAIN hist' = DOMAIN hist /\ \A i \in DOMAIN hist : hist'[i].mid = hist[i].mid
    BY <2>2, MarkGives DEF TypeOK
  <2>4. MidsOf(hist') = MidsOf(hist) /\ Once(hist', again)
    BY <1>o, <2>3 DEF MidsOf, Once
  <2>5. file' = hist' \/ file' = file
    BY <2>2, SaveGives
  <2>6. TodoOnce' /\ Carried' = Carried /\ HeldOnce' /\ HeldFrom' /\ Waiting' = Waiting
    BY <1>o, <2>2, TodoSame, HeldSame
  <2>7. Once(file', again) /\ MidsOf(file') \subseteq MidsOf(file) \union MidsOf(hist)
    BY <1>o, <2>4, <2>5
  <2>8. Apart' /\ Counted' /\ Remembered' /\ DeletedStaysDeleted'
    BY <1>o, <2>2, <2>4, <2>6, <2>7 DEF Apart, Counted, Remembered, DeletedStaysDeleted
  <2>9. Once(hist, again)' /\ Once(file, again)'
    BY <2>2, <2>4, <2>7
  <2> QED
    BY <1>q, <2>6, <2>8, <2>9
<1>14. ASSUME Restart PROVE OnceInv' /\ HeldFrom'
  <2>1. /\ hist' = Newest(file) \/ hist' = <<>>
        /\ seen' = {} /\ gone' = {} /\ UNCHANGED <<file, copies>>
        /\ held' = [p \in Peers |-> <<>>] /\ todo' = [t \in Threads |-> <<>>]
        /\ again' = again \union {m \in Inbound : copies[m] > 0}
    BY <1>14 DEF Restart
  <2>2. ToSet(<<>>) = {} /\ DOMAIN <<>> = {} /\ MidsOf(<<>>) = {}
    BY DEF ToSet, MidsOf
  <2>3. TodoOnce' /\ HeldOnce' /\ HeldFrom'
    BY <2>1, <2>2 DEF TodoOnce, HeldOnce, HeldFrom
  <2>4. Carried' = {} /\ Waiting' = {}
    <3>1. \A t \in Threads : Of(todo'[t]) = {}
      BY <2>1, <2>2 DEF Of
    <3>2. Carried' = {}
      BY <3>1, CarriedIs
    <3>3. Waiting' = {}
      BY <2>1, <2>2, WaitingIs
    <3> QED
      BY <3>2, <3>3
  <2>5. Part(Newest(file), file) /\ Once(file, again) /\ again \subseteq again'
    BY <1>o, <2>1, NewestPart DEF TypeOK
  <2>6. Once(hist, again)' /\ MidsOf(hist') \subseteq MidsOf(file)
    <3>1. CASE hist' = Newest(file)
      BY <2>5, <3>1, PartOf
    <3>2. CASE hist' = <<>>
      BY <2>2, <3>2 DEF Once
    <3> QED
      BY <2>1, <3>1, <3>2
  <2>7. Once(file, again)'
    BY <2>1, <2>5 DEF Once
  <2>8. Apart' /\ DeletedStaysDeleted'
    BY <2>1, <2>4 DEF Apart, DeletedStaysDeleted
  <2>9. Counted'
    BY <1>o, <2>1, <2>4, <2>6 DEF Counted
  <2>10. Remembered'
    BY <1>0, <1>c, <1>o, <2>1, <2>6 DEF Remembered, Counted
  <2> QED
    BY <1>q, <2>3, <2>6, <2>7, <2>8, <2>9, <2>10
<1>15. CASE UNCHANGED vars
  BY <1>11, <1>15 DEF vars
<1>17. ASSUME NEW t \in Threads, DoHold(t) PROVE OnceInv' /\ HeldFrom'
  <2>1. /\ Due(t) /\ Next1(t) /\ Head(todo[t]).do = "hold"
        /\ UNCHANGED <<hist, file, seen, gone, again, copies>>
    BY <1>17 DEF DoHold, Now, storeVars
  <2>2. /\ TodoOnce' /\ Carried' \subseteq Carried
        /\ Head(todo[t]).of \in Carried /\ Head(todo[t]).of \in Requests
        /\ (Head(todo[t]).of \notin again => Head(todo[t]).of \notin Carried')
    BY <1>o, <2>1, TodoLoses
  <2>3. PICK m \in Requests : m = Head(todo[t]).of
    BY <2>2
  <2>4. \/ held' = [held EXCEPT ![PeerOf[m]] = Append(@, m)]
        \/ held' = held
    BY <1>17, <2>3 DEF DoHold
  <2>5. CASE held' = held
    <3>1. HeldOnce' /\ HeldFrom' /\ Waiting' = Waiting
      BY <1>o, <2>1, <2>5, HeldSame
    <3> QED
      BY <1>n, <2>1, <2>2, <3>1
  <2>6. CASE held' = [held EXCEPT ![PeerOf[m]] = Append(@, m)]
    <3>1. m \in Mids /\ m \in Carried /\ (m \notin again => m \notin Carried')
      BY <1>h, <2>2, <2>3
    <3>2. m \in Waiting => m \in again'
      BY <1>o, <2>1, <3>1 DEF Apart
    <3>3. again \subseteq again'
      BY <2>1
    <3>4. HeldOnce' /\ HeldFrom' /\ Waiting' = Waiting \union {m}
      BY <1>o, <2>6, <3>2, <3>3, HeldGains
    <3>5. /\ Once(hist, again)' /\ Once(file, again)'
          /\ MidsOf(hist') = MidsOf(hist) /\ MidsOf(file') = MidsOf(file)
      BY <1>s, <2>1
    <3>6. Apart'
      BY <1>o, <2>1, <2>2, <3>1, <3>4, <3>5 DEF Apart
    <3>7. Counted' /\ Remembered' /\ DeletedStaysDeleted'
      BY <1>o, <2>1, <2>2, <3>1, <3>4, <3>5 DEF Counted, Remembered, DeletedStaysDeleted
    <3> QED
      BY <1>q, <2>2, <3>4, <3>5, <3>6, <3>7
  <2> QED
    BY <2>4, <2>5, <2>6
<1>18. ASSUME NEW p \in Peers, Confirm(p) PROVE OnceInv' /\ HeldFrom'
  BY <1>11, <1>18 DEF Confirm, storeVars
<1>19. ASSUME NEW p \in Peers, Withdraw(p) PROVE OnceInv' /\ HeldFrom'
  <2>1. /\ held' = held \/ held' = [held EXCEPT ![p] = <<>>]
        /\ UNCHANGED <<hist, file, seen, gone, again, copies, todo>>
    BY <1>19 DEF Withdraw, storeVars
  <2>2. HeldOnce' /\ HeldFrom' /\ Waiting' \subseteq Waiting
    <3>1. CASE held' = held
      BY <1>o, <2>1, <3>1, HeldSame
    <3>2. CASE held' = [held EXCEPT ![p] = <<>>]
      BY <1>o, <2>1, <3>2, HeldEmptied
    <3> QED
      BY <2>1, <3>1, <3>2
  <2>3. TodoOnce' /\ Carried' = Carried
    BY <1>o, <2>1, TodoSame
  <2> QED
    BY <1>n, <2>1, <2>2, <2>3
<1> QED
  BY <1>1, <1>2, <1>3, <1>4, <1>5, <1>6, <1>7, <1>8, <1>9, <1>10, <1>12, <1>13, <1>14, <1>15,
     <1>16, <1>17, <1>18, <1>19
     DEF Next, ClearChat, ClearAll

-----------------------------------------------------------------------------
(***************************************************************************)
(* The file.                                                               *)
(***************************************************************************)
LEMMA FileStep == TypeOK /\ FileFollows /\ [Next]_vars => FileFollows'
<1> SUFFICES ASSUME TypeOK, FileFollows, [Next]_vars PROVE FileFollows'
  OBVIOUS
<1>1. ASSUME Save PROVE FileFollows'
  BY <1>1, SaveGives DEF FileFollows
<1>2. ASSUME UNCHANGED <<hist, file, unsaved>> PROVE FileFollows'
  BY <1>2 DEF FileFollows
<1>3. ASSUME NEW t \in Readers, NEW m \in Inbound,
             Take(t, m) \/ Post(t, m) \/ Hold(t, m) \/ Mutual(t, m) \/ Drop(t, m)
      PROVE  FileFollows'
  <2>1. Arrives(t, m)
    BY <1>3 DEF Take, Post, Hold, Mutual, Drop
  <2> QED
    BY <1>2, <2>1 DEF Arrives, storeVars
<1>4. ASSUME NEW t \in Threads,
             DoAppend(t) \/ DoHold(t) \/ DoClear(t) \/ \E p \in Peers : Unfriend(t, p)
      PROVE  FileFollows'
  <2>1. CASE DoAppend(t) \/ DoClear(t)
    BY <1>1, <2>1 DEF DoAppend, DoClear, Erase
  <2>2. CASE DoHold(t) \/ \E p \in Peers : Unfriend(t, p)
    BY <1>2, <2>2 DEF DoHold, Unfriend, storeVars
  <2> QED
    BY <1>4, <2>1, <2>2
<1>5. ASSUME NEW m \in Outbound, Send(m) PROVE FileFollows'
  BY <1>2, <1>5 DEF Send, storeVars
<1>6. ASSUME NEW p \in Peers,
             Accept(p) \/ Confirm(p) \/ Reject(p) \/ Withdraw(p) \/ ClearChat(p)
      PROVE  FileFollows'
  <2>1. CASE ClearChat(p)
    BY <1>1, <2>1 DEF ClearChat, Erase
  <2>2. CASE Accept(p) \/ Confirm(p) \/ Reject(p) \/ Withdraw(p)
    BY <1>2, <2>2 DEF Accept, Confirm, Reject, Withdraw, storeVars
  <2> QED
    BY <1>6, <2>1, <2>2
<1>7. ASSUME ClearAll PROVE FileFollows'
  BY <1>1, <1>7 DEF ClearAll, Erase
<1>8. ASSUME NEW m \in Mids, Delete(m) \/ \E k \in Marks : Mark(m, k) PROVE FileFollows'
  BY <1>1, <1>2, <1>8 DEF Delete, Mark, Erase, storeVars
<1>9. ASSUME Restart PROVE FileFollows'
  <2>1. CASE hist' = Newest(file) /\ unsaved' = unsaved
    <3>1. Newest(file) = file /\ file' = file
      BY <1>9, NewestPart DEF Restart, TypeOK
    <3> QED
      BY <2>1, <3>1 DEF FileFollows
  <2>2. CASE unsaved' = TRUE
    BY <2>2 DEF FileFollows
  <2> QED
    BY <1>9, <2>1, <2>2 DEF Restart
<1>10. CASE UNCHANGED vars
  BY <1>2, <1>10 DEF vars
<1> QED
  BY <1>3, <1>4, <1>5, <1>6, <1>7, <1>8, <1>9, <1>10 DEF Next

-----------------------------------------------------------------------------
(***************************************************************************)
(* A removed friend's chat.                                                *)
(***************************************************************************)
LEMMA TrustStep == HistoryInv /\ [Next]_vars => Trusted'
<1> SUFFICES ASSUME HistoryInv, [Next]_vars PROVE Trusted'
  OBVIOUS
<1>i. TypeOK /\ OnceInv /\ HeldFrom /\ FileFollows /\ Trusted /\ TodoOnce /\ HeldOnce
  BY DEF HistoryInv, OnceInv
<1>h. /\ MidsOf(hist) \subseteq Mids /\ MidsOf(file) \subseteq Mids
      /\ InHand \subseteq Mids /\ InHand' \subseteq Mids
      /\ MidsOf(hist') \subseteq Mids
  <2>1. TypeOK'
    BY <1>i, TypeStep
  <2> QED
    BY <1>i, <2>1, PlacesTyped, InHandNext, MidsType DEF TypeOK
<1>0. /\ Inbound \subseteq Mids /\ Outbound \subseteq Mids /\ Requests \subseteq Inbound
      /\ \A m \in Mids : PeerOf[m] \in Peers
  BY MessagesType DEF Mids
(* Nothing new is in the store or in hand, and no record goes.             *)
<1>k. ASSUME MidsOf(hist') \union InHand' \subseteq MidsOf(hist) \union InHand,
             left \subseteq left', Clearing \subseteq Clearing',
             \A x \in Peers : record[x] # "none" => record'[x] # "none"
      PROVE  Trusted'
  BY <1>0, <1>h, <1>i, <1>k DEF Trusted
(* A record is set, and none goes.                                         *)
<1>r. ASSUME NEW p \in Peers, NEW r \in Records, r # "none", SetRecord(p, r)
      PROVE  \A x \in Peers : record[x] # "none" => record'[x] # "none"
  <2>1. record' = [record EXCEPT ![p] = r]
    BY <1>i, <1>r, RecordGives
  <2> QED
    BY <1>i, <1>r, <2>1 DEF TypeOK
<1>c. "friend" \in Records /\ "pending" \in Records /\ "none" \in Records
  BY DEF Records
<1>s. ASSUME UNCHANGED todo, again \subseteq again' PROVE InHand' = InHand /\ Clearing' = Clearing
  BY <1>i, <1>s, TodoSame
<1>e. ASSUME NEW S, Erase(S), UNCHANGED <<record, todo, again, left>> PROVE Trusted'
  <2>1. MidsOf(hist') \subseteq MidsOf(hist)
    BY <1>e, <1>i, EraseGives
  <2> HIDE DEF Erase
  <2> QED
    BY <1>e, <1>k, <1>s, <2>1
(* One more message in hand: its peer is on record, or it is left.         *)
<1>g. ASSUME NEW t \in Threads, ~Due(t), NEW m \in Mids, todo' = [todo EXCEPT ![t] = <<Store(m)>>],
             UNCHANGED <<hist, record>>, left \subseteq left',
             record[PeerOf[m]] # "none" \/ m \in left'
      PROVE  Trusted'
  <2>1. Store(m) \in Task /\ \A n \in Mids : Store(n) = Store(m) => n = m
    BY TaskType
  <2>2. /\ InHand' = InHand \union {n \in Mids : Store(n) = Store(m)}
        /\ Clearing' = Clearing \union {x \in Peers : Clear(x) = Store(m)}
    BY <1>g, <1>i, <2>1, TodoOne
  <2>3. InHand' \subseteq InHand \union {m} /\ Clearing \subseteq Clearing'
    BY <2>1, <2>2
  <2>4. MidsOf(hist') = MidsOf(hist)
    BY <1>g
  <2> QED
    BY <1>g, <1>i, <2>3, <2>4 DEF Trusted
(* A peer is struck off.                                                   *)
<1>p. ASSUME NEW p \in Peers, Strike(p), UNCHANGED <<hist, todo, again>> PROVE Trusted'
  <2>1. /\ SetRecord(p, "none")
        /\ left' = left \union (FromPeer(p) \intersect (MidsOf(hist) \union InHand))
    BY <1>p DEF Strike
  <2>2. record' = [record EXCEPT ![p] = "none"]
    BY <1>c, <1>i, <2>1, RecordGives
  <2>3. InHand' = InHand /\ Clearing' = Clearing /\ MidsOf(hist') = MidsOf(hist)
    BY <1>p, <1>s
  <2>4. \A m \in Mids : m \in FromPeer(p) <=> PeerOf[m] = p
    BY DEF FromPeer
  <2>5. \A x \in Peers : x # p => record'[x] = record[x]
    BY <1>i, <2>2 DEF TypeOK
  <2>6. \A m \in (MidsOf(hist) \union InHand) \ left' : m \notin left /\ PeerOf[m] # p
    BY <1>h, <2>1, <2>4
  <2> QED
    BY <1>0, <1>h, <1>i, <2>3, <2>5, <2>6 DEF Trusted
<1>1. ASSUME NEW t \in Readers, NEW m \in Inbound, Take(t, m) PROVE Trusted'
  <2>1. /\ t \in Threads /\ ~Due(t) /\ m \in Mids
        /\ todo' = [todo EXCEPT ![t] = <<Store(m)>>] /\ record[PeerOf[m]] # "none"
        /\ UNCHANGED <<hist, record, left>>
    BY <1>0, <1>1 DEF Take, Arrives, storeVars, friendVars, Threads
  <2> QED
    BY <1>g, <2>1
<1>16. ASSUME NEW t \in Readers, NEW m \in Inbound, Post(t, m) PROVE Trusted'
  <2>1. /\ t \in Threads /\ ~Due(t) /\ m \in Mids
        /\ todo' = [todo EXCEPT ![t] = <<Store(m)>>]
        /\ UNCHANGED <<hist, record>>
        /\ left' = IF record[PeerOf[m]] = "none" THEN left \union {m} ELSE left
    BY <1>0, <1>16 DEF Post, Arrives, storeVars, friendVars, Threads
  <2> QED
    BY <1>g, <2>1
<1>2. ASSUME NEW t \in Readers, NEW m \in Inbound, Hold(t, m) PROVE Trusted'
  <2>1. /\ t \in Threads /\ ~Due(t) /\ m \in Requests
        /\ todo' = [todo EXCEPT ![t] = <<Ask(m)>>]
        /\ UNCHANGED <<hist, record, left>>
    BY <1>2 DEF Hold, Arrives, storeVars, friendVars, Threads
  <2>2. Ask(m) \in Task /\ \A n \in Mids : Store(n) # Ask(m)
    BY <2>1, TaskType
  <2>3. /\ InHand' = InHand \union {n \in Mids : Store(n) = Ask(m)}
        /\ Clearing' = Clearing \union {x \in Peers : Clear(x) = Ask(m)}
    BY <1>i, <2>1, <2>2, TodoOne
  <2>4. InHand' = InHand /\ Clearing \subseteq Clearing' /\ MidsOf(hist') = MidsOf(hist)
    BY <2>1, <2>2, <2>3
  <2> QED
    BY <1>k, <2>1, <2>4
<1>3. ASSUME NEW t \in Readers, NEW m \in Inbound, Drop(t, m) PROVE Trusted'
  <2>1. UNCHANGED <<hist, record, left, todo, again>>
    BY <1>3 DEF Drop, Arrives, storeVars, friendVars
  <2> QED
    BY <1>k, <1>s, <2>1
<1>17. ASSUME NEW t \in Readers, NEW m \in Inbound, Mutual(t, m) PROVE Trusted'
  <2>1. /\ UNCHANGED <<hist, left, todo, again>>
        /\ SetRecord(PeerOf[m], "friend") /\ PeerOf[m] \in Peers
    BY <1>0, <1>17 DEF Mutual, Arrives, storeVars
  <2>2. \A x \in Peers : record[x] # "none" => record'[x] # "none"
    BY <1>c, <1>r, <2>1
  <2> QED
    BY <1>k, <1>s, <2>1, <2>2
<1>4. ASSUME NEW t \in Threads, DoAppend(t) PROVE Trusted'
  <2>1. /\ Due(t) /\ Next1(t) /\ Head(todo[t]).do = "append"
        /\ UNCHANGED <<record, again, left>>
    BY <1>4 DEF DoAppend, Now, friendVars
  <2>2. /\ InHand' \subseteq InHand /\ Clearing' = Clearing
        /\ Head(todo[t]).of \in InHand
    BY <1>i, <2>1, TodoLoses
  <2>3. PICK m \in Mids : m = Head(todo[t]).of
    BY <1>h, <2>2
  <2>4. hist' = Newest(Append(hist, Entry(m)))
    BY <1>4, <2>3 DEF DoAppend
  <2>5. PICK s \in Seq(Message) : s = Append(hist, Entry(m))
    BY <1>i, AppendStore DEF TypeOK
  <2>6. MidsOf(s) = MidsOf(hist) \union {m}
    BY <1>i, <2>5, AppendStore DEF TypeOK
  <2>7. hist' = Newest(s) /\ Part(Newest(s), s)
    BY <2>4, <2>5, NewestPart
  <2>8. MidsOf(hist') \subseteq MidsOf(hist) \union {m}
    BY <2>6, <2>7, PartOf
  <2> QED
    BY <1>k, <2>1, <2>2, <2>3, <2>8
<1>5. ASSUME NEW t \in Threads, DoClear(t) PROVE Trusted'
  <2>1. /\ Due(t) /\ Next1(t) /\ Head(todo[t]).do = "clear"
        /\ Erase(FromPeer(Head(todo[t]).of))
        /\ UNCHANGED <<record, again>>
        /\ left' = (left \ FromPeer(Head(todo[t]).of))
                     \union (InHand \intersect FromPeer(Head(todo[t]).of))
    BY <1>5 DEF DoClear, Now, friendVars
  <2>2. /\ InHand' = InHand /\ Head(todo[t]).of \in Peers
        /\ Clearing \subseteq Clearing' \union {Head(todo[t]).of}
    BY <1>i, <2>1, TodoLoses
  <2>3. PICK p \in Peers : p = Head(todo[t]).of
    BY <2>2
  <2>4. MidsOf(hist') \subseteq MidsOf(hist) \ FromPeer(p)
    BY <1>i, <2>1, <2>3, EraseGives
  <2>5. /\ left' = (left \ FromPeer(p)) \union (InHand \intersect FromPeer(p))
        /\ Clearing \subseteq Clearing' \union {p}
    BY <2>1, <2>2, <2>3
  <2>6. \A m \in Mids : m \in FromPeer(p) <=> PeerOf[m] = p
    BY DEF FromPeer
  <2>7. \A m \in (MidsOf(hist') \union InHand') \ left' :
          m \in (MidsOf(hist) \union InHand) \ left /\ PeerOf[m] # p
    BY <1>h, <2>2, <2>4, <2>5, <2>6
  <2> QED
    BY <1>i, <2>1, <2>5, <2>7 DEF Trusted
<1>18. ASSUME NEW t \in Threads, DoHold(t) PROVE Trusted'
  <2>1. /\ Due(t) /\ Next1(t) /\ Head(todo[t]).do = "hold"
        /\ UNCHANGED <<hist, again, left>>
    BY <1>18 DEF DoHold, Now, storeVars
  <2>2. /\ InHand' \subseteq InHand /\ Clearing' = Clearing /\ Head(todo[t]).of \in Requests
    BY <1>i, <2>1, TodoLoses
  <2>3. PICK m \in Requests : m = Head(todo[t]).of
    BY <2>2
  <2>4. PICK p \in Peers : p = PeerOf[m]
    BY <1>0
  <2>5. UNCHANGED record \/ SetRecord(p, "pending")
    BY <1>18, <2>3, <2>4 DEF DoHold, friendVars
  <2>6. \A x \in Peers : record[x] # "none" => record'[x] # "none"
    BY <1>c, <1>r, <2>5
  <2>7. MidsOf(hist') = MidsOf(hist)
    BY <2>1
  <2> QED
    BY <1>k, <2>1, <2>2, <2>6, <2>7
<1>6. ASSUME NEW t \in Threads, NEW p \in Peers, Unfriend(t, p) PROVE Trusted'
  <2>1. /\ ~Due(t) /\ todo' = [todo EXCEPT ![t] = <<Clear(p)>>]
        /\ UNCHANGED <<hist, left>> /\ SetRecord(p, "none")
    BY <1>6 DEF Unfriend, storeVars
  <2>2. Clear(p) \in Task /\ \A m \in Mids : Store(m) # Clear(p)
    BY TaskType
  <2>3. InHand' = InHand /\ Clearing' = Clearing \union {x \in Peers : Clear(x) = Clear(p)}
    BY <1>i, <2>1, <2>2, TodoOne
  <2>4. MidsOf(hist') = MidsOf(hist) /\ Clearing \union {p} \subseteq Clearing'
    BY <2>1, <2>3
  <2>5. record' = [record EXCEPT ![p] = "none"]
    BY <1>c, <1>i, <2>1, RecordGives
  <2>6. \A x \in Peers : x # p => record'[x] = record[x]
    BY <1>i, <2>5 DEF TypeOK
  <2> QED
    BY <1>0, <1>h, <1>i, <2>1, <2>3, <2>4, <2>6 DEF Trusted
<1>7. ASSUME NEW m \in Outbound, Send(m) PROVE Trusted'
  <2>1. /\ "user" \in Threads /\ ~Due("user") /\ m \in Mids
        /\ todo' = [todo EXCEPT !["user"] = <<Store(m)>>]
        /\ UNCHANGED <<hist, record>>
        /\ left' = IF record[PeerOf[m]] = "none" THEN left \union {m} ELSE left
    BY <1>0, <1>7 DEF Send, UserFree, storeVars, friendVars, Threads
  <2> QED
    BY <1>g, <2>1
<1>8. ASSUME NEW p \in Peers, Accept(p) PROVE Trusted'
  <2>1. /\ "user" \in Threads /\ ~Due("user")
        /\ todo' = [todo EXCEPT !["user"] = [i \in DOMAIN held[p] |-> Store(held[p][i])]]
        /\ UNCHANGED <<hist, left>> /\ SetRecord(p, "friend")
    BY <1>8 DEF Accept, UserFree, storeVars, Threads
  <2>2. PICK r \in Seq(Requests) : r = held[p]
    BY <1>i DEF TypeOK
  <2>3. PICK q \in Seq(Task) : q = [i \in DOMAIN r |-> Store(r[i])]
    BY RevealType
  <2>4. /\ DOMAIN q = DOMAIN r /\ \A i \in DOMAIN r : q[i] = Store(r[i]) /\ r[i] \in Mids
        /\ todo' = [todo EXCEPT !["user"] = q]
    BY <1>0, <2>1, <2>2, <2>3
  <2>5. /\ InHand' = InHand \union {m \in Mids : Store(m) \in ToSet(q)}
        /\ Clearing \subseteq Clearing'
    BY <1>i, <2>1, <2>4, TodoAdds
  <2>6. ASSUME NEW m \in Mids, Store(m) \in ToSet(q) PROVE PeerOf[m] = p
    <3>1. PICK i \in DOMAIN q : q[i] = Store(m)
      BY <2>6 DEF ToSet
    <3>2. r[i] = m
      BY <2>4, <3>1, TaskType
    <3> QED
      BY <1>i, <2>2, <2>4, <3>2 DEF HeldFrom
  <2>7. MidsOf(hist') = MidsOf(hist)
    BY <2>1
  <2>8. record' = [record EXCEPT ![p] = "friend"]
    BY <1>c, <1>i, <2>1, RecordGives
  <2>9. record'[p] # "none" /\ \A x \in Peers : record[x] # "none" => record'[x] # "none"
    BY <1>i, <2>8 DEF TypeOK
  <2> QED
    BY <1>0, <1>h, <1>i, <2>1, <2>5, <2>6, <2>7, <2>9 DEF Trusted
<1>19. ASSUME NEW p \in Peers, Confirm(p) PROVE Trusted'
  <2>1. UNCHANGED <<hist, left, todo, again>> /\ SetRecord(p, "friend")
    BY <1>19 DEF Confirm, storeVars
  <2>2. \A x \in Peers : record[x] # "none" => record'[x] # "none"
    BY <1>c, <1>r, <2>1
  <2> QED
    BY <1>k, <1>s, <2>1, <2>2
<1>9. ASSUME NEW p \in Peers, Reject(p) PROVE Trusted'
  BY <1>9, <1>p DEF Reject, storeVars
<1>20. ASSUME NEW p \in Peers, Withdraw(p) PROVE Trusted'
  <2>1. /\ UNCHANGED <<hist, todo, again>>
        /\ Strike(p) \/ UNCHANGED <<record, left>>
    BY <1>20 DEF Withdraw, storeVars, friendVars
  <2>2. CASE UNCHANGED <<record, left>>
    BY <1>k, <1>s, <2>1, <2>2
  <2> QED
    BY <1>p, <2>1, <2>2
<1>10. ASSUME NEW m \in Mids, Delete(m) PROVE Trusted'
  <2>1. CASE m \in MidsOf(hist)
    BY <1>e, <1>10, <2>1 DEF Delete, friendVars
  <2>2. CASE m \notin MidsOf(hist)
    <3>1. UNCHANGED <<hist, record, left, todo, again>>
      BY <1>10, <2>2 DEF Delete, storeVars, friendVars
    <3> QED
      BY <1>k, <1>s, <3>1
  <2> QED
    BY <2>1, <2>2
<1>11. ASSUME NEW m \in Mids, NEW k \in Marks, Mark(m, k) PROVE Trusted'
  <2>1. PICK n : n = First(m)
    OBVIOUS
  <2>2. hist' = Marked(hist, n, k) /\ UNCHANGED <<record, left, todo, again>>
    BY <1>11, <2>1 DEF Mark, Marked, friendVars
  <2>3. DOMAIN hist' = DOMAIN hist /\ \A i \in DOMAIN hist : hist'[i].mid = hist[i].mid
    BY <1>i, <2>2, MarkGives DEF TypeOK
  <2>4. MidsOf(hist') = MidsOf(hist)
    BY <2>3 DEF MidsOf
  <2> QED
    BY <1>k, <1>s, <2>2, <2>4
<1>12. ASSUME Restart PROVE Trusted'
  <2>1. /\ hist' = Newest(file) \/ hist' = <<>>
        /\ todo' = [t \in Threads |-> <<>>]
        /\ left' = left \union
             {m \in MidsOf(file) : record'[PeerOf[m]] = "none" /\
                (unsaved \/ PeerOf[m] \in Clearing \/ record[PeerOf[m]] # "none")}
    BY <1>12 DEF Restart
  <2>2. ToSet(<<>>) = {} /\ MidsOf(<<>>) = {}
    BY DEF ToSet, MidsOf
  <2>3. InHand' = {}
    BY <2>1, <2>2, InHandNext
  <2>4. MidsOf(hist') \subseteq MidsOf(file)
    <3>1. CASE hist' = Newest(file)
      <4>1. Part(Newest(file), file)
        BY <1>i, NewestPart DEF TypeOK
      <4> QED
        BY <3>1, <4>1, PartOf
    <3>2. CASE hist' = <<>>
      BY <2>2, <3>2
    <3> QED
      BY <2>1, <3>1, <3>2
  <2>5. ~unsaved => MidsOf(file) = MidsOf(hist)
    BY <1>i DEF FileFollows
  <2>6. unsaved \in BOOLEAN
    BY <1>i DEF TypeOK
  <2> QED
    BY <1>i, <2>1, <2>3, <2>4, <2>5, <2>6 DEF Trusted
<1>13. CASE UNCHANGED vars
  <2>1. UNCHANGED <<hist, record, left, todo, again>>
    BY <1>13 DEF vars
  <2> QED
    BY <1>k, <1>s, <2>1
<1>14. ASSUME NEW p \in Peers, ClearChat(p) PROVE Trusted'
  BY <1>e, <1>14 DEF ClearChat, friendVars
<1>15. ASSUME ClearAll PROVE Trusted'
  BY <1>e, <1>15 DEF ClearAll, friendVars
<1> QED
  BY <1>1, <1>2, <1>3, <1>4, <1>5, <1>6, <1>7, <1>8, <1>9, <1>10, <1>11, <1>12, <1>13, <1>14,
     <1>15, <1>16, <1>17, <1>18, <1>19, <1>20
     DEF Next

-----------------------------------------------------------------------------
LEMMA HistoryInvariant == Spec => []HistoryInv
<1>1. Init => HistoryInv
  <2> SUFFICES ASSUME Init PROVE HistoryInv
    OBVIOUS
  <2>1. TypeOK
    BY TypeInit
  <2>2. /\ hist = <<>> /\ file = <<>> /\ seen = {} /\ gone = {} /\ unsaved = FALSE
        /\ \A p \in Peers : held[p] = <<>>
        /\ \A t \in Threads : todo[t] = <<>>
    BY DEF Init
  <2>3. ToSet(<<>>) = {} /\ DOMAIN <<>> = {} /\ MidsOf(<<>>) = {}
    BY DEF ToSet, MidsOf
  <2>4. InHand = {} /\ Carried = {} /\ Waiting = {} /\ MidsOf(hist) = {} /\ MidsOf(file) = {}
    <3>1. \A t \in Threads : Of(todo[t]) = {}
      BY <2>2, <2>3 DEF Of
    <3> QED
      BY <2>2, <2>3, <3>1, InHandIs, CarriedIs, WaitingIs
  <2>5. Once(hist, again) /\ Once(file, again) /\ TodoOnce /\ HeldOnce /\ HeldFrom
    BY <2>2, <2>3 DEF Once, TodoOnce, HeldOnce, HeldFrom
  <2>6. Apart /\ Counted /\ Remembered /\ DeletedStaysDeleted /\ Trusted /\ FileFollows
    BY <2>2, <2>4 DEF Apart, Counted, Remembered, DeletedStaysDeleted, Trusted, FileFollows
  <2> QED
    BY <2>1, <2>5, <2>6 DEF HistoryInv, OnceInv
<1>2. HistoryInv /\ [Next]_vars => HistoryInv'
  <2> SUFFICES ASSUME HistoryInv, [Next]_vars PROVE HistoryInv'
    OBVIOUS
  <2>1. TypeOK /\ OnceInv /\ HeldFrom /\ FileFollows /\ Trusted
    BY DEF HistoryInv
  <2>2. TypeOK'
    BY <2>1, TypeStep
  <2>3. OnceInv' /\ HeldFrom'
    BY <2>1, OnceStep
  <2>4. FileFollows'
    BY <2>1, FileStep
  <2>5. Trusted'
    BY TrustStep
  <2> QED
    BY <2>2, <2>3, <2>4, <2>5 DEF HistoryInv
<1> QED
  BY <1>1, <1>2, PTL DEF Spec

(* A message delivered again is not shown again, unless two copies passed  *)
(* the check together or the daemon was restarted in between (_has_mid,    *)
(* append_history).                                                        *)
THEOREM ShownOnce == Spec => []NotTwice
<1>1. HistoryInv => NotTwice
  <2> SUFFICES ASSUME HistoryInv, NEW m \in Mids \ again
               PROVE  Cardinality({i \in DOMAIN hist : hist[i].mid = m}) <= 1
    BY DEF NotTwice
  <2> DEFINE P == {i \in DOMAIN hist : hist[i].mid = m}
  <2>1. \A i, j \in P : i = j
    BY DEF HistoryInv, OnceInv, Once
  <2> HIDE DEF P
  <2>2. CASE P = {}
    BY <2>2, FS_EmptySet DEF P
  <2>3. CASE P # {}
    <3>1. PICK i : P = {i}
      BY <2>1, <2>3
    <3>2. Cardinality(P) = 1
      BY <3>1, FS_Singleton
    <3> QED
      BY <3>2 DEF P
  <2> QED
    BY <2>2, <2>3
<1> QED
  BY <1>1, HistoryInvariant, PTL

(* What the user deleted or cleared does not come back with a redelivery,  *)
(* with the same two exceptions (delete_message, clear_history_for_peer    *)
(* and clear_all_history leave _seen_mids alone).                          *)
THEOREM DeletionLasts == Spec => []DeletedStaysDeleted
<1>1. HistoryInv => DeletedStaysDeleted
  BY DEF HistoryInv, OnceInv
<1> QED
  BY <1>1, HistoryInvariant, PTL

(* Once _do_unfriend is done, nothing of the chat is left, and what a peer *)
(* writes later is kept only while it has a record (is_trusted), but for   *)
(* what left names: what threads had in hand at the clear, the chat of a   *)
(* peer struck off without a clear (rejectFriend,                          *)
(* _unfriend_if_unconfirmed), what our user writes to, or a room brings    *)
(* from, somebody without a record, and what a lost save or a restart      *)
(* before the clear brings back.                                           *)
THEOREM RemovalForgets == Spec => []RemovedIsForgotten
<1>1. HistoryInv => RemovedIsForgotten
  BY DEF HistoryInv, Trusted, RemovedIsForgotten
<1> QED
  BY <1>1, HistoryInvariant, PTL

(* After a save that went well the file is the store, so that a restart    *)
(* loses and revives nothing (_save_history_locked, load_history).         *)
THEOREM FileIsStore == Spec => []FileFollows
<1>1. HistoryInv => FileFollows
  BY DEF HistoryInv
<1> QED
  BY <1>1, HistoryInvariant, PTL
=============================================================================
