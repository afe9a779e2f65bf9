--------------------------- MODULE HttpApiProofs ---------------------------
(***************************************************************************)
(* For every number of workers, connections, panels and limits: the slots  *)
(* of the workers are counted, the switch holds, and no window of time     *)
(* sees more sends, or more wrong tokens, than the limits allow.           *)
(***************************************************************************)
EXTENDS HttpApi, FiniteSetTheorems, WellFoundedInduction, TLAPS

Jobs == [do : {"idle", "bind", "close", "save on", "save off"}, tries : Nat]

(* The types of what the workers and the switch keep (http_api.py 85-136,  *)
(* 437-479).                                                               *)
WorkerTypes == active \in Int /\ leaked \in Nat /\ at \in [Conns -> Stages]
SwitchTypes ==
  /\ server \in BOOLEAN /\ bound \in BOOLEAN /\ enabled \in BOOLEAN
  /\ crossed \in BOOLEAN
  /\ job \in [Clients -> Jobs]

LEMMA IdleType == Idle \in Jobs /\ Idle.do = "idle"
BY DEF Idle, Jobs

LEMMA JobType ==
  ASSUME NEW what \in {"idle", "bind", "close", "save on", "save off"}
  PROVE  Job(what) \in Jobs /\ Job(what).do = what
BY DEF Job, Jobs

----------------------------------------------------------------------------
(* The workers.                                                            *)

LEMMA LiveFinite == IsFiniteSet(Live) /\ Cardinality(Live) \in Nat
<1>1. Live \in SUBSET Conns
  BY DEF Live
<1>2. IsFiniteSet(Live)
  BY <1>1, ConnsFinite, FS_Subset DEF ConnsFinite
<1> QED
  BY <1>2, FS_CardinalityType

(* How the step of one connection changes the number that are served.      *)
LEMMA LiveMoves ==
  ASSUME WorkerTypes, NEW w \in Conns, NEW stage \in Stages, Goes(w, stage)
  PROVE  /\ at' \in [Conns -> Stages]
         /\ at[w] = "none" /\ stage # "none" => Cardinality(Live') = Cardinality(Live) + 1
         /\ at[w] # "none" /\ stage = "none" => Cardinality(Live') = Cardinality(Live) - 1
         /\ at[w] # "none" /\ stage # "none" => Live' = Live
<1>1. at' \in [Conns -> Stages] /\ at'[w] = stage
      /\ \A v \in Conns \ {w} : at'[v] = at[v]
  BY DEF Goes, WorkerTypes
<1>2. ASSUME at[w] = "none", stage # "none"
      PROVE  Cardinality(Live') = Cardinality(Live) + 1
  <2>1. Live' = Live \cup {w} /\ w \notin Live
    BY <1>1, <1>2 DEF Live
  <2> QED
    BY <2>1, LiveFinite, FS_AddElement
<1>3. ASSUME at[w] # "none", stage = "none"
      PROVE  Cardinality(Live') = Cardinality(Live) - 1
  <2>1. Live' = Live \ {w} /\ w \in Live
    BY <1>1, <1>3 DEF Live
  <2> QED
    BY <2>1, LiveFinite, FS_RemoveElement
<1>4. at[w] # "none" /\ stage # "none" => Live' = Live
  BY <1>1 DEF Live
<1> QED
  BY <1>1, <1>2, <1>3, <1>4

SlotInv == WorkerTypes /\ SlotsCounted

LEMMA SlotInit == Init => SlotInv
<1> SUFFICES ASSUME Init
             PROVE  SlotInv
  OBVIOUS
<1>1. Live = {}
  BY DEF Init, Live
<1>2. Cardinality(Live) = 0
  BY <1>1, FS_EmptySet
<1>3. 0 <= MaxWorkers
  BY LimitsAreNat DEF LimitsAreNat
<1> QED
  BY <1>2, <1>3 DEF Init, SlotInv, WorkerTypes, SlotsCounted, Stages

(* Taking, passing on and giving back a slot.                              *)
LEMMA TakesSlot ==
  ASSUME SlotInv, NEW w \in Conns, NEW stage \in Stages, at[w] = "none",
         stage # "none", active < MaxWorkers, active' = active + 1,
         Goes(w, stage), leaked' = leaked
  PROVE  SlotInv'
<1>1. MaxWorkers \in Nat
  BY LimitsAreNat DEF LimitsAreNat
<1> QED
  BY <1>1, LiveFinite, LiveMoves DEF SlotInv, WorkerTypes, SlotsCounted

LEMMA KeepsSlot ==
  ASSUME SlotInv, NEW w \in Conns, NEW stage \in Stages, at[w] # "none",
         stage # "none", active' = active, Goes(w, stage), leaked' = leaked
  PROVE  SlotInv'
BY LiveMoves DEF SlotInv, WorkerTypes, SlotsCounted

LEMMA GivesBack ==
  ASSUME SlotInv, NEW w \in Conns, at[w] # "none", Goes(w, "none"),
         \/ active' = active - 1 /\ leaked' = leaked
         \/ active' = active /\ leaked' = leaked + 1
  PROVE  SlotInv'
<1>1. "none" \in Stages
  BY DEF Stages
<1>2. MaxWorkers \in Nat
  BY LimitsAreNat DEF LimitsAreNat
<1>3. at' \in [Conns -> Stages] /\ Cardinality(Live') = Cardinality(Live) - 1
  BY <1>1, LiveMoves DEF SlotInv
<1> QED
  BY <1>2, <1>3, LiveFinite DEF SlotInv, WorkerTypes, SlotsCounted

LEMMA SlotServe ==
  ASSUME SlotInv, NEW w \in Conns, Accept(w) \/ Serve(w)
  PROVE  SlotInv'
<1>1. CASE Accept(w)
  <2>1. PICK stage \in {"handshake", "mute"} : Goes(w, stage)
    BY <1>1 DEF Accept
  <2>2. stage \in Stages /\ stage # "none"
    BY <2>1 DEF Stages
  <2> QED
    BY <1>1, <2>1, <2>2, TakesSlot DEF Accept, Room
<1>2. CASE HandshakeFails(w)
  <2>1. at[w] # "none"
    BY <1>2 DEF HandshakeFails, Handshaking
  <2> QED
    BY <1>2, <2>1, GivesBack DEF HandshakeFails
<1>3. CASE HandshakeDone(w)
  <2>1. PICK stage \in {"reading", "slow"} : Goes(w, stage)
    BY <1>3 DEF HandshakeDone
  <2>2. stage \in Stages /\ stage # "none"
    BY <2>1 DEF Stages
  <2> QED
    BY <1>3, <2>1, <2>2, KeepsSlot DEF HandshakeDone
<1>4. CASE SpawnFails(w)
  BY <1>4, GivesBack DEF SpawnFails
<1> QED
  BY <1>1, <1>2, <1>3, <1>4 DEF Serve

LEMMA SlotWork ==
  ASSUME SlotInv, NEW w \in Conns, Work(w)
  PROVE  SlotInv'
<1>1. {"done", "auth", "send", "stream"} \subseteq Stages \ {"none"}
  BY DEF Stages
<1>2. CASE Served(w) \/ WrongToken(w) \/ Send(w) \/ StreamEnds(w)
  BY <1>1, <1>2, KeepsSlot DEF Served, WrongToken, Send, StreamEnds
<1>3. CASE CheckBlocked(w)
  <2>1. PICK stage \in {"done", "auth"} : Goes(w, stage)
    BY <1>3 DEF CheckBlocked
  <2> QED
    BY <1>1, <1>3, <2>1, KeepsSlot DEF CheckBlocked
<1>4. CASE RightToken(w)
  <2>1. PICK stage \in {"send", "stream", "done"} : Goes(w, stage)
    BY <1>4 DEF RightToken
  <2> QED
    BY <1>1, <1>4, <2>1, KeepsSlot DEF RightToken
<1>5. CASE Release(w)
  BY <1>5, GivesBack DEF Release
<1> QED
  BY <1>2, <1>3, <1>4, <1>5 DEF Work

LEMMA SlotSame ==
  ASSUME SlotInv, UNCHANGED workerVars
  PROVE  SlotInv'
BY DEF workerVars, SlotInv, WorkerTypes, SlotsCounted, Live

LEMMA SlotStep == SlotInv /\ [Next]_vars => SlotInv'
<1> SUFFICES ASSUME SlotInv, [Next]_vars
             PROVE  SlotInv'
  OBVIOUS
<1>1. ASSUME NEW w \in Conns, Accept(w) \/ Serve(w) \/ Work(w)
      PROVE  SlotInv'
  BY <1>1, SlotServe, SlotWork
<1>2. ASSUME NEW c \in Clients, Start(c) \/ Stop(c)
      PROVE  SlotInv'
  BY <1>2, SlotSame DEF Start, Stop, Command
<1>3. ASSUME NEW c \in Clients, Do(c)
      PROVE  SlotInv'
  BY <1>3, SlotSame DEF Do, Bind, Close, SaveSetting
<1>4. CASE Tick
  BY <1>4, SlotSame DEF Tick
<1>5. CASE UNCHANGED vars
  BY <1>5, SlotSame DEF vars, workerVars
<1> QED
  BY <1>1, <1>2, <1>3, <1>4, <1>5 DEF Next

(* Slots are given back exactly once, or counted as leaked; no more than   *)
(* MaxWorkers are ever taken.                                              *)
THEOREM SlotsCorrect == Spec => []SlotsCounted
<1>1. SlotInv => SlotsCounted
  BY DEF SlotInv
<1> QED
  BY <1>1, SlotInit, SlotStep, PTL DEF Spec

----------------------------------------------------------------------------
(* The switch.                                                             *)

(* Of the commands under way one at most is closing the server, and while  *)
(* it does nobody can have bound another.                                  *)
Closing == {c \in Clients : job[c].do = "close"}
ClosesAlone ==
  \A c \in Closing : bound /\ ~server /\ \A d \in Closing : d = c

(* As long as no commands cross, one at most is under way, and it finds    *)
(* the server as it left it.                                               *)
Prompt ==
  ~crossed =>
    /\ \A c, d \in Busy : c = d
    /\ \A c \in Clients : /\ job[c].do \in {"bind", "save off"} => ~bound
                          /\ job[c].do = "save on" => bound
    /\ Busy = {} => enabled = bound

SwitchInv == SwitchTypes /\ SwitchHolds /\ ClosesAlone /\ Prompt

LEMMA SwitchInit == Init => SwitchInv
<1> SUFFICES ASSUME Init
             PROVE  SwitchInv
  OBVIOUS
<1>1. \A c \in Clients : job[c] = Idle /\ job[c].do = "idle"
  BY IdleType DEF Init
<1>2. Busy = {} /\ Closing = {}
  BY <1>1 DEF Busy, Closing
<1>3. SwitchTypes
  BY IdleType DEF Init, SwitchTypes
<1>4. SwitchHolds /\ ClosesAlone
  BY <1>2 DEF Init, SwitchHolds, ClosesAlone
<1>5. Prompt
  BY <1>1, <1>2 DEF Init, Prompt
<1> QED
  BY <1>3, <1>4, <1>5 DEF SwitchInv

(* A client that is not busy has no command.                               *)
LEMMA BusyHere ==
  ASSUME NEW c \in Clients
  PROVE  /\ job[c].do # "idle" => c \in Busy
         /\ c \notin Busy => job[c] = Idle /\ job[c].do = "idle"
<1>1. c \notin Busy => job[c] = Idle
  BY DEF Busy
<1>2. job[c] = Idle => job[c].do = "idle"
  BY IdleType
<1> QED
  BY <1>1, <1>2

(* A step of one command leaves the others where they are.                 *)
LEMMA OneMoves ==
  ASSUME SwitchTypes, NEW c \in Clients, NEW j \in Jobs, Becomes(c, j)
  PROVE  /\ job' \in [Clients -> Jobs]
         /\ job'[c] = j
         /\ \A d \in Clients \ {c} : job'[d] = job[d]
         /\ j.do # "idle" => Busy' = Busy \cup {c}
         /\ j = Idle => Busy' = Busy \ {c}
         /\ j.do = "close" => Closing' = Closing \cup {c}
         /\ j.do # "close" => Closing' = Closing \ {c}
<1>1. /\ job' \in [Clients -> Jobs] /\ job'[c] = j
      /\ \A d \in Clients \ {c} : job'[d] = job[d]
  BY DEF Becomes, SwitchTypes
<1>2. j.do # "idle" => j # Idle
  BY IdleType
<1>3. j # Idle => Busy' = Busy \cup {c}
  BY <1>1 DEF Busy
<1>4. j = Idle => Busy' = Busy \ {c}
  BY <1>1 DEF Busy
<1>5. /\ j.do = "close" => Closing' = Closing \cup {c}
      /\ j.do # "close" => Closing' = Closing \ {c}
  BY <1>1 DEF Closing
<1> QED
  BY <1>1, <1>2, <1>3, <1>4, <1>5

(* Another try is the same command.                                        *)
LEMMA NextTry ==
  ASSUME NEW j \in Jobs
  PROVE  [j EXCEPT !.tries = @ + 1] \in Jobs /\ [j EXCEPT !.tries = @ + 1].do = j.do
<1> DEFINE tries == j.tries + 1
<1>1. j.tries \in Nat
  BY DEF Jobs
<1>2. tries \in Nat
  BY <1>1
<1> HIDE DEF tries
<1>3. [j EXCEPT !.tries = tries] \in Jobs
  BY <1>2 DEF Jobs
<1>4. [j EXCEPT !.tries = tries].do = j.do
  BY DEF Jobs
<1> QED
  BY <1>3, <1>4 DEF tries

LEMMA TriesAgain ==
  ASSUME SwitchTypes, NEW c \in Clients, job[c].do # "idle",
         Becomes(c, [job[c] EXCEPT !.tries = @ + 1])
  PROVE  /\ job' \in [Clients -> Jobs]
         /\ \A d \in Clients : job'[d].do = job[d].do
         /\ Busy' = Busy /\ Closing' = Closing
<1>1. PICK next \in Jobs : Becomes(c, next) /\ next.do = job[c].do
  BY NextTry DEF SwitchTypes
<1>2. /\ job' \in [Clients -> Jobs] /\ job'[c] = next
      /\ \A d \in Clients \ {c} : job'[d] = job[d]
      /\ Busy' = Busy \cup {c}
  BY <1>1, OneMoves
<1>3. c \in Busy
  BY BusyHere
<1>4. \A d \in Clients : job'[d].do = job[d].do
  BY <1>1, <1>2
<1>5. Closing' = Closing
  BY <1>4 DEF Closing
<1> QED
  BY <1>2, <1>3, <1>4, <1>5

LEMMA SwitchStart ==
  ASSUME SwitchInv, NEW c \in Clients, Start(c)
  PROVE  SwitchInv'
<1>1. job[c] = Idle /\ crossed' = (Busy # {}) /\ enabled' = enabled
      /\ server' = server /\ bound' = bound
  BY DEF Start, Command, switchVars
<1>2. PICK what \in {"save on", "bind"} :
        /\ Becomes(c, Job(what))
        /\ what = "save on" <=> server
  BY DEF Start
<1>3. Job(what) \in Jobs /\ Job(what).do = what
  BY JobType
<1>4. /\ job' \in [Clients -> Jobs] /\ job'[c] = Job(what)
      /\ \A d \in Clients \ {c} : job'[d] = job[d]
      /\ Busy' = Busy \cup {c} /\ Closing' = Closing \ {c}
  BY <1>2, <1>3, OneMoves DEF SwitchInv
<1>5. Closing' = Closing
  BY <1>1, <1>4, IdleType DEF Closing
<1>6. SwitchTypes'
  BY <1>1, <1>4 DEF SwitchInv, SwitchTypes
<1>7. SwitchHolds'
  BY <1>1, <1>4, <1>5 DEF SwitchInv, SwitchHolds, Closing
<1>8. ClosesAlone'
  BY <1>1, <1>5 DEF SwitchInv, ClosesAlone
<1>9. ASSUME Busy = {}
      PROVE  Prompt'
  <2>1. server <=> bound
    BY <1>9, BusyHere DEF SwitchInv, SwitchHolds
  <2>2. \A d \in Clients \ {c} : job'[d].do = "idle"
    BY <1>4, <1>9, BusyHere
  <2>3. Busy' = {c}
    BY <1>4, <1>9
  <2> QED
    BY <1>1, <1>2, <1>3, <1>4, <2>1, <2>2, <2>3 DEF Prompt
<1>10. Prompt'
  BY <1>1, <1>9 DEF Prompt
<1> QED
  BY <1>6, <1>7, <1>8, <1>10 DEF SwitchInv

LEMMA SwitchStop ==
  ASSUME SwitchInv, NEW c \in Clients, Stop(c)
  PROVE  SwitchInv'
<1>1. job[c] = Idle /\ crossed' = (Busy # {}) /\ enabled' = enabled
      /\ server' = FALSE /\ bound' = bound
  BY DEF Stop, Command
<1>2. PICK what \in {"close", "save off"} :
        /\ Becomes(c, Job(what))
        /\ what = "close" <=> server
  BY DEF Stop
<1>3. Job(what) \in Jobs /\ Job(what).do = what
  BY JobType
<1>4. /\ job' \in [Clients -> Jobs] /\ job'[c] = Job(what)
      /\ \A d \in Clients \ {c} : job'[d] = job[d]
      /\ Busy' = Busy \cup {c}
      /\ what = "close" => Closing' = Closing \cup {c}
      /\ what # "close" => Closing' = Closing \ {c}
  BY <1>2, <1>3, OneMoves DEF SwitchInv
<1>5. SwitchTypes'
  BY <1>1, <1>4 DEF SwitchInv, SwitchTypes
<1>6. ~crossed' => Busy' = {c} /\ \A d \in Clients \ {c} : job'[d].do = "idle"
  BY <1>1, <1>4, BusyHere
<1>7. CASE server
  <2>1. bound /\ Closing = {}
    BY <1>7 DEF SwitchInv, SwitchHolds, ClosesAlone
  <2>2. Closing' = {c}
    BY <1>2, <1>4, <1>7, <2>1
  <2>3. SwitchHolds' /\ ClosesAlone'
    BY <1>1, <1>2, <1>3, <1>4, <1>7, <2>1, <2>2 DEF SwitchHolds, ClosesAlone
  <2>4. Prompt'
    BY <1>2, <1>3, <1>4, <1>6, <1>7 DEF Prompt
  <2> QED
    BY <1>5, <2>3, <2>4 DEF SwitchInv
<1>8. CASE ~server
  <2>1. Closing' = Closing
    BY <1>1, <1>2, <1>4, <1>8, IdleType DEF Closing
  <2>2. SwitchHolds' /\ ClosesAlone'
    BY <1>1, <1>4, <1>8, <2>1 DEF SwitchInv, SwitchHolds, ClosesAlone, Closing
  <2>3. Busy = {} => ~bound
    BY <1>8, BusyHere DEF SwitchInv, SwitchHolds
  <2>4. Prompt'
    BY <1>1, <1>2, <1>3, <1>4, <1>6, <1>8, <2>3 DEF Prompt
  <2> QED
    BY <1>5, <2>2, <2>4 DEF SwitchInv
<1> QED
  BY <1>7, <1>8

LEMMA SwitchBind ==
  ASSUME SwitchInv, NEW c \in Clients, Bind(c)
  PROVE  SwitchInv'
<1>1. job[c].do = "bind" /\ enabled' = enabled /\ c \in Busy
  BY BusyHere DEF Bind
<1>2. Job("save on") \in Jobs /\ Job("save on").do = "save on"
  BY JobType
<1>3. ASSUME Becomes(c, Job("save on"))
      PROVE  /\ job' \in [Clients -> Jobs] /\ job'[c].do = "save on"
             /\ \A d \in Clients \ {c} : job'[d] = job[d]
             /\ Busy' = Busy /\ Closing' = Closing
  <2>1. /\ job' \in [Clients -> Jobs] /\ job'[c] = Job("save on")
        /\ \A d \in Clients \ {c} : job'[d] = job[d]
        /\ Busy' = Busy \cup {c} /\ Closing' = Closing \ {c}
    BY <1>2, <1>3, OneMoves DEF SwitchInv
  <2> QED
    BY <1>1, <1>2, <2>1 DEF Closing
<1>4. CASE ~bound /\ server' = TRUE /\ bound' = TRUE /\ Becomes(c, Job("save on"))
           /\ crossed' = crossed
  <2>1. Closing = {}
    BY <1>4 DEF SwitchInv, ClosesAlone
  <2>2. SwitchTypes' /\ SwitchHolds' /\ ClosesAlone'
    BY <1>1, <1>3, <1>4, <2>1 DEF SwitchInv, SwitchTypes, SwitchHolds, ClosesAlone
  <2>3. ~crossed => \A d \in Clients \ {c} : job[d].do = "idle"
    BY <1>1, BusyHere DEF SwitchInv, Prompt
  <2>4. Prompt'
    BY <1>1, <1>3, <1>4, <2>3 DEF SwitchInv, Prompt
  <2> QED
    BY <2>2, <2>4 DEF SwitchInv
<1>5. CASE server' = server /\ bound' = bound /\ crossed' = TRUE
           /\ Becomes(c, Job("save on"))
  <2>1. SwitchTypes' /\ ClosesAlone' /\ Prompt'
    BY <1>1, <1>3, <1>5 DEF SwitchInv, SwitchTypes, ClosesAlone, Prompt
  <2>2. SwitchHolds'
    BY <1>3, <1>5 DEF SwitchInv, SwitchHolds, Closing
  <2> QED
    BY <2>1, <2>2 DEF SwitchInv
<1>6. CASE server' = server /\ bound' = bound /\ crossed' = crossed
           /\ Becomes(c, [job[c] EXCEPT !.tries = @ + 1])
  <2>1. /\ job' \in [Clients -> Jobs]
        /\ \A d \in Clients : job'[d].do = job[d].do
        /\ Busy' = Busy /\ Closing' = Closing
    BY <1>1, <1>6, TriesAgain DEF SwitchInv
  <2>2. SwitchTypes' /\ ClosesAlone'
    BY <1>1, <1>6, <2>1 DEF SwitchInv, SwitchTypes, ClosesAlone
  <2>3. SwitchHolds'
    BY <1>1, <1>6, <2>1 DEF SwitchInv, SwitchHolds
  <2>4. Prompt'
    BY <1>1, <1>6, <2>1 DEF SwitchInv, Prompt
  <2> QED
    BY <2>2, <2>3, <2>4 DEF SwitchInv
<1> QED
  BY <1>4, <1>5, <1>6 DEF Bind

LEMMA SwitchClose ==
  ASSUME SwitchInv, NEW c \in Clients, Close(c)
  PROVE  SwitchInv'
<1>1. job[c].do = "close" /\ bound' = FALSE /\ Becomes(c, Job("save off"))
      /\ server' = server /\ enabled' = enabled /\ crossed' = crossed
  BY DEF Close
<1>2. Job("save off") \in Jobs /\ Job("save off").do = "save off"
  BY JobType
<1>3. /\ job' \in [Clients -> Jobs] /\ job'[c] = Job("save off")
      /\ \A d \in Clients \ {c} : job'[d] = job[d]
      /\ Busy' = Busy \cup {c} /\ Closing' = Closing \ {c}
  BY <1>1, <1>2, OneMoves DEF SwitchInv
<1>4. ~server /\ Closing = {c}
  BY <1>1 DEF SwitchInv, ClosesAlone, Closing
<1>5. Closing' = {} /\ c \in Busy /\ Busy' = Busy
  BY <1>1, <1>3, <1>4, BusyHere
<1>6. SwitchTypes' /\ SwitchHolds' /\ ClosesAlone'
  BY <1>1, <1>3, <1>4, <1>5 DEF SwitchInv, SwitchTypes, SwitchHolds, ClosesAlone
<1>7. ~crossed => \A d \in Clients \ {c} : job[d].do = "idle"
  BY <1>5, BusyHere DEF SwitchInv, Prompt
<1>8. Prompt'
  BY <1>1, <1>2, <1>3, <1>5, <1>7 DEF SwitchInv, Prompt
<1> QED
  BY <1>6, <1>8 DEF SwitchInv

LEMMA SwitchSave ==
  ASSUME SwitchInv, NEW c \in Clients, SaveSetting(c)
  PROVE  SwitchInv'
<1>1. job[c].do \in {"save on", "save off"} /\ Becomes(c, Idle)
      /\ enabled' = (job[c].do = "save on")
      /\ server' = server /\ bound' = bound /\ crossed' = crossed
  BY DEF SaveSetting
<1>2. /\ job' \in [Clients -> Jobs] /\ job'[c] = Idle /\ job'[c].do = "idle"
      /\ \A d \in Clients \ {c} : job'[d] = job[d]
      /\ Busy' = Busy \ {c}
  BY <1>1, IdleType, OneMoves DEF SwitchInv
<1>3. Closing' = Closing
  BY <1>1, <1>2 DEF Closing
<1>4. c \in Busy
  BY <1>1, BusyHere
<1>5. SwitchTypes'
  BY <1>1, <1>2 DEF SwitchInv, SwitchTypes
<1>6. ~crossed => enabled' = bound /\ Busy = {c}
  BY <1>1, <1>4 DEF SwitchInv, SwitchTypes, Prompt
<1>7. ClosesAlone'
  BY <1>1, <1>3 DEF SwitchInv, ClosesAlone
<1>8. SwitchHolds'
  BY <1>1, <1>3, <1>6 DEF SwitchInv, SwitchHolds, Closing
<1>9. Prompt'
  BY <1>1, <1>2, <1>6 DEF SwitchInv, Prompt
<1> QED
  BY <1>5, <1>7, <1>8, <1>9 DEF SwitchInv

LEMMA SwitchSame ==
  ASSUME SwitchInv, UNCHANGED switchVars
  PROVE  SwitchInv'
BY DEF switchVars, SwitchInv, SwitchTypes, SwitchHolds, ClosesAlone, Closing, Prompt, Busy

LEMMA SwitchStep == SwitchInv /\ [Next]_vars => SwitchInv'
<1> SUFFICES ASSUME SwitchInv, [Next]_vars
             PROVE  SwitchInv'
  OBVIOUS
<1>1. ASSUME NEW w \in Conns, Accept(w) \/ Serve(w)
      PROVE  SwitchInv'
  BY <1>1, SwitchSame DEF Accept, Serve, HandshakeFails, HandshakeDone, SpawnFails
<1>2. ASSUME NEW w \in Conns, Work(w)
      PROVE  SwitchInv'
  BY <1>2, SwitchSame
  DEF Work, Served, CheckBlocked, WrongToken, RightToken, Send, StreamEnds, Release
<1>3. ASSUME NEW c \in Clients, Start(c) \/ Stop(c) \/ Do(c)
      PROVE  SwitchInv'
  BY <1>3, SwitchStart, SwitchStop, SwitchBind, SwitchClose, SwitchSave DEF Do
<1>4. CASE Tick
  BY <1>4, SwitchSame DEF Tick
<1>5. CASE UNCHANGED vars
  BY <1>5, SwitchSame DEF vars, switchVars
<1> QED
  BY <1>1, <1>2, <1>3, <1>4, <1>5 DEF Next

(* A server that listens can be stopped, and the setting is what the user  *)
(* last asked for, unless commands crossed or the port could not be had.   *)
THEOREM SwitchCorrect == Spec => []SwitchHolds
<1>1. SwitchInv => SwitchHolds
  BY DEF SwitchInv
<1> QED
  BY <1>1, SwitchInit, SwitchStep, PTL DEF Spec
----------------------------------------------------------------------------
(* Sums over finite sets.  SumFunctionOnSet takes the elements one by one, *)
(* each time the first that CHOOSE finds.                                  *)

First(s) == CHOOSE x \in s : TRUE
SumsUp(g, f, S) == g = [s \in SUBSET S |-> IF s = {} THEN 0 ELSE f[First(s)] + g[s \ {First(s)}]]

LEMMA SumIs ==
  ASSUME NEW f, NEW S
  PROVE  SumFunctionOnSet(f, S) = (CHOOSE g : SumsUp(g, f, S))[S]
BY DEF SumFunctionOnSet, FoldFunctionOnSet, MapThenFoldSet, SumsUp, First

LEMMA FirstIn == ASSUME NEW s, s # {} PROVE First(s) \in s
BY DEF First

LEMMA SumsUpMeans ==
  ASSUME NEW f, NEW S, NEW g, SumsUp(g, f, S), NEW s \in SUBSET S
  PROVE  g[s] = IF s = {} THEN 0 ELSE f[First(s)] + g[s \ {First(s)}]
<1>1. g = [u \in SUBSET S |-> IF u = {} THEN 0 ELSE f[First(u)] + g[u \ {First(u)}]]
  BY DEF SumsUp
<1> QED
  BY <1>1

(* A set of parts of a finite set has one that contains no other.          *)
LEMMA Smallest ==
  ASSUME NEW S, IsFiniteSet(S), NEW F \in SUBSET (SUBSET S), F # {}
  PROVE  \E s \in F : \A t \in F : ~(t \subseteq s /\ t # s)
<1> DEFINE T == {Cardinality(s) : s \in F}
           R == OpToRel(<, Nat)
<1>1. \A s \in F : IsFiniteSet(s) /\ Cardinality(s) \in Nat
  BY FS_Subset, FS_CardinalityType
<1>2. T \subseteq Nat /\ T # {}
  BY <1>1
<1>3. IsWellFoundedOn(R, Nat)
  BY NatLessThanWellFounded
<1>4. \A m, n \in Nat : m < n => <<m, n>> \in R
  BY DEF OpToRel
<1>5. \A s \in F : Cardinality(s) \in T
  OBVIOUS
<1>6. \A n \in T : \E s \in F : n = Cardinality(s)
  OBVIOUS
<1> HIDE DEF T, R
<1>7. \E n \in T : \A m \in T : ~(<<m, n>> \in R)
  BY ONLY <1>2, <1>3, WFMin
<1>8. PICK n \in T : \A m \in T : ~(<<m, n>> \in R)
  BY <1>7
<1>9. PICK s \in F : n = Cardinality(s)
  BY <1>6
<1>10. ASSUME NEW t \in F, t \subseteq s, t # s
       PROVE  FALSE
  <2>1. IsFiniteSet(s) /\ t \in SUBSET s
    BY <1>1, <1>10
  <2>2. Cardinality(t) <= Cardinality(s) /\ Cardinality(t) # Cardinality(s)
    BY <1>10, <2>1, FS_Subset
  <2>3. Cardinality(t) < n /\ Cardinality(t) \in T
    BY <1>1, <1>5, <1>9, <2>2
  <2> QED
    BY <1>2, <1>4, <1>8, <2>3
<1> QED
  BY <1>10

LEMMA SumsUpAgree ==
  ASSUME NEW S, IsFiniteSet(S), NEW T \in SUBSET S, NEW f, NEW g, NEW h,
         SumsUp(g, f, S), SumsUp(h, f, T), NEW s \in SUBSET T
  PROVE  g[s] = h[s]
<1> DEFINE F == {u \in SUBSET T : g[u] # h[u]}
<1>1. ASSUME NEW u \in F, \A t \in F : ~(t \subseteq u /\ t # u)
      PROVE  FALSE
  <2>1. u \in SUBSET T /\ u \in SUBSET S /\ g[u] # h[u]
    OBVIOUS
  <2>2. g[u] = IF u = {} THEN 0 ELSE f[First(u)] + g[u \ {First(u)}]
    BY <2>1, SumsUpMeans
  <2>3. h[u] = IF u = {} THEN 0 ELSE f[First(u)] + h[u \ {First(u)}]
    BY <2>1, SumsUpMeans
  <2>4. u # {}
    BY <2>1, <2>2, <2>3
  <2>5. First(u) \in u
    BY <2>4, FirstIn
  <2>6. g[u \ {First(u)}] = h[u \ {First(u)}]
    BY <1>1, <2>1, <2>5
  <2> QED
    BY <2>1, <2>2, <2>3, <2>6
<1>2. F \in SUBSET (SUBSET S)
  OBVIOUS
<1> DEFINE D == F
<1> HIDE DEF D
<1>3. D \in SUBSET (SUBSET S) /\ \A u \in D : \E t \in D : t \subseteq u /\ t # u
  BY <1>1, <1>2 DEF D
<1>4. D = {}
  BY <1>3, Smallest
<1> QED
  BY <1>4 DEF D

LEMMA SumsUpExists ==
  ASSUME NEW S, IsFiniteSet(S), NEW f
  PROVE  \E g : SumsUp(g, f, S)
<1> DEFINE F == {u \in SUBSET S : ~\E g : SumsUp(g, f, u)}
           H(t) == CHOOSE g : SumsUp(g, f, t)
<1>1. ASSUME NEW u \in F, \A t \in F : ~(t \subseteq u /\ t # u)
      PROVE  FALSE
  <2> DEFINE G == [s \in SUBSET u |-> IF s = {} THEN 0
                                      ELSE f[First(s)] + H(s \ {First(s)})[s \ {First(s)}]]
  <2>0. IsFiniteSet(u) /\ u \in SUBSET S
    BY FS_Subset
  <2>1. ASSUME NEW t \in SUBSET u, t # u
        PROVE  SumsUp(H(t), f, t)
    <3>1. t \notin F /\ t \in SUBSET S
      BY <1>1, <2>0, <2>1
    <3>2. \E g : SumsUp(g, f, t)
      BY <3>1
    <3> QED
      BY <3>2
  <2> HIDE DEF H
  <2>g. \A s \in SUBSET u : G[s] = IF s = {} THEN 0 ELSE f[First(s)] + H(s \ {First(s)})[s \ {First(s)}]
    OBVIOUS
  <2> HIDE DEF F
  <2>2. ASSUME NEW s \in SUBSET u, s # {}
        PROVE  G[s] = f[First(s)] + G[s \ {First(s)}]
    <3> HIDE DEF G
    <3> DEFINE t == s \ {First(s)}
    <3>1. t \in SUBSET u /\ t # u /\ First(s) \in s
      BY <2>2, FirstIn
    <3>3. G[s] = f[First(s)] + H(t)[t]
      BY <2>g, <2>2
    <3> HIDE DEF t
    <3>4. SumsUp(H(t), f, t) /\ t \in SUBSET t
      BY <2>1, <3>1
    <3>5. H(t)[t] = IF t = {} THEN 0 ELSE f[First(t)] + H(t)[t \ {First(t)}]
      BY <3>4, SumsUpMeans
    <3>2. G[t] = H(t)[t]
      <4>1. CASE t = {}
        BY <2>g, <3>1, <3>5, <4>1
      <4>2. CASE t # {}
        <5> DEFINE r == t \ {First(t)}
        <5>1. r \in SUBSET u /\ r # u /\ r \in SUBSET t /\ r \in SUBSET r
          BY <3>1
        <5>2. G[t] = f[First(t)] + H(r)[r]
          BY <2>g, <3>1, <4>2
        <5>3. H(t)[t] = f[First(t)] + H(t)[r]
          BY <3>5, <4>2
        <5> HIDE DEF r
        <5>4. IsFiniteSet(t)
          BY <2>0, <3>1, FS_Subset
        <5>5. SumsUp(H(r), f, r)
          BY <2>1, <5>1
        <5>6. H(t)[r] = H(r)[r]
          BY <3>4, <5>1, <5>4, <5>5, SumsUpAgree
        <5> QED
          BY <5>2, <5>3, <5>6
      <4> QED
        BY <4>1, <4>2
    <3> QED
      BY <3>2, <3>3 DEF t
  <2>3. G = [s \in SUBSET u |-> IF s = {} THEN 0 ELSE f[First(s)] + G[s \ {First(s)}]]
    <3>1. \A s \in SUBSET u : G[s] = IF s = {} THEN 0 ELSE f[First(s)] + G[s \ {First(s)}]
      <4>1. {} \in SUBSET u => G[{}] = 0
        BY <2>g
      <4> HIDE DEF G
      <4> QED
        BY <2>2, <4>1
    <3>2. DOMAIN G = SUBSET u /\ G = [s \in SUBSET u |-> G[s]]
      OBVIOUS
    <3> HIDE DEF G
    <3> QED
      BY <3>1, <3>2
  <2> HIDE DEF G
  <2>4. SumsUp(G, f, u)
    BY <2>3 DEF SumsUp
  <2> QED
    BY <2>4 DEF F
<1>2. F \in SUBSET (SUBSET S)
  OBVIOUS
<1> DEFINE D == F
<1> HIDE DEF D
<1>3. D \in SUBSET (SUBSET S) /\ \A u \in D : \E t \in D : t \subseteq u /\ t # u
  BY <1>1, <1>2 DEF D
<1>4. D = {}
  BY <1>3, Smallest
<1>5. IsFiniteSet(S) /\ S \notin F
  BY <1>4 DEF D
<1> QED
  BY <1>5

LEMMA SumEmpty == ASSUME NEW f PROVE SumFunctionOnSet(f, {}) = 0
<1>1. PICK g : SumsUp(g, f, {})
  BY SumsUpExists, FS_EmptySet
<1>2. SumsUp(CHOOSE h : SumsUp(h, f, {}), f, {})
  BY <1>1
<1> DEFINE h == CHOOSE h : SumsUp(h, f, {})
<1> HIDE DEF h
<1>3. h[{}] = 0
  BY <1>2, SumsUpMeans DEF h
<1> QED
  BY <1>3, SumIs DEF h

LEMMA SumPick ==
  ASSUME NEW S, IsFiniteSet(S), NEW f, S # {}
  PROVE  SumFunctionOnSet(f, S) = f[First(S)] + SumFunctionOnSet(f, S \ {First(S)})
<1> DEFINE T == S \ {First(S)}
           g == CHOOSE g : SumsUp(g, f, S)
           h == CHOOSE h : SumsUp(h, f, T)
<1>1. T \in SUBSET S /\ IsFiniteSet(T) /\ T \in SUBSET T /\ S \in SUBSET S
  BY FS_Subset
<1>2. SumsUp(g, f, S)
  BY SumsUpExists
<1>3. SumFunctionOnSet(f, S) = g[S]
  BY SumIs
<1> HIDE DEF g
<1>4. g[S] = f[First(S)] + g[T]
  BY <1>1, <1>2, SumsUpMeans
<1> HIDE DEF T
<1>5. SumsUp(h, f, T)
  BY <1>1, SumsUpExists
<1>6. SumFunctionOnSet(f, T) = h[T]
  BY SumIs
<1> HIDE DEF h
<1>7. g[T] = h[T]
  BY <1>1, <1>2, <1>5, SumsUpAgree
<1> QED
  BY <1>3, <1>4, <1>6, <1>7 DEF T

LEMMA SumType ==
  ASSUME NEW S, IsFiniteSet(S), NEW f, \A x \in S : f[x] \in Nat
  PROVE  SumFunctionOnSet(f, S) \in Nat
<1> DEFINE F == {u \in SUBSET S : SumFunctionOnSet(f, u) \notin Nat}
<1>1. ASSUME NEW u \in F, \A t \in F : ~(t \subseteq u /\ t # u)
      PROVE  FALSE
  <2>1. u \in SUBSET S /\ IsFiniteSet(u)
    BY FS_Subset
  <2>2. u # {}
    BY SumEmpty
  <2> DEFINE r == u \ {First(u)}
  <2>3. First(u) \in u
    BY <2>2, FirstIn
  <2>4. SumFunctionOnSet(f, u) = f[First(u)] + SumFunctionOnSet(f, r)
    BY <2>1, <2>2, SumPick
  <2>5. r \in SUBSET S /\ r \subseteq u /\ r # u
    BY <2>1, <2>3
  <2> HIDE DEF r
  <2>6. SumFunctionOnSet(f, r) \in Nat
    BY <1>1, <2>5
  <2>7. f[First(u)] \in Nat
    BY <2>1, <2>3
  <2> QED
    BY <2>4, <2>6, <2>7
<1> DEFINE D == F
<1> HIDE DEF D
<1>2. D \in SUBSET (SUBSET S) /\ \A u \in D : \E t \in D : t \subseteq u /\ t # u
  BY <1>1 DEF D
<1>3. D = {}
  BY <1>2, Smallest
<1> QED
  BY <1>3 DEF D

(* It does not matter which element is taken first.                        *)
LEMMA SumAny ==
  ASSUME NEW S, IsFiniteSet(S), NEW f, \A x \in S : f[x] \in Nat, NEW x \in S
  PROVE  SumFunctionOnSet(f, S) = f[x] + SumFunctionOnSet(f, S \ {x})
<1> DEFINE F == {u \in SUBSET S : \E y \in u :
                   SumFunctionOnSet(f, u) # f[y] + SumFunctionOnSet(f, u \ {y})}
<1>1. ASSUME NEW u \in F, \A t \in F : ~(t \subseteq u /\ t # u)
      PROVE  FALSE
  <2>1. u \in SUBSET S /\ IsFiniteSet(u)
    BY FS_Subset
  <2>2. PICK y \in u : SumFunctionOnSet(f, u) # f[y] + SumFunctionOnSet(f, u \ {y})
    OBVIOUS
  <2>9. ASSUME NEW t \in SUBSET u, t # u, NEW e \in t
        PROVE  SumFunctionOnSet(f, t) = f[e] + SumFunctionOnSet(f, t \ {e})
    <3>1. t \notin F /\ t \in SUBSET S
      BY <1>1, <2>1, <2>9
    <3> QED
      BY <2>9, <3>1
  <2> HIDE DEF F
  <2>3. PICK z : z = First(u)
    OBVIOUS
  <2>4. z \in u
    BY <2>2, <2>3, FirstIn
  <2>5. SumFunctionOnSet(f, u) = f[z] + SumFunctionOnSet(f, u \ {z})
    BY <2>1, <2>2, <2>3, SumPick
  <2>6. y # z
    BY <2>2, <2>5
  <2>7. SumFunctionOnSet(f, u \ {z}) = f[y] + SumFunctionOnSet(f, (u \ {z}) \ {y})
    BY <2>4, <2>6, <2>9
  <2>8. SumFunctionOnSet(f, u \ {y}) = f[z] + SumFunctionOnSet(f, (u \ {y}) \ {z})
    BY <2>4, <2>6, <2>9
  <2>10. PICK r \in SUBSET u : r = (u \ {z}) \ {y} /\ r = (u \ {y}) \ {z}
    OBVIOUS
  <2>11. SumFunctionOnSet(f, r) \in Nat
    <3>1. IsFiniteSet(r) /\ \A e \in r : f[e] \in Nat
      BY <2>1, FS_Subset
    <3> QED
      BY ONLY <3>1, SumType
  <2>12. f[y] \in Nat /\ f[z] \in Nat
    BY <2>1, <2>4
  <2>13. SumFunctionOnSet(f, u \ {z}) = f[y] + SumFunctionOnSet(f, r)
    BY <2>7, <2>10
  <2>14. SumFunctionOnSet(f, u \ {y}) = f[z] + SumFunctionOnSet(f, r)
    BY <2>8, <2>10
  <2> QED
    BY <2>2, <2>5, <2>11, <2>12, <2>13, <2>14
<1> DEFINE D == F
<1> HIDE DEF D
<1>2. D \in SUBSET (SUBSET S) /\ \A u \in D : \E t \in D : t \subseteq u /\ t # u
  BY <1>1 DEF D
<1>3. D = {}
  BY <1>2, Smallest
<1>4. S \notin F
  BY <1>3 DEF D
<1> QED
  BY <1>4

(* A sum grows with its terms, and with its set.                           *)
LEMMA SumLess ==
  ASSUME NEW S, IsFiniteSet(S), NEW f, NEW g,
         \A x \in S : f[x] \in Nat /\ g[x] \in Nat /\ f[x] <= g[x]
  PROVE  SumFunctionOnSet(f, S) <= SumFunctionOnSet(g, S)
<1> DEFINE F == {u \in SUBSET S : ~(SumFunctionOnSet(f, u) <= SumFunctionOnSet(g, u))}
<1>1. ASSUME NEW u \in F, \A t \in F : ~(t \subseteq u /\ t # u)
      PROVE  FALSE
  <2>1. u \in SUBSET S /\ IsFiniteSet(u)
    BY FS_Subset
  <2>2. u # {}
    BY SumEmpty
  <2> DEFINE r == u \ {First(u)}
  <2>3. First(u) \in u
    BY <2>2, FirstIn
  <2>4. /\ SumFunctionOnSet(f, u) = f[First(u)] + SumFunctionOnSet(f, r)
        /\ SumFunctionOnSet(g, u) = g[First(u)] + SumFunctionOnSet(g, r)
    BY <2>1, <2>2, SumPick
  <2>5. r \in SUBSET S /\ r \subseteq u /\ r # u /\ IsFiniteSet(r)
    BY <2>1, <2>3, FS_Subset
  <2> HIDE DEF r
  <2>6. SumFunctionOnSet(f, r) <= SumFunctionOnSet(g, r)
    BY <1>1, <2>5
  <2>7. SumFunctionOnSet(f, r) \in Nat /\ SumFunctionOnSet(g, r) \in Nat
    BY <2>5, SumType
  <2>8. f[First(u)] \in Nat /\ g[First(u)] \in Nat /\ f[First(u)] <= g[First(u)]
    BY <2>1, <2>3
  <2> QED
    BY <2>4, <2>6, <2>7, <2>8
<1> DEFINE D == F
<1> HIDE DEF D
<1>2. D \in SUBSET (SUBSET S) /\ \A u \in D : \E t \in D : t \subseteq u /\ t # u
  BY <1>1 DEF D
<1>3. D = {}
  BY <1>2, Smallest
<1> QED
  BY <1>3 DEF D

LEMMA SumSame ==
  ASSUME NEW S, IsFiniteSet(S), NEW f, NEW g,
         \A x \in S : f[x] \in Nat /\ g[x] = f[x]
  PROVE  SumFunctionOnSet(g, S) = SumFunctionOnSet(f, S)
<1>1. /\ \A x \in S : f[x] \in Nat /\ g[x] \in Nat /\ f[x] <= g[x]
      /\ \A x \in S : g[x] \in Nat /\ f[x] \in Nat /\ g[x] <= f[x]
  OBVIOUS
<1>2. SumFunctionOnSet(f, S) <= SumFunctionOnSet(g, S)
  BY <1>1, SumLess
<1>3. SumFunctionOnSet(g, S) <= SumFunctionOnSet(f, S)
  BY <1>1, SumLess
<1>4. SumFunctionOnSet(f, S) \in Nat /\ SumFunctionOnSet(g, S) \in Nat
  BY <1>1, SumType
<1> QED
  BY <1>2, <1>3, <1>4

LEMMA SumWithin ==
  ASSUME NEW S, IsFiniteSet(S), NEW f, \A x \in S : f[x] \in Nat, NEW T \in SUBSET S
  PROVE  SumFunctionOnSet(f, T) <= SumFunctionOnSet(f, S)
<1> DEFINE F == {u \in SUBSET S : T \subseteq u /\ ~(SumFunctionOnSet(f, T) <= SumFunctionOnSet(f, u))}
<1>0. IsFiniteSet(T) /\ SumFunctionOnSet(f, T) \in Nat
  <2>1. IsFiniteSet(T) /\ \A x \in T : f[x] \in Nat
    BY FS_Subset
  <2> QED
    BY <2>1, SumType
<1>1. ASSUME NEW u \in F, \A t \in F : ~(t \subseteq u /\ t # u)
      PROVE  FALSE
  <2>1. u \in SUBSET S /\ IsFiniteSet(u) /\ T \subseteq u
    BY FS_Subset
  <2>2. u # T
    BY <1>0
  <2>3. PICK x \in u : x \notin T
    BY <2>1, <2>2
  <2> DEFINE r == u \ {x}
  <2>4. r \in SUBSET S /\ r \subseteq u /\ r # u /\ IsFiniteSet(r) /\ T \subseteq r
    BY <2>1, <2>3, FS_Subset
  <2>5. \A y \in u : f[y] \in Nat
    BY <2>1
  <2>6. SumFunctionOnSet(f, u) = f[x] + SumFunctionOnSet(f, r)
    BY <2>1, <2>5, SumAny
  <2> HIDE DEF r
  <2>7. SumFunctionOnSet(f, T) <= SumFunctionOnSet(f, r)
    BY <1>1, <2>4
  <2>8. SumFunctionOnSet(f, r) \in Nat
    BY <2>4, SumType
  <2> QED
    BY <1>0, <2>5, <2>6, <2>7, <2>8
<1> DEFINE D == F
<1> HIDE DEF D
<1>2. D \in SUBSET (SUBSET S) /\ \A u \in D : \E t \in D : t \subseteq u /\ t # u
  BY <1>1 DEF D
<1>3. D = {}
  BY <1>2, Smallest
<1> QED
  BY <1>3 DEF D

LEMMA SumZero ==
  ASSUME NEW S, IsFiniteSet(S), NEW f, \A x \in S : f[x] = 0
  PROVE  SumFunctionOnSet(f, S) = 0
<1> DEFINE F == {u \in SUBSET S : SumFunctionOnSet(f, u) # 0}
<1>1. ASSUME NEW u \in F, \A t \in F : ~(t \subseteq u /\ t # u)
      PROVE  FALSE
  <2>1. u \in SUBSET S /\ IsFiniteSet(u)
    BY FS_Subset
  <2>2. u # {}
    BY SumEmpty
  <2> DEFINE r == u \ {First(u)}
  <2>3. First(u) \in u
    BY <2>2, FirstIn
  <2>4. SumFunctionOnSet(f, u) = f[First(u)] + SumFunctionOnSet(f, r)
    BY <2>1, <2>2, SumPick
  <2>5. r \in SUBSET S /\ r \subseteq u /\ r # u
    BY <2>1, <2>3
  <2> HIDE DEF r
  <2>6. SumFunctionOnSet(f, r) = 0
    BY <1>1, <2>5
  <2>7. f[First(u)] = 0
    BY <2>1, <2>3
  <2> QED
    BY <2>4, <2>6, <2>7
<1> DEFINE D == F
<1> HIDE DEF D
<1>2. D \in SUBSET (SUBSET S) /\ \A u \in D : \E t \in D : t \subseteq u /\ t # u
  BY <1>1 DEF D
<1>3. D = {}
  BY <1>2, Smallest
<1> QED
  BY <1>3 DEF D

(* One more for one of the terms is one more in all.                       *)
LEMMA SumMore ==
  ASSUME NEW S, IsFiniteSet(S), NEW f, NEW g, NEW x \in S,
         \A y \in S : f[y] \in Nat, g[x] = f[x] + 1, \A y \in S \ {x} : g[y] = f[y]
  PROVE  SumFunctionOnSet(g, S) = SumFunctionOnSet(f, S) + 1
<1> DEFINE r == S \ {x}
<1>1. IsFiniteSet(r) /\ \A y \in r : f[y] \in Nat /\ g[y] = f[y]
  BY FS_Subset
<1>2. \A y \in S : g[y] \in Nat
  OBVIOUS
<1>3. SumFunctionOnSet(f, S) = f[x] + SumFunctionOnSet(f, r)
  BY SumAny
<1>4. SumFunctionOnSet(g, S) = g[x] + SumFunctionOnSet(g, r)
  BY <1>2, SumAny
<1> HIDE DEF r
<1>5. SumFunctionOnSet(g, r) = SumFunctionOnSet(f, r) /\ SumFunctionOnSet(f, r) \in Nat
  BY <1>1, SumSame, SumType
<1> QED
  BY <1>3, <1>4, <1>5

----------------------------------------------------------------------------
(* The limits: http_api.py 286-316, 358, 419-423.                          *)

Counts == [Times -> Nat]
Span(t) == Times \cap t..(t + Window - 1)

(* The entries that still count.                                           *)
Recent == {t \in Times : clock - t < Window}

LimitTypes ==
  /\ clock \in Times
  /\ sends \in Counts /\ passed \in Counts /\ failures \in Counts /\ guesses \in Counts

LEMMA TimesFinite ==
  /\ IsFiniteSet(Times) /\ Times \subseteq Nat
  /\ \A S \in SUBSET Times : IsFiniteSet(S)
  /\ \A t \in Times : Span(t) \in SUBSET Times
<1>1. IsFiniteSet(Times) /\ Times \subseteq Nat
  BY BoundsAreNat, FS_Interval DEF BoundsAreNat, Times
<1> QED
  BY <1>1, FS_Subset DEF Span

LEMMA LimitsNat == MaxWorkers \in Nat \ {0} /\ Window \in Nat \ {0} /\ SendMax \in Nat \ {0}
                   /\ AuthMax \in Nat \ {0}
BY LimitsAreNat DEF LimitsAreNat

LEMMA SpanRecent ==
  ASSUME clock \in Times, NEW t \in Times
  PROVE  /\ t \in Recent => Span(t) \in SUBSET Recent
         /\ clock \in Span(t) => t \in Recent
         /\ t \in Recent /\ t <= clock => clock \in Span(t)
BY TimesFinite, LimitsNat DEF Recent, Span

LEMMA KeptCounts ==
  ASSUME NEW b \in Counts, clock \in Times
  PROVE  /\ Kept(b, clock) \in Counts
         /\ \A t \in Recent : Kept(b, clock)[t] = b[t]
         /\ \A t \in Times \ Recent : Kept(b, clock)[t] = 0
         /\ \A t \in Times : Kept(b, clock)[t] <= b[t]
         /\ Kept(Kept(b, clock), clock) = Kept(b, clock)
BY TimesFinite, LimitsNat DEF Kept, Counts, Recent

LEMMA AddCounts ==
  ASSUME NEW b \in Counts, clock \in Times
  PROVE  /\ Add(b, clock) \in Counts
         /\ Add(b, clock)[clock] = b[clock] + 1
         /\ \A t \in Times \ {clock} : Add(b, clock)[t] = b[t]
BY DEF Add, Counts

LEMMA NeverCounts == Never \in Counts /\ \A t \in Times : Never[t] = 0
BY DEF Never, Counts

LEMMA TotalType ==
  ASSUME NEW b \in Counts
  PROVE  /\ Total(b) \in Nat
         /\ \A t \in Times : SumIn(b, t, t + Window - 1) \in Nat
         /\ \A t \in Times : SumIn(b, t, t + Window - 1) <= Total(b)
         /\ \A t \in Times : SumIn(b, t, t + Window - 1) = SumFunctionOnSet(b, Span(t))
<1>1. \A t \in Times : b[t] \in Nat
  BY DEF Counts
<1>2. Total(b) \in Nat
  BY <1>1, TimesFinite, SumType DEF Total
<1>3. ASSUME NEW t \in Times
      PROVE  /\ SumIn(b, t, t + Window - 1) = SumFunctionOnSet(b, Span(t))
             /\ SumFunctionOnSet(b, Span(t)) \in Nat
             /\ SumFunctionOnSet(b, Span(t)) <= Total(b)
  <2>1. Span(t) \in SUBSET Times /\ IsFiniteSet(Span(t)) /\ IsFiniteSet(Times)
        /\ \A u \in Span(t) : b[u] \in Nat
    BY <1>1, TimesFinite
  <2>2. SumFunctionOnSet(b, Span(t)) \in Nat
    BY <2>1, SumType
  <2>3. SumFunctionOnSet(b, Span(t)) <= SumFunctionOnSet(b, Times)
    BY <1>1, <2>1, SumWithin
  <2> QED
    BY <2>2, <2>3 DEF SumIn, Span, Total
<1> QED
  BY <1>2, <1>3

(* An entry counts in the windows that hold its instant.                   *)
LEMMA SumAfterAdd ==
  ASSUME NEW b \in Counts, clock \in Times, NEW t \in Times
  PROVE  /\ clock \in Span(t) => SumIn(Add(b, clock), t, t + Window - 1)
                                   = SumIn(b, t, t + Window - 1) + 1
         /\ clock \notin Span(t) => SumIn(Add(b, clock), t, t + Window - 1)
                                      = SumIn(b, t, t + Window - 1)
<1>1. \A c \in Counts : SumIn(c, t, t + Window - 1) = SumFunctionOnSet(c, Span(t))
  BY TotalType
<1>2. PICK c \in Counts : c = Add(b, clock) /\ c[clock] = b[clock] + 1
                          /\ \A u \in Times \ {clock} : c[u] = b[u]
  BY AddCounts
<1>3. Span(t) \in SUBSET Times /\ IsFiniteSet(Span(t)) /\ \A u \in Span(t) : b[u] \in Nat
  BY TimesFinite DEF Counts
<1>4. ASSUME clock \in Span(t)
      PROVE  SumFunctionOnSet(c, Span(t)) = SumFunctionOnSet(b, Span(t)) + 1
  <2>1. \A u \in Span(t) \ {clock} : c[u] = b[u]
    BY <1>2, <1>3
  <2> QED
    BY <1>2, <1>3, <1>4, <2>1, SumMore
<1>5. ASSUME clock \notin Span(t)
      PROVE  SumFunctionOnSet(c, Span(t)) = SumFunctionOnSet(b, Span(t))
  <2>1. \A u \in Span(t) : b[u] \in Nat /\ c[u] = b[u]
    BY <1>2, <1>3, <1>5
  <2> QED
    BY <1>3, <2>1, SumSame
<1> QED
  BY <1>1, <1>2, <1>4, <1>5

LEMMA TotalAfterAdd ==
  ASSUME NEW b \in Counts, clock \in Times
  PROVE  Total(Add(b, clock)) = Total(b) + 1
<1>1. PICK c \in Counts : c = Add(b, clock) /\ c[clock] = b[clock] + 1
                          /\ \A u \in Times \ {clock} : c[u] = b[u]
  BY AddCounts
<1>2. IsFiniteSet(Times) /\ \A u \in Times : b[u] \in Nat
  BY TimesFinite DEF Counts
<1>3. SumFunctionOnSet(c, Times) = SumFunctionOnSet(b, Times) + 1
  BY <1>1, <1>2, SumMore
<1> QED
  BY <1>1, <1>3 DEF Total

(* What a recent window sums up is kept, so that the total bounds it.      *)
LEMMA SumKept ==
  ASSUME NEW b \in Counts, NEW c \in Counts, clock \in Times, NEW t \in Recent,
         \A u \in Recent : c[u] = b[u]
  PROVE  /\ SumIn(c, t, t + Window - 1) = SumIn(b, t, t + Window - 1)
         /\ SumIn(c, t, t + Window - 1) <= Total(Kept(b, clock))
<1>0. t \in Times
  BY DEF Recent
<1>1. \A d \in Counts : SumIn(d, t, t + Window - 1) = SumFunctionOnSet(d, Span(t))
  BY <1>0, TotalType
<1>2. Span(t) \in SUBSET Recent /\ Span(t) \in SUBSET Times /\ IsFiniteSet(Span(t))
  BY <1>0, SpanRecent, TimesFinite
<1>3. PICK k \in Counts : k = Kept(b, clock) /\ \A u \in Recent : k[u] = b[u]
  BY KeptCounts
<1>4. \A u \in Span(t) : b[u] \in Nat /\ c[u] = b[u] /\ k[u] = b[u]
  BY <1>2, <1>3 DEF Counts
<1>5. SumFunctionOnSet(c, Span(t)) = SumFunctionOnSet(b, Span(t))
  BY <1>2, <1>4, SumSame
<1>6. SumFunctionOnSet(k, Span(t)) = SumFunctionOnSet(b, Span(t))
  BY <1>2, <1>4, SumSame
<1>7. SumIn(k, t, t + Window - 1) <= Total(k)
  BY <1>0, <1>3, TotalType
<1> QED
  BY <1>0, <1>1, <1>3, <1>5, <1>6, <1>7

----------------------------------------------------------------------------
(* Sends.                                                                  *)

(* The bucket holds what was let through in the last window: a send that   *)
(* finds less than the limit in it leaves no window with more.             *)
Remembered == \A t \in Recent : sends[t] = passed[t]
SendInv == LimitTypes /\ Remembered /\ SendsBounded

LEMMA LimitInit == Init => LimitTypes
BY NeverCounts, BoundsAreNat DEF Init, LimitTypes, Times, BoundsAreNat

LEMMA LimitSame ==
  ASSUME LimitTypes, UNCHANGED <<limitVars, clock>>
  PROVE  LimitTypes'
BY DEF limitVars, LimitTypes

LEMMA LimitStep == LimitTypes /\ [Next]_vars => LimitTypes'
<1> SUFFICES ASSUME LimitTypes, [Next]_vars
             PROVE  LimitTypes'
  OBVIOUS
<1> USE DEF LimitTypes
<1>1. ASSUME NEW w \in Conns, Accept(w) \/ Serve(w) \/ Served(w) \/ RightToken(w)
                              \/ StreamEnds(w) \/ Release(w)
      PROVE  LimitTypes'
  BY <1>1, LimitSame
  DEF Accept, Serve, HandshakeFails, HandshakeDone, SpawnFails, Served, RightToken,
      StreamEnds, Release
<1>2. ASSUME NEW w \in Conns, CheckBlocked(w)
      PROVE  LimitTypes'
  BY <1>2, KeptCounts DEF CheckBlocked
<1>3. ASSUME NEW b \in Counts, NEW limit
      PROVE  After(b, limit) \in Counts
  BY <1>3, KeptCounts, AddCounts DEF After
<1>4. ASSUME NEW w \in Conns, WrongToken(w) \/ Send(w)
      PROVE  LimitTypes'
  BY <1>3, <1>4, AddCounts DEF WrongToken, Send
<1>5. ASSUME NEW c \in Clients, Start(c) \/ Stop(c) \/ Do(c)
      PROVE  LimitTypes'
  BY <1>5, LimitSame DEF Start, Stop, Command, Do, Bind, Close, SaveSetting
<1>6. CASE Tick
  BY <1>6, BoundsAreNat DEF Tick, Times, BoundsAreNat, limitVars, Counts
<1>7. CASE UNCHANGED vars
  BY <1>7, LimitSame DEF vars, limitVars
<1> QED
  BY <1>1, <1>2, <1>4, <1>5, <1>6, <1>7 DEF Next, Work

LEMMA SendInit == Init => SendInv
<1> SUFFICES ASSUME Init
             PROVE  SendInv
  OBVIOUS
<1>1. sends = Never /\ passed = Never
  BY DEF Init
<1>2. ASSUME NEW t \in Times
      PROVE  SumIn(passed, t, t + Window - 1) = 0
  <2>1. IsFiniteSet(Span(t)) /\ \A u \in Span(t) : Never[u] = 0
    BY TimesFinite, NeverCounts
  <2>2. SumFunctionOnSet(Never, Span(t)) = 0
    BY <2>1, SumZero
  <2> QED
    BY <1>1, <2>2, TotalType, NeverCounts
<1>3. SendsBounded
  BY <1>2, LimitsNat DEF SendsBounded
<1> QED
  BY <1>1, <1>3, LimitInit DEF SendInv, Remembered

LEMMA SendSend ==
  ASSUME SendInv, NEW w \in Conns, Send(w)
  PROVE  Remembered' /\ SendsBounded'
<1>1. sends \in Counts /\ passed \in Counts /\ clock \in Times /\ clock' = clock
  BY DEF Send, SendInv, LimitTypes
<1>2. Recent' = Recent
  BY <1>1 DEF Recent
<1>3. CASE Throttled(sends, SendMax)
  <2>1. sends' = Kept(sends, clock) /\ passed' = passed
    BY <1>3 DEF Send, After
  <2>2. Remembered'
    BY <1>1, <1>2, <2>1, KeptCounts DEF SendInv, Remembered
  <2> QED
    BY <2>1, <2>2 DEF SendInv, SendsBounded
<1>4. CASE ~Throttled(sends, SendMax)
  <2>1. sends' = Add(Kept(sends, clock), clock) /\ passed' = Add(passed, clock)
    BY <1>4 DEF Send, After
  <2>2. PICK k \in Counts : k = Kept(sends, clock) /\ \A u \in Recent : k[u] = sends[u]
    BY <1>1, KeptCounts
  <2>3. Total(k) < SendMax /\ Total(k) \in Nat
    BY <1>4, <2>2, LimitsNat, TotalType DEF Throttled
  <2>4. ASSUME NEW t \in Recent'
        PROVE  sends'[t] = passed'[t]
    <3>1. t \in Times /\ t \in Recent
      BY <1>2 DEF Recent
    <3>2. k[t] = passed[t]
      BY <2>2, <3>1 DEF SendInv, Remembered
    <3>3. k[clock] = passed[clock] \/ t # clock
      BY <3>2
    <3> QED
      BY <1>1, <2>1, <2>2, <3>1, <3>2, AddCounts
  <2>5. ASSUME NEW t \in Times
        PROVE  SumIn(passed', t, t + Window - 1) <= SendMax
    <3>0. SumIn(passed, t, t + Window - 1) <= SendMax
          /\ SumIn(passed, t, t + Window - 1) \in Nat
      BY <1>1, TotalType DEF SendInv, SendsBounded
    <3>1. CASE clock \in Span(t)
      <4>1. t \in Recent
        BY <1>1, <3>1, SpanRecent
      <4>2. \A u \in Recent : passed[u] = sends[u]
        BY DEF SendInv, Remembered
      <4>3. SumIn(passed, t, t + Window - 1) <= Total(Kept(sends, clock))
        BY <1>1, <4>1, <4>2, SumKept
      <4>4. SumIn(Add(passed, clock), t, t + Window - 1) = SumIn(passed, t, t + Window - 1) + 1
        BY <1>1, <3>1, SumAfterAdd
      <4> QED
        BY <2>1, <2>2, <2>3, <3>0, <4>3, <4>4, LimitsNat
    <3>2. CASE clock \notin Span(t)
      <4>1. SumIn(Add(passed, clock), t, t + Window - 1) = SumIn(passed, t, t + Window - 1)
        BY <1>1, <3>2, SumAfterAdd
      <4> QED
        BY <2>1, <3>0, <4>1
    <3> QED
      BY <3>1, <3>2
  <2> QED
    BY <2>4, <2>5 DEF Remembered, SendsBounded
<1> QED
  BY <1>3, <1>4

LEMMA SendSame ==
  ASSUME SendInv, LimitTypes', UNCHANGED <<sends, passed>>, clock' >= clock
  PROVE  Remembered' /\ SendsBounded'
<1>1. Recent' \subseteq Recent
  <2>1. clock \in Nat /\ clock' \in Nat
    BY TimesFinite DEF SendInv, LimitTypes
  <2>2. \A m, n, t, k \in Nat : m >= n /\ m - t < k => n - t < k
    OBVIOUS
  <2>3. \A t \in Times : clock' - t < Window => clock - t < Window
    BY <2>1, <2>2, TimesFinite, LimitsNat
  <2> QED
    BY <2>3 DEF Recent
<1> QED
  BY <1>1 DEF SendInv, Remembered, SendsBounded

LEMMA SendStep == SendInv /\ [Next]_vars => SendInv'
<1> SUFFICES ASSUME SendInv, [Next]_vars
             PROVE  SendInv'
  OBVIOUS
<1>1. LimitTypes' /\ clock \in Int
  BY LimitStep, TimesFinite DEF SendInv, LimitTypes
<1>2. ASSUME NEW w \in Conns, Accept(w) \/ Serve(w) \/ Served(w) \/ CheckBlocked(w)
                              \/ WrongToken(w) \/ RightToken(w) \/ StreamEnds(w) \/ Release(w)
      PROVE  UNCHANGED <<sends, passed>> /\ clock' >= clock
  BY <1>1, <1>2
  DEF Accept, Serve, HandshakeFails, HandshakeDone, SpawnFails, Served, CheckBlocked,
      WrongToken, RightToken, StreamEnds, Release, limitVars
<1>3. ASSUME NEW c \in Clients, Start(c) \/ Stop(c) \/ Do(c)
      PROVE  UNCHANGED <<sends, passed>> /\ clock' >= clock
  <2>1. UNCHANGED <<limitVars, clock>>
    BY <1>3 DEF Start, Stop, Command, Do, Bind, Close, SaveSetting
  <2> QED
    BY <1>1, <2>1 DEF limitVars
<1>4. Tick \/ UNCHANGED vars => UNCHANGED <<sends, passed>> /\ clock' >= clock
  BY <1>1 DEF Tick, vars, limitVars
<1>5. UNCHANGED <<sends, passed>> /\ clock' >= clock => SendInv'
  BY <1>1, SendSame DEF SendInv
<1>6. ASSUME NEW w \in Conns, Send(w)
      PROVE  SendInv'
  BY <1>1, <1>6, SendSend DEF SendInv
<1> QED
  BY <1>2, <1>3, <1>4, <1>5, <1>6 DEF Next, Work

(* Any window of time sees no more sends than the limit, wherever it       *)
(* begins (http_api.py 286-303, 423).                                      *)
THEOREM SendsCorrect == Spec => []SendsBounded
<1>1. SendInv => SendsBounded
  BY DEF SendInv
<1> QED
  BY <1>1, SendInit, SendStep, PTL DEF Spec

----------------------------------------------------------------------------
(* Wrong tokens.                                                           *)

Full == Total(Kept(failures, clock)) >= AuthMax
InAuth == {w \in Conns : at[w] = "auth"}
Entered(t) == SumIn(failures, t, t + Window - 1)
Guessed(t) == SumIn(guesses, t, t + Window - 1)

(* Nobody passes the test while the window is full, so that whoever is     *)
(* past it then was there when the window filled, but for the worker that  *)
(* filled it.                                                              *)
PastTest == Full => Cardinality(InAuth) < MaxWorkers

(* A token compared in a window was entered, or came while the window was  *)
(* full: at the start, and again after each entry, for the workers past    *)
(* the test.  Those that still are count as if they had compared theirs.   *)
Covered ==
  \A t \in Recent :
    Guessed(t) + (IF Full THEN Cardinality(InAuth) ELSE 0)
      <= Entered(t) + (Entered(t) + 1) * (MaxWorkers - 1)

NoneAhead == \A t \in Times : t > clock => guesses[t] = 0

(* No token is compared in a window that is over.                          *)
OldBounded == \A t \in Times \ Recent : Guessed(t) < (AuthMax + 1) * MaxWorkers

GuessInv ==
  /\ LimitTypes /\ SlotInv
  /\ Total(Kept(failures, clock)) <= AuthMax
  /\ PastTest /\ NoneAhead /\ Covered
  /\ OldBounded

LEMMA AuthCount ==
  ASSUME SlotInv
  PROVE  /\ IsFiniteSet(InAuth) /\ Cardinality(InAuth) \in Nat
         /\ Cardinality(InAuth) <= MaxWorkers
<1>1. InAuth \in SUBSET Live /\ IsFiniteSet(Live)
  BY LiveFinite DEF InAuth, Live
<1>2. IsFiniteSet(InAuth) /\ Cardinality(InAuth) <= Cardinality(Live)
      /\ Cardinality(InAuth) \in Nat
  BY <1>1, FS_Subset, FS_CardinalityType
<1>3. Cardinality(Live) <= MaxWorkers
  BY LiveFinite, LimitsNat DEF SlotInv, WorkerTypes, SlotsCounted
<1> QED
  BY <1>2, <1>3, LiveFinite, LimitsNat

(* The arithmetic of the bound.                                            *)
LEMMA OneMoreEntry ==
  ASSUME NEW e \in Nat, NEW k \in Nat
  PROVE  (e + 1) + ((e + 1) + 1) * k = e + (e + 1) * k + 1 + k
BY SMT

LEMMA EntriesBound ==
  ASSUME NEW e \in Nat, NEW a \in Nat, NEW m \in Nat \ {0}, e <= a
  PROVE  e + (e + 1) * (m - 1) < (a + 1) * m
<1>1. PICK d \in Nat : a = e + d
  BY SMT
<1>2. (a + 1) * m = (e + 1) * m + d * m
  BY <1>1, SMT
<1>3. d * m \in Nat
  BY SMT
<1>4. (e + 1) * (m - 1) = (e + 1) * m - (e + 1)
  BY SMT
<1>5. (e + 1) * m \in Nat
  BY SMT
<1> QED
  BY <1>2, <1>3, <1>4, <1>5, SMT

LEMMA CountsHere ==
  ASSUME LimitTypes
  PROVE  /\ \A t \in Times : Entered(t) \in Nat /\ Guessed(t) \in Nat
         /\ \A t \in Recent : Entered(t) <= Total(Kept(failures, clock))
         /\ Total(Kept(failures, clock)) \in Nat
<1>1. /\ \A t \in Times : Entered(t) \in Nat /\ Guessed(t) \in Nat
      /\ Total(Kept(failures, clock)) \in Nat
  BY TotalType, KeptCounts DEF LimitTypes, Entered, Guessed
<1>2. \A t \in Recent : Entered(t) <= Total(Kept(failures, clock))
  BY SumKept DEF LimitTypes, Entered
<1> QED
  BY <1>1, <1>2

(* The recent windows are bounded by what covers them.                     *)
LEMMA RecentBounded ==
  ASSUME LimitTypes, SlotInv, Total(Kept(failures, clock)) <= AuthMax, Covered, NEW t \in Recent
  PROVE  Guessed(t) < (AuthMax + 1) * MaxWorkers
<1>1. t \in Times
  BY DEF Recent
<1>2. Entered(t) \in Nat /\ Guessed(t) \in Nat /\ Entered(t) <= AuthMax
  BY <1>1, CountsHere, LimitsNat
<1>3. Cardinality(InAuth) \in Nat
  BY AuthCount
<1>4. Guessed(t) + (IF Full THEN Cardinality(InAuth) ELSE 0)
        <= Entered(t) + (Entered(t) + 1) * (MaxWorkers - 1)
  BY DEF Covered
<1>5. Entered(t) + (Entered(t) + 1) * (MaxWorkers - 1) < (AuthMax + 1) * MaxWorkers
  BY <1>2, EntriesBound, LimitsNat
<1>6. PICK bound1 \in Int : bound1 = Entered(t) + (Entered(t) + 1) * (MaxWorkers - 1)
  BY <1>2, LimitsNat
<1>7. PICK bound2 \in Int : bound2 = (AuthMax + 1) * MaxWorkers
  BY LimitsNat
<1> HIDE DEF Guessed, Entered, Full, InAuth
<1> QED
  BY <1>2, <1>3, <1>4, <1>5, <1>6, <1>7

LEMMA GuessInit == Init => GuessInv
<1> SUFFICES ASSUME Init
             PROVE  GuessInv
  OBVIOUS
<1>1. LimitTypes /\ SlotInv
  BY LimitInit, SlotInit
<1>2. failures = Never /\ guesses = Never /\ at = [w \in Conns |-> "none"]
  BY DEF Init
<1>3. Kept(Never, clock) = Never
  BY DEF Kept, Never
<1>4. Total(Never) = 0
  BY TimesFinite, NeverCounts, SumZero DEF Total
<1>5. ASSUME NEW t \in Times
      PROVE  SumIn(Never, t, t + Window - 1) = 0
  <2>1. IsFiniteSet(Span(t)) /\ \A u \in Span(t) : Never[u] = 0
    BY TimesFinite, NeverCounts
  <2>2. SumFunctionOnSet(Never, Span(t)) = 0
    BY <2>1, SumZero
  <2> QED
    BY <2>2, TotalType, NeverCounts
<1>6. Total(Kept(failures, clock)) <= AuthMax /\ ~Full
  BY <1>2, <1>3, <1>4, LimitsNat DEF Full
<1>7. PastTest /\ NoneAhead
  BY <1>2, <1>6, NeverCounts DEF PastTest, NoneAhead
<1>8. Covered
  <2> SUFFICES ASSUME NEW t \in Recent
               PROVE  Guessed(t) + 0 <= Entered(t) + (Entered(t) + 1) * (MaxWorkers - 1)
    BY <1>6 DEF Covered
  <2>1. Guessed(t) = 0 /\ Entered(t) = 0
    BY <1>2, <1>5 DEF Recent, Guessed, Entered
  <2> QED
    BY <2>1, LimitsNat
<1>9. OldBounded
  <2>1. (AuthMax + 1) * MaxWorkers > 0
    BY LimitsNat
  <2> QED
    BY <1>2, <1>5, <2>1 DEF OldBounded, Guessed
<1> QED
  BY <1>1, <1>6, <1>7, <1>8, <1>9 DEF GuessInv

LEMMA GuessedAll == GuessInv => GuessesBounded
<1> SUFFICES ASSUME GuessInv
             PROVE  GuessesBounded
  OBVIOUS
<1>1. \A t \in Recent : Guessed(t) < (AuthMax + 1) * MaxWorkers
  BY RecentBounded DEF GuessInv
<1>2. \A t \in Times \ Recent : Guessed(t) < (AuthMax + 1) * MaxWorkers
  BY DEF GuessInv, OldBounded
<1> QED
  BY <1>1, <1>2 DEF GuessesBounded, Guessed

(* A step that enters nothing and compares nothing, and that lets a worker *)
(* past the test only if there is room.                                    *)
LEMMA GuessSteady ==
  ASSUME GuessInv, LimitTypes', SlotInv', clock' = clock, guesses' = guesses,
         Kept(failures', clock) = Kept(failures, clock), Full => InAuth' \subseteq InAuth
  PROVE  GuessInv'
<1>1. Recent' = Recent
  BY DEF Recent
<1>2. Full' <=> Full
  BY DEF Full
<1>3. failures \in Counts /\ failures' \in Counts /\ clock \in Times
  BY DEF GuessInv, LimitTypes
<1>4. ASSUME NEW t \in Recent
      PROVE  SumIn(failures', t, t + Window - 1) = SumIn(failures, t, t + Window - 1)
  <2>1. PICK new \in Counts : new = failures'
    BY <1>3
  <2>2. \A u \in Recent : new[u] = failures[u]
    <3>1. \A u \in Recent : Kept(new, clock)[u] = new[u] /\ Kept(failures, clock)[u] = failures[u]
      BY <1>3, KeptCounts
    <3> QED
      BY <2>1, <3>1
  <2> QED
    BY <1>3, <2>1, <2>2, SumKept
<1>5. Full => Cardinality(InAuth') <= Cardinality(InAuth) /\ Cardinality(InAuth') \in Nat
  <2>1. IsFiniteSet(InAuth) /\ Cardinality(InAuth) \in Nat
    BY AuthCount DEF GuessInv
  <2>2. ASSUME InAuth' \subseteq InAuth
        PROVE  Cardinality(InAuth') <= Cardinality(InAuth) /\ Cardinality(InAuth') \in Nat
    <3>1. PICK r \in SUBSET InAuth : r = InAuth'
      BY <2>2
    <3>2. IsFiniteSet(r) /\ Cardinality(r) <= Cardinality(InAuth)
      BY <2>1, FS_Subset
    <3> QED
      BY <3>1, <3>2, FS_CardinalityType
  <2> QED
    BY <2>2
<1>6. Cardinality(InAuth) \in Nat
  BY AuthCount DEF GuessInv
<1>7. PastTest'
  BY <1>2, <1>5, <1>6, LimitsNat DEF GuessInv, PastTest
<1>8. Covered'
  <2> SUFFICES ASSUME NEW t \in Recent'
               PROVE  Guessed(t)' + (IF Full' THEN Cardinality(InAuth') ELSE 0)
                        <= Entered(t)' + (Entered(t)' + 1) * (MaxWorkers - 1)
    BY DEF Covered
  <2>1. t \in Recent /\ t \in Times
    BY <1>1 DEF Recent
  <2>2. Guessed(t)' = Guessed(t) /\ Entered(t)' = Entered(t)
    BY <1>4, <2>1 DEF Guessed, Entered
  <2>3. Guessed(t) \in Nat /\ Entered(t) \in Nat
    BY <2>1, CountsHere DEF GuessInv
  <2>4. Guessed(t) + (IF Full THEN Cardinality(InAuth) ELSE 0)
          <= Entered(t) + (Entered(t) + 1) * (MaxWorkers - 1)
    BY <2>1 DEF GuessInv, Covered
  <2>5. PICK b \in Int : b = Entered(t) + (Entered(t) + 1) * (MaxWorkers - 1)
    BY <2>3, LimitsNat
  <2> HIDE DEF Guessed, Entered, Full, InAuth
  <2>6. CASE Full
    BY <1>2, <1>5, <1>6, <2>2, <2>3, <2>4, <2>5, <2>6
  <2>7. CASE ~Full
    BY <1>2, <2>2, <2>3, <2>4, <2>5, <2>7
  <2> QED
    BY <2>6, <2>7
<1>9. (Total(Kept(failures, clock)) <= AuthMax)' /\ NoneAhead' /\ OldBounded'
  BY <1>1 DEF GuessInv, NoneAhead, OldBounded, Guessed
<1> QED
  BY <1>7, <1>8, <1>9 DEF GuessInv

LEMMA GuessCheck ==
  ASSUME GuessInv, LimitTypes', SlotInv', NEW w \in Conns, CheckBlocked(w)
  PROVE  GuessInv'
<1>1. clock' = clock /\ guesses' = guesses /\ failures' = Kept(failures, clock)
  BY DEF CheckBlocked
<1>2. Kept(failures', clock) = Kept(failures, clock)
  BY <1>1, KeptCounts DEF GuessInv, LimitTypes
<1>3. ASSUME Full
      PROVE  InAuth' \subseteq InAuth
  <2>1. Goes(w, "done")
    BY <1>1, <1>3 DEF CheckBlocked, Full
  <2> QED
    BY <2>1 DEF Goes, InAuth, GuessInv, SlotInv, WorkerTypes
<1> QED
  BY <1>1, <1>2, <1>3, GuessSteady

(* The clock moves on: what has left the window may make room.             *)
LEMMA KeptLess ==
  ASSUME NEW b \in Counts, NEW n \in Nat
  PROVE  Total(Kept(b, n + 1)) <= Total(Kept(b, n))
<1>1. ASSUME NEW t \in Times
      PROVE  /\ Kept(b, n + 1)[t] \in Nat /\ Kept(b, n)[t] \in Nat
             /\ Kept(b, n + 1)[t] <= Kept(b, n)[t]
  <2>1. b[t] \in Nat /\ t \in Nat
    BY TimesFinite DEF Counts
  <2>2. n + 1 - t < Window => n - t < Window
    BY <2>1, LimitsNat
  <2> QED
    BY <2>1, <2>2 DEF Kept
<1> QED
  BY <1>1, TimesFinite, SumLess DEF Total

LEMMA GuessTick ==
  ASSUME GuessInv, LimitTypes', SlotInv', Tick
  PROVE  GuessInv'
<1>1. clock' = clock + 1 /\ failures' = failures /\ guesses' = guesses /\ InAuth' = InAuth
  BY DEF Tick, limitVars, workerVars, InAuth
<1>2. clock \in Nat /\ failures \in Counts
  BY TimesFinite DEF GuessInv, LimitTypes
<1>3. Total(Kept(failures, clock + 1)) <= Total(Kept(failures, clock))
  BY <1>2, KeptLess
<1>4. Total(Kept(failures', clock')) \in Nat
  BY <1>1, <1>2, TotalType, KeptCounts DEF GuessInv, LimitTypes, Kept, Counts
<1>5. Total(Kept(failures, clock)) \in Nat
  BY CountsHere DEF GuessInv
<1>6. (Total(Kept(failures, clock)) <= AuthMax)' /\ (Full' => Full)
  BY <1>1, <1>3, <1>4, <1>5, LimitsNat DEF GuessInv, Full
<1>7. PastTest'
  BY <1>1, <1>6 DEF GuessInv, PastTest
<1>8. NoneAhead'
  BY <1>1, <1>2, TimesFinite DEF GuessInv, NoneAhead
<1>9. \A m, t, k \in Nat : m + 1 - t < k => m - t < k
  OBVIOUS
<1>10. Recent' \subseteq Recent
  <2>1. PICK now \in Nat : now = clock /\ clock' = now + 1
    BY <1>1, <1>2
  <2>2. \A t \in Times : clock' - t < Window => clock - t < Window
    BY <1>9, <2>1, TimesFinite, LimitsNat
  <2> QED
    BY <2>2 DEF Recent
<1>11. Cardinality(InAuth) \in Nat
  BY AuthCount DEF GuessInv
<1>12. Covered'
  <2> SUFFICES ASSUME NEW t \in Recent'
               PROVE  Guessed(t)' + (IF Full' THEN Cardinality(InAuth') ELSE 0)
                        <= Entered(t)' + (Entered(t)' + 1) * (MaxWorkers - 1)
    BY DEF Covered
  <2>1. t \in Recent /\ t \in Times
    BY <1>10 DEF Recent
  <2>2. Guessed(t)' = Guessed(t) /\ Entered(t)' = Entered(t)
    BY <1>1 DEF Guessed, Entered
  <2>3. Guessed(t) \in Nat /\ Entered(t) \in Nat
    BY <2>1, CountsHere DEF GuessInv
  <2>4. Guessed(t) + (IF Full THEN Cardinality(InAuth) ELSE 0)
          <= Entered(t) + (Entered(t) + 1) * (MaxWorkers - 1)
    BY <2>1 DEF GuessInv, Covered
  <2>5. PICK b \in Int : b = Entered(t) + (Entered(t) + 1) * (MaxWorkers - 1)
    BY <2>3, LimitsNat
  <2> HIDE DEF Guessed, Entered, Full, InAuth
  <2> QED
    BY <1>1, <1>6, <1>11, <2>2, <2>3, <2>4, <2>5
<1>13. OldBounded'
  <2>1. \A t \in Times : Guessed(t) < (AuthMax + 1) * MaxWorkers
    BY GuessedAll DEF GuessesBounded, Guessed
  <2> QED
    BY <1>1, <2>1 DEF OldBounded, Guessed
<1> QED
  BY <1>6, <1>7, <1>8, <1>12, <1>13 DEF GuessInv

LEMMA GuessWrong ==
  ASSUME GuessInv, LimitTypes', SlotInv', NEW w \in Conns, WrongToken(w)
  PROVE  GuessInv'
<1>1. /\ clock' = clock /\ guesses' = Add(guesses, clock)
      /\ failures' = After(failures, AuthMax) /\ clock \in Times
      /\ failures \in Counts /\ guesses \in Counts
  BY DEF WrongToken, GuessInv, LimitTypes
<1>2. Recent' = Recent
  BY <1>1 DEF Recent
<1>3. InAuth' = InAuth \ {w} /\ w \in InAuth
  BY DEF WrongToken, Goes, InAuth, GuessInv, SlotInv, WorkerTypes
<1>4. PICK n \in Nat : /\ Cardinality(InAuth) = n + 1 /\ n < MaxWorkers
                       /\ Cardinality(InAuth') = n
  <2>1. /\ IsFiniteSet(InAuth) /\ Cardinality(InAuth) \in Nat
        /\ Cardinality(InAuth) <= MaxWorkers
    BY AuthCount DEF GuessInv
  <2>2. Cardinality(InAuth \ {w}) = Cardinality(InAuth) - 1
    BY <1>3, <2>1, FS_RemoveElement
  <2>3. Cardinality(InAuth \ {w}) \in Nat
    BY <2>1, FS_RemoveElement, FS_CardinalityType
  <2> QED
    BY <1>3, <2>1, <2>2, <2>3, LimitsNat
<1>5. PastTest'
  BY <1>4 DEF PastTest
<1>6. NoneAhead'
  <2>1. \A t \in Times : t > clock => Add(guesses, clock)[t] = guesses[t]
    BY <1>1, TimesFinite, AddCounts
  <2> QED
    BY <1>1, <2>1 DEF GuessInv, NoneAhead
<1>7. OldBounded'
  <2> SUFFICES ASSUME NEW t \in Times \ Recent
               PROVE  Guessed(t)' < (AuthMax + 1) * MaxWorkers
    BY <1>2 DEF OldBounded
  <2>1. clock \notin Span(t)
    BY <1>1, SpanRecent
  <2>2. Guessed(t)' = Guessed(t)
    BY <1>1, <2>1, SumAfterAdd DEF Guessed
  <2> QED
    BY <2>2 DEF GuessInv, OldBounded
<1>8. PICK kept \in Counts : /\ kept = Kept(failures, clock) /\ Kept(kept, clock) = kept
                             /\ \A u \in Recent : kept[u] = failures[u]
                             /\ Total(kept) \in Nat /\ Total(kept) <= AuthMax
  BY <1>1, KeptCounts, TotalType DEF GuessInv
<1>9. ASSUME NEW t \in Recent
      PROVE  /\ t \in Times /\ Guessed(t) \in Nat /\ Entered(t) \in Nat
             /\ Guessed(t) + (IF Full THEN n + 1 ELSE 0)
                  <= Entered(t) + (Entered(t) + 1) * (MaxWorkers - 1)
             /\ t <= clock => Guessed(t)' = Guessed(t) + 1
             /\ t > clock => Guessed(t)' = 0
  <2>1. t \in Times
    BY DEF Recent
  <2>2. Guessed(t) \in Nat /\ Entered(t) \in Nat
    BY <2>1, CountsHere DEF GuessInv
  <2>3. Guessed(t) + (IF Full THEN n + 1 ELSE 0)
          <= Entered(t) + (Entered(t) + 1) * (MaxWorkers - 1)
    BY <1>4 DEF GuessInv, Covered
  <2>4. t <= clock => Guessed(t)' = Guessed(t) + 1
    BY <1>1, <2>1, SpanRecent, SumAfterAdd DEF Guessed
  <2>5. ASSUME t > clock
        PROVE  Guessed(t)' = 0
    <3>1. PICK new \in Counts : new = guesses'
      BY <1>1, AddCounts
    <3>2. IsFiniteSet(Span(t)) /\ \A u \in Span(t) : u \in Times /\ u > clock
      BY <1>1, <2>1, <2>5, TimesFinite, LimitsNat DEF Span
    <3>3. \A u \in Span(t) : new[u] = 0
      BY <1>1, <1>6, <3>1, <3>2 DEF NoneAhead
    <3>4. SumFunctionOnSet(new, Span(t)) = 0
      BY <3>2, <3>3, SumZero
    <3>5. SumIn(new, t, t + Window - 1) = 0
      BY <2>1, <3>4, TotalType
    <3> QED
      BY <3>1, <3>5 DEF Guessed
  <2> QED
    BY <2>1, <2>2, <2>3, <2>4, <2>5
<1>10. CASE Full
  <2>1. failures' = kept
    BY <1>1, <1>8, <1>10 DEF After, Throttled, Full
  <2>2. (Total(Kept(failures, clock)) <= AuthMax)' /\ Full'
    BY <1>1, <1>8, <1>10, <2>1 DEF Full
  <2>3. Covered'
    <3> SUFFICES ASSUME NEW t \in Recent
                 PROVE  Guessed(t)' + n <= Entered(t)' + (Entered(t)' + 1) * (MaxWorkers - 1)
      BY <1>2, <1>4, <2>2 DEF Covered
    <3>1. Entered(t)' = Entered(t)
      BY <1>1, <1>8, <2>1, SumKept DEF Entered
    <3>2. /\ Guessed(t) \in Nat /\ Entered(t) \in Nat /\ t \in Times
          /\ Guessed(t) + (n + 1) <= Entered(t) + (Entered(t) + 1) * (MaxWorkers - 1)
          /\ Guessed(t)' = Guessed(t) + 1 \/ Guessed(t)' = 0
      <4>1. t \in Nat /\ clock \in Nat
        BY <1>1, <1>9, TimesFinite
      <4>2. t <= clock \/ t > clock
        BY <4>1
      <4> QED
        BY <1>9, <1>10, <4>2
    <3>3. PICK b \in Int : b = Entered(t) + (Entered(t) + 1) * (MaxWorkers - 1)
      BY <3>2, LimitsNat
    <3> HIDE DEF Guessed, Entered
    <3> QED
      BY <3>1, <3>2, <3>3
  <2> QED
    BY <1>5, <1>6, <1>7, <2>2, <2>3 DEF GuessInv
<1>11. CASE ~Full
  <2>1. PICK new \in Counts : /\ new = failures' /\ new = Add(kept, clock)
                              /\ Kept(new, clock) = new
    <3>1. failures' = Add(kept, clock)
      BY <1>1, <1>8, <1>11 DEF After, Throttled, Full
    <3>2. Add(kept, clock) \in Counts /\ \A t \in Times \ {clock} : Add(kept, clock)[t] = kept[t]
      BY <1>1, AddCounts
    <3>3. clock \in Recent
      BY <1>1, TimesFinite, LimitsNat DEF Recent
    <3>4. \A t \in Times \ Recent : kept[t] = 0
      BY <1>1, <1>8, KeptCounts
    <3>5. \A t \in Times \ Recent : Add(kept, clock)[t] = 0
      BY <3>2, <3>3, <3>4
    <3>6. Kept(Add(kept, clock), clock) = Add(kept, clock)
      BY <3>2, <3>5 DEF Kept, Counts, Recent
    <3> QED
      BY <3>1, <3>2, <3>6
  <2>2. Total(new) = Total(kept) + 1 /\ Total(kept) < AuthMax
    BY <1>1, <1>8, <1>11, <2>1, TotalAfterAdd, LimitsNat DEF Full
  <2>3. (Total(Kept(failures, clock)) <= AuthMax)'
    BY <1>1, <1>8, <2>1, <2>2, LimitsNat
  <2>4. Covered'
    <3> SUFFICES ASSUME NEW t \in Recent
                 PROVE  Guessed(t)' + (IF Full' THEN n ELSE 0)
                          <= Entered(t)' + (Entered(t)' + 1) * (MaxWorkers - 1)
      BY <1>2, <1>4 DEF Covered
    <3>1. /\ Guessed(t) \in Nat /\ Entered(t) \in Nat /\ t \in Times
          /\ Guessed(t) <= Entered(t) + (Entered(t) + 1) * (MaxWorkers - 1)
      BY <1>9, <1>11
    <3>2. PICK k \in Nat : k = MaxWorkers - 1 /\ n <= k
      BY <1>4, LimitsNat
    <3>3. SumIn(kept, t, t + Window - 1) = Entered(t)
      BY <1>1, <1>8, SumKept DEF Entered
    <3>4. CASE t <= clock
      <4>1. Entered(t)' = Entered(t) + 1
        BY <1>1, <2>1, <3>1, <3>3, <3>4, SpanRecent, SumAfterAdd DEF Entered
      <4>2. Guessed(t)' = Guessed(t) + 1
        BY <1>9, <3>4
      <4>3. PICK e \in Nat : e = Entered(t)
        BY <3>1
      <4>4. (e + 1) + ((e + 1) + 1) * k = e + (e + 1) * k + 1 + k
        BY OneMoreEntry
      <4>5. PICK b \in Int : b = e + (e + 1) * k
        BY <3>2
      <4> HIDE DEF Guessed, Entered, Full
      <4>6. Guessed(t) <= b /\ (e + 1) + ((e + 1) + 1) * k = b + 1 + k
        BY <3>1, <3>2, <4>3, <4>4, <4>5
      <4>7. Guessed(t)' + (IF Full' THEN n ELSE 0) <= b + 1 + k
        BY <3>1, <3>2, <4>2, <4>6
      <4> QED
        BY <3>2, <4>1, <4>3, <4>6, <4>7
    <3>5. CASE t > clock
      <4>1. Guessed(t)' = 0
        BY <1>9, <3>5
      <4>2. Entered(t)' \in Nat
        BY <2>1, <3>1, TotalType DEF Entered
      <4>3. PICK e \in Nat : e = Entered(t)'
        BY <4>2
      <4>4. (e + 1) * k >= k
        <5>1. e * k >= 0 /\ e * k \in Nat
          BY SMT
        <5>2. (e + 1) * k = e * k + k
          BY SMT
        <5> QED
          BY <5>1, <5>2
      <4>5. PICK p \in Int : p = (e + 1) * k
        BY <3>2
      <4> HIDE DEF Guessed, Entered, Full
      <4>6. 0 + (IF Full' THEN n ELSE 0) <= e + p
        BY <3>2, <4>4, <4>5
      <4> QED
        BY <3>2, <4>1, <4>3, <4>5, <4>6
    <3> QED
      BY <1>1, <3>1, <3>4, <3>5, TimesFinite
  <2> QED
    BY <1>5, <1>6, <1>7, <2>3, <2>4 DEF GuessInv
<1> QED
  BY <1>10, <1>11

LEMMA GuessStep == GuessInv /\ [Next]_vars => GuessInv'
<1> SUFFICES ASSUME GuessInv, [Next]_vars
             PROVE  GuessInv'
  OBVIOUS
<1>1. LimitTypes' /\ SlotInv' /\ at \in [Conns -> Stages]
  BY LimitStep, SlotStep DEF GuessInv, SlotInv, WorkerTypes
<1>2. UNCHANGED <<limitVars, clock>> /\ InAuth' \subseteq InAuth => GuessInv'
  BY <1>1, GuessSteady DEF limitVars
<1>3. ASSUME NEW w \in Conns, NEW stage, stage # "auth", Goes(w, stage)
      PROVE  InAuth' \subseteq InAuth
  BY <1>1, <1>3 DEF Goes, InAuth
<1>4. ASSUME NEW w \in Conns, Accept(w)
      PROVE  GuessInv'
  <2>1. PICK stage \in {"handshake", "mute"} : Goes(w, stage)
    BY <1>4 DEF Accept
  <2> QED
    BY <1>2, <1>3, <1>4, <2>1 DEF Accept
<1>5. ASSUME NEW w \in Conns, HandshakeDone(w)
      PROVE  GuessInv'
  <2>1. PICK stage \in {"reading", "slow"} : Goes(w, stage)
    BY <1>5 DEF HandshakeDone
  <2> QED
    BY <1>2, <1>3, <1>5, <2>1 DEF HandshakeDone
<1>6. ASSUME NEW w \in Conns, RightToken(w)
      PROVE  GuessInv'
  <2>1. PICK stage \in {"send", "stream", "done"} : Goes(w, stage)
    BY <1>6 DEF RightToken
  <2> QED
    BY <1>2, <1>3, <1>6, <2>1 DEF RightToken
<1>7. ASSUME NEW w \in Conns,
             HandshakeFails(w) \/ SpawnFails(w) \/ Served(w) \/ StreamEnds(w) \/ Release(w)
      PROVE  GuessInv'
  <2>1. Goes(w, "none") \/ Goes(w, "done")
    BY <1>7 DEF HandshakeFails, SpawnFails, Served, StreamEnds, Release
  <2>2. InAuth' \subseteq InAuth
    BY <1>3, <2>1
  <2> QED
    BY <1>2, <1>7, <2>2 DEF HandshakeFails, SpawnFails, Served, StreamEnds, Release
<1>8. ASSUME NEW w \in Conns, Send(w)
      PROVE  GuessInv'
  <2>1. /\ clock' = clock /\ guesses' = guesses /\ failures' = failures
        /\ InAuth' \subseteq InAuth
    BY <1>3, <1>8 DEF Send
  <2> QED
    BY <1>1, <2>1, GuessSteady
<1>9. ASSUME NEW c \in Clients, Start(c) \/ Stop(c) \/ Do(c)
      PROVE  GuessInv'
  <2>1. UNCHANGED <<limitVars, clock>> /\ at' = at
    BY <1>9 DEF Start, Stop, Command, Do, Bind, Close, SaveSetting, workerVars
  <2> QED
    BY <1>2, <2>1 DEF InAuth
<1>10. CASE UNCHANGED vars
  BY <1>2, <1>10 DEF vars, limitVars, InAuth
<1>11. CASE Tick
  BY <1>1, <1>11, GuessTick
<1>12. ASSUME NEW w \in Conns, CheckBlocked(w) \/ WrongToken(w)
       PROVE  GuessInv'
  BY <1>1, <1>12, GuessCheck, GuessWrong
<1> QED
  BY <1>4, <1>5, <1>6, <1>7, <1>8, <1>9, <1>10, <1>11, <1>12 DEF Next, Serve, Work

(* However the workers interleave, the wrong tokens compared in a window   *)
(* of time stay below the limit and one, times the number of workers       *)
(* (http_api.py 288-316, 358, 419): the test and the entry are apart.      *)
THEOREM GuessesCorrect == Spec => []GuessesBounded
BY GuessInit, GuessStep, GuessedAll, PTL DEF Spec
=============================================================================
