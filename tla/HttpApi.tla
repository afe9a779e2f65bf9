------------------------------ MODULE HttpApi ------------------------------
(***************************************************************************)
(* The HTTP interface of the daemon (http_api.py): the server the user     *)
(* switches on and off, the bounded number of workers, and the limits on   *)
(* sends and on wrong tokens.                                              *)
(*                                                                         *)
(* One thread accepts connections and does each TLS handshake itself,      *)
(* under a deadline; a worker per connection reads one request, under a    *)
(* deadline for the whole of it, and answers.  A request is abstracted to  *)
(* the checks it passes.  The clock's unit is a few seconds, so a reading  *)
(* of the clock is taken with the step that uses it.                       *)
(***************************************************************************)
EXTENDS Integers, FiniteSets, Functions

CONSTANTS
  Conns,       \* client connections
  Clients,     \* threads that run the user's commands (the control channel
               \* has one for each panel)
  MaxWorkers,  \* MAX_WORKERS
  Window,      \* _SEND_WINDOW_S, _AUTH_WINDOW_S
  SendMax,     \* _SEND_MAX
  AuthMax,     \* _AUTH_MAX
  MaxTry,      \* attempts to bind the port
  MaxClock, MaxCommand, MaxFault  \* bounds

ASSUME LimitsAreNat ==
  \A n \in {MaxWorkers, Window, SendMax, AuthMax, MaxTry} : n \in Nat \ {0}
ASSUME ConnsFinite == IsFiniteSet(Conns)
ASSUME BoundsAreNat == \A n \in {MaxClock, MaxCommand, MaxFault} : n \in Nat

Times == 0..MaxClock
Never == [t \in Times |-> 0]

VARIABLES
  active,    \* _active_workers
  at,        \* at[w]: what connection w is at
  leaked,    \* history: slots whose connection never got a worker
  sends,     \* _send_ts: entries per instant
  failures,  \* _auth_fail_ts
  passed,    \* history: sends let through, per instant
  guesses,   \* history: wrong tokens compared, per instant
  server,    \* _http_server is set
  bound,     \* a server listens on the port
  enabled,   \* config["httpEnabled"]
  job,       \* job[c]: what c's command has yet to do
  crossed,   \* history: commands overlapped since the last one that ran alone,
             \* or the port could not be had
  clock, commands, faults

vars == <<active, at, leaked, sends, failures, passed, guesses, server, bound,
          enabled, job, crossed, clock, commands, faults>>
workerVars == <<active, at, leaked>>
limitVars == <<sends, failures, passed, guesses>>
switchVars == <<server, bound, enabled, job, crossed>>

(* "mute": the client will never complete the handshake; "slow": it will   *)
(* never complete its request, though it may keep sending.                 *)
Stages == {"none", "handshake", "mute", "reading", "slow", "auth", "send", "stream", "done"}
Idle == [do |-> "idle", tries |-> 0]
Job(what) == [do |-> what, tries |-> 0]

Live == {w \in Conns : at[w] # "none"}
Handshaking == {w \in Conns : at[w] \in {"handshake", "mute"}}
Busy == {c \in Clients : job[c] # Idle}
SumIn(counts, from, to) == SumFunctionOnSet(counts, Times \cap from..to)

Init ==
  /\ active = 0 /\ at = [w \in Conns |-> "none"] /\ leaked = 0
  /\ sends = Never /\ failures = Never /\ passed = Never /\ guesses = Never
  /\ server = FALSE /\ bound = FALSE /\ enabled = FALSE
  /\ job = [c \in Clients |-> Idle]
  /\ crossed = FALSE
  /\ clock = 0 /\ commands = 0 /\ faults = 0

MayFail == faults < MaxFault /\ faults' = faults + 1
Goes(w, stage) == at' = [at EXCEPT ![w] = stage]

----------------------------------------------------------------------------
(* The accepting thread: get_request.                                      *)

Room == active < MaxWorkers

Accept(w) ==
  /\ bound /\ Handshaking = {}
  /\ \A c \in Clients : job[c].do # "close"
  /\ at[w] = "none"
  /\ Room
  /\ active' = active + 1
  /\ \E stage \in {"handshake", "mute"} : Goes(w, stage)
  /\ UNCHANGED <<leaked, limitVars, switchVars, clock, commands, faults>>

HandshakeFails_KeepsSlot(w) ==
  /\ w \in Handshaking
  /\ Goes(w, "none")
  /\ UNCHANGED <<active, leaked, limitVars, switchVars, clock, commands, faults>>
HandshakeFails_NoDeadline(w) ==
  /\ at[w] = "handshake"
  /\ Goes(w, "none")
  /\ active' = active - 1
  /\ UNCHANGED <<leaked, limitVars, switchVars, clock, commands, faults>>
(* The handshake fails, or its deadline passes.                            *)
HandshakeFails(w) ==
  /\ w \in Handshaking
  /\ Goes(w, "none")
  /\ active' = active - 1
  /\ UNCHANGED <<leaked, limitVars, switchVars, clock, commands, faults>>

HandshakeDone(w) ==
  /\ at[w] = "handshake"
  /\ \E stage \in {"reading", "slow"} : Goes(w, stage)
  /\ UNCHANGED <<active, leaked, limitVars, switchVars, clock, commands, faults>>

(* No thread can be started for the connection: nobody frees its slot.     *)
SpawnFails(w) ==
  /\ at[w] = "handshake"
  /\ MayFail
  /\ Goes(w, "none")
  /\ leaked' = leaked + 1
  /\ UNCHANGED <<active, limitVars, switchVars, clock, commands>>

----------------------------------------------------------------------------
(* A worker.                                                               *)

Kept(bucket, now) == [t \in Times |-> IF now - t < Window THEN bucket[t] ELSE 0]
Total(bucket) == SumFunctionOnSet(bucket, Times)
Add(bucket, now) == [bucket EXCEPT ![now] = @ + 1]

Throttled_Forgets(bucket, limit) == Total(Kept(bucket, clock + 1)) >= limit
(* _throttle: the entries of the window are counted, and this one added if *)
(* there is room.                                                          *)
Throttled(bucket, limit) == Total(Kept(bucket, clock)) >= limit
After(bucket, limit) ==
  IF Throttled(bucket, limit) THEN Kept(bucket, clock) ELSE Add(Kept(bucket, clock), clock)

Served_PerReadTimeout(w) ==
  /\ at[w] = "reading"
  /\ Goes(w, "done")
  /\ UNCHANGED <<active, leaked, limitVars, switchVars, clock, commands, faults>>
(* The deadline passes before the request is read; or the request needs no *)
(* token, is too large or has an unknown path: it is answered.             *)
Served(w) ==
  /\ at[w] \in {"reading", "slow"}
  /\ Goes(w, "done")
  /\ UNCHANGED <<active, leaked, limitVars, switchVars, clock, commands, faults>>

CheckBlocked_Never(w) ==
  /\ at[w] = "reading"
  /\ failures' = Kept(failures, clock)
  /\ Goes(w, "auth")
  /\ UNCHANGED <<active, leaked, sends, passed, guesses, switchVars, clock, commands, faults>>
(* _auth_blocked.                                                          *)
CheckBlocked(w) ==
  /\ at[w] = "reading"
  /\ failures' = Kept(failures, clock)
  /\ Goes(w, IF Total(failures') >= AuthMax THEN "done" ELSE "auth")
  /\ UNCHANGED <<active, leaked, sends, passed, guesses, switchVars, clock, commands, faults>>

(* _auth_ok: the token is wrong.                                           *)
WrongToken(w) ==
  /\ at[w] = "auth"
  /\ Goes(w, "done")
  /\ failures' = After(failures, AuthMax)
  /\ guesses' = Add(guesses, clock)
  /\ UNCHANGED <<active, leaked, sends, passed, switchVars, clock, commands, faults>>

(* The token is right: a message to send, a file to stream, or an answer.  *)
RightToken(w) ==
  /\ at[w] = "auth"
  /\ \E stage \in {"send", "stream", "done"} : Goes(w, stage)
  /\ UNCHANGED <<active, leaked, limitVars, switchVars, clock, commands, faults>>

Send(w) ==
  /\ at[w] = "send"
  /\ Goes(w, "done")
  /\ sends' = After(sends, SendMax)
  /\ passed' = IF Throttled(sends, SendMax) THEN passed ELSE Add(passed, clock)
  /\ UNCHANGED <<active, leaked, failures, guesses, switchVars, clock, commands, faults>>

(* The end of the file, or a write that fails or times out.                *)
StreamEnds(w) ==
  /\ at[w] = "stream"
  /\ Goes(w, "done")
  /\ UNCHANGED <<active, leaked, limitVars, switchVars, clock, commands, faults>>

(* process_request_thread: the slot is released however the request ended. *)
Release(w) ==
  /\ at[w] = "done"
  /\ Goes(w, "none")
  /\ active' = active - 1
  /\ UNCHANGED <<leaked, limitVars, switchVars, clock, commands, faults>>

----------------------------------------------------------------------------
(* setHttp.                                                                *)

Becomes(c, j) == job' = [job EXCEPT ![c] = j]
Command(c) ==
  /\ job[c] = Idle
  /\ commands < MaxCommand /\ commands' = commands + 1
  /\ crossed' = (Busy # {})
  /\ UNCHANGED <<workerVars, limitVars, enabled, clock, faults>>

(* _start_http: nothing to do if there is a server.                        *)
Start(c) ==
  /\ Command(c)
  /\ Becomes(c, Job(IF server THEN "save on" ELSE "bind"))
  /\ UNCHANGED <<server, bound>>

LastTry(c) == job[c].tries + 1 = MaxTry

(* The port is taken by a server that is about to stop, or by another, and *)
(* the bind is tried again; the setting is saved whatever came of it.      *)
Bind(c) ==
  /\ job[c].do = "bind"
  /\ \/ /\ ~bound
        /\ server' = TRUE /\ bound' = TRUE
        /\ Becomes(c, Job("save on"))
        /\ UNCHANGED <<crossed, faults>>
     \/ /\ IF bound THEN UNCHANGED faults ELSE MayFail
        /\ IF LastTry(c)
           THEN Becomes(c, Job("save on")) /\ crossed' = TRUE
           ELSE Becomes(c, [job[c] EXCEPT !.tries = @ + 1]) /\ UNCHANGED crossed
        /\ UNCHANGED <<server, bound>>
  /\ UNCHANGED <<workerVars, limitVars, enabled, clock, commands>>

(* _stop_http: the reference is taken and the server told to stop, so that *)
(* no connection is accepted any more ...                                  *)
Stop_KeepsServer(c) ==
  /\ Command(c)
  /\ Becomes(c, Job(IF server THEN "close" ELSE "save off"))
  /\ UNCHANGED <<server, bound>>
Stop(c) ==
  /\ Command(c)
  /\ Becomes(c, Job(IF server THEN "close" ELSE "save off"))
  /\ server' = FALSE
  /\ UNCHANGED bound

(* ... and the server closed when the accepting thread has come to its     *)
(* end, after the handshake it is in.                                      *)
Close(c) ==
  /\ job[c].do = "close"
  /\ Handshaking = {}
  /\ bound' = FALSE
  /\ Becomes(c, Job("save off"))
  /\ UNCHANGED <<workerVars, limitVars, server, enabled, crossed, clock, commands, faults>>

SaveSetting(c) ==
  /\ job[c].do \in {"save on", "save off"}
  /\ enabled' = (job[c].do = "save on")
  /\ Becomes(c, Idle)
  /\ UNCHANGED <<workerVars, limitVars, server, bound, crossed, clock, commands, faults>>

Tick ==
  /\ clock < MaxClock
  /\ clock' = clock + 1
  /\ UNCHANGED <<workerVars, limitVars, switchVars, commands, faults>>

----------------------------------------------------------------------------
Serve(w) == HandshakeFails(w) \/ HandshakeDone(w) \/ SpawnFails(w)
Work(w) == \/ Served(w) \/ CheckBlocked(w) \/ WrongToken(w) \/ RightToken(w)
           \/ Send(w) \/ StreamEnds(w) \/ Release(w)
Do(c) == Bind(c) \/ Close(c) \/ SaveSetting(c)

Next == \/ \E w \in Conns : Accept(w) \/ Serve(w) \/ Work(w)
        \/ \E c \in Clients : Start(c) \/ Stop(c) \/ Do(c)
        \/ Tick

Spec == Init /\ [][Next]_vars

(* Every wait of these threads has a deadline.                             *)
FairSpec == /\ Spec
            /\ \A w \in Conns : WF_vars(Serve(w)) /\ WF_vars(Work(w))
            /\ \A c \in Clients : WF_vars(Do(c))

----------------------------------------------------------------------------
(* The counter of workers is the number of connections being served, plus  *)
(* those whose thread could not be started; it stays within the cap.       *)
SlotsCounted == active = Cardinality(Live) + leaked /\ active <= MaxWorkers

(* Any window of time sees no more sends than the limit.                   *)
SendsBounded ==
  \A t \in Times : SumIn(passed, t, t + Window - 1) <= SendMax

(* The test whether the window is full and the entry of a wrong token are  *)
(* apart, and a failure over the limit is not entered: each time the       *)
(* window fills, the workers past the test may still compare a token.      *)
GuessesBounded ==
  \A t \in Times : SumIn(guesses, t, t + Window - 1) < (AuthMax + 1) * MaxWorkers

(* A server that listens is one that can be stopped, and the setting is    *)
(* what the user last asked for, but after commands that crossed.          *)
SwitchHolds ==
  /\ server => bound
  /\ bound /\ ~server => \E c \in Clients : job[c].do = "close"
  /\ Busy = {} /\ ~crossed => enabled = bound

(* Whatever the clients do, every slot that was taken is free again, and   *)
(* every command ends.                                                     *)
SlotsReturn == \A w \in Conns : at[w] # "none" ~> at[w] = "none"
CommandsEnd == \A c \in Clients : job[c] # Idle ~> job[c] = Idle
=============================================================================
