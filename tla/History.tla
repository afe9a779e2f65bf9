------------------------------ MODULE History ------------------------------
(***************************************************************************)
(* The history store of one host (history.py) and the threads that write   *)
(* to it: the readers of the peers' sockets, the thread of the user's      *)
(* commands and the workers of the HTTP API (server.py).                   *)
(*                                                                         *)
(* Each operation on the store holds hist_lock and saves the whole store   *)
(* before it releases it; what a thread found out before (that a message   *)
(* is new, that its sender is on record) was read without it.              *)
(*                                                                         *)
(* A message is its mid, with the marks that the user or a transfer put on *)
(* it.  A store is a sequence; a peer may deliver the same mid again.      *)
(* Friendship is about who gets a record; here records come and go, and    *)
(* each change of one, with its two saves, is a step.                      *)
(***************************************************************************)
EXTENDS Integers, Sequences, SequencesExt, FiniteSets

CONSTANTS
  Peers,
  Inbound,     \* messages the peers write to us
  Requests,    \* those with the friendRequest flag
  Posts,       \* those that offer a file to a room
  Outbound,    \* messages our user writes
  PeerOf,      \* PeerOf[m]: the sender, or whom our user writes to
  Readers,     \* threads reading a socket, or the UDP listener
  Marks,       \* edited, accepted, gone, dismissed
  Limit,       \* HISTORY_LIMIT
  HeldMax,     \* PENDING_FIRST_MAX_MSGS
  HeldGlobal,  \* PENDING_FIRST_GLOBAL_MAX_MSGS
  MaxCopies,   \* MaxCopies[m]: bound, how often m is delivered
  MaxCommand,  \* bound: commands of the user, marks, ends of the handshake
  MaxFault     \* bound: failed saves, restarts

Mids == Inbound \union Outbound
Threads == Readers \union {"user"}

ASSUME MessagesType ==
  /\ Requests \subseteq Inbound /\ Posts \subseteq Inbound \ Requests
  /\ Inbound \intersect Outbound = {}
  /\ PeerOf \in [Mids -> Peers]
  /\ "user" \notin Readers
ASSUME BoundsAreNat ==
  /\ Limit \in Nat \ {0} /\ HeldMax \in Nat \ {0} /\ HeldGlobal \in Nat \ {0}
  /\ MaxCopies \in [Mids -> Nat] /\ MaxCommand \in Nat /\ MaxFault \in Nat

VARIABLES
  hist,      \* STATE.history
  file,      \* the content of HISTORY_PATH
  seen,      \* _seen_mids
  record,    \* record[p]: p's entry in config["friends"]
  config,    \* config[p]: the same in the file, for all it knows
  ledger,    \* who is in the file of fingerprints
  held,      \* held[p]: STATE.pending_first[p]
  todo,      \* todo[t]: what thread t has yet to do to the store, in order
  copies,    \* copies[m]: deliveries of m so far; for Outbound, sends
  unsaved,   \* history: the file may lag behind the store
  again,     \* history: messages that a check of _seen_mids could not catch
  left,      \* history: messages that may outlast their peer's record
  gone,      \* history: messages removed since the daemon started
  commands, faults

vars == <<hist, file, seen, record, config, ledger, held, todo, copies, unsaved,
          again, left, gone, commands, faults>>
storeVars == <<hist, file, seen, unsaved>>
friendVars == <<record, config, ledger>>

Records == {"none", "pending", "friend"}

Entry(m) == [mid |-> m, marks |-> {}]
MidsOf(s) == {s[i].mid : i \in DOMAIN s}
(* Mutant: only what the peer wrote counts as the chat.                    *)
FromPeer_Inbound(p) == {m \in Inbound : PeerOf[m] = p}
FromPeer(p) == {m \in Mids : PeerOf[m] = p}

(* Steps a thread has yet to take.                                         *)
Store(m) == [do |-> "append", of |-> m]
Ask(m) == [do |-> "hold", of |-> m]
Clear(p) == [do |-> "clear", of |-> p]
Due(t) == todo[t] # <<>>
Now(t, do) == Due(t) /\ Head(todo[t]).do = do
InHand == {m \in Mids : \E t \in Threads : Store(m) \in ToSet(todo[t])}
Asking == {m \in Requests : \E t \in Threads : Ask(m) \in ToSet(todo[t])}
OnTheWay == InHand \union Asking \union UNION {ToSet(held[p]) : p \in Peers}
Clearing == {p \in Peers : \E t \in Threads : Clear(p) \in ToSet(todo[t])}

Task == {Store(m) : m \in Mids} \union {Ask(m) : m \in Requests}
          \union {Clear(p) : p \in Peers}
Message == [mid : Mids, marks : SUBSET Marks]

TypeOK ==
  /\ hist \in Seq(Message) /\ Len(hist) <= Limit
  /\ file \in Seq(Message) /\ Len(file) <= Limit
  /\ seen \subseteq Mids
  /\ record \in [Peers -> Records] /\ config \in [Peers -> Records]
  /\ ledger \subseteq Peers
  /\ held \in [Peers -> Seq(Requests)]
  /\ \A p \in Peers : Len(held[p]) <= HeldMax
  /\ todo \in [Threads -> Seq(Task)]
  /\ copies \in [Mids -> Nat] /\ \A m \in Mids : copies[m] <= MaxCopies[m]
  /\ unsaved \in BOOLEAN
  /\ again \subseteq Mids /\ left \subseteq Mids /\ gone \subseteq Mids
  /\ commands \in 0..MaxCommand /\ faults \in 0..MaxFault

Init ==
  /\ hist = <<>> /\ file = <<>>
  /\ seen = {}
  /\ record \in [Peers -> Records]
  /\ config = record /\ ledger = {p \in Peers : record[p] = "friend"}
  /\ held = [p \in Peers |-> <<>>]
  /\ todo = [t \in Threads |-> <<>>]
  /\ copies = [m \in Mids |-> 0]
  /\ unsaved = FALSE
  /\ again = {} /\ left = {} /\ gone = {}
  /\ commands = 0 /\ faults = 0

MayFail == faults < MaxFault /\ faults' = faults + 1
Command == commands < MaxCommand /\ commands' = commands + 1

----------------------------------------------------------------------------
(* The store.                                                              *)

(* Mutant: one more than the limit is kept.                                *)
Newest_OneMore(s) == SubSeq(s, IF Len(s) > Limit THEN Len(s) - Limit ELSE 1, Len(s))
(* HISTORY_LIMIT keeps the end of the list.                                *)
Newest(s) == SubSeq(s, IF Len(s) > Limit THEN Len(s) - Limit + 1 ELSE 1, Len(s))

(* _save_history_locked: the whole list, in one rename; an error is        *)
(* swallowed.                                                              *)
Save ==
  \/ file' = hist' /\ unsaved' = FALSE /\ UNCHANGED faults
  \/ MayFail /\ unsaved' = TRUE /\ UNCHANGED file

(* The messages of s whose mid is in S, in order (a set of one sequence).  *)
Ascending(I) == {f \in [1..Cardinality(I) -> I] : \A i, j \in DOMAIN f : i < j => f[i] < f[j]}
Keeping(s, S) ==
  {[i \in DOMAIN f |-> s[f[i]]] : f \in Ascending({i \in DOMAIN s : s[i].mid \in S})}

(* Mutant: what is removed may be delivered again.                         *)
Erase_ForgetsMid(S) ==
  /\ hist' \in Keeping(hist, Mids \ S)
  /\ Save
  /\ gone' = gone \union (MidsOf(hist) \intersect S)
  /\ seen' = seen \ S

(* clear_history_for_peer, clear_all_history, delete_message: what is      *)
(* removed stays in _seen_mids.                                            *)
Erase(S) ==
  /\ hist' \in Keeping(hist, Mids \ S)
  /\ Save
  /\ gone' = gone \union (MidsOf(hist) \intersect S)
  /\ UNCHANGED seen

----------------------------------------------------------------------------
(* The records.                                                            *)

(* add_friend and unfriend: both write the whole configuration, and then   *)
(* the ledger of the confirmed.  Either write may fail, and nobody knows.  *)
SetRecord(p, r) ==
  LET listed == CASE r = "friend" -> ledger \union {p}
                  [] r = "none" -> ledger \ {p}
                  [] OTHER -> ledger
  IN  /\ record' = [record EXCEPT ![p] = r]
      /\ \/ config' = record' /\ ledger' = listed /\ UNCHANGED faults
         \/ MayFail /\ config' \in {config, record'} /\ ledger' \in {ledger, listed}

(* The record goes, and the chat stays.                                    *)
Strike(p) ==
  /\ SetRecord(p, "none")
  /\ left' = left \union (FromPeer(p) \intersect (MidsOf(hist) \union InHand))

----------------------------------------------------------------------------
(* A message arrives.                                                      *)

(* _hold_friend_request: per peer and in all, but see the first.           *)
HeldInAll == LET n(p, sum) == sum + Len(held[p]) IN FoldSet(n, 0, Peers)
MayHold(p) == Len(held[p]) < HeldMax /\ HeldInAll < HeldGlobal

Arrives(t, m) ==
  /\ ~Due(t)
  /\ copies[m] < MaxCopies[m]
  /\ copies' = [copies EXCEPT ![m] = @ + 1]
  /\ UNCHANGED <<storeVars, held, gone, commands>>

(* Mutant: no check for a mid already taken.                               *)
IsNew_Always(m) == TRUE
(* _has_mid.                                                               *)
IsNew(m) == m \notin seen

(* A friend's request, or what anyone on record writes (is_trusted), will  *)
(* be appended.                                                            *)
Take(t, m) ==
  /\ Arrives(t, m)
  /\ m \notin Posts /\ IsNew(m)
  /\ record[PeerOf[m]] \in (IF m \in Requests THEN {"friend"} ELSE {"pending", "friend"})
  /\ todo' = [todo EXCEPT ![t] = <<Store(m)>>]
  /\ again' = again \union ({m} \intersect OnTheWay)
  /\ UNCHANGED <<friendVars, left, faults>>
(* A room's post is appended whoever its author is, and whether or not it  *)
(* is new.                                                                 *)
Post(t, m) ==
  /\ Arrives(t, m)
  /\ m \in Posts
  /\ todo' = [todo EXCEPT ![t] = <<Store(m)>>]
  /\ again' = again \union ({m} \intersect (OnTheWay \union seen))
  /\ left' = IF record[PeerOf[m]] = "none" THEN left \union {m} ELSE left
  /\ UNCHANGED <<friendVars, faults>>
(* A request of somebody who is no friend will be held.                    *)
Hold(t, m) ==
  /\ Arrives(t, m)
  /\ m \in Requests /\ IsNew(m)
  /\ record[PeerOf[m]] # "friend"
  /\ todo' = [todo EXCEPT ![t] = <<Ask(m)>>]
  /\ again' = again \union ({m} \intersect OnTheWay)
  /\ UNCHANGED <<friendVars, left, faults>>
(* We had asked the requester too: friends at once.                        *)
Mutual(t, m) ==
  /\ Arrives(t, m)
  /\ m \in Requests /\ IsNew(m)
  /\ record[PeerOf[m]] # "friend"
  /\ SetRecord(PeerOf[m], "friend")
  /\ UNCHANGED <<todo, again, left>>
(* Dropped: known, a request while none are accepted, of somebody without  *)
(* a record, of no member of the room, or we are offline.                  *)
Drop(t, m) ==
  /\ Arrives(t, m)
  /\ \/ m \notin Requests
     \/ ~IsNew(m)
     \/ record[PeerOf[m]] # "friend"
  /\ UNCHANGED <<friendVars, todo, again, left, faults>>

----------------------------------------------------------------------------
(* The handshake.                                                          *)

UserFree == ~Due("user") /\ Command

(* acceptFriend: the held messages are revealed, one append after another. *)
Accept(p) ==
  /\ UserFree
  /\ SetRecord(p, "friend")
  /\ held' = [held EXCEPT ![p] = <<>>]
  /\ todo' = [todo EXCEPT !["user"] = [i \in DOMAIN held[p] |-> Store(held[p][i])]]
  /\ UNCHANGED <<storeVars, copies, again, left, gone>>

(* setFriend, an accept that answers our request, a request that crosses   *)
(* ours over UDP: nothing is revealed.                                     *)
Confirm(p) ==
  /\ Command
  /\ SetRecord(p, "friend")
  /\ UNCHANGED <<storeVars, held, todo, copies, again, left, gone>>

(* rejectFriend: whatever the record, and the chat stays.                  *)
Reject(p) ==
  /\ UserFree
  /\ held' = [held EXCEPT ![p] = <<>>]
  /\ Strike(p)
  /\ UNCHANGED <<storeVars, todo, copies, again, gone>>

(* The peer withdraws its request (the held messages go) or turns ours     *)
(* down: _unfriend_if_unconfirmed.                                         *)
Withdraw(p) ==
  /\ Command
  /\ held' \in {held, [held EXCEPT ![p] = <<>>]}
  /\ \/ record[p] = "pending" /\ Strike(p)
     \/ /\ record[p] # "pending" /\ held[p] # <<>>
        /\ UNCHANGED <<friendVars, left, faults>>
  /\ UNCHANGED <<storeVars, todo, copies, again, gone>>

(* _do_unfriend, by our user or on the peer's word: the record first ...   *)
Unfriend(t, p) ==
  /\ ~Due(t) /\ Command
  /\ SetRecord(p, "none")
  /\ todo' = [todo EXCEPT ![t] = <<Clear(p)>>]
  /\ UNCHANGED <<storeVars, held, copies, again, left, gone>>

----------------------------------------------------------------------------
(* Commands.                                                               *)

(* send_message: written to the peer, on record or not, then appended.     *)
Send(m) ==
  /\ UserFree
  /\ copies[m] = 0 /\ MaxCopies[m] > 0
  /\ copies' = [copies EXCEPT ![m] = 1]
  /\ todo' = [todo EXCEPT !["user"] = <<Store(m)>>]
  /\ left' = IF record[PeerOf[m]] = "none" THEN left \union {m} ELSE left
  /\ UNCHANGED <<storeVars, friendVars, held, again, gone, faults>>

ClearChat(p) ==
  /\ UserFree
  /\ Erase(FromPeer(p))
  /\ UNCHANGED <<friendVars, held, todo, copies, again, left>>
ClearAll ==
  /\ UserFree
  /\ Erase(Mids)
  /\ UNCHANGED <<friendVars, held, todo, copies, again, left>>

(* delete_message saves only if there was one.                             *)
Delete(m) ==
  /\ UserFree
  /\ IF m \in MidsOf(hist) THEN Erase({m}) ELSE UNCHANGED <<storeVars, gone, faults>>
  /\ UNCHANGED <<friendVars, held, todo, copies, again, left>>

(* edit_message, mark_attachment_saved, _gone and _dismissed: the first    *)
(* message with the mid.  Transfers mark from other threads.               *)
First(m) == CHOOSE i \in DOMAIN hist : hist[i].mid = m /\
                                       \A j \in 1..(i - 1) : hist[j].mid # m
(* Mutant: the mark is not saved.                                          *)
Mark_NotSaved(m, k) ==
  /\ Command
  /\ m \in MidsOf(hist)
  /\ hist' = [hist EXCEPT ![First(m)].marks = @ \union {k}]
  /\ UNCHANGED <<file, unsaved, seen, friendVars, held, todo, copies, again,
                 left, gone, faults>>
Mark(m, k) ==
  /\ Command
  /\ m \in MidsOf(hist)
  /\ hist' = [hist EXCEPT ![First(m)].marks = @ \union {k}]
  /\ Save
  /\ UNCHANGED <<seen, friendVars, held, todo, copies, again, left, gone>>

----------------------------------------------------------------------------
(* The threads' steps on the store.                                        *)

Next1(t) == todo' = [todo EXCEPT ![t] = Tail(@)]

(* append_history.                                                         *)
DoAppend(t) ==
  /\ Now(t, "append")
  /\ LET m == Head(todo[t]).of
     IN  /\ seen' = seen \union {m}
         /\ hist' = Newest(Append(hist, Entry(m)))
         /\ Save
  /\ Next1(t)
  /\ UNCHANGED <<friendVars, held, copies, again, left, gone, commands>>

(* The requester is put on record as pending, a friend's record if it has  *)
(* become one is overwritten, and the request held unless over the caps.   *)
DoHold(t) ==
  /\ Now(t, "hold")
  /\ LET m == Head(todo[t]).of
         p == PeerOf[m]
     IN  /\ \/ record[p] = "pending" /\ UNCHANGED <<friendVars, faults>>
            \/ record[p] # "pending" /\ SetRecord(p, "pending")
         /\ held' = IF MayHold(p) THEN [held EXCEPT ![p] = Append(@, m)] ELSE held
  /\ Next1(t)
  /\ UNCHANGED <<storeVars, copies, again, left, gone, commands>>

(* ... then, in _do_unfriend, the messages from and to the peer, but for   *)
(* those that other threads have in hand.                                  *)
DoClear(t) ==
  /\ Now(t, "clear")
  /\ LET chat == FromPeer(Head(todo[t]).of)
     IN  /\ Erase(chat)
         /\ left' = (left \ chat) \union (InHand \intersect chat)
  /\ Next1(t)
  /\ UNCHANGED <<friendVars, held, copies, again, commands>>

(* Restart: load_config and reconcile_friends_from_ledger, then            *)
(* load_history, which takes a file it cannot read for an empty one.  What *)
(* is left without a record: the save of the record or of the store was    *)
(* lost, or the clear.                                                     *)
Restart ==
  /\ MayFail
  /\ record' = [p \in Peers |->
                  IF config[p] = "none" /\ p \in ledger THEN "friend" ELSE config[p]]
  /\ config' \in {config, record'}
  /\ \/ hist' = Newest(file) /\ UNCHANGED unsaved
     \/ hist' = <<>> /\ unsaved' = TRUE
  /\ seen' = {}
  /\ held' = [p \in Peers |-> <<>>]
  /\ todo' = [t \in Threads |-> <<>>]
  /\ again' = again \union {m \in Inbound : copies[m] > 0}
  /\ gone' = {}
  /\ left' = left \union
       {m \in MidsOf(file) : record'[PeerOf[m]] = "none" /\
          (unsaved \/ PeerOf[m] \in Clearing \/ record[PeerOf[m]] # "none")}
  /\ UNCHANGED <<file, ledger, copies, commands>>

Next ==
  \/ \E t \in Readers, m \in Inbound :
       Take(t, m) \/ Post(t, m) \/ Hold(t, m) \/ Mutual(t, m) \/ Drop(t, m)
  \/ \E t \in Threads :
       DoAppend(t) \/ DoHold(t) \/ DoClear(t) \/ \E p \in Peers : Unfriend(t, p)
  \/ \E m \in Outbound : Send(m)
  \/ \E p \in Peers :
       Accept(p) \/ Confirm(p) \/ Reject(p) \/ Withdraw(p) \/ ClearChat(p)
  \/ ClearAll
  \/ \E m \in Mids : Delete(m) \/ \E k \in Marks : Mark(m, k)
  \/ Restart

Spec == Init /\ [][Next]_vars

----------------------------------------------------------------------------
(* A message delivered again is not shown again, unless two copies passed  *)
(* the check together or the daemon was restarted in between (_seen_mids   *)
(* is not rebuilt from the file).                                          *)
NotTwice ==
  \A m \in Mids \ again : Cardinality({i \in DOMAIN hist : hist[i].mid = m}) <= 1

(* What the user deleted or cleared does not come back with a redelivery,  *)
(* with the same two exceptions.                                           *)
DeletedStaysDeleted == MidsOf(hist) \intersect gone \subseteq again

(* Once _do_unfriend is done, nothing of the chat is left, and what a peer *)
(* writes later is kept only while it has a record.  What may stay (left): *)
(* what threads had in hand at the clear; the chat of a pending or         *)
(* rejected peer, struck off without a clear; what our user writes to, or  *)
(* a room brings from, somebody without a record; what a lost save or a    *)
(* restart before the clear brings back.                                   *)
RemovedIsForgotten ==
  \A m \in MidsOf(hist) \ left :
    record[PeerOf[m]] # "none" \/ PeerOf[m] \in Clearing

(* A restart loses and revives nothing after a save that went well.        *)
FileFollows == ~unsaved => file = hist
=============================================================================
