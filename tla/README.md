# LanChat in TLA+

LanChat is a peer-to-peer chat for one local network.  Every machine runs a
Python daemon (`server.py` and the modules it imports); a QML user interface, a
bridge and an HTTP API talk to it.  There is no server: two daemons find each
other by UDP broadcast, become friends by a signed handshake, and exchange
messages, room state and files over TLS sockets they dial to each other.

## 1. Inventory

| Component | Source | State | Operations |
|---|---|---|---|
| Connection manager | `server.py` 1684-2060 | `STATE.conns[pid]`: active socket, initiator, hold, sent mids, dialing, backoff | `_write`, `_flush_locked`, `_maybe_set_active`, `_drop_conn`, `_reader_outbound`, `_reader_inbound`, `conn_loop` |
| Friendship and trust | `server.py` 905-1026, 1119-1535, 2156-2500, 2715-3270 | `config["friends"]`, `request_outgoing`, `pending_first(_bytes)`, `pending_sent`, the fingerprint ledger | commands `udpFriendRequest`, `cancelFriendRequest`, `acceptFriend`, `rejectFriend`, `setFriend`, `unfriend`; five signed UDP packets; TCP `friendAccept`, `friendReject`, `friendRemove`, friend request messages |
| UDP replay memory | `server.py` 1174-1320 | `udp_seen` (persisted) | `_udp_seen_check`, `_udp_seen_load`, the validity window |
| Discovery and presence | `server.py` 828-905, 1030-1115, 1537-1690 | `STATE.peers`, last seen | hello, scan, announce, `upsert_peer`, `expire_peers`, visibility |
| Inbound slots | `server.py` 2066-2155 | `_inbound_conns` | take, release, TLS handshake with a deadline |
| Rooms | `rooms.py` | `rooms` (owned), `rooms_cache` (joined), tickets | create, invite, join, admit, remove, leave, colours, `roomState`, file relay |
| Attachments | `attachments.py` | registrations, `_dl` transfers and reservations, `.part` files, limits | register, begin, chunk, finish, abort, serve, expiry, `setAttachmentMax`, `setPerPeerDownloads` |
| History | `history.py` | encrypted list, seen mids | append, load, edit, mark, delete, clear, pages |
| Identity | `identity.py` | certificate and key | fingerprint, sign, verify |
| HTTP API | `http_api.py` | the server, worker slots, windows of sends and of wrong tokens | accept, handshake, read under a deadline, authorise, send, stream, start, stop |
| Control channel | `server.py` 480-525, 3316-3405, `lanchat-bridge.py` | control clients | commands in, events out |
| User interface | `shared/Lanchat.qml` and the views | threads, unread counts, pages, pending requests | event handlers, page loads |
| Set-up | `lanchat-ensure-systemd.py`, firewall and update commands | none of its own | runs system tools |

**How they interact.**  The daemon is threads around one `STATE`: `udp_loop`
and `_udp_listener` (discovery and the friendship packets), `tcp_loop` with a
handshake thread and then a reader thread per accepted connection, `conn_loop`
with a reader thread per dialed connection, one thread per control client, one
per file served, and the HTTP threads.  They share the state under
`config_lock`, `pending_lock`, `conns_lock` and a lock per connection,
`peers_lock`, `rooms_lock`, `hist_lock`, `dl_lock`, `att_lock` and
`udp_seen_lock`.  Readers dispatch into friendship, rooms, attachments and
history by `_handle_incoming`; all of them send by `_write`.

**What is hard, and what makes each part correct.**

* *Connections*: two dials cross, sockets die in the middle of a flush, a
  replaced socket's reader ends late, a dial completes after the user went
  offline.  Correct when the two sides agree on one socket, the slot never
  points at a dead end, and a message is written in order and at most once.
* *Friendship*: both users act at once; the packets are unreliable and
  reordered; handlers check consent, let go of the lock and act afterwards; the
  configuration and the ledger are written one after the other.  Correct when
  nobody becomes a friend without having asked or accepted, an ended friendship
  stays ended over a restart, and both sides end up agreeing when packets
  arrive.
* *Rooms*: the owner's roster is authoritative and copied; invitations,
  admission and removal race; a member is offline for a change.
* *Room posts*: each host checks a post against its own copy of the roster,
  which travels by itself; fan-outs iterate rosters that others change. Correct
  when every steady member has each post once and a removed one is not heard.
* *Attachments*: concurrent transfers share a disk budget and file names;
  refused, aborted, stalled and finished transfers give back exactly what they
  took, and a file with its final name is whole.
* *Replay memory*: a packet is honoured once, across pruning and restarts, and
  no genuine one is refused.
* *History*: redelivery, restarts, clears and removals of friends cross the
  threads that append; pages that lose live messages in the UI.
* *HTTP API*: clients that stall; slots taken on one thread and given back on
  another; a switch that two panels turn at once.

## 2. Plan

1. **Transport** (done): the connection manager of a pair of peers; the
   abstract `MessageLink` it implements; every safety property and the
   refinement proved.
2. **Friendship** (done): the handshake of a pair of hosts with its two files;
   every safety property proved.  Left for later: a statement that a friend is
   never demoted, and agreement of the two sides once no packet is lost.
3. **UdpSeen** (done): clock, window, pruning, file, restarts; type invariant
   and both safety properties proved.
4. **Rooms** (done): the roster of one room, its tickets and the members'
   copies.  **RoomPosts** (done): what the members post over those rosters.
   Every property of both proved.
5. **Downloads** (done): limits, begin, chunks, end and verification; every
   property proved.
6. **History** (done): the store and its writers; every property proved.
7. **HttpApi** (done): workers, deadlines, windows, the switch; the slots, the
   switch and the two windows proved.
8. **ChatUI**: pages and live messages of one thread.
9. A composition of Transport and Friendship: the TCP fall-backs over the hold,
   with presence and the **InboundSlots**.

Next to prove: what the modules still to come promise.  The lemmas about sums,
about sequences with an element added or removed, and about tables are there to
be cited.

## 3. The modules

### Transport

One pair of hosts, `Lo` with the lower certificate fingerprint and `Hi`.  The
connection entries of different peers share only the supervisor thread, so the
pair holds all the interesting state.  `slot`, `hold`, `sentMids` and `dialing`
are the fields `sock`, `hold`, `sent_mids` and `dialing` of `STATE.conns[pid]`
on each side.  The `initiator` field is not a variable: the two refusing
branches of `_maybe_set_active` cover every value of it, so the code refuses a
new socket exactly when the slot is taken and the new socket is not the
keeper's (`Adopts`).  `fresh` is the socket `conn_loop` has connected and not
yet offered: the connect happens outside the lock, and everything may change
meanwhile.

A socket has two ends (`end`), a wire in each direction and a reader thread at
each end (`reader`): `out` for `_reader_outbound`; `idle`, `challenged`, `ok`
(adopted) and `standby` (proved but refused by the tie-break, still read) for
`_reader_inbound`.  `wire[s][h]` holds what `h` has yet to read, including what
is in its buffer, so a frame can still be processed after another thread closed
the socket.  A send may succeed on an end whose far side is gone (the kernel
accepts it, nobody reads it) until the first error.

Each action is one critical section or one frame: `Write` (`_write`), `Adopt`
(`_maybe_set_active` with `_flush_locked`, one atomic step under `c["lock"]`,
with the flush succeeding for any prefix), the five steps of a dial, one action
per kind of frame, the end of a reader (`ReaderEnds`, the `finally` clauses),
`Expire` (`expire_peers` -> `_drop_conn`) and the online switch.  A reader ends
when its socket does (`ReadEnd`); or, with the socket still working
(`ReaderBreaks`), when a handler raises what the loops do not catch (they catch
`OSError` and `SSLError` only; the fan-out of the rooms raises `RuntimeError`)
or a frame is longer than `MAX_FRAME_BUF`.  Socket numbers are reused once no
thread refers to the socket, so `MaxSock` bounds the sockets alive at one time
and not the number of dials.

### MessageLink

What the manager promises to the rest of the daemon: a payload is held or put
on its way in order, leaves the hold oldest first, arrives at most once, and
arrival and loss are final.  It promises neither delivery (there is no
acknowledgement: a socket can be replaced with unread bytes) nor the order of
arrival (two sockets can be read at once).  `Transport` implements it under the
mapping `StageOf`.

### MCTransport, TransportProofs

The constants of the runs; and the theorems, first those about the slot and the
hold, then those about the payloads.

### Friendship, FriendshipProofs

One pair of hosts again; everything is about the record each keeps of the
other. `rec` is the entry of `config["friends"]` (none, unconfirmed,
confirmed), `disk` the same in the configuration file, `ledger` the fingerprint
ledger, `intent` membership in `request_outgoing`, `held` the length of
`pending_first`, and `ui` the panel's entry in `friendRequests`, on which its
Accept, Reject and Cancel buttons depend.  The panel is another process: its
entry outlives a restart of the daemon.  `pending_sent` is read in many places
and filled nowhere, so it is always empty and left out.

`job[h][t]` is what each of the three threads of a host is doing: the one that
runs the user's commands, `_udp_listener`, and the reader of the peer's socket.
Each command and handler is cut where the code lets go of its locks: a check
(`HandleAccept`: `request_outgoing` under `pending_lock`), then `add_friend` or
`unfriend`, each one critical section of `config_lock` in two steps
(`AddFriend`/`AddToLedger`, `RemoveFriend`/`ForgetFriend`) because it writes
two files and the daemon may be killed in between, then what follows
(`AcceptDone`, `MutualDone`, ...).  Each of the writes may fail, which
`_save_config` and `_fingerprints_save` swallow (`SaveRecord`, `ForgetInLedger`
and the second disjunct of `AddToLedger`, whose ledger entry is dropped and put
in again by two writes): memory has then changed and the file has not. `missed`
(history) says which file lags.  A configuration that missed a write is made
good by the next command that saves it (`SaveConfig`); the ledger is not.  The
intent is dropped in the same step as the ledger entry: no one reads the two
together.

`udp` counts packets on their way, so they may overtake each other; `Lose`
takes one away.  `tcp` is a FIFO of the fall-backs, which is what `MessageLink`
gives while one socket lasts.  `MessageRequest` is an earlier release at the
other end, which sends its request as a message: this release never sends one
but still handles them.  `Boot` is `load_config` and
`reconcile_friends_from_ledger`, at any point of a command, with the
configuration file as it is (`Restart`) or lost (`RestartWithoutConfig`).

`consent` and `overlap` are history: the user asked or accepted and has not
ended it since; and a confirmation ran while the user's own command was ending
it, or a restart found the peer in the ledger only.  They occur in no guard.

### UdpSeen, UdpSeenProofs

The receiver of the signed friend packets.  A packet stands for its sender and
nonce; `iat` and `Exp` are the instants signed into it.  `clock` is the
receiver's clock, the sender's may differ by the slack.  `seen`, `loaded` and
`disk` are `udp_seen`, `udp_seen_loaded` and the file.  The test of the window
(`Receive`) and the question to the memory (`Replay`, `Honour`) are two steps
with clocks of their own, because the signature is verified in between.  The
file is loaded at the first question after a start (`Known`).  `forgotten` is
history: the memory of the packet was lost in a way the code accepts (each
place where it grows is one of the ways named at `HonouredOnce`).

### Rooms, RoomsProofs

One room.  `room`, `tickets` and `open` are the owner's `STATE.rooms[id]`, its
`invited` and whether it exists; `cache[m]` is `rooms_cache[id]` of a member.
The owner's own entry never leaves the roster and is left out of `members`. The
threads that change the room are the owner's command thread and the reader of
each member's socket; `job[t]` is where a thread is between two critical
sections of `rooms_lock`: an invitation written and its ticket not yet
recorded, a ticket used and its holder not yet admitted, a removed peer not yet
told, a snapshot being written to one member after the other.  A snapshot is a
shallow copy, so `seq` and `colours` are fixed when it is taken (`Publish`) and
the members' records are read when each frame is written (`SnapshotOf`).  A
room message to a peer without a socket is dropped.  `entitled`, `overlapped`
and `missed` are history: invited since last removed; an invitation or
admission overlapped a removal (or a restart); a message about the roster was
lost.

### RoomPosts, MCRoomPosts, RoomPostsProofs

The posts of three hosts over rosters that change.  `roster[h]` is the
membership in `h`'s copy; a change of the owner's roster and its snapshots are
one step here, because their own interleavings are in `Rooms`.  `fan[t]` is a
fan-out under way; `Over` is the dictionary it iterates: the shared one on the
owner, the replaced one on a member.  `Upset` is the size check of Python's
iteration, and `FanBreaks` where the `RuntimeError` ends.  `hold` and `wire`
are the connection manager as `MessageLink` has it: a text is held, an offer or
a snapshot is not.  `missed`, `churned` and `outsider` are history: the posts
that a lost connection or a broken fan-out took; who was ever admitted or
removed; and the posts begun by a member (never the owner) whom no other host
lists, nor will by a snapshot already under way.

### Downloads, MCDownloads, DownloadsProofs

`dl` is the table `_dl`, `limits` the three settings, `fin` the downloads that
`_dl_finish` has taken out of the table and whose file it has yet to deal with:
`"ended"` (to be hashed), `"whole"` (to be renamed), `"failed"` (to be
removed).  Taking the entry out happens under `dl_lock` (`End`, `Error`,
`RequestFails`), what becomes of the file after the lock is released (`Verify`,
`Rename`, `Remove`, and `GiveUp` on the thread of the client whose request
failed, `giving`).  Files are inodes (`content`), `part` and `saved` the paths
to them, because an open handle writes to its inode whatever becomes of the
path.  `stream[f][k]` is the sender's stream for the `k`-th click on Save;
streams of one file can overlap after a purge and a retry. A chunk is one unit
of size.  The last chunk that a sender streams and the End frame come on one
socket, whose reader handles one frame at a time (`ReaderFree`).  `shared` and
`orphan` are history: a `.part` path was opened while another download used it;
a `.part` that a restart left behind.

### History, MCHistory, HistoryProofs

`hist`, `file` and `seen` are `STATE.history`, the file and `_seen_mids`;
`held` is `pending_first`; `record`, `config` and `ledger` are the peers'
records, the same in the configuration file, and the ledger.  `todo[t]` is what
a thread still has to do to the store after the check it based it on.  What is
left of a list after a removal (`Keeping`) is the list over the indices that
stay, in their order.

What a message meets is the code's gate, `is_trusted`: anybody on record,
pending or confirmed, is let in (`Take`); a request of somebody who is no
friend puts the requester on record as pending and is held (`Hold`, `DoHold`),
or makes a friend at once if our user had asked too (`Mutual`).  The file offer
of a room is appended whatever its author's record and without a look at its
mid (`Post`).  Records come by `Accept`, by every other way to confirm
(`Confirm`) and by `DoHold`; they go by `Unfriend` (`_do_unfriend`, which then
clears the chat), and by `Reject` and `Withdraw`, which call `unfriend` alone
and clear nothing.  A change of a record with its two saves is one step here,
and in `Accept` and `Reject` so is the release of the held messages:
`Friendship` has them apart.  `Withdraw`, `Confirm` and `Mark` run on any
thread.

`again`, `left` and `gone` are history: the messages which the check of
`_seen_mids` cannot catch (two copies past it at once, a post, or a restart in
between); those that may outlast their peer's record, listed at
`RemovedIsForgotten`; and what was removed since the start.

### HttpApi, HttpApiProofs

`at[w]` is where a connection is: on the accepting thread (`handshake`, or
`mute` if the client will never complete it), with a worker (`reading`, or
`slow` if the request will never be complete), past the test for blocked
clients (`auth`), at the throttle (`send`), streaming a file, or answered
(`done`).  `sends` and `failures` are the lists of time stamps, counted per
instant; `passed` and `guesses` what they are to bound. `job[c]` is the command
a client of the control channel has under way: a start binds, maybe after
retries, and saves the setting; a stop clears the reference, waits for the
accepting thread, closes and saves.

## 4. Runs

| Run | Checks | Instance |
|---|---|---|
| `transport_hi` | `TypeOK`, `SlotHasReader`, `HoldDrained`, `AtMostOnce`, `WrittenInOrder`, `LiveSocketKept` | 3 sockets, an accept and a message from Hi, 1 disturbance, 1 deferred |
| `transport_lo` | `ImplementsLink`, `HeldIsWritten`, `Converges` | 2 sockets, a message and a control payload from Lo, 1 disturbance, fair |
| `transport_flush` | `FlushKeepsRest` is violated | 2 sockets, 3 messages |
| `friend_all` | `TypeOK`, `ConsentStands`, `RestartKeeps` | all six commands, 3 in all, 1 request message, 2 faults; only one side accepts requests |
| `friend_live` | `BothConsented`, `AcceptCompletes` | request, accept; 4 commands in all, no fault, fair |
| `udp_seen` | `HonouredOnce`, `GenuineAccepted` | 2 packets, validity 2, slack 1, clock to 7, 2 faults |
| `rooms` | `TypeOK`, `InvitedOnly`, `InvitationStands`, `CopiesAgree` | 2 members, all commands, 3 of the owner and 2 of the members, 1 fault |
| `room_posts` | `ShownOnce`, `EverybodyHears`, `RemovedIsUnheard` | 3 hosts, 2 texts and an offer, 1 change of the roster, 1 broken connection |
| `downloads` | `WithinLimits`, `SavedIsWhole`, `PartsAccounted`, `SlotsKept` | 3 offers of 2 peers under 2 names, one clicked twice, 2 Saves handled at a time, 1 change of the settings, fault or restart |
| `download_shared` | `SavedStaysWhole` is violated | the same, nothing disturbed |
| `history` | `TypeOK`, `NotTwice`, `DeletedStaysDeleted`, `RemovedIsForgotten`, `FileFollows` | 2 peers; a request delivered twice, an ordinary message, a room's post and one of our user's; 1 reader and the user's thread, limit 2, 2 commands, 2 faults |
| `http` | `SlotsCounted`, `SendsBounded`, `GuessesBounded`, `SwitchHolds`, `SlotsReturn`, `CommandsEnd` | 2 connections, 2 workers, 2 panels, 2 commands, 2 instants, 1 fault, fair |

**Bounds.**  Three sockets let an active, a standby and a half-open socket
exist together; two already give every crossing of dials.  `DeferMax` stands
for 64 and is reached with one or two messages.  Two payloads are enough for an
overtaking, three for a flush that loses one behind the failure.  One
disturbance is one broken link, failing reader, expiry or offline switch in
addition to every failure the tie-break itself causes by closing sockets.  The
runs stop checking deadlock because a bounded instance stops when all payloads
are sent.

Three commands are a request, its acceptance and its end, or two requests and
an end, which is where stale intents come from; the four of `friend_live` are a
request and an acceptance of each.  A fault is a lost or unsent packet, a write
that fails or a restart, so that two are a failed write and the restart after
it, or a restart between the two writes and another.  `MaxHeld` stands for the
per-peer cap; what happens at the caps is in `History`.  Here too an instance
stops when the users have given their commands.

`UdpSeen`: a clock of 7 is several validities with their slack, so a packet is
honoured, pruned and delivered again; two faults make a failed save and the
restart after it.  `Rooms`: three commands are invite, remove, invite again,
with a member's join or leave crossing them; two members are one that a message
is about and one that hears of it.  `RoomPosts`: a roster that changes once
under each fan-out.  `Downloads`: the budget of 3 has room for the first two
files but not for the first and the third, the setting 4 raises it to 6; two
downloads in all and one per peer; the second click comes after a failure, a
purge or a save, or while the file of the failed one is yet to be removed; with
two clients a Save can cross another's failing request.  `History`: a limit of
2 for four messages; the request is the one delivered twice, since it can be
held, released and appended; `MaxCommand` counts the user's commands, the marks
and the ends of the handshake, and the records start as any, so that two are an
unfriend and a send, or a rejection and an acceptance; a failed save and a
restart are two faults.  `HttpApi`: as many connections as workers fill the
cap, and a slot that is not given back shows as a wrong count at once; a window
of one instant in two of them slides once; two commands are a start and a stop
that cross.

**Fairness** (`Fairness`).  Threads of a live daemon run: weak fairness for the
readers, for starting a dial and for what follows a connection.  A dial may
fail any number of times while the peer is unreachable, but not for ever when
it is reachable: strong fairness for `DialConnect`, in both directions.
Writing, failing, expiring and the online switch are never forced.

In `Friendship` the threads that are at work go on (weak fairness), and a
packet that is not lost is taken by its thread in the end although the thread
may be busy with others (strong fairness for `HandleAccept`: `_udp_listener`
reads its socket in a loop).  No user need do anything, and nothing must get
lost.

In `HttpApi` every wait of the threads has a deadline: the handshake
(`HANDSHAKE_TIMEOUT_S`), the reading of the request (the deadline of
`_RequestReader`), each write of an answer (the socket's timeout), the end of
the accepting loop.  So weak fairness for each connection's and each command's
next step is what the code provides; that a client completes a handshake or a
request is never assumed, since these states also have the deadline's step.

## 5. What the code does not do

1. `transport_flush`: after a failure in the middle of a flush, only the
   failing payload is kept; "keep the rest for the next reconnect" is not what
   happens.
2. `download_shared`: `_dl_finish` takes the entry out of the table and lets go
   of `dl_lock` before it closes, hashes and renames `.part`.  Another download
   of a file of the same name (the path is `downloadDir` and the name) opens
   the same `.part` for writing and empties it: before the rename the verified
   bytes are gone, after it the saved file itself is overwritten through the
   open handle.

Behaviours of the same models that no run states as a property:

* A dial in flight when the user goes offline is adopted after
  `_drop_all_conns` (`GoOffline`, then `DialConnect` and `DialAdopt`).
* A refused standby socket is never promoted; if the other side alone can dial,
  held messages can stay held while a socket is up.  `HeldIsWritten` needs the
  fairness of both directions.
* A request leaves before its intent is recorded, so two requests that cross
  early enough find no intent on either side and make no friendship.
* Killed between the two writes of `add_friend`, the ledger never learns of the
  friend; nothing at boot copies the configuration into it.
* A proof that comes late can let an old socket of the keeper displace the
  socket both sides already agreed on; `Converges` says that this repairs
  itself.
* The hold is flushed as soon as the dialer adopts its socket, which is before
  the acceptor has its proof; a hold of more than `DEFERRED_MAX_MSGS` payloads
  gets a genuine peer dropped (`ReadTooEarly`).
* A cancel that crosses the accept: the requester has dropped its intent and
  refuses the accept; the accepter keeps a confirmed friend, since a cancel
  never removes one.
* `_unfriend_if_unconfirmed` decides on a record it read without the lock, and
  removes a friend the user has accepted meanwhile.
* A handler that has tested the intent adds the friend although the user has
  cancelled, rejected or unfriended meanwhile (`overlap`).
* Killed between the two writes of `unfriend`, the next start brings the friend
  back from the ledger; so it does when the write of the ledger failed, which
  nobody is told.  A write of the configuration that failed brings the friend
  back too, unless another command saves it before the restart.
* The ledger repairs a friend the configuration does not have, not one it has
  as pending: `setFriend` for a peer that had sent a request message, with the
  save of the configuration failed and the ledger written, leaves a pending
  record after a restart, although `server.py` 955-957 says that the ledger
  keeps a slipped write from costing the friend.
* A reader whose handler raises empties the slot of a working socket: the
  peer's end stays its active socket until it learns of the close.
* The mutual auto-accept reveals `pending_sent`, which is always empty, and not
  `pending_first`: what was held stays held.
* A nonce is forgotten while its packet is good when a save failed or the file
  was damaged before a restart, when the clock is set back over a pruned entry,
  and when an entry expires while a copy is being verified.
* An invitation is written before its ticket is recorded: a join that comes
  back at once is refused, while the invitation stands and a second join
  succeeds.
* A member that misses the message of its removal, or a snapshot, keeps its
  copy until the owner sends it another; to a removed one it sends none
  (`missed`).
* A removal that comes between a ticket's use and the admission is undone; a
  removal between an invitation's frame and its ticket leaves the ticket.
* The owner's broadcast of a member's file offer goes to its author too, who
  has already shown it (`rooms.py` 771 says that it does not).
* A fan-out that iterates the owner's roster while it changes raises
  `RuntimeError`: the rest of the members get nothing, and the thread ends.
* A text of a new member that overtakes the snapshot with its name is dropped.
  A text to a member who is no friend is held for ever.
* The bytes of downloads whose sender declares no total come on top of the
  budget, and each chunk renews the time such a sender has to declare one.
* A purged, aborted or interrupted download is not reported to the panel; a
  retry while the old stream still runs mixes two streams, which the digest
  then refuses.
* A begin that is refused for its size has already emptied, and then removes,
  the `.part` file of an active download of the same name.
* A transfer that failed removes its `.part` file after `_dl_finish` has let go
  of the lock: a retry that begins in between loses its file, and ends as a
  mismatch or an error.
* Lowering the downloads per peer lets those that run finish, so there can be
  more of them than the setting; `SlotsKept` says that none is added then.
* `_seen_mids` is empty after a restart, so a message delivered again is
  appended again.
* A history file that cannot be read loads as empty, and the next save
  overwrites it.
* A message whose sender was still on record when it was checked can be
  appended after the chat was cleared.
* A pending peer's ordinary messages are stored: `is_trusted` asks for a
  record, confirmed or not.  `rejectFriend` and a withdrawn request remove the
  record and leave what was stored; so do a lost save and a restart before the
  clear.
* What our user writes to somebody without a record, and a room's file offer
  from such a one, is stored with nobody to unfriend.
* A worker slot is lost for ever when no thread can be started for a connection
  (`SpawnFails`).
* Two crossing `setHttp` commands can leave the setting and the server
  different; a start that fails still saves `httpEnabled`.

## 6. Proofs

Every safety property of the passing runs is proved for every value of the
constants, and so is the refinement; liveness is only model-checked (see the
end of this section).

`TransportProofs` proves for every value of the constants

* `TypeCorrect`: `Spec => []TypeOK`;
* `SlotCorrect`: `Spec => [](SlotHasReader /\ HoldDrained)`;
* `HoldCorrect`: `Spec => []HoldDrained`.

The last two are not inductive.  A slot could point to a socket without a
reader if a socket that is about to be adopted were closed or already read by
somebody, or if the reader of the active socket could end without emptying the
slot.  The inductive invariant `SlotInv` therefore adds that the slot's end was
not closed by us (`SlotEndOpen`), that a connected socket not yet offered is
open and has no reader (`FreshUnread`), and that a socket whose peer is not
proved is closed only by its own reader (`UnprovenOpen`).  The adoption is one
lemma (`AdoptStep`), used by the dialing and the accepting side alike; closing
and dropping are two more, and every action is one step of `SlotStep`.  The run
`transport_hi` checks the same formulas on an instance.

Its second part goes on from there to the payloads:

* `OrderCorrect`: `Spec => []WrittenInOrder`;
* `SocketKept`: `Spec => LiveSocketKept`;
* `DeliveredOnce`: `Spec => []AtMostOnce`;
* `Implements`: `Spec => ImplementsLink`.

Order needs that the hold is ascending and never ahead of what was asked for,
and that `sent_mids` remembers only what was written (`HoldOrdered`).  That a
live socket is given up only for the keeper's needs to know who dialed what
(`DialerInv`); it excepts an expiry, the offline switch and the failing reader
of this very socket, not that of another.  Arrival at most once is the
statement that a payload is in one place at a time, `OnePlace`: on one wire, or
in one queue of deferred frames, or handed to the dispatcher; `Once` says that
none of these holds it twice. What a step can do to the payloads of a host
falls into a few cases (nothing, dropped, deferred, arrived, written, released
from the hold), and each action is shown to be one of them for one host
(`StepMoves`).  The refinement takes the same cases one by one: each is a step
of `MessageLink` or a stutter under `StageOf`.

`FriendshipProofs` proves, for every bound and every set of commands,

* `TypeCorrect`: `Spec => []TypeOK`;
* `ConsentCorrect`: `Spec => []ConsentStands`;
* `RestartCorrect`: `Spec => RestartKeeps`;
* `BothCorrect`: `Spec => []BothConsented`, where the users only request and
  accept and no earlier release sends its request as a message, which is the
  case the property is about.

The first three share one invariant.  `ConsentStands` speaks of confirmed
records only; what makes it inductive (`ConsentInv`) is that without the user's
consent there is also no intent and no thread on its way to add the friend, and
that a reject or unfriend not overlapped by a confirmation leaves neither a
friend nor, at its end, an intent (`Withdrawn`).  `RestartKeeps` needs that
memory and a configuration that missed no write agree, that `config_lock` is
held exactly between the two writes, what memory says there, and that a ledger
that missed none holds every friend and nobody put out (`RecordInv`).  The
theorem covers a restart at any point, after any number of failed writes, and
one that finds the configuration lost; what it excepts is said in the formula:
a file that missed a write, and a pending record still in the configuration,
which hides the friend in the ledger. `JobsFit` says which steps belong to
which work.  A step of one host is first shown to move at most one thread
(`StepMoves`) and to leave the other host alone (`OtherStays`); then each
invariant has one step per action. `BothCorrect` adds to it what each packet,
frame and job says of the users: a request that its sender asked; an accept, or
a thread at work on a friend, that both did (`BothInv`).

`UdpSeenProofs` proves, for every set of packets, validity, slack and clock,

* `TypeCorrect`: `Spec => []TypeOK`;
* `OnceCorrect`: `Spec => []HonouredOnce`;
* `GenuineCorrect`: `Spec => []GenuineAccepted`.

`HonouredOnce` needs that a packet honoured and not forgotten is remembered as
long as its window can be good: it is known, or it has expired with its slack
and the clock has not been set back since (`Remembered`); and that a packet
past the window test is one that was sent (`CheckedIsKnown`, `OnlySent`),
because between the test and the question the clock may pass its expiry.
`GenuineAccepted` needs how far the signed instant and the clock can be from
the instant of sending (`GenuineInv`).

`RoomsProofs` proves, for every set of members and commands and every bound,

* `TypeCorrect`: `Spec => []TypeOK`, where each frame, ask and job is typed;
* `InvitedCorrect`: `Spec => []InvitedOnly`;
* `InvitationCorrect`: `Spec => []InvitationStands`;
* `CopiesCorrect`: `Spec => []CopiesAgree`.

The two in the middle speak of `UnderWay`, the peers that some thread is about
to give a ticket or to admit.  How a step of one thread changes that set is a
lemma of its own, cited by every action; the inductive invariant `RosterInv` is
the conjunction of the two and rests on the type invariant, which says of each
job which peer it is about.

`CopiesAgree` speaks of quiet states only; `CopyInv` says for every state why a
copy will be right.  A copy, a frame or a job with the room's own sequence
number is the room (`CurrentInv`).  For a member who missed nothing, a thread
is on its way to send the room as it is (`Coming`), or the last snapshot among
its copy and its frames is the room and no removal follows (`Settled`).  For
anybody else, a thread is about to tell them (`ToBeTold`), or each snapshot
that lists them is followed by a removal or a later snapshot that does not
(`Unclaimed`), or, after the room is gone, a removal ends what they have
(`Dead`).  The proof showed that the first form of `CopiesAgree` said less than
the code keeps, and the property was made stronger: equality with the room.

`RoomPostsProofs` proves, for all hosts, friendships and posts and every bound,

* `ShownCorrect`: `Spec => []ShownOnce`;
* `RemovedCorrect`: `Spec => []RemovedIsUnheard`;
* `HearCorrect`: `Spec => []EverybodyHears`.

A post on its way to a host is in one place: with the author of an offer on the
wire to the owner, in a fan-out that has not written to the host, on a wire to
it, or held for it (`OnceInv`); and wherever it is, it came by its one route
(`HomeInv`).  A removed member stays unlisted until the owner admits it
(`Unlisted`), since rosters change by the owner's snapshots only
(`NewsFromChanges`), and what a host shows comes from someone it lists
(`ShownBy`).  For `EverybodyHears`, the copies of the steady members, and the
snapshots on their way to them, all contain the steady members (`SteadyInv`),
so that their checks let each other's posts pass and their fan-outs write to
each other; what is held is held for want of a socket (`WireInv`); and a post
that is owed is shown, missed, or in one of the places above (`HearInv`).  What
happens to it there is a lemma for each (`WireFate`, `HoldFate`, `FanFate`).
The first version of `outsider` counted the owner's posts too; the invariant
failed for them (an owner alone in its room writes, and admits somebody
meanwhile), and TLC found the state once the roster could change three times.

`HistoryProofs` proves, for all peers, messages and commands and every bound,

* `TypeCorrect`: `Spec => []TypeOK`;
* `ShownOnce`: `Spec => []NotTwice`;
* `DeletionLasts`: `Spec => []DeletedStaysDeleted`;
* `RemovalForgets`: `Spec => []RemovedIsForgotten`;
* `FileIsStore`: `Spec => []FileFollows`.

The invariant (`HistoryInv`) places each message that escaped no check: on its
way in one thread, held once, or in the store or removed from it, and then
remembered in `_seen_mids` (`Apart`, `Remembered`); and what is stored, or
about to be, is of a peer on record or of one whose chat is about to be cleared
(`Trusted`), unless it is one of those that may stay (`left`).  Every change of
the store leaves a part of it, or a part with one message more at the end; what
such a part inherits is a lemma (`PartOf`).

`HttpApiProofs` proves, for every set of connections and panels and every
limit,

* `SlotsCorrect`: `Spec => []SlotsCounted`;
* `SwitchCorrect`: `Spec => []SwitchHolds`;
* `SendsCorrect`: `Spec => []SendsBounded`;
* `GuessesCorrect`: `Spec => []GuessesBounded`.

The first is inductive with the types; each action takes a slot, passes it on
or gives it back, and there is a lemma for each (`TakesSlot`, `KeepsSlot`,
`GivesBack`) over one about the number of connections (`LiveMoves`).  It needs
that the connections are finitely many (`ConnsFinite`).  The second is not
inductive: a close could take down a server that another command has bound
meanwhile, and a setting could be saved for a server that is no longer there.
`SwitchInv` adds that one command at most is closing, and then nothing else is
bound (`ClosesAlone`), and that as long as no commands cross, the one under way
finds the server as it left it (`Prompt`).

The two windows are sums over instants.  The library defines such a sum by a
recursive function over the parts of the set, with the next element chosen; it
has no theorems about it, so the module proves the ones it needs (`SumEmpty`,
`SumAny`, `SumType`, `SumLess`, `SumWithin`, `SumSame`, `SumMore`, `SumZero`),
each by a smallest counterexample among the parts of a finite set (`Smallest`).
The sends are bounded because the bucket holds exactly what was let through in
the last window (`Remembered`).  For the wrong tokens that is not so: a failure
over the limit is compared and not entered.  `Covered` says that each token
compared in a window was entered in it, or came while the window was full: at
the start of the window, or after one of its entries, for the workers that are
past the test at the time, of whom there are fewer than `MaxWorkers`
(`PastTest`); the workers that are still past it count as if they had compared
theirs.

`DownloadsProofs` proves, for every set of offers, sizes, limits and settings,

* `LimitsCorrect`: `Spec => []WithinLimits`;
* `SlotsCorrect`: `Spec => SlotsKept`;
* `PartsCorrect`: `Spec => []PartsAccounted`;
* `SavedCorrect`: `Spec => []SavedIsWhole`.

The budget needs the sum over all offers of what each is promised, which grows
only where a claim was tested against what is reserved, and what is reserved is
never less than what is promised (`SumsNat`, `ReservedIs`); it needs no more
than that the entries keep to their caps and that the budget never shrinks
(`Within`).  The sums are taken apart at the one entry that changes, with the
lemmas that the windows needed (`SumAny`, `SumLess`), and one more (`SumPart`).

A step of a download changes a table, two sets of paths and the disk at once.
The invariant about the files, `Sound`, is therefore stated of any tables and
paths, and there is a lemma for each way they can change: a download opens a
`.part` file, ends, is verified, renamed, loses its file, writes (`Opens`,
`Ends`, `Verifies`, `Renames`, `Loses`, `Writes`); an action is one of these or
several in a row (`Begin` purges, empties or creates, and opens).  What
`PartsAccounted` and `SavedIsWhole` need beyond themselves: no inode serves two
names (`OwnInodes`); a name that was never shared has one download at a time
(`Alone`), which does not write to the saved file (`Apart`); and what has been
verified is still whole when it is renamed (`StillWhole`).  That a new file
gets an inode nobody uses is counted out (`InodeFree`): it holds because the
one download that could need it has none yet, or has that of its `.part` file
(`Openable`).

Assumptions: those named in the modules (distinct hosts, bounds are naturals,
positive validity, known commands, finitely many connections and offers). Only
model-checked: the liveness properties (`Converges`, `HeldIsWritten`,
`AcceptCompletes`, `SlotsReturn`, `CommandsEnd`), whose fairness is about
ENABLED and out of the prover's reach.  The two runs that expect a violation
state what the code does not keep.

## 7. Not modelled

TLS and certificates are taken as given: a dialed socket belongs to the peer
dialed, a valid proof comes from the peer.  Partial frames are left out, and of
the size of frames all but the reader that ends over `MAX_FRAME_BUF`.  Reading
the configuration and the ledger succeeds in `Friendship` and `History`: their
writes are what may fail.  In `Friendship` the signature, the validity window
and the replay memory are left out (a packet counts once, from the host it
names: see `UdpSeen`), as are bytes held, names and addresses, visibility
modes, and the history an unfriend clears (see `History`); commands come one at
a time though several control clients could send them at once.

`Rooms` and `RoomPosts` take the sender of a frame as given (the reader proves
it) and leave out names, palettes, permissions of particular commands in the
panel, and the delivery reports of files.  `Downloads` leaves out free disk
space (a refusal may always happen), the settings file and the sender's
registry; `History` leaves out encryption and pages; `HttpApi` the content of
requests.  Discovery, the inbound slots, the identity's cryptography, the
control channel, set-up and update, names, and the user interface have no
module: `PROJECT.json` gives the reason for each.
