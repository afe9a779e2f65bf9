----------------------------- MODULE Downloads -----------------------------
(***************************************************************************)
(* The receiving side of the attachment transfer (attachments.py), and the *)
(* limits it keeps.                                                        *)
(*                                                                         *)
(* The threads of the user's clients begin downloads; the reader of each   *)
(* peer's socket takes the chunks and ends.  The table of downloads is     *)
(* changed under dl_lock; closing, hashing, renaming and removing the file *)
(* of a download that ended or failed happens after the lock is released.  *)
(*                                                                         *)
(* A chunk is one unit of size.  Files on disk are inodes, because a       *)
(* handle writes to the inode it opened whatever its path is renamed to.   *)
(***************************************************************************)
EXTENDS Integers, Sequences, FiniteSets, Functions

CONSTANTS
  Files,        \* the attachments offered to this user (file ids)
  Peer, Name,   \* Peer[f] sends f; Name[f] is the path it is saved to
  Meta,         \* Meta[f]: size in the offering message, 0 if none
  Size,         \* Size[f]: chunks the sender streams
  Silent,       \* files of which a chunk may carry no total
  FileMax,      \* ATT_MAX_BYTES at the start
  Budget,       \* ATT_MAX_RESERVED_BYTES at the start
  HardMax,      \* ATT_LIMIT_HARD_MAX
  PerPeer,      \* ATT_MAX_PER_PEER at the start
  PerPeerMax,   \* ATT_MAX_PER_PEER_MAX
  Concurrent,   \* ATT_MAX_CONCURRENT
  Settings,     \* the values the user gives a limit in the settings
  Clients,      \* bound: Saves handled at a time
  MaxSave,      \* bound: clicks on Save, per file
  MaxDisturbance \* bound: changes of the settings, lost chunks, broken streams,
                 \* disk trouble, restarts

ASSUME SizesAreNat ==
  /\ Meta \in [Files -> Nat] /\ Size \in [Files -> Nat] /\ Silent \subseteq Files
  /\ \A n \in {FileMax, Budget, HardMax, PerPeer, PerPeerMax, Concurrent, Clients,
               MaxDisturbance} : n \in Nat
  /\ MaxSave \in [Files -> Nat]
  /\ Settings \subseteq Nat \ {0}
ASSUME OffersFinite == IsFiniteSet(Files) /\ DOMAIN Name = Files
ASSUME LimitsFit == FileMax <= Budget /\ Budget <= HardMax

Names == Range(Name)
Saves(f) == 1..MaxSave[f]

VARIABLES
  limits,    \* per-file ceiling, aggregate budget, downloads per peer
  dl,        \* _dl: a function on the active downloads
  asking,    \* Saves <<f, k>> begun whose attachmentRequest is not yet written
  giving,    \* Saves whose request failed, with the .part file still to remove
  fin,       \* downloads a reader took out of the table, their file not dealt with:
             \* a function to "ended", "whole" or "failed"
  stream,    \* stream[f][k]: chunks sent for the k-th Save of f, or Off
  part,      \* part[n]: the inode of n.part, or NoFile
  saved,     \* saved[n]: the inode of n, or NoFile
  content,   \* content[i]: the chunks in inode i (a function on the used inodes)
  clicks,    \* clicks[f]: how often the user asked for f
  shared,    \* history: names whose .part was opened while another download used it
  orphan,    \* history: .part files left behind by a restart
  disturbances

vars == <<limits, dl, asking, giving, fin, stream, part, saved, content, clicks, shared,
          orphan, disturbances>>

Off == -1
NoFile == 0
Hole == <<"hole", 0>>
Whole(f) == [k \in 1..Size[f] |-> <<f, k>>]
Active == DOMAIN dl
Finishing == DOMAIN fin
GivingUp == {f \in Files : \E k \in Saves(f) : <<f, k>> \in giving}

Put(fun, x, v) == [y \in DOMAIN fun \union {x} |-> IF y = x THEN v ELSE fun[y]]
Drop(fun, S) == Restrict(fun, DOMAIN fun \ S)
Without(paths, S) == [n \in Names |-> IF n \in S THEN NoFile ELSE paths[n]]
NamesOf(S) == {Name[f] : f \in S}
SumOf(value, S) == FoldFunctionOnSet(+, 0, value, S)

(* Inodes with a path or an open handle; nothing is kept of any other.     *)
Used == (Range(part) \union Range(saved) \union {dl[f].inode : f \in Active}) \ {NoFile}
Inodes == 1..(2 * Cardinality(Names) + Cardinality(Files))
NewInode == CHOOSE i \in Inodes : i \notin Used
Disk(c) == content' = Restrict(c, Used' \intersect DOMAIN c)

Init ==
  /\ limits = [file |-> FileMax, budget |-> Budget, slots |-> PerPeer]
  /\ dl = <<>> /\ fin = <<>> /\ content = <<>>
  /\ asking = {} /\ giving = {}
  /\ stream = [f \in Files |-> [k \in Saves(f) |-> Off]]
  /\ part = [n \in Names |-> NoFile]
  /\ saved = [n \in Names |-> NoFile]
  /\ clicks = [f \in Files |-> 0]
  /\ shared = {} /\ orphan = {}
  /\ disturbances = 0

Disturb == disturbances < MaxDisturbance /\ disturbances' = disturbances + 1

----------------------------------------------------------------------------
(* Limits.                                                                 *)

(* _reserved_bytes_locked: the declared total, else the bytes written.     *)
Claim(d) == IF d.total > 0 THEN d.total ELSE d.written
Reserved(table) ==
  SumOf([f \in DOMAIN table |-> Claim(table[f])], DOMAIN table)

(* Mutant: what is already promised is not counted.                        *)
Fits_FirstOnly(reserved, need, cap) == need <= cap /\ need <= limits.budget

(* _fits_reservation, but for the free space of the disk.                  *)
Fits(reserved, need, cap) == need <= cap /\ reserved + need <= limits.budget

(* setAttachmentMax: raising the ceiling past the budget raises the budget.*)
SetFileMax(want) ==
  LET wanted == IF want > limits.budget
                THEN IF 2 * want < HardMax THEN 2 * want ELSE HardMax ELSE limits.budget
  IN  limits' = [limits EXCEPT !.budget = wanted,
                               !.file = IF want < wanted THEN want ELSE wanted]

(* setPerPeerDownloads: likewise for the slots of one peer.                *)
SetSlots(want) ==
  LET need == want * limits.file
      wanted == IF need > limits.budget
                THEN IF need < HardMax THEN need ELSE HardMax ELSE limits.budget
      most == IF PerPeerMax < Concurrent THEN PerPeerMax ELSE Concurrent
  IN  limits' = [limits EXCEPT !.budget = wanted,
                               !.slots = IF want < most THEN want ELSE most]

Configure(want) ==
  /\ Disturb
  /\ SetFileMax(want) \/ SetSlots(want)
  /\ UNCHANGED <<dl, asking, giving, fin, stream, part, saved, content, clicks,
                 shared, orphan>>

----------------------------------------------------------------------------
(* Beginning a download: _dl_begin under dl_lock.                          *)

(* Downloads without a chunk for _DL_TTL_S are purged first, files and all.*)
Stale == {f \in Active : dl[f].stale}
Live == Drop(dl, Stale)

(* Mutant: the purge forgets the file.                                     *)
Swept_KeepsPart == part
Swept == Without(part, NamesOf(Stale))

(* Mutant: a peer's own downloads are not counted.                         *)
Busy_AllOnly(f) == Cardinality(DOMAIN Live) >= Concurrent

Busy(f) == \/ Cardinality({g \in DOMAIN Live : Peer[g] = Peer[f]}) >= limits.slots
           \/ Cardinality(DOMAIN Live) >= Concurrent

(* The user clicks Save; every client has a thread of its own.             *)
Click(f) ==
  /\ Cardinality(asking \union giving) < Clients
  /\ clicks[f] < MaxSave[f]
  /\ clicks' = [clicks EXCEPT ![f] = @ + 1]
  /\ UNCHANGED <<limits, giving, fin, stream, saved>>

(* Others that use the .part file this download is about to open.          *)
Users(f) ==
  {g \in Finishing \union GivingUp \union DOMAIN Live : Name[g] = Name[f]}
Opened(f) ==
  /\ shared' = IF Users(f) = {} THEN shared ELSE shared \union {Name[f]}
  /\ orphan' = orphan \ (NamesOf(Stale) \union {Name[f]})

RefuseBusy(f) ==
  /\ Click(f)
  /\ Busy(f)
  /\ dl' = Live
  /\ part' = Swept
  /\ orphan' = orphan \ NamesOf(Stale)
  /\ Disk(content)
  /\ UNCHANGED <<asking, shared, disturbances>>

(* The claim tested at the beginning: the declared size, else the worst    *)
(* case the disk has room for.                                             *)
Claims(f) == IF Meta[f] > 0 THEN {Meta[f]} ELSE 0..limits.file

(* Refused for its size, the budget or the disk: the .part file has been   *)
(* opened (and emptied) by then, and is removed.                           *)
RefuseCapacity(f) ==
  /\ Click(f)
  /\ ~Busy(f)
  /\ \/ UNCHANGED disturbances /\ \E need \in Claims(f) : ~Fits(Reserved(Live), need, limits.file)
     \/ Disturb
  /\ dl' = Live
  /\ part' = Without(Swept, {Name[f]})
  /\ Opened(f)
  /\ Disk(IF Swept[Name[f]] = NoFile THEN content ELSE [content EXCEPT ![Swept[Name[f]]] = <<>>])
  /\ UNCHANGED asking

(* Begun: the .part file is created, or emptied if there is one.           *)
Begin(f) ==
  /\ Click(f)
  /\ ~Busy(f)
  /\ \E need \in Claims(f) : Fits(Reserved(Live), need, limits.file)
  /\ LET i == IF Swept[Name[f]] = NoFile THEN NewInode ELSE Swept[Name[f]]
     IN  /\ dl' = Put(Live, f, [inode |-> i, total |-> Meta[f], written |-> 0,
                                cap |-> limits.file, stale |-> FALSE])
         /\ part' = [Swept EXCEPT ![Name[f]] = i]
         /\ Disk(Put(content, i, <<>>))
  /\ Opened(f)
  /\ asking' = asking \union {<<f, clicks'[f]>>}
  /\ UNCHANGED disturbances

(* acceptAttachment asks the sender, who starts to stream; with no socket  *)
(* the download, if it is still in the table, is taken out under the lock  *)
(* and its .part file removed without it.                                  *)
Request(f, k) ==
  /\ <<f, k>> \in asking
  /\ asking' = asking \ {<<f, k>>}
  /\ stream' = [stream EXCEPT ![f][k] = 0]
  /\ UNCHANGED <<limits, dl, giving, fin, part, saved, content, clicks, shared,
                 orphan, disturbances>>
RequestFails(f, k) ==
  /\ <<f, k>> \in asking
  /\ Disturb
  /\ asking' = asking \ {<<f, k>>}
  /\ dl' = Drop(dl, {f})
  /\ giving' = IF f \in Active THEN giving \union {<<f, k>>} ELSE giving
  /\ UNCHANGED <<limits, fin, stream, part, saved, clicks, shared, orphan>>
  /\ Disk(content)
GiveUp(f, k) ==
  /\ <<f, k>> \in giving
  /\ giving' = giving \ {<<f, k>>}
  /\ part' = Without(part, {Name[f]})
  /\ UNCHANGED <<limits, dl, asking, fin, stream, saved, clicks, shared, orphan,
                 disturbances>>
  /\ Disk(content)

(* No chunk of f for _DL_TTL_S.                                            *)
Stall(f) ==
  /\ f \in Active
  /\ ~dl[f].stale
  /\ dl' = [dl EXCEPT ![f].stale = TRUE]
  /\ UNCHANGED <<limits, asking, giving, fin, stream, part, saved, content, clicks,
                 shared, orphan, disturbances>>

----------------------------------------------------------------------------
(* The streams: each reader handles one frame after the other.             *)

ReaderFree(f) == \A g \in Finishing : Peer[g] # Peer[f]
Streams(f, k) == stream[f][k] # Off /\ ReaderFree(f)
Advance(f, k) == stream' = [stream EXCEPT ![f][k] = @ + 1]
Stop(f, k) == stream' = [stream EXCEPT ![f][k] = Off]

(* _dl_abort_locked.                                                       *)
Abort(f) ==
  /\ dl' = Drop(dl, {f})
  /\ part' = Without(part, {Name[f]})
  /\ UNCHANGED saved
  /\ Disk(content)

(* Writing at the handle's position, whatever the inode holds by now.      *)
Written(c, at, chunk) ==
  [k \in 1..(IF Len(c) > at THEN Len(c) ELSE at + 1) |->
     IF k = at + 1 THEN chunk ELSE IF k <= Len(c) THEN c[k] ELSE Hole]

Totals(f) == IF f \in Silent THEN {0, Size[f]} ELSE {Size[f]}

(* The chunk breaks the deal: its total is over the ceiling, differs from  *)
(* the one declared or does not fit when first declared; or the bytes go   *)
(* over the ceiling or the total.                                          *)
Breaks(f, total) ==
  LET d == dl[f]
      bound == IF total > 0 THEN total ELSE d.total
  IN  \/ total > d.cap
      \/ total > 0 /\ d.total > 0 /\ total # d.total
      \/ total > 0 /\ d.total = 0 /\ ~Fits(Reserved(dl) - d.written, total, d.cap)
      \/ d.written + 1 > d.cap
      \/ bound > 0 /\ d.written + 1 > bound

(* _dl_chunk.  A chunk may come too late for a download without a total;   *)
(* the disk may be full or unreadable.                                     *)
Chunk(f, k) ==
  /\ Streams(f, k)
  /\ stream[f][k] < Size[f]
  /\ Advance(f, k)
  /\ \/ f \notin Active
        /\ UNCHANGED <<dl, part, saved, content, disturbances>>
     \/ f \in Active
        /\ \/ \E total \in Totals(f) : Breaks(f, total)
           \/ 0 \in Totals(f) /\ dl[f].total = 0
        /\ Abort(f)
        /\ UNCHANGED disturbances
     \/ f \in Active /\ Disturb
        /\ Abort(f)
     \/ \E total \in Totals(f) :
        /\ f \in Active
        /\ ~Breaks(f, total)
        /\ dl' = [dl EXCEPT ![f].written = @ + 1, ![f].stale = FALSE,
                            ![f].total = IF total > 0 THEN total ELSE @]
        /\ content' = [content EXCEPT ![dl[f].inode] =
                         Written(@, dl[f].written, <<f, stream[f][k] + 1>>)]
        /\ UNCHANGED <<part, saved, disturbances>>
  /\ UNCHANGED <<limits, asking, giving, fin, clicks, shared, orphan>>

(* A chunk written to a socket that is dying; a stream given up there.     *)
LoseChunk(f, k) ==
  /\ Disturb
  /\ stream[f][k] # Off /\ stream[f][k] < Size[f]
  /\ Advance(f, k) \/ Stop(f, k)
  /\ UNCHANGED <<limits, dl, asking, giving, fin, part, saved, content, clicks,
                 shared, orphan>>

(* _dl_finish takes the entry, if there is one, out under the lock.        *)
Finish(f, k, outcome) ==
  /\ Streams(f, k)
  /\ Stop(f, k)
  /\ UNCHANGED <<limits, asking, giving, part, saved, clicks, shared, orphan>>
  /\ IF f \in Active
     THEN /\ fin' = Put(fin, f, outcome)
          /\ dl' = Drop(dl, {f})
          /\ Disk(content)
     ELSE UNCHANGED <<dl, fin, content>>

(* attachmentEnd: with bytes missing the download fails.                   *)
Complete(f) == f \in Active /\ (dl[f].total > 0 => dl[f].written = dl[f].total)
End(f, k) ==
  /\ stream[f][k] = Size[f]
  /\ Finish(f, k, IF Complete(f) THEN "ended" ELSE "failed")
  /\ UNCHANGED disturbances

(* attachmentError: the sender cannot read the file, or no longer has it.  *)
Error(f, k) ==
  /\ Disturb
  /\ Finish(f, k, "failed")

(* Mutant: the digest is not compared.                                     *)
Good_Any(f) == part[Name[f]] # NoFile

(* Then, without the lock, whatever is at the path of a download that      *)
(* ended is hashed ...                                                     *)
Good(f) ==
  /\ part[Name[f]] # NoFile
  /\ content[part[Name[f]]] = Whole(f)
Verify(f) ==
  /\ f \in Finishing
  /\ fin[f] = "ended"
  /\ fin' = [fin EXCEPT ![f] = IF Good(f) THEN "whole" ELSE "failed"]
  /\ UNCHANGED <<limits, dl, asking, giving, stream, part, saved, content, clicks,
                 shared, orphan, disturbances>>

(* ... and renamed, or removed.                                            *)
Settle(f) ==
  /\ fin' = Drop(fin, {f})
  /\ part' = Without(part, {Name[f]})
  /\ UNCHANGED <<limits, dl, asking, giving, stream, clicks, shared, orphan,
                 disturbances>>
  /\ Disk(content)
Rename(f) ==
  /\ f \in Finishing
  /\ fin[f] = "whole"
  /\ saved' = IF part[Name[f]] = NoFile THEN saved
              ELSE [saved EXCEPT ![Name[f]] = part[Name[f]]]
  /\ Settle(f)
Remove(f) ==
  /\ f \in Finishing
  /\ fin[f] = "failed"
  /\ UNCHANGED saved
  /\ Settle(f)

(* The daemon is restarted: the table is gone, the .part files stay.       *)
Restart ==
  /\ Disturb
  /\ dl' = <<>> /\ fin' = <<>> /\ asking' = {} /\ giving' = {}
  /\ stream' = [f \in Files |-> [k \in Saves(f) |-> Off]]
  /\ orphan' = {n \in Names : part[n] # NoFile}
  /\ UNCHANGED <<part, saved>>
  /\ Disk(content)
  /\ UNCHANGED <<limits, clicks, shared>>

----------------------------------------------------------------------------
Next ==
  \/ \E want \in Settings : Configure(want)
  \/ \E f \in Files : \/ RefuseBusy(f) \/ RefuseCapacity(f) \/ Begin(f)
                      \/ Stall(f) \/ Verify(f) \/ Rename(f) \/ Remove(f)
  \/ \E f \in Files : \E k \in Saves(f) :
       \/ Request(f, k) \/ RequestFails(f, k) \/ GiveUp(f, k)
       \/ Chunk(f, k) \/ LoseChunk(f, k) \/ End(f, k) \/ Error(f, k)
  \/ Restart

Spec == Init /\ [][Next]_vars

----------------------------------------------------------------------------
(* The budget is never promised twice: the totals that were declared fit   *)
(* it, however begins, late declarations, retries, ends and changes of the *)
(* settings interleave; no download takes more than it was let in with;    *)
(* and there are never too many.  (Bytes of downloads that declare nothing *)
(* come on top: see the README.)                                           *)
Declared == {f \in Active : dl[f].total > 0}
WithinLimits ==
  /\ SumOf([f \in Declared |-> dl[f].total], Declared) <= limits.budget
  /\ \A f \in Active : dl[f].written <= dl[f].cap
  /\ Cardinality(Active) <= Concurrent
  /\ limits.file <= limits.budget

(* A peer's downloads never become more than the slots one peer has by     *)
(* then, whatever the purge, failed requests, ends and retries free and    *)
(* several clients take at a time (_dl_begin).  A lower setting lets those *)
(* that run finish.                                                        *)
FromPeer(p) == {f \in Active : Peer[f] = p}
SlotsKept ==
  [][\A p \in Range(Peer) :
       Cardinality(FromPeer(p)') > Cardinality(FromPeer(p))
         => Cardinality(FromPeer(p)') <= limits'.slots]_vars

(* A file at its final name is a whole file as it was sent, and stays so,  *)
(* unless two downloads used the same .part file at a time.                *)
SavedIsWhole ==
  \A n \in Names \ shared : saved[n] # NoFile =>
     \E f \in Files : Name[f] = n /\ content[saved[n]] = Whole(f)

(* Refused, aborted, purged and failed downloads leave no .part behind,    *)
(* and an active one keeps its own, again but for that sharing.            *)
PartsAccounted ==
  \A n \in Names \ shared :
     /\ part[n] # NoFile =>
          n \in orphan \union NamesOf(Active \union Finishing \union GivingUp)
     /\ \A f \in Active : Name[f] = n => part[n] = dl[f].inode

(* What the module's documentation says: it "verifies the sha256, and      *)
(* renames atomically".                                                    *)
SavedStaysWhole ==
  \A n \in Names : saved[n] # NoFile =>
     \E f \in Files : Name[f] = n /\ content[saved[n]] = Whole(f)
=============================================================================
