------------------------- MODULE ManualSftpReads -------------------------
(***************************************************************************)
(* What the manual SFTP service reads: downloads (DownloadManager),         *)
(* directory listings (ListingManager) and single questions (open, lstat,   *)
(* readlink, sha256), each on an SFTP channel of its own, while the session *)
(* may be closed, the remote file be rewritten and any answer be an error.  *)
(*                                                                          *)
(* A call is one request that the dispatcher admitted; it is a sequence of  *)
(* steps from one await to the next.  A request that is refused before its  *)
(* first await changes nothing and is not an action.                        *)
(***************************************************************************)
EXTENDS Naturals, Sequences

CONSTANTS
  Calls,        \* slots for requests in progress
  Operations,   \* identifiers the user interface gives to downloads
  Channels,     \* bound: channels opened in a behaviour, numbered from 1
  Size,         \* chunks of the remote file
  Batch,        \* LISTING_BATCH_SIZE
  MaxEntries,   \* MAX_DIRECTORY_ENTRIES
  MaxWrites,    \* bound: times another client rewrites the file
  None

ASSUME ReadsAssumption ==
  /\ Channels \in Nat /\ Size \in Nat /\ MaxEntries \in Nat /\ MaxWrites \in Nat
  /\ Batch \in Nat \ {0}
  /\ None \notin Operations \cup (1..Channels)

Leases == 1..Channels

VARIABLES
  phase,       \* of the service: running, stopping (the dispatcher drains), stopped
  session,     \* the SSH session: open, closing (not found any more), closed
  call,        \* the requests in progress
  lease,       \* SftpChannelLease with the state that it serves
  active,      \* DownloadManager._active
  finalized,   \* DownloadManager._finalized
  file,        \* version of the remote file; a rewrite shows in its metadata
  directory,   \* number of entries of the remote directory
  delivered,   \* chunks that the route let through, for each download (history)
  batches,     \* batches that were returned, for each listing (history)
  succeeded    \* downloads that were told to have succeeded (history)

told == <<delivered, batches, succeeded>>
remote == <<session, file, directory>>
vars == <<phase, remote, call, lease, active, finalized, told>>

NoCall ==
  [pc |-> "idle", lease |-> 0, operation |-> None, sequence |-> 0, at |-> 0,
   last |-> 0, result |-> "error"]

\* frozen, position and digest are those of a download: the metadata of
\* source_snapshot, the offset of the handle, and the chunks that were hashed.
\* expected, read and the rest are those of a listing cursor and its iterator.
NoLease ==
  [kind |-> "unused", operation |-> None, open |-> FALSE, frozen |-> 0, position |-> 0, digest |-> <<>>,
   expected |-> 0, read |-> 0, running |-> FALSE, ended |-> FALSE, registered |-> FALSE]

Init ==
  /\ phase = "running" /\ session = "open"
  /\ call = [c \in Calls |-> NoCall]
  /\ lease = [l \in Leases |-> NoLease]
  /\ active = [o \in Operations |-> None]
  /\ finalized = {}
  /\ file = 0
  /\ directory \in 0..(MaxEntries + 1)
  /\ delivered = [l \in Leases |-> {}]
  /\ batches = [l \in Leases |-> {}]
  /\ succeeded = {}

Admitted(c) == phase = "running" /\ call[c].pc = "idle"

\* The lease that a call works with.
Mine(c) == lease[call[c].lease]

Goes(c, pc)   == call' = [call EXCEPT ![c].pc = pc]
Ends(c)       == call' = [call EXCEPT ![c] = NoCall]

-----------------------------------------------------------------------------
(* Channels *)

\* SftpChannelFactory.open finds the session and asks for a channel.
Opens(c, kind, o) ==
  /\ Admitted(c) /\ session = "open"
  /\ \E l \in Leases :
       /\ lease[l].kind = "unused"
       /\ \A m \in 1..(l - 1) : lease[m].kind # "unused"
       /\ lease' = [lease EXCEPT ![l] = [@ EXCEPT !.kind = kind, !.operation = o]]
       /\ call' = [call EXCEPT ![c] =
            [NoCall EXCEPT !.pc = "opening", !.lease = l, !.operation = o]]
  /\ UNCHANGED <<phase, remote, active, finalized, told>>

FirstStep == [download |-> "lstat", listing |-> "batch", query |-> "query"]

\* The channel may open while the session that was found is being closed.
ChannelOpens(c) ==
  /\ call[c].pc = "opening" /\ session # "closed"
  /\ LET kind == Mine(c).kind
     IN  /\ lease' = [lease EXCEPT ![call[c].lease] =
              [@ EXCEPT !.open = TRUE, !.running = (kind = "listing")]]
         /\ Goes(c, FirstStep[kind])
  /\ UNCHANGED <<phase, remote, active, finalized, told>>

ChannelFails(c) ==
  /\ call[c].pc = "opening"
  /\ Ends(c)
  /\ UNCHANGED <<phase, remote, lease, active, finalized, told>>

\* The call goes on to close the lease and what it serves, and has its result.
Closes(c, l, result) ==
  call' = [call EXCEPT ![c] = [@ EXCEPT !.pc = "close", !.lease = l, !.result = result]]

\* The batch that a listing call returns.
Returned(c) == [sequence |-> call[c].sequence, first |-> call[c].at, last |-> call[c].last,
                done |-> call[c].result = "done"]

\* SftpChannelLease.close, of which only the first one works; an iterator that
\* does not run is closed before, and a listing that has ended leaves the
\* registry.
LetGo(l) ==
  lease' = [lease EXCEPT ![l] =
    [lease[l] EXCEPT !.open = FALSE, !.ended = @ \/ ~lease[l].running, !.registered = FALSE]]

CloseEnds(c) ==
  /\ call[c].pc = "close"
  /\ LET l == call[c].lease
     IN  /\ LetGo(l)
         /\ succeeded' = IF call[c].result = "succeeded" THEN succeeded \cup {l} ELSE succeeded
         /\ batches' = IF call[c].result = "done"
                       THEN [batches EXCEPT ![l] = @ \cup {Returned(c)}] ELSE batches
  /\ Ends(c)
  /\ UNCHANGED <<phase, remote, active, finalized, delivered>>

\* (mutant) A handle that does not close keeps its channel.
CloseRaisesEarly(c) ==
  /\ call[c].pc = "close"
  /\ Ends(c)
  /\ UNCHANGED <<phase, remote, lease, active, finalized, told>>

\* The handle, the iterator or the channel does not close in time or with an
\* error: the channel is let go all the same, and the call ends in the error.
CloseRaises(c) ==
  /\ call[c].pc = "close"
  /\ LetGo(call[c].lease)
  /\ Ends(c)
  /\ UNCHANGED <<phase, remote, active, finalized, told>>

-----------------------------------------------------------------------------
(* Downloads *)

\* The identifier is looked up before the first await.
BeginDownload(c, o) ==
  /\ active[o] = None /\ o \notin finalized
  /\ Opens(c, "download", o)

\* _snapshot: the metadata, the hash of the content, and the metadata again.
SourceRead(c) ==
  /\ call[c].pc = "lstat" /\ Mine(c).open
  /\ lease' = [lease EXCEPT ![call[c].lease].frozen = file]
  /\ Goes(c, "hash")
  /\ UNCHANGED <<phase, remote, active, finalized, told>>

SourceHashed(c) ==
  /\ call[c].pc = "hash" /\ Mine(c).open
  /\ IF file = Mine(c).frozen THEN Goes(c, "handle") ELSE Closes(c, call[c].lease, "error")
  /\ UNCHANGED <<phase, remote, lease, active, finalized, told>>

\* The download is registered only now, over whatever the identifier has.
HandleOpens(c) ==
  /\ call[c].pc = "handle" /\ Mine(c).open
  /\ active' = [active EXCEPT ![call[c].operation] = call[c].lease]
  /\ Ends(c)
  /\ UNCHANGED <<phase, remote, lease, finalized, told>>

\* The source is no regular file, a request fails or times out.
BeginFails(c) ==
  /\ call[c].pc \in {"lstat", "hash", "handle"}
  /\ Closes(c, call[c].lease, "error")
  /\ UNCHANGED <<phase, remote, lease, active, finalized, told>>

\* _close_download: what the registry has under the identifier goes.
ClosesDownload(c, o, l, result) ==
  /\ active' = [active EXCEPT ![o] = None]
  /\ finalized' = finalized \cup {o}
  /\ Closes(c, l, result)

AtEnd(l) == Len(lease[l].digest) >= Size

\* The request names the next sequence number and its offset.
ReadChunk(c, o, s) ==
  /\ Admitted(c) /\ active[o] # None
  /\ LET l == active[o]
     IN  IF AtEnd(l) \/ s # Len(lease[l].digest)
         THEN ClosesDownload(c, o, l, "error")
         ELSE /\ call' = [call EXCEPT ![c] =
                   [NoCall EXCEPT !.pc = "read", !.lease = l, !.operation = o,
                                  !.sequence = s, !.at = lease[l].position]]
              /\ UNCHANGED <<active, finalized>>
  /\ UNCHANGED <<phase, remote, lease, told>>

\* The route of a chunk lets through only the number that was asked for.
LetThrough(c) == call[c].sequence = Len(Mine(c).digest)

\* The chunk is hashed, numbered with what is expected by now and returned.
ChunkArrives(c) ==
  /\ call[c].pc = "read" /\ Mine(c).open
  /\ LET l     == call[c].lease
         chunk == <<call[c].at, file>>
     IN  /\ lease' = [lease EXCEPT ![l] =
              [lease[l] EXCEPT !.digest = Append(@, chunk), !.position = call[c].at + 1]]
         /\ delivered' = IF ~LetThrough(c) THEN delivered
              ELSE [delivered EXCEPT ![l] = @ \cup {<<call[c].sequence, chunk>>}]
  /\ Ends(c)
  /\ UNCHANGED <<phase, remote, active, finalized, batches, succeeded>>

\* No answer in time, or an empty one, of a file that has become shorter.
ReadTimesOut(c) ==
  /\ call[c].pc = "read"
  /\ ClosesDownload(c, call[c].operation, call[c].lease, "error")
  /\ UNCHANGED <<phase, remote, lease, told>>

\* Any other error leaves the download to be aborted.
ReadFails(c) ==
  /\ call[c].pc \in {"read", "final"}
  /\ Ends(c)
  /\ UNCHANGED <<phase, remote, lease, active, finalized, told>>

HashOf(version) == [i \in 1..Size |-> <<i - 1, version>>]

Finish(c, o) ==
  /\ Admitted(c) /\ active[o] # None
  /\ LET l == active[o]
     IN  IF lease[l].digest = HashOf(lease[l].frozen)
         THEN /\ call' = [call EXCEPT ![c] =
                   [NoCall EXCEPT !.pc = "final", !.lease = l, !.operation = o]]
              /\ UNCHANGED <<active, finalized>>
         ELSE ClosesDownload(c, o, l, "error")
  /\ UNCHANGED <<phase, remote, lease, told>>

\* The metadata of the source must still be those of the snapshot.
FinishReads(c) ==
  /\ call[c].pc = "final" /\ Mine(c).open
  /\ ClosesDownload(c, call[c].operation, call[c].lease,
                    IF file = Mine(c).frozen THEN "succeeded" ELSE "error")
  /\ UNCHANGED <<phase, remote, lease, told>>

Abort(c, o) ==
  /\ Admitted(c) /\ active[o] # None
  /\ ClosesDownload(c, o, active[o], "cancelled")
  /\ UNCHANGED <<phase, remote, lease, told>>

-----------------------------------------------------------------------------
(* Listings *)

BeginListing(c) == Opens(c, "listing", None)

Unregister(l) == lease' = [lease EXCEPT ![l].registered = FALSE]

\* A wrong number ends the listing, and so does a second request while the
\* iterator runs: an asynchronous generator refuses to be entered twice.
NextBatch(c, l, s) ==
  /\ Admitted(c) /\ lease[l].registered
  /\ IF s # lease[l].expected \/ lease[l].running
     THEN /\ Unregister(l)
          /\ call' = [call EXCEPT ![c] = [NoCall EXCEPT !.pc = "close", !.lease = l]]
     ELSE /\ lease' = [lease EXCEPT ![l].running = TRUE]
          /\ call' = [call EXCEPT ![c] =
               [NoCall EXCEPT !.pc = "batch", !.lease = l, !.sequence = s]]
  /\ UNCHANGED <<phase, remote, active, finalized, told>>

Least(m, n) == IF m < n THEN m ELSE n

\* (mutant) No limit.
BatchEndAnywhere(n) == Least(n + Batch, directory)

\* Where the batch that starts after n entries ends.
BatchEnd(n) == Least(n + Batch, Least(directory, MaxEntries))

\* (mutant) The cursor lives on without the entries of the batch that failed.
BatchFailsAndGoesOn(c) ==
  /\ call[c].pc = "batch"
  /\ \E n \in Mine(c).read..BatchEnd(Mine(c).read) :
       lease' = [lease EXCEPT ![call[c].lease] = [@ EXCEPT !.read = n, !.running = FALSE]]
  /\ IF Mine(c).registered THEN Ends(c) ELSE Closes(c, call[c].lease, "error")
  /\ UNCHANGED <<phase, remote, active, finalized, told>>

\* A request fails or times out after some of the entries, or there are more
\* entries than a listing may have: the cursor is closed.
BatchFails(c) ==
  /\ call[c].pc = "batch"
  /\ \E n \in Mine(c).read..BatchEnd(Mine(c).read) :
       lease' = [lease EXCEPT ![call[c].lease] =
                   [@ EXCEPT !.read = n, !.running = FALSE, !.registered = FALSE]]
  /\ Closes(c, call[c].lease, "error")
  /\ UNCHANGED <<phase, remote, active, finalized, told>>

\* No entry follows the first n: past the limit the code looks for one.
NothingAfter(n) == n = directory

\* _read_batch.  A batch that the iterator does not fill is the last one: the
\* cursor is closed before it is returned.  Any other batch is returned, and
\* the first one registers the cursor.  An iterator that was closed is at its
\* end, whatever it has not read.
BatchArrives(c) ==
  /\ call[c].pc = "batch"
  /\ LET l    == call[c].lease
         n    == lease[l].read
         m    == IF lease[l].ended THEN n ELSE BatchEnd(n)
         next == [lease[l] EXCEPT !.read = m, !.running = FALSE,
                                  !.expected = call[c].sequence + 1]
     IN  IF m < n + Batch
         THEN /\ lease[l].ended \/ (lease[l].open /\ NothingAfter(m))
              /\ call' = [call EXCEPT ![c] =
                   [@ EXCEPT !.pc = "close", !.at = n, !.last = m, !.result = "done"]]
              /\ lease' = [lease EXCEPT ![l] = [next EXCEPT !.ended = TRUE]]
              /\ UNCHANGED batches
         ELSE /\ lease[l].open
              /\ Ends(c)
              /\ lease' = [lease EXCEPT ![l] =
                   [next EXCEPT !.registered = @ \/ call[c].sequence = 0]]
              /\ batches' = [batches EXCEPT ![l] = @ \cup
                   {[Returned(c) EXCEPT !.first = n, !.last = m]}]
  /\ UNCHANGED <<phase, remote, active, finalized, delivered, succeeded>>

CloseListing(c, l) ==
  /\ Admitted(c) /\ lease[l].registered
  /\ Unregister(l)
  /\ call' = [call EXCEPT ![c] = [NoCall EXCEPT !.pc = "close", !.lease = l]]
  /\ UNCHANGED <<phase, remote, active, finalized, told>>

-----------------------------------------------------------------------------
(* Single questions *)

\* ManualSftpService.open, lstat, readlink and sha256, and the preflight of an
\* upload: whatever the answer, the channel is closed.
Ask(c) == Opens(c, "query", None)

Answered(c) ==
  /\ call[c].pc = "query"
  /\ Closes(c, call[c].lease, "answer")
  /\ UNCHANGED <<phase, remote, lease, active, finalized, told>>

-----------------------------------------------------------------------------
(* The service, the session and the server *)

\* RequestDispatcher.close: no further requests.
Stop ==
  /\ phase = "running"
  /\ phase' = "stopping"
  /\ UNCHANGED <<remote, call, lease, active, finalized, told>>

Cursors   == {l \in Leases : lease[l].registered}
Downloads == {active[o] : o \in Operations} \ {None}

\* ManualSftpService.close_all, when the requests have ended: every listing and
\* every download is closed, whether its close succeeds or not.
CloseAll ==
  /\ phase = "stopping" /\ \A c \in Calls : call[c].pc = "idle"
  /\ phase' = "stopped"
  /\ lease' = [l \in Leases |->
       IF l \in Cursors \cup Downloads
       THEN [lease[l] EXCEPT !.open = FALSE, !.ended = TRUE, !.registered = FALSE] ELSE lease[l]]
  /\ active' = [o \in Operations |-> None]
  /\ finalized' = finalized \cup {o \in Operations : active[o] # None}
  /\ UNCHANGED <<remote, call, told>>

\* SshSessionRegistry.close takes the session out of the registry, and closes
\* its channels and its connection later; a lost connection is the latter.
SessionCloses ==
  /\ session = "open"
  /\ session' = "closing"
  /\ UNCHANGED <<phase, file, directory, call, lease, active, finalized, told>>

ConnectionCloses ==
  /\ session # "closed"
  /\ session' = "closed"
  /\ lease' = [l \in Leases |-> [lease[l] EXCEPT !.open = FALSE]]
  /\ UNCHANGED <<phase, file, directory, call, active, finalized, told>>

\* Another client of the server rewrites the file.
FileChanges ==
  /\ file < MaxWrites
  /\ file' = file + 1
  /\ UNCHANGED <<phase, session, directory, call, lease, active, finalized, told>>

-----------------------------------------------------------------------------

DownloadRequest(c) ==
  \E o \in Operations :
    \/ BeginDownload(c, o) \/ Finish(c, o) \/ Abort(c, o)
    \/ \E s \in 0..Size : ReadChunk(c, o, s)

ListingRequest(c) ==
  \/ BeginListing(c)
  \/ \E l \in Leases :
       \/ CloseListing(c, l)
       \/ \E s \in 0..(MaxEntries + 1) : NextBatch(c, l, s)

Request(c) == DownloadRequest(c) \/ ListingRequest(c) \/ Ask(c)

Step(c) ==
  \/ ChannelOpens(c) \/ ChannelFails(c) \/ CloseEnds(c) \/ CloseRaises(c)
  \/ SourceRead(c) \/ SourceHashed(c) \/ HandleOpens(c) \/ BeginFails(c)
  \/ ChunkArrives(c) \/ ReadTimesOut(c) \/ ReadFails(c) \/ FinishReads(c)
  \/ BatchArrives(c) \/ BatchFails(c) \/ Answered(c)

Next ==
  \/ \E c \in Calls : Request(c) \/ Step(c)
  \/ Stop \/ CloseAll \/ SessionCloses \/ ConnectionCloses \/ FileChanges

Spec == Init /\ [][Next]_vars

-----------------------------------------------------------------------------
(* Properties *)

Chunks == (0..Size) \X (0..MaxWrites)

CallRecords ==
  [pc : {"idle", "opening", "lstat", "hash", "handle", "read", "final", "batch", "query", "close"},
   lease : 0..Channels, operation : Operations \cup {None}, sequence : Nat, at : Nat,
   last : 0..MaxEntries, result : {"error", "succeeded", "cancelled", "done", "answer"}]

LeaseRecords ==
  [kind : {"unused", "download", "listing", "query"}, operation : Operations \cup {None},
   open : BOOLEAN, frozen : 0..MaxWrites, position : 0..Size, digest : Seq(Chunks),
   expected : Nat, read : 0..MaxEntries, running : BOOLEAN, ended : BOOLEAN,
   registered : BOOLEAN]

TypeOK ==
  /\ phase \in {"running", "stopping", "stopped"}
  /\ session \in {"open", "closing", "closed"}
  /\ call \in [Calls -> CallRecords]
  /\ lease \in [Leases -> LeaseRecords]
  /\ active \in [Operations -> Leases \cup {None}]
  /\ finalized \subseteq Operations
  /\ file \in 0..MaxWrites /\ directory \in 0..(MaxEntries + 1)
  /\ \A l \in Leases : lease[l].registered => lease[l].kind = "listing"
  /\ succeeded \subseteq {l \in Leases : lease[l].kind = "download"}

\* A download that was told to have succeeded has delivered, under the number
\* of every chunk, that chunk of one and the same version of the file, the
\* version its snapshot was taken of: also when requests overlap, are repeated
\* with the same number or race an abort (read_chunk, finish,
\* _validate_download_chunk).
DownloadIsSource ==
  \A l \in succeeded :
    delivered[l] = {<<i, <<i, lease[l].frozen>>>> : i \in 0..(Size - 1)}

\* Batches continue each other without a gap or an overlap; and a last batch,
\* with all before it, is the whole directory, which is not too large: also
\* when requests overlap, fail halfway or race a close (next, _read_batch).
ListingIsWhole ==
  \A l \in Leases : \A b \in batches[l] :
    /\ \A d \in batches[l] :
         /\ d.sequence = b.sequence => d = b
         /\ d.sequence = b.sequence + 1 => d.first = b.last
    /\ b.sequence = 0 => b.first = 0
    /\ b.done => b.last = directory /\ directory <= MaxEntries

\* What a receiver was told is what the host has: a download that succeeded,
\* batches that continue each other up to a last one, under every overlap of
\* requests on the shared handle or iterator.
ReadsAreTrue == DownloadIsSource /\ ListingIsWhole

\* Another begin of the same identifier got past the look at the registry: it
\* is registered over this one, or is taken out of the registry by it.
Contested(l) ==
  \E m \in Leases \ {l} : lease[l].operation # None /\ lease[m].operation = lease[l].operation

\* Every open channel is held by a request that will close it or hand it on,
\* or by a download or a listing that the user can still close; so none is left
\* when the service has stopped.  Left out are downloads whose identifier was
\* used twice: one of them may be lost until its session ends (begin,
\* _close_download, _close_cursor, close_all).
ChannelsOwned ==
  \A l \in Leases : lease[l].open =>
    \/ \E c \in Calls : call[c].pc # "idle" /\ call[c].lease = l
    \/ phase # "stopped" /\ (lease[l].registered \/ \E o \in Operations : active[o] = l)
    \/ Contested(l)
=============================================================================
