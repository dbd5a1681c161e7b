----------------------- MODULE ManualSftpReadsProofs -----------------------
(* Theorems about ManualSftpReads: a download that succeeded is its frozen  *)
(* source, a listing is whole, and no channel is forgotten; for every set of *)
(* requests and identifiers, every number of channels, size of the file,    *)
(* of a batch and of the directory, and every number of rewrites.           *)
EXTENDS ManualSftpReads, TLAPS

\* Phases of a call that works alone with the lease it has opened.
Beginning == {"opening", "lstat", "hash", "handle", "query"}

\* The requests in progress on a lease.
Works(c, l) == call[c].pc # "idle" /\ call[c].lease = l
-----------------------------------------------------------------------------
(* The inductive invariant.                                                *)

\* What a call waits for fits its lease.
KindOf(c) ==
  call[c].pc # "idle" =>
    /\ call[c].lease \in Leases
    /\ Mine(c).kind # "unused"
    /\ call[c].pc \in {"lstat", "hash", "handle", "read", "final"} => Mine(c).kind = "download"
    /\ call[c].pc = "batch" => Mine(c).kind = "listing"
    /\ call[c].pc = "query" => Mine(c).kind = "query"
    /\ call[c].result = "succeeded" => call[c].pc = "close" /\ Mine(c).kind = "download"
    /\ call[c].result = "done" => call[c].pc = "close" /\ Mine(c).kind = "listing"
    /\ call[c].pc \in {"opening", "lstat", "hash", "handle", "read", "final"} =>
         call[c].operation = Mine(c).operation
    /\ Mine(c).kind = "download" => Mine(c).operation \in Operations

\* What is registered is of its kind, an unused lease is untouched, and nothing
\* is in progress when the service has stopped.
Kinds ==
  /\ \A c \in Calls : KindOf(c)
  /\ \A o \in Operations : active[o] # None =>
       lease[active[o]].kind = "download" /\ lease[active[o]].operation = o
  /\ \A l \in Leases : lease[l].kind = "unused" => lease[l] = NoLease
  /\ phase = "stopped" => \A c \in Calls : call[c].pc = "idle"

\* The handle is never ahead of what was hashed, nor a read behind the file; an
\* iterator has read no more than there is.
Bounds ==
  /\ \A l \in Leases : lease[l].position <= Len(lease[l].digest) /\ lease[l].read <= directory
  /\ \A c \in Calls : call[c].pc = "read" =>
       call[c].at <= Len(Mine(c).digest) /\ call[c].at < Size /\ call[c].sequence < Size

TInv == TypeOK /\ Kinds /\ Bounds
-----------------------------------------------------------------------------
(* Types.                                                                  *)

LEMMA BatchEndBounds ==
  ASSUME NEW n \in 0..MaxEntries, n <= directory, directory \in 0..(MaxEntries + 1)
  PROVE  /\ BatchEnd(n) \in 0..MaxEntries
         /\ n <= BatchEnd(n) /\ BatchEnd(n) <= directory /\ BatchEnd(n) <= n + Batch
BY ReadsAssumption DEF BatchEnd, Least

LEMMA TypeInit == Init => TInv
<1> SUFFICES ASSUME Init PROVE TInv OBVIOUS
<1> USE ReadsAssumption
<1>1. NoCall \in CallRecords BY DEF NoCall, CallRecords
<1>2. NoLease \in LeaseRecords
  <2>1. <<>> \in Seq(Chunks) OBVIOUS
  <2> QED BY <2>1 DEF NoLease, LeaseRecords
<1>3. TypeOK BY <1>1, <1>2 DEF Init, TypeOK, NoLease
<1>4. Kinds BY DEF Init, Kinds, KindOf, NoCall, NoLease
<1>5. Bounds BY DEF Init, Bounds, NoCall, NoLease, Leases
<1> QED BY <1>3, <1>4, <1>5 DEF TInv

\* How a step changes one call, and one lease.
CallBecomes(c, r) ==
  call'[c] = r /\ \A d \in Calls : d # c => call'[d] = call[d]

LeaseBecomes(l, r) ==
  lease'[l] = r /\ \A m \in Leases : m # l => lease'[m] = lease[m]

LEMMA CallChanges ==
  ASSUME TypeOK, NEW c \in Calls, NEW r \in CallRecords, call' = [call EXCEPT ![c] = r]
  PROVE  CallBecomes(c, r) /\ call' \in [Calls -> CallRecords]
BY DEF TypeOK, CallBecomes

LEMMA LeaseChanges ==
  ASSUME TypeOK, NEW l \in Leases, NEW r \in LeaseRecords, lease' = [lease EXCEPT ![l] = r]
  PROVE  LeaseBecomes(l, r) /\ lease' \in [Leases -> LeaseRecords]
BY DEF TypeOK, LeaseBecomes

\* What opens a channel.
LEMMA OpensTyped ==
  ASSUME TInv, NEW c \in Calls, NEW kind \in {"download", "listing", "query"},
         NEW o \in Operations \cup {None}, Opens(c, kind, o), kind = "download" => o # None
  PROVE  TInv'
<1> USE ReadsAssumption
<1>1. PICK l \in Leases :
        /\ lease[l].kind = "unused"
        /\ lease' = [lease EXCEPT ![l] = [lease[l] EXCEPT !.kind = kind, !.operation = o]]
        /\ call' = [call EXCEPT ![c] =
              [NoCall EXCEPT !.pc = "opening", !.lease = l, !.operation = o]]
  BY DEF Opens
<1>2. UNCHANGED <<phase, session, file, directory, active, finalized, delivered, batches,
                  succeeded>>
  BY DEF Opens, remote, told
<1>3. phase # "stopped" /\ TypeOK /\ Kinds /\ Bounds BY DEF Opens, Admitted, TInv
<1> DEFINE nc == [NoCall EXCEPT !.pc = "opening", !.lease = l, !.operation = o]
           nl == [lease[l] EXCEPT !.kind = kind, !.operation = o]
<1>4. /\ nc \in CallRecords
      /\ nc.pc = "opening" /\ nc.lease = l /\ nc.operation = o /\ nc.result = "error"
  <2>1. l \in 0..Channels BY DEF Leases
  <2>2. NoCall \in CallRecords /\ NoCall.result = "error" BY DEF NoCall, CallRecords
  <2> QED BY <2>1, <2>2 DEF CallRecords
<1>5. lease[l] \in LeaseRecords BY <1>3 DEF TypeOK
<1>6. /\ nl \in LeaseRecords
      /\ nl.kind = kind /\ nl.operation = o /\ nl.registered = lease[l].registered
      /\ nl.position = lease[l].position /\ nl.digest = lease[l].digest
      /\ nl.read = lease[l].read
  BY <1>5 DEF LeaseRecords
<1> HIDE DEF nc, nl
<1>7. CallBecomes(c, nc) /\ call' \in [Calls -> CallRecords] BY <1>1, <1>3, <1>4, CallChanges DEF nc
<1>8. LeaseBecomes(l, nl) /\ lease' \in [Leases -> LeaseRecords]
  BY <1>1, <1>3, <1>6, LeaseChanges DEF nl
<1>9. TypeOK' BY <1>1, <1>2, <1>3, <1>6, <1>7, <1>8 DEF TypeOK, LeaseBecomes, CallBecomes, NoLease
<1>10. Kinds'
  <2>1. ASSUME NEW d \in Calls PROVE KindOf(d)'
    <3>1. CASE d = c
      BY <1>3, <1>4, <1>6, <1>7, <1>8, <3>1 DEF KindOf, Mine, LeaseBecomes, CallBecomes
    <3>2. CASE d # c
      BY <1>1, <1>3, <1>7, <1>8, <3>2 DEF Kinds, KindOf, Mine, LeaseBecomes, CallBecomes
    <3> QED BY <3>1, <3>2
  <2>2. ASSUME NEW p \in Operations, active'[p] # None
        PROVE  lease'[active'[p]].kind = "download" /\ lease'[active'[p]].operation = p
    BY <1>1, <1>2, <1>3, <1>8, <2>2 DEF Kinds, TypeOK, LeaseBecomes
  <2>3. \A m \in Leases : lease'[m].kind = "unused" => lease'[m] = NoLease
    BY <1>3, <1>6, <1>8 DEF Kinds, LeaseBecomes
  <2> QED BY <1>2, <1>3, <2>1, <2>2, <2>3 DEF Kinds
<1>11. Bounds' BY <1>1, <1>2, <1>3, <1>4, <1>6, <1>7, <1>8
              DEF TypeOK, Bounds, Mine, LeaseBecomes, CallBecomes, NoLease
<1> QED BY <1>9, <1>10, <1>11 DEF TInv
-----------------------------------------------------------------------------
(* What each step changes.                                                 *)

\* A step of call c that works with lease l.
Local(c, l) ==
  /\ c \in Calls /\ l \in Leases /\ lease[l].kind # "unused" /\ lease[l] \in LeaseRecords
  /\ call[c] \in CallRecords
  /\ call' \in [Calls -> CallRecords] /\ lease' \in [Leases -> LeaseRecords]
  /\ \A d \in Calls : d # c => call'[d] = call[d]
  /\ \A m \in Leases : m # l => lease'[m] = lease[m]
  /\ lease'[l].kind = lease[l].kind /\ lease'[l].operation = lease[l].operation
  /\ UNCHANGED <<phase, session, file, directory>>
  /\ phase # "stopped"

\* Call c becomes nc and the lease l it works with becomes nl.
LocalStep(c, l, nc, nl) ==
  /\ l \in Leases /\ lease[l].kind # "unused"
  /\ nc \in CallRecords /\ nl \in LeaseRecords
  /\ nl.kind = lease[l].kind /\ nl.operation = lease[l].operation
  /\ call' = [call EXCEPT ![c] = nc]
  /\ lease' = [lease EXCEPT ![l] = nl]
  /\ UNCHANGED <<phase, session, file, directory>>
  /\ phase # "stopped"

LEMMA LocalRule ==
  ASSUME TInv, NEW c \in Calls, NEW l, NEW nc, NEW nl, LocalStep(c, l, nc, nl)
  PROVE  Local(c, l) /\ call'[c] = nc /\ lease'[l] = nl
<1> USE DEF LocalStep
<1>1. TypeOK BY DEF TInv
<1>2. CallBecomes(c, nc) /\ call' \in [Calls -> CallRecords] BY <1>1, CallChanges
<1>3. LeaseBecomes(l, nl) /\ lease' \in [Leases -> LeaseRecords] BY <1>1, LeaseChanges
<1>4. lease[l] \in LeaseRecords /\ call[c] \in CallRecords BY <1>1 DEF TypeOK
<1> QED BY <1>2, <1>3, <1>4 DEF Local, CallBecomes, LeaseBecomes

LEMMA CallRule ==
  ASSUME TInv, NEW c \in Calls, NEW l \in Leases, lease[l].kind # "unused",
         NEW nc \in CallRecords, call' = [call EXCEPT ![c] = nc], lease' = lease,
         UNCHANGED <<phase, session, file, directory>>, phase # "stopped"
  PROVE  Local(c, l) /\ call'[c] = nc
<1>1. TypeOK BY DEF TInv
<1>2. CallBecomes(c, nc) /\ call' \in [Calls -> CallRecords] BY <1>1, CallChanges
<1>3. lease[l] \in LeaseRecords /\ call[c] \in CallRecords BY <1>1 DEF TypeOK
<1> QED BY <1>1, <1>2, <1>3 DEF Local, CallBecomes, TypeOK

\* A call in progress has a lease, and is not there any more when the service
\* has stopped.
LEMMA InProgress ==
  ASSUME TInv, NEW c \in Calls, call[c].pc # "idle"
  PROVE  /\ call[c].lease \in Leases /\ lease[call[c].lease].kind # "unused"
         /\ lease[call[c].lease] \in LeaseRecords /\ call[c] \in CallRecords
         /\ phase # "stopped"
BY DEF TInv, TypeOK, Kinds, KindOf, Mine

LEMMA NoCallTyped ==
  /\ NoCall \in CallRecords
  /\ NoCall.pc = "idle" /\ NoCall.result = "error"
BY ReadsAssumption DEF NoCall, CallRecords

LEMMA ChannelOpensShape ==
  ASSUME TInv, NEW c \in Calls, ChannelOpens(c)
  PROVE  LET l == call[c].lease
         IN  /\ Local(c, l)
             /\ call'[c] = [call[c] EXCEPT !.pc = FirstStep[lease[l].kind]]
             /\ lease'[l] = [lease[l] EXCEPT !.open = TRUE,
                                             !.running = (lease[l].kind = "listing")]
             /\ call[c].pc = "opening"
             /\ UNCHANGED <<active, finalized, delivered, batches, succeeded>>
<1> DEFINE l == call[c].lease
           nc == [call[c] EXCEPT !.pc = FirstStep[lease[l].kind]]
           nl == [lease[l] EXCEPT !.open = TRUE, !.running = (lease[l].kind = "listing")]
<1>1. call[c].pc = "opening" BY DEF ChannelOpens
<1>2. /\ l \in Leases /\ lease[l].kind # "unused" /\ lease[l] \in LeaseRecords
      /\ call[c] \in CallRecords /\ phase # "stopped"
  BY <1>1, InProgress
<1>3. lease[l].kind \in {"download", "listing", "query"} BY <1>2 DEF LeaseRecords
<1>4. nc \in CallRecords BY <1>2, <1>3 DEF CallRecords, FirstStep
<1>5. nl \in LeaseRecords /\ nl.kind = lease[l].kind /\ nl.operation = lease[l].operation
  BY <1>2 DEF LeaseRecords
<1>6. call' = [call EXCEPT ![c] = nc] BY DEF ChannelOpens, Goes, Mine
<1>7. lease' = [lease EXCEPT ![l] = nl] BY DEF ChannelOpens, Mine
<1>8. UNCHANGED <<phase, session, file, directory>> BY DEF ChannelOpens, remote
<1> HIDE DEF nc, nl, l
<1>9. Local(c, l) /\ call'[c] = nc /\ lease'[l] = nl
  <2>1. LocalStep(c, l, nc, nl)
    BY <1>2, <1>4, <1>5, <1>6, <1>7, <1>8 DEF LocalStep
  <2> QED BY <2>1, LocalRule
<1> QED BY <1>1, <1>9 DEF ChannelOpens, told, l, nc, nl

\* A call ends, and its lease stays as it is.
LEMMA EndsShape ==
  ASSUME TInv, NEW c \in Calls, call[c].pc # "idle", Ends(c), lease' = lease,
         UNCHANGED <<phase, session, file, directory>>
  PROVE  Local(c, call[c].lease) /\ call'[c] = NoCall /\ NoCall.pc = "idle"
<1>1. /\ call[c].lease \in Leases /\ lease[call[c].lease].kind # "unused" /\ phase # "stopped"
  BY InProgress
<1>2. call' = [call EXCEPT ![c] = NoCall] BY DEF Ends
<1> QED BY <1>1, <1>2, NoCallTyped, CallRule

\* A call goes on to its next await, and its lease stays as it is.
LEMMA GoesShape ==
  ASSUME TInv, NEW c \in Calls, call[c].pc # "idle", NEW pc \in {"hash", "handle"}, Goes(c, pc),
         lease' = lease, UNCHANGED <<phase, session, file, directory>>
  PROVE  Local(c, call[c].lease) /\ call'[c] = [call[c] EXCEPT !.pc = pc]
<1> DEFINE nc == [call[c] EXCEPT !.pc = pc]
<1>1. /\ call[c].lease \in Leases /\ lease[call[c].lease].kind # "unused" /\ phase # "stopped"
      /\ call[c] \in CallRecords
  BY InProgress
<1>2. nc \in CallRecords BY <1>1 DEF CallRecords
<1>3. call' = [call EXCEPT ![c] = nc] BY DEF Goes
<1> HIDE DEF nc
<1>4. Local(c, call[c].lease) /\ call'[c] = nc BY <1>1, <1>2, <1>3, CallRule
<1> QED BY <1>4 DEF nc

\* A call that closes a lease, and a request of a download.
Closing(c, l, result) == [call[c] EXCEPT !.pc = "close", !.lease = l, !.result = result]

Asking(pc, l, o, s, at) ==
  [NoCall EXCEPT !.pc = pc, !.lease = l, !.operation = o, !.sequence = s, !.at = at]

\* A call closes a lease, which stays as it is until then.
LEMMA ClosesShape ==
  ASSUME TInv, NEW c \in Calls, NEW l \in Leases, lease[l].kind # "unused",
         NEW result \in {"error", "succeeded", "cancelled", "done", "answer"},
         Closes(c, l, result), lease' = lease, phase # "stopped",
         UNCHANGED <<phase, session, file, directory>>
  PROVE  /\ Local(c, l)
         /\ call'[c] = Closing(c, l, result)
<1> DEFINE nc == [call[c] EXCEPT !.pc = "close", !.lease = l, !.result = result]
<1>1. call[c] \in CallRecords BY DEF TInv, TypeOK
<1>2. l \in 0..Channels BY ReadsAssumption DEF Leases
<1>3. nc \in CallRecords BY <1>1, <1>2 DEF CallRecords
<1>4. call' = [call EXCEPT ![c] = nc] BY DEF Closes
<1> HIDE DEF nc
<1>5. Local(c, l) /\ call'[c] = nc BY <1>3, <1>4, CallRule
<1> QED BY <1>5 DEF nc, Closing

\* A request begins to work with a lease.
LEMMA AsksShape ==
  ASSUME TInv, NEW c \in Calls, NEW l \in Leases, lease[l].kind # "unused",
         NEW o \in Operations, NEW s \in Nat, NEW at \in Nat,
         call' = [call EXCEPT ![c] = Asking("read", l, o, s, at)],
         lease' = lease, phase # "stopped", UNCHANGED <<phase, session, file, directory>>
  PROVE  /\ Local(c, l)
         /\ call'[c] = Asking("read", l, o, s, at) /\ call'[c].result = "error"
<1> DEFINE nc == Asking("read", l, o, s, at)
<1>1. l \in 0..Channels BY ReadsAssumption DEF Leases
<1>2. nc \in CallRecords /\ nc.result = "error" BY <1>1, NoCallTyped DEF CallRecords, Asking
<1> HIDE DEF nc
<1>3. Local(c, l) /\ call'[c] = nc BY <1>2, CallRule DEF nc
<1> QED BY <1>2, <1>3 DEF nc

LEMMA SourceReadShape ==
  ASSUME TInv, NEW c \in Calls, SourceRead(c)
  PROVE  LET l == call[c].lease
         IN  /\ Local(c, l)
             /\ call'[c] = [call[c] EXCEPT !.pc = "hash"]
             /\ lease'[l] = [lease[l] EXCEPT !.frozen = file]
<1> DEFINE l == call[c].lease
           nc == [call[c] EXCEPT !.pc = "hash"]
           nl == [lease[l] EXCEPT !.frozen = file]
<1>1. /\ l \in Leases /\ lease[l].kind # "unused" /\ lease[l] \in LeaseRecords
      /\ call[c] \in CallRecords /\ phase # "stopped"
  BY InProgress DEF SourceRead
<1>2. nc \in CallRecords BY <1>1 DEF CallRecords
<1>3. nl \in LeaseRecords /\ nl.kind = lease[l].kind /\ nl.operation = lease[l].operation
  BY <1>1 DEF LeaseRecords, TInv, TypeOK
<1>4. call' = [call EXCEPT ![c] = nc] BY DEF SourceRead, Goes
<1>5. lease' = [lease EXCEPT ![l] = nl] BY DEF SourceRead
<1>6. UNCHANGED <<phase, session, file, directory>> BY DEF SourceRead, remote
<1> HIDE DEF nc, nl, l
<1>7. Local(c, l) /\ call'[c] = nc /\ lease'[l] = nl
  <2>1. LocalStep(c, l, nc, nl)
    BY <1>1, <1>2, <1>3, <1>4, <1>5, <1>6 DEF LocalStep
  <2> QED BY <2>1, LocalRule
<1> QED BY <1>7 DEF l, nc, nl

LEMMA ChunkArrivesShape ==
  ASSUME TInv, NEW c \in Calls, ChunkArrives(c)
  PROVE  LET l == call[c].lease
         IN  /\ Local(c, l)
             /\ call'[c] = NoCall /\ NoCall.pc = "idle"
             /\ lease'[l] = [lease[l] EXCEPT
                    !.digest = Append(lease[l].digest, <<call[c].at, file>>),
                    !.position = call[c].at + 1]
             /\ Append(lease[l].digest, <<call[c].at, file>>) \in Seq(Chunks)
<1> DEFINE l == call[c].lease
           nl == [lease[l] EXCEPT !.digest = Append(lease[l].digest, <<call[c].at, file>>),
                                  !.position = call[c].at + 1]
<1>1. /\ l \in Leases /\ lease[l].kind # "unused" /\ lease[l] \in LeaseRecords
      /\ call[c] \in CallRecords /\ phase # "stopped" /\ call[c].pc = "read"
  BY InProgress DEF ChunkArrives
<1>2. call[c].at \in Nat /\ call[c].at < Size
  BY <1>1 DEF TInv, Bounds, CallRecords
<1>3. call[c].at \in 0..Size /\ call[c].at + 1 \in 0..Size BY <1>2, ReadsAssumption
<1>4. <<call[c].at, file>> \in Chunks BY <1>3 DEF Chunks, TInv, TypeOK
<1>5. lease[l].digest \in Seq(Chunks) BY <1>1 DEF LeaseRecords
<1>6. Append(lease[l].digest, <<call[c].at, file>>) \in Seq(Chunks) BY <1>4, <1>5
<1>7. nl \in LeaseRecords /\ nl.kind = lease[l].kind /\ nl.operation = lease[l].operation
  BY <1>1, <1>3, <1>6 DEF LeaseRecords
<1>8. call' = [call EXCEPT ![c] = NoCall] BY DEF ChunkArrives, Ends
<1>9. lease' = [lease EXCEPT ![l] = nl] BY DEF ChunkArrives
<1>10. UNCHANGED <<phase, session, file, directory>> BY DEF ChunkArrives, remote
<1> HIDE DEF nl, l
<1>11. Local(c, l) /\ call'[c] = NoCall /\ lease'[l] = nl
  <2>1. LocalStep(c, l, NoCall, nl)
    BY <1>1, <1>7, <1>8, <1>9, <1>10, NoCallTyped DEF LocalStep
  <2> QED BY <2>1, LocalRule
<1> QED BY <1>6, <1>11, NoCallTyped DEF l, nl

\* A call has closed its lease and ends.
LEMMA LetGoShape ==
  ASSUME TInv, NEW c \in Calls, call[c].pc = "close", LetGo(call[c].lease), Ends(c),
         UNCHANGED <<phase, session, file, directory>>
  PROVE  LET l == call[c].lease
         IN  /\ Local(c, l)
             /\ call'[c] = NoCall /\ NoCall.pc = "idle"
             /\ lease'[l] = [lease[l] EXCEPT !.open = FALSE,
                               !.ended = lease[l].ended \/ ~lease[l].running,
                               !.registered = FALSE]
<1> DEFINE l == call[c].lease
           nl == [lease[l] EXCEPT !.open = FALSE, !.ended = lease[l].ended \/ ~lease[l].running,
                                  !.registered = FALSE]
<1>1. /\ l \in Leases /\ lease[l].kind # "unused" /\ lease[l] \in LeaseRecords
      /\ call[c] \in CallRecords /\ phase # "stopped"
  BY InProgress
<1>2. nl \in LeaseRecords /\ nl.kind = lease[l].kind /\ nl.operation = lease[l].operation
  BY <1>1 DEF LeaseRecords
<1>3. call' = [call EXCEPT ![c] = NoCall] BY DEF Ends
<1>4. lease' = [lease EXCEPT ![l] = nl] BY DEF LetGo
<1> HIDE DEF nl, l
<1>5. Local(c, l) /\ call'[c] = NoCall /\ lease'[l] = nl
  <2>1. LocalStep(c, l, NoCall, nl)
    BY <1>1, <1>2, <1>3, <1>4, NoCallTyped DEF LocalStep
  <2> QED BY <2>1, LocalRule
<1> QED BY <1>5, NoCallTyped DEF l, nl

\* A listing is taken out of the registry to be closed.
LEMMA UnregisterShape ==
  ASSUME TInv, NEW c \in Calls, NEW l \in Leases, phase # "stopped", lease[l].kind # "unused",
         Unregister(l), call' = [call EXCEPT ![c] = [NoCall EXCEPT !.pc = "close", !.lease = l]],
         UNCHANGED <<phase, session, file, directory>>
  PROVE  /\ Local(c, l)
         /\ call'[c] = [NoCall EXCEPT !.pc = "close", !.lease = l] /\ call'[c].result = "error"
         /\ lease'[l] = [lease[l] EXCEPT !.registered = FALSE]
<1> DEFINE nc == [NoCall EXCEPT !.pc = "close", !.lease = l]
           nl == [lease[l] EXCEPT !.registered = FALSE]
<1>1. l \in 0..Channels BY ReadsAssumption DEF Leases
<1>2. nc \in CallRecords /\ nc.result = "error" BY <1>1, NoCallTyped DEF CallRecords
<1>3. lease[l] \in LeaseRecords BY DEF TInv, TypeOK
<1>4. nl \in LeaseRecords /\ nl.kind = lease[l].kind /\ nl.operation = lease[l].operation
  BY <1>3 DEF LeaseRecords
<1>5. lease' = [lease EXCEPT ![l] = nl] BY DEF Unregister
<1> HIDE DEF nc, nl
<1>6. Local(c, l) /\ call'[c] = nc /\ lease'[l] = nl
  <2>1. LocalStep(c, l, nc, nl)
    BY <1>2, <1>4, <1>5 DEF LocalStep, nc
  <2> QED BY <2>1, LocalRule
<1> QED BY <1>2, <1>6 DEF nc, nl

\* The next batch of a listing is asked for.
Fetching(l, s) == [NoCall EXCEPT !.pc = "batch", !.lease = l, !.sequence = s]

LEMMA NextBatchShape ==
  ASSUME TInv, NEW c \in Calls, NEW l \in Leases, NEW s \in Nat, NextBatch(c, l, s),
         s = lease[l].expected, ~lease[l].running
  PROVE  /\ Local(c, l)
         /\ call'[c] = Fetching(l, s) /\ call'[c].result = "error"
         /\ lease'[l] = [lease[l] EXCEPT !.running = TRUE]
<1> DEFINE nc == [NoCall EXCEPT !.pc = "batch", !.lease = l, !.sequence = s]
           nl == [lease[l] EXCEPT !.running = TRUE]
<1>1. l \in 0..Channels BY ReadsAssumption DEF Leases
<1>2. nc \in CallRecords /\ nc.result = "error" BY <1>1, NoCallTyped DEF CallRecords
<1>3. lease[l] \in LeaseRecords BY DEF TInv, TypeOK
<1>4. nl \in LeaseRecords /\ nl.kind = lease[l].kind /\ nl.operation = lease[l].operation
  BY <1>3 DEF LeaseRecords
<1>5. phase # "stopped" /\ lease[l].kind # "unused"
  BY DEF NextBatch, Admitted, TInv, TypeOK
<1>6. call' = [call EXCEPT ![c] = nc] BY DEF NextBatch
<1>7. lease' = [lease EXCEPT ![l] = nl] BY DEF NextBatch
<1>8. UNCHANGED <<phase, session, file, directory>> BY DEF NextBatch, remote
<1> HIDE DEF nc, nl
<1>9. Local(c, l) /\ call'[c] = nc /\ lease'[l] = nl
  <2>1. LocalStep(c, l, nc, nl)
    BY <1>2, <1>4, <1>5, <1>6, <1>7, <1>8 DEF LocalStep
  <2> QED BY <2>1, LocalRule
<1> QED BY <1>2, <1>9 DEF nc, nl, Fetching

LEMMA BatchFailsShape ==
  ASSUME TInv, NEW c \in Calls, BatchFails(c)
  PROVE  LET l == call[c].lease
         IN  /\ Local(c, l) /\ call[c].pc = "batch"
             /\ call'[c] = [call[c] EXCEPT !.pc = "close", !.lease = l, !.result = "error"]
             /\ \E n \in lease[l].read..BatchEnd(lease[l].read) :
                  /\ n \in 0..MaxEntries /\ n <= directory
                  /\ lease'[l] = [lease[l] EXCEPT !.read = n, !.running = FALSE,
                                                  !.registered = FALSE]
<1> DEFINE l == call[c].lease
           nc == [call[c] EXCEPT !.pc = "close", !.lease = l, !.result = "error"]
<1>1. /\ l \in Leases /\ lease[l].kind # "unused" /\ lease[l] \in LeaseRecords
      /\ call[c] \in CallRecords /\ phase # "stopped" /\ call[c].pc = "batch"
  BY InProgress DEF BatchFails
<1>2. PICK n \in lease[l].read..BatchEnd(lease[l].read) :
        lease' = [lease EXCEPT ![l] = [lease[l] EXCEPT !.read = n, !.running = FALSE,
                                                       !.registered = FALSE]]
  BY DEF BatchFails, Mine
<1> DEFINE nl == [lease[l] EXCEPT !.read = n, !.running = FALSE, !.registered = FALSE]
<1>3. n \in 0..MaxEntries /\ n <= directory
  <2>1. lease[l].read \in 0..MaxEntries BY <1>1 DEF LeaseRecords
  <2>2. lease[l].read <= directory BY <1>1 DEF TInv, Bounds
  <2>3. directory \in 0..(MaxEntries + 1) BY DEF TInv, TypeOK
  <2>4. BatchEnd(lease[l].read) \in 0..MaxEntries /\ BatchEnd(lease[l].read) <= directory
    BY <2>1, <2>2, <2>3, BatchEndBounds
  <2> QED BY <2>1, <2>3, <2>4, ReadsAssumption
<1>4. nl \in LeaseRecords /\ nl.kind = lease[l].kind /\ nl.operation = lease[l].operation
  BY <1>1, <1>3 DEF LeaseRecords
<1>5. nc \in CallRecords BY <1>1 DEF CallRecords
<1>6. call' = [call EXCEPT ![c] = nc] BY DEF BatchFails, Closes
<1>7. lease' = [lease EXCEPT ![l] = nl] BY <1>2
<1>8. UNCHANGED <<phase, session, file, directory>> BY DEF BatchFails, remote
<1> HIDE DEF nc, nl, l
<1>9. Local(c, l) /\ call'[c] = nc /\ lease'[l] = nl
  <2>1. LocalStep(c, l, nc, nl)
    BY <1>1, <1>4, <1>5, <1>6, <1>7, <1>8 DEF LocalStep
  <2> QED BY <2>1, LocalRule
<1> QED BY <1>1, <1>3, <1>9 DEF l, nc, nl

\* A batch that the iterator does not fill is the last one.
LEMMA BatchArrivesShape ==
  ASSUME TInv, NEW c \in Calls, BatchArrives(c)
  PROVE  LET l    == call[c].lease
             n    == lease[l].read
             m    == IF lease[l].ended THEN n ELSE BatchEnd(n)
             next == [lease[l] EXCEPT !.read = m, !.running = FALSE,
                                      !.expected = call[c].sequence + 1]
         IN  /\ Local(c, l) /\ call[c].pc = "batch"
             /\ m \in 0..MaxEntries /\ n <= m /\ m <= directory
             /\ \/ /\ m < n + Batch
                   /\ lease[l].ended \/ (lease[l].open /\ m = directory)
                   /\ call'[c] = [call[c] EXCEPT !.pc = "close", !.at = n, !.last = m,
                                                 !.result = "done"]
                   /\ lease'[l] = [next EXCEPT !.ended = TRUE]
                   /\ batches' = batches
                \/ /\ m = n + Batch /\ lease[l].open
                   /\ call'[c] = NoCall /\ NoCall.pc = "idle"
                   /\ lease'[l] = [next EXCEPT !.registered = lease[l].registered
                                                              \/ call[c].sequence = 0]
                   /\ batches' = [batches EXCEPT ![l] = batches[l] \cup
                                    {[Returned(c) EXCEPT !.first = n, !.last = m]}]
<1> DEFINE l == call[c].lease
           n == lease[l].read
           m == IF lease[l].ended THEN n ELSE BatchEnd(n)
           next == [lease[l] EXCEPT !.read = m, !.running = FALSE,
                                    !.expected = call[c].sequence + 1]
           done == [call[c] EXCEPT !.pc = "close", !.at = n, !.last = m, !.result = "done"]
           ended == [next EXCEPT !.ended = TRUE]
           going == [next EXCEPT !.registered = lease[l].registered \/ call[c].sequence = 0]
<1>1. /\ l \in Leases /\ lease[l].kind # "unused" /\ lease[l] \in LeaseRecords
      /\ call[c] \in CallRecords /\ phase # "stopped" /\ call[c].pc = "batch"
  BY InProgress DEF BatchArrives
<1>2. n \in 0..MaxEntries /\ n <= directory /\ directory \in 0..(MaxEntries + 1)
  BY <1>1 DEF LeaseRecords, TInv, TypeOK, Bounds
<1>3. m \in 0..MaxEntries /\ n <= m /\ m <= directory /\ m <= n + Batch
  <2>1. BatchEnd(n) \in 0..MaxEntries /\ n <= BatchEnd(n) /\ BatchEnd(n) <= directory
        /\ BatchEnd(n) <= n + Batch
    BY <1>2, BatchEndBounds
  <2>2. n <= n + Batch BY <1>2, ReadsAssumption
  <2> HIDE DEF n
  <2> QED BY <1>2, <2>1, <2>2
<1>4. call[c].sequence + 1 \in Nat BY <1>1 DEF CallRecords
<1>5. /\ next \in LeaseRecords
      /\ next.kind = lease[l].kind /\ next.operation = lease[l].operation
  <2> HIDE DEF m
  <2> QED BY <1>1, <1>3, <1>4 DEF LeaseRecords
<1>6. /\ ended \in LeaseRecords
      /\ ended.kind = lease[l].kind /\ ended.operation = lease[l].operation
  <2> HIDE DEF next
  <2> QED BY <1>5 DEF LeaseRecords
<1>7. /\ going \in LeaseRecords
      /\ going.kind = lease[l].kind /\ going.operation = lease[l].operation
  <2>1. lease[l].registered \in BOOLEAN BY <1>1 DEF LeaseRecords
  <2>2. (lease[l].registered \/ call[c].sequence = 0) \in BOOLEAN OBVIOUS
  <2> HIDE DEF next
  <2> QED BY <1>5, <2>2 DEF LeaseRecords
<1>8. done \in CallRecords
  <2>1. n \in Nat BY <1>2
  <2> HIDE DEF m, n
  <2> QED BY <1>1, <1>3, <2>1 DEF CallRecords
<1>9. UNCHANGED <<phase, session, file, directory>> BY DEF BatchArrives, remote
<1>10. CASE m < n + Batch
  <2>1. /\ call' = [call EXCEPT ![c] = done]
        /\ lease' = [lease EXCEPT ![l] = ended]
        /\ batches' = batches
        /\ lease[l].ended \/ (lease[l].open /\ NothingAfter(m))
    BY <1>10 DEF BatchArrives
  <2> HIDE DEF l, n, m, done, ended
  <2>2. Local(c, l) /\ call'[c] = done /\ lease'[l] = ended
    <3>1. LocalStep(c, l, done, ended)
      BY <1>1, <1>6, <1>8, <1>9, <2>1 DEF LocalStep
    <3> QED BY <3>1, LocalRule
  <2>3. lease[l].ended \/ (lease[l].open /\ m = directory) BY <2>1 DEF NothingAfter
  <2> QED BY <1>1, <1>3, <1>10, <2>1, <2>2, <2>3, ZenonT(60) DEF l, n, m, done, ended
<1>11. CASE ~(m < n + Batch)
  <2>1. /\ call' = [call EXCEPT ![c] = NoCall]
        /\ lease' = [lease EXCEPT ![l] = going]
        /\ lease[l].open
        /\ batches' = [batches EXCEPT ![l] = batches[l] \cup
                         {[Returned(c) EXCEPT !.first = n, !.last = m]}]
    BY <1>11 DEF BatchArrives, Ends
  <2>2. m = n + Batch
    <3> HIDE DEF n, m
    <3> QED BY <1>2, <1>3, <1>11, ReadsAssumption
  <2> HIDE DEF l, n, m, going
  <2>3. Local(c, l) /\ call'[c] = NoCall /\ lease'[l] = going
    <3>1. LocalStep(c, l, NoCall, going)
      BY <1>1, <1>7, <1>9, <2>1, NoCallTyped DEF LocalStep
    <3> QED BY <3>1, LocalRule
  <2> QED BY <1>1, <1>3, <2>1, <2>2, <2>3, NoCallTyped, ZenonT(60) DEF l, n, m, going
<1> QED BY <1>10, <1>11, ZenonT(60)
-----------------------------------------------------------------------------
(* Every step keeps the types.                                             *)

\* What call c waits for after a step fits lease l.
CallFits(c, l) ==
  call'[c].pc # "idle" =>
    /\ call'[c].lease = l
    /\ call'[c].pc \in {"lstat", "hash", "handle", "read", "final"} => lease[l].kind = "download"
    /\ call'[c].pc = "batch" => lease[l].kind = "listing"
    /\ call'[c].pc = "query" => lease[l].kind = "query"
    /\ call'[c].result = "succeeded" => call'[c].pc = "close" /\ lease[l].kind = "download"
    /\ call'[c].result = "done" => call'[c].pc = "close" /\ lease[l].kind = "listing"
    /\ call'[c].pc \in {"opening", "lstat", "hash", "handle", "read", "final"} =>
         call'[c].operation = lease[l].operation
    /\ call'[c].pc = "read" =>
         call'[c].at <= Len(lease'[l].digest) /\ call'[c].at < Size /\ call'[c].sequence < Size

LeaseFits(l) ==
  /\ lease'[l].registered => lease[l].kind = "listing"
  /\ lease'[l].position <= Len(lease'[l].digest)
  /\ Len(lease[l].digest) <= Len(lease'[l].digest)
  /\ lease'[l].read <= directory
  /\ lease[l].kind = "download" => lease[l].operation \in Operations

RegistryFits(l) ==
  /\ \A o \in Operations :
       \/ active'[o] \in {active[o], None}
       \/ active'[o] = l /\ lease[l].kind = "download" /\ lease[l].operation = o
  /\ active' \in [Operations -> Leases \cup {None}]
  /\ finalized' \subseteq Operations
  /\ \/ succeeded' = succeeded
     \/ succeeded' = succeeded \cup {l} /\ lease[l].kind = "download"

LEMMA LocalTyped ==
  ASSUME TInv, NEW c, NEW l, Local(c, l), CallFits(c, l), LeaseFits(l), RegistryFits(l)
  PROVE  TInv'
<1>. c \in Calls /\ l \in Leases BY DEF Local
<1>1. \A m \in Leases : lease'[m].kind = lease[m].kind /\ lease'[m].operation = lease[m].operation
  BY DEF Local
<1>2. TypeOK'
  <2>1. \A m \in Leases : lease'[m].registered => lease'[m].kind = "listing"
    BY <1>1 DEF Local, LeaseFits, TInv, TypeOK
  <2>2. succeeded' \subseteq {m \in Leases : lease'[m].kind = "download"}
    BY <1>1 DEF RegistryFits, TInv, TypeOK
  <2> QED BY <2>1, <2>2 DEF Local, RegistryFits, TInv, TypeOK
<1>3. Kinds'
  <2>1. ASSUME NEW d \in Calls PROVE KindOf(d)'
    <3>1. CASE d = c BY <1>1, <3>1 DEF KindOf, Mine, Local, CallFits, LeaseFits
    <3>2. CASE d # c
      <4>1. call'[d] = call[d] /\ KindOf(d) BY <3>2 DEF Local, TInv, Kinds
      <4> QED BY <1>1, <4>1 DEF KindOf, Mine
    <3> QED BY <3>1, <3>2
  <2>2. ASSUME NEW o \in Operations, active'[o] # None
        PROVE  lease'[active'[o]].kind = "download" /\ lease'[active'[o]].operation = o
    <3>1. CASE active'[o] = active[o] BY <1>1, <2>2, <3>1 DEF TInv, TypeOK, Kinds
    <3>2. CASE active'[o] # active[o] BY <1>1, <2>2, <3>2 DEF RegistryFits
    <3> QED BY <3>1, <3>2
  <2>3. ASSUME NEW m \in Leases, lease'[m].kind = "unused" PROVE lease'[m] = NoLease
    BY <1>1, <2>3 DEF Local, TInv, Kinds
  <2>4. phase' # "stopped" BY DEF Local
  <2> QED BY <2>1, <2>2, <2>3, <2>4 DEF Kinds
<1>4. Bounds'
  <2>1. ASSUME NEW m \in Leases
        PROVE  lease'[m].position <= Len(lease'[m].digest) /\ lease'[m].read <= directory'
    BY DEF Local, LeaseFits, TInv, Bounds
  <2>2. ASSUME NEW d \in Calls, call'[d].pc = "read"
        PROVE  /\ call'[d].at <= Len(lease'[call'[d].lease].digest)
               /\ call'[d].at < Size /\ call'[d].sequence < Size
    <3>1. CASE d = c BY <2>2, <3>1 DEF CallFits
    <3>2. CASE d # c
      <4>1. /\ call'[d] = call[d]
            /\ call[d].at <= Len(lease[call[d].lease].digest)
            /\ call[d].at < Size /\ call[d].sequence < Size
        BY <2>2, <3>2 DEF Local, TInv, Bounds, Mine
      <4>2. CASE call[d].lease = l
        <5>1. /\ call[d].at \in Nat
              /\ lease[l].digest \in Seq(Chunks) /\ lease'[l].digest \in Seq(Chunks)
          <6>1. call[d] \in CallRecords /\ lease[l] \in LeaseRecords
                /\ lease'[l] \in LeaseRecords
            BY DEF TInv, TypeOK, Local
          <6> QED BY <6>1 DEF CallRecords, LeaseRecords
        <5>2. Len(lease[l].digest) \in Nat /\ Len(lease'[l].digest) \in Nat BY <5>1
        <5>3. call[d].at <= Len(lease[l].digest) BY <4>1, <4>2
        <5>4. call[d].at <= Len(lease'[l].digest) BY <5>1, <5>2, <5>3 DEF LeaseFits
        <5> QED BY <4>1, <4>2, <5>4
      <4>3. CASE call[d].lease # l
        <5>1. call[d].lease \in Leases BY <2>2, <4>1 DEF TInv, Kinds, KindOf
        <5> QED BY <4>1, <4>3, <5>1 DEF Local
      <4> QED BY <4>2, <4>3
    <3> QED BY <3>1, <3>2
  <2> QED BY <2>1, <2>2 DEF Bounds, Mine
<1> QED BY <1>2, <1>3, <1>4 DEF TInv

\* What a lease that stays as it is, and a registry that does, fit.
LEMMA StaysFit ==
  ASSUME TInv, NEW l \in Leases
  PROVE  /\ lease'[l] = lease[l] /\ (lease[l].kind = "download" => lease[l].operation \in Operations)
              => LeaseFits(l)
         /\ UNCHANGED <<active, finalized, succeeded>> => RegistryFits(l)
         /\ \A o \in Operations :
              /\ active' = [active EXCEPT ![o] = None] /\ finalized' = finalized \cup {o}
              /\ succeeded' = succeeded
              => RegistryFits(l)
<1>1. lease[l].digest \in Seq(Chunks) BY DEF TInv, TypeOK, LeaseRecords
<1>2. Len(lease[l].digest) \in Nat BY <1>1
<1>3. lease[l].position <= Len(lease[l].digest) /\ lease[l].read <= directory
      /\ (lease[l].registered => lease[l].kind = "listing")
  BY DEF TInv, TypeOK, Bounds
<1>4. active \in [Operations -> Leases \cup {None}] /\ finalized \subseteq Operations
  BY DEF TInv, TypeOK
<1> QED BY <1>2, <1>3, <1>4 DEF LeaseFits, RegistryFits

LEMMA CloseFits ==
  ASSUME NEW c, NEW l, Local(c, l),
         NEW result \in {"error", "succeeded", "cancelled", "done", "answer"},
         call'[c] = Closing(c, l, result),
         result = "succeeded" => lease[l].kind = "download",
         result = "done" => lease[l].kind = "listing"
  PROVE  CallFits(c, l)
<1>1. call[c] \in CallRecords BY DEF Local
<1>2. call'[c].pc = "close" /\ call'[c].lease = l /\ call'[c].result = result
  BY <1>1 DEF CallRecords, Closing
<1> QED BY <1>2 DEF CallFits

\* The facts about the lease of a call in progress that steps rely on.
LEMMA OwnLease ==
  ASSUME TInv, NEW c \in Calls, call[c].pc # "idle"
  PROVE  LET l == call[c].lease
         IN  /\ l \in Leases /\ lease[l].kind # "unused"
             /\ lease[l].kind = "download" => lease[l].operation \in Operations
             /\ call[c].result = "succeeded" => lease[l].kind = "download"
             /\ call[c].result = "done" => lease[l].kind = "listing"
             /\ call[c].pc # "close" => call[c].result \notin {"succeeded", "done"}
             /\ call[c].pc \in {"lstat", "hash", "handle", "read", "final"} =>
                  lease[l].kind = "download" /\ call[c].operation = lease[l].operation
             /\ call[c].pc = "opening" => call[c].operation = lease[l].operation
             /\ call[c].pc = "batch" => lease[l].kind = "listing"
BY DEF TInv, Kinds, KindOf, Mine

\* The facts about a download that is registered.
LEMMA Registered ==
  ASSUME TInv, NEW o \in Operations, active[o] # None
  PROVE  /\ active[o] \in Leases /\ lease[active[o]].kind = "download"
         /\ lease[active[o]].operation = o
BY DEF TInv, TypeOK, Kinds

\* A request of a download that closes it.
LEMMA ClosesTyped ==
  ASSUME TInv, NEW c \in Calls, NEW o \in Operations, NEW l \in Leases,
         lease[l].kind = "download", lease[l].operation = o, phase # "stopped",
         NEW result \in {"error", "succeeded", "cancelled"},
         ClosesDownload(c, o, l, result),
         UNCHANGED <<phase, session, file, directory, lease, succeeded>>
  PROVE  /\ TInv' /\ Local(c, l)
         /\ call'[c] = Closing(c, l, result)
<1>1. Closes(c, l, result) /\ active' = [active EXCEPT ![o] = None]
      /\ finalized' = finalized \cup {o}
  BY DEF ClosesDownload
<1>2. /\ Local(c, l)
      /\ call'[c] = Closing(c, l, result)
  <2>1. /\ result \in {"error", "succeeded", "cancelled", "done", "answer"}
        /\ lease[l].kind # "unused" /\ lease' = lease
        /\ UNCHANGED <<phase, session, file, directory>>
    OBVIOUS
  <2> QED BY <1>1, <2>1, ClosesShape, ZenonT(30)
<1>3. CallFits(c, l) BY <1>2, CloseFits
<1>4. LeaseFits(l) /\ RegistryFits(l) BY <1>1, StaysFit
<1> QED BY <1>2, <1>3, <1>4, LocalTyped

\* A step that ends a call or goes on, without a change of lease and registry.
LEMMA QuietTyped ==
  ASSUME TInv, NEW c \in Calls, call[c].pc # "idle", Local(c, call[c].lease),
         CallFits(c, call[c].lease),
         UNCHANGED <<lease, active, finalized, succeeded>>
  PROVE  TInv'
<1>1. LeaseFits(call[c].lease) /\ RegistryFits(call[c].lease) BY OwnLease, StaysFit
<1> QED BY <1>1, LocalTyped

LEMMA DownloadRequestTyped ==
  ASSUME TInv, NEW c \in Calls, DownloadRequest(c)
  PROVE  TInv'
<1>1. PICK o \in Operations : \/ BeginDownload(c, o) \/ Finish(c, o) \/ Abort(c, o)
                              \/ \E s \in 0..Size : ReadChunk(c, o, s)
  BY DEF DownloadRequest
<1>2. o # None BY ReadsAssumption
<1>3. CASE BeginDownload(c, o) BY <1>2, <1>3, OpensTyped DEF BeginDownload
<1>4. CASE Abort(c, o)
  BY <1>4, Registered, ClosesTyped DEF Abort, Admitted, remote, told
<1>5. CASE Finish(c, o)
  <2> DEFINE l == active[o]
  <2>1. /\ l \in Leases /\ lease[l].kind = "download" /\ lease[l].operation = o
        /\ phase # "stopped" /\ UNCHANGED <<phase, session, file, directory, lease, succeeded>>
    BY <1>5, Registered DEF Finish, Admitted, remote, told
  <2>2. CASE lease[l].digest = HashOf(lease[l].frozen)
    <3>1. /\ call' = [call EXCEPT ![c] =
                [NoCall EXCEPT !.pc = "final", !.lease = l, !.operation = o]]
          /\ UNCHANGED <<active, finalized>>
      BY <1>5, <2>2 DEF Finish
    <3> HIDE DEF l
    <3>2. [NoCall EXCEPT !.pc = "final", !.lease = l, !.operation = o] \in CallRecords
      <4>1. l \in 0..Channels BY <2>1, ReadsAssumption DEF Leases
      <4> QED BY <4>1, NoCallTyped DEF CallRecords
    <3>3. /\ Local(c, l)
          /\ call'[c] = [NoCall EXCEPT !.pc = "final", !.lease = l, !.operation = o]
      BY <2>1, <3>1, <3>2, CallRule
    <3>4. CallFits(c, l) BY <2>1, <3>3 DEF CallFits, NoCall
    <3>5. LeaseFits(l) /\ RegistryFits(l) BY <2>1, <3>1, StaysFit
    <3> QED BY <3>3, <3>4, <3>5, LocalTyped
  <2>3. CASE lease[l].digest # HashOf(lease[l].frozen)
    <3>1. ClosesDownload(c, o, l, "error") BY <1>5, <2>3 DEF Finish
    <3> QED BY <2>1, <3>1, ClosesTyped
  <2> QED BY <2>2, <2>3
<1>6. ASSUME NEW s \in 0..Size, ReadChunk(c, o, s) PROVE TInv'
  <2> DEFINE l == active[o]
  <2>1. /\ l \in Leases /\ lease[l].kind = "download" /\ lease[l].operation = o
        /\ phase # "stopped" /\ UNCHANGED <<phase, session, file, directory, lease, succeeded>>
    BY <1>6, Registered DEF ReadChunk, Admitted, remote, told
  <2>2. CASE AtEnd(l) \/ s # Len(lease[l].digest)
    <3>1. ClosesDownload(c, o, l, "error") BY <1>6, <2>2 DEF ReadChunk
    <3> QED BY <2>1, <3>1, ClosesTyped
  <2>3. CASE ~(AtEnd(l) \/ s # Len(lease[l].digest))
    <3>1. /\ call' = [call EXCEPT ![c] = Asking("read", l, o, s, lease[l].position)]
          /\ UNCHANGED <<active, finalized>>
      BY <1>6, <2>3 DEF ReadChunk, Asking
    <3> HIDE DEF l
    <3>2. lease[l] \in LeaseRecords /\ lease[l].position <= Len(lease[l].digest)
      BY <2>1 DEF TInv, TypeOK, Bounds
    <3>3. /\ lease[l].position \in Nat /\ s \in Nat /\ s < Size /\ s = Len(lease[l].digest)
          /\ lease[l].position < Size
      BY <2>3, <3>2, ReadsAssumption DEF AtEnd, LeaseRecords
    <3>4. /\ Local(c, l)
          /\ call'[c] = Asking("read", l, o, s, lease[l].position)
          /\ call'[c].result = "error"
      <4>1. /\ lease[l].kind # "unused" /\ lease' = lease
            /\ UNCHANGED <<phase, session, file, directory>>
        BY <2>1
      <4>2. l \in Leases /\ phase # "stopped" /\ s \in Nat /\ lease[l].position \in Nat
        BY <2>1, <3>3
      <4>3. call' = [call EXCEPT ![c] = Asking("read", l, o, s, lease[l].position)] BY <3>1
      <4> QED BY <4>1, <4>2, <4>3, AsksShape, ZenonT(30)
    <3>5. CallFits(c, l) BY <2>1, <3>2, <3>3, <3>4 DEF CallFits, NoCall, Asking
    <3>6. LeaseFits(l) /\ RegistryFits(l) BY <2>1, <3>1, StaysFit
    <3> QED BY <3>4, <3>5, <3>6, LocalTyped
  <2> QED BY <2>2, <2>3
<1> QED BY <1>1, <1>3, <1>4, <1>5, <1>6

LEMMA ListingRequestTyped ==
  ASSUME TInv, NEW c \in Calls, ListingRequest(c) \/ Ask(c)
  PROVE  TInv'
<1>1. CASE BeginListing(c) \/ Ask(c)
  BY <1>1, OpensTyped DEF BeginListing, Ask
<1>2. ASSUME NEW l \in Leases, lease[l].registered, phase # "stopped", Unregister(l),
             call' = [call EXCEPT ![c] = [NoCall EXCEPT !.pc = "close", !.lease = l]],
             UNCHANGED <<phase, session, file, directory, active, finalized, succeeded>>
      PROVE  TInv'
  <2>1. lease[l].kind = "listing" /\ lease[l] \in LeaseRecords /\ lease[l].read <= directory
        /\ lease[l].position <= Len(lease[l].digest)
    BY <1>2 DEF TInv, TypeOK, Bounds
  <2>2. /\ Local(c, l)
        /\ call'[c] = [NoCall EXCEPT !.pc = "close", !.lease = l] /\ call'[c].result = "error"
        /\ lease'[l] = [lease[l] EXCEPT !.registered = FALSE]
    BY <1>2, <2>1, UnregisterShape
  <2>3. CallFits(c, l) BY <2>2 DEF CallFits, NoCall
  <2>4. LeaseFits(l)
    <3>1. /\ lease'[l].registered = FALSE /\ lease'[l].position = lease[l].position
          /\ lease'[l].digest = lease[l].digest /\ lease'[l].read = lease[l].read
      BY <2>1, <2>2 DEF LeaseRecords
    <3>2. Len(lease[l].digest) \in Nat BY <2>1 DEF LeaseRecords
    <3> QED BY <2>1, <3>1, <3>2 DEF LeaseFits
  <2>5. RegistryFits(l) BY <1>2, StaysFit
  <2> QED BY <2>2, <2>3, <2>4, <2>5, LocalTyped
<1>3. ASSUME NEW l \in Leases, CloseListing(c, l) PROVE TInv'
  BY <1>2, <1>3 DEF CloseListing, Admitted, remote, told
<1>4. ASSUME NEW l \in Leases, NEW s \in 0..(MaxEntries + 1), NextBatch(c, l, s) PROVE TInv'
  <2>1. /\ lease[l].registered /\ phase # "stopped"
        /\ UNCHANGED <<phase, session, file, directory, active, finalized, succeeded>>
    BY <1>4 DEF NextBatch, Admitted, remote, told
  <2>2. CASE s # lease[l].expected \/ lease[l].running
    BY <1>2, <1>4, <2>1, <2>2 DEF NextBatch
  <2>3. CASE ~(s # lease[l].expected \/ lease[l].running)
    <3>1. lease[l].kind = "listing" /\ lease[l] \in LeaseRecords /\ lease[l].read <= directory
          /\ lease[l].position <= Len(lease[l].digest)
      BY <2>1 DEF TInv, TypeOK, Bounds
    <3>2. s \in Nat BY ReadsAssumption
    <3>3. /\ Local(c, l)
          /\ call'[c] = Fetching(l, s) /\ call'[c].result = "error"
          /\ lease'[l] = [lease[l] EXCEPT !.running = TRUE]
      BY <1>4, <2>3, <3>2, NextBatchShape
    <3>4. CallFits(c, l) BY <3>1, <3>3 DEF CallFits, NoCall, Fetching
    <3>5. LeaseFits(l)
      <4>1. /\ lease'[l].registered = lease[l].registered
            /\ lease'[l].position = lease[l].position
            /\ lease'[l].digest = lease[l].digest /\ lease'[l].read = lease[l].read
        BY <3>1, <3>3 DEF LeaseRecords
      <4>2. Len(lease[l].digest) \in Nat BY <3>1 DEF LeaseRecords
      <4> QED BY <3>1, <4>1, <4>2 DEF LeaseFits
    <3>6. RegistryFits(l) BY <2>1, StaysFit
    <3> QED BY <3>3, <3>4, <3>5, <3>6, LocalTyped
  <2> QED BY <2>2, <2>3
<1> QED BY <1>1, <1>3, <1>4 DEF ListingRequest

LEMMA LetGoTyped ==
  ASSUME TInv, NEW c \in Calls, call[c].pc = "close", LetGo(call[c].lease), Ends(c),
         UNCHANGED <<phase, session, file, directory, active, finalized>>,
         \/ succeeded' = succeeded
         \/ /\ succeeded' = succeeded \cup {call[c].lease}
            /\ call[c].result = "succeeded"
  PROVE  TInv'
<1> DEFINE l == call[c].lease
<1>1. UNCHANGED <<phase, session, file, directory>> BY SMTT(60)
<1>2. /\ Local(c, l)
      /\ call'[c] = NoCall /\ NoCall.pc = "idle"
      /\ lease'[l] = [lease[l] EXCEPT !.open = FALSE,
                        !.ended = lease[l].ended \/ ~lease[l].running, !.registered = FALSE]
  BY <1>1, LetGoShape
<1>3. /\ l \in Leases /\ (lease[l].kind = "download" => lease[l].operation \in Operations)
      /\ (call[c].result = "succeeded" => lease[l].kind = "download")
  BY OwnLease
<1>4. lease[l] \in LeaseRecords /\ lease[l].read <= directory
      /\ lease[l].position <= Len(lease[l].digest)
      /\ active \in [Operations -> Leases \cup {None}] /\ finalized \subseteq Operations
  BY <1>3 DEF TInv, TypeOK, Bounds
<1> HIDE DEF l
<1>5. CallFits(c, l) BY <1>2 DEF CallFits
<1>6. LeaseFits(l)
  <2>1. /\ lease'[l].registered = FALSE /\ lease'[l].position = lease[l].position
        /\ lease'[l].digest = lease[l].digest /\ lease'[l].read = lease[l].read
    BY <1>2, <1>4 DEF LeaseRecords
  <2>2. Len(lease[l].digest) \in Nat BY <1>4 DEF LeaseRecords
  <2> QED BY <1>3, <1>4, <2>1, <2>2 DEF LeaseFits
<1>7. RegistryFits(l) BY <1>3, <1>4 DEF RegistryFits, l
<1> QED BY <1>2, <1>5, <1>6, <1>7, LocalTyped

LEMMA ChunkTyped ==
  ASSUME TInv, NEW c \in Calls, ChunkArrives(c)
  PROVE  TInv'
<1> DEFINE l == call[c].lease
           longer == Append(lease[l].digest, <<call[c].at, file>>)
<1>1. /\ Local(c, l) /\ call'[c] = NoCall /\ NoCall.pc = "idle"
      /\ lease'[l] = [lease[l] EXCEPT !.digest = longer, !.position = call[c].at + 1]
      /\ longer \in Seq(Chunks)
  BY ChunkArrivesShape
<1>2. call[c].pc = "read" /\ UNCHANGED <<active, finalized, succeeded>> BY DEF ChunkArrives
<1>3. /\ l \in Leases /\ lease[l].kind = "download" /\ lease[l].operation \in Operations
      /\ lease[l] \in LeaseRecords /\ call[c] \in CallRecords
      /\ call[c].at <= Len(lease[l].digest) /\ lease[l].read <= directory
      /\ ~lease[l].registered
  BY <1>2, OwnLease DEF TInv, TypeOK, Bounds, Mine
<1>4. Len(lease[l].digest) \in Nat /\ Len(longer) = Len(lease[l].digest) + 1
      /\ call[c].at \in Nat
  BY <1>3, SMTT(60) DEF LeaseRecords, CallRecords
<1> HIDE DEF longer, l
<1>5. CallFits(c, l) BY <1>1 DEF CallFits
<1>6. LeaseFits(l)
  <2>1. /\ lease'[l].registered = lease[l].registered /\ lease'[l].position = call[c].at + 1
        /\ lease'[l].digest = longer /\ lease'[l].read = lease[l].read
    BY <1>1, <1>3 DEF LeaseRecords
  <2> QED BY <1>3, <1>4, <2>1 DEF LeaseFits
<1>7. RegistryFits(l) BY <1>2, <1>3, StaysFit
<1> QED BY <1>1, <1>5, <1>6, <1>7, LocalTyped

LEMMA BatchTyped ==
  ASSUME TInv, NEW c \in Calls, BatchArrives(c) \/ BatchFails(c)
  PROVE  TInv'
<1> DEFINE l == call[c].lease
<1>1. /\ call[c].pc = "batch" /\ UNCHANGED <<active, finalized, succeeded>>
      /\ l \in Leases /\ lease[l].kind = "listing"
      /\ lease[l] \in LeaseRecords /\ call[c] \in CallRecords
      /\ lease[l].position <= Len(lease[l].digest)
  <2>1. call[c].pc = "batch" /\ UNCHANGED <<active, finalized, succeeded>>
    BY ZenonT(60) DEF BatchArrives, BatchFails, told
  <2>2. l \in Leases /\ lease[l].kind = "listing" BY <2>1, OwnLease
  <2>3. TypeOK /\ Bounds BY DEF TInv
  <2>4. lease[l] \in LeaseRecords /\ call[c] \in CallRecords BY <2>2, <2>3 DEF TypeOK
  <2>5. lease[l].position <= Len(lease[l].digest) BY <2>2, <2>3 DEF Bounds
  <2> QED BY <2>1, <2>2, <2>4, <2>5
<1>2. Len(lease[l].digest) \in Nat BY <1>1 DEF LeaseRecords
<1>3. /\ Local(c, l)
      /\ \/ call'[c] = NoCall /\ NoCall.pc = "idle"
         \/ /\ call'[c].pc = "close" /\ call'[c].lease = l
            /\ call'[c].result \in {"error", "done"}
      /\ lease'[l].position = lease[l].position /\ lease'[l].digest = lease[l].digest
      /\ lease'[l].read <= directory
  <2>1. CASE BatchFails(c)
    <3>1. /\ Local(c, l)
          /\ call'[c] = [call[c] EXCEPT !.pc = "close", !.lease = l, !.result = "error"]
          /\ \E n \in lease[l].read..BatchEnd(lease[l].read) :
               /\ n \in 0..MaxEntries /\ n <= directory
               /\ lease'[l] = [lease[l] EXCEPT !.read = n, !.running = FALSE,
                                               !.registered = FALSE]
      BY <2>1, BatchFailsShape, ZenonT(60)
    <3> HIDE DEF l
    <3>2. call'[c].pc = "close" /\ call'[c].lease = l /\ call'[c].result = "error"
      BY <1>1, <3>1 DEF CallRecords
    <3>3. PICK n \in lease[l].read..BatchEnd(lease[l].read) :
            /\ n \in 0..MaxEntries /\ n <= directory
            /\ lease'[l] = [lease[l] EXCEPT !.read = n, !.running = FALSE, !.registered = FALSE]
      BY <3>1
    <3>4. /\ lease'[l].position = lease[l].position /\ lease'[l].digest = lease[l].digest
          /\ lease'[l].read = n
      BY <1>1, <3>3 DEF LeaseRecords
    <3> QED BY <3>1, <3>2, <3>3, <3>4
  <2>2. CASE BatchArrives(c)
    <3> DEFINE n == lease[l].read
               m == IF lease[l].ended THEN n ELSE BatchEnd(n)
               next == [lease[l] EXCEPT !.read = m, !.running = FALSE,
                                        !.expected = call[c].sequence + 1]
    <3>1. /\ Local(c, l) /\ m <= directory /\ m \in 0..MaxEntries
          /\ \/ /\ call'[c] = [call[c] EXCEPT !.pc = "close", !.at = n, !.last = m,
                                              !.result = "done"]
                /\ lease'[l] = [next EXCEPT !.ended = TRUE]
             \/ /\ call'[c] = NoCall /\ NoCall.pc = "idle"
                /\ lease'[l] = [next EXCEPT !.registered = lease[l].registered
                                                           \/ call[c].sequence = 0]
      BY <2>2, BatchArrivesShape, ZenonT(60)
    <3>2. /\ next.position = lease[l].position /\ next.digest = lease[l].digest /\ next.read = m
          /\ next \in LeaseRecords
      <4>1. call[c].sequence + 1 \in Nat BY <1>1 DEF CallRecords
      <4> HIDE DEF m, n
      <4> QED BY <1>1, <3>1, <4>1 DEF LeaseRecords
    <3>3. /\ lease'[l].position = next.position /\ lease'[l].digest = next.digest
          /\ lease'[l].read = next.read
      <4> HIDE DEF next
      <4> QED BY <3>1, <3>2 DEF LeaseRecords
    <3>4. \/ call'[c] = NoCall /\ NoCall.pc = "idle"
          \/ call'[c].pc = "close" /\ call'[c].lease = l /\ call'[c].result = "done"
      <4> HIDE DEF m, n, next
      <4> QED BY <1>1, <3>1 DEF CallRecords, l
    <3> HIDE DEF m, n, next, l
    <3> QED BY <3>1, <3>2, <3>3, <3>4
  <2> QED BY <2>1, <2>2
<1> HIDE DEF l
<1>4. CallFits(c, l) BY <1>1, <1>3 DEF CallFits
<1>5. LeaseFits(l) BY <1>1, <1>2, <1>3 DEF LeaseFits
<1>6. RegistryFits(l) BY <1>1, StaysFit
<1> QED BY <1>3, <1>4, <1>5, <1>6, LocalTyped

LEMMA StepTyped ==
  ASSUME TInv, NEW c \in Calls, Step(c)
  PROVE  TInv'
<1> DEFINE l == call[c].lease
<1>1. CASE ChannelOpens(c)
  <2>1. /\ Local(c, l) /\ call[c].pc = "opening"
        /\ call'[c] = [call[c] EXCEPT !.pc = FirstStep[lease[l].kind]]
        /\ lease'[l] = [lease[l] EXCEPT !.open = TRUE, !.running = (lease[l].kind = "listing")]
        /\ UNCHANGED <<active, finalized, succeeded>>
    BY <1>1, ChannelOpensShape, ZenonT(60)
  <2>2. /\ l \in Leases /\ lease[l] \in LeaseRecords /\ call[c] \in CallRecords
        /\ lease[l].position <= Len(lease[l].digest) /\ lease[l].read <= directory
        /\ lease[l].registered => lease[l].kind = "listing"
        /\ lease[l].kind = "download" => lease[l].operation \in Operations
        /\ call[c].result \notin {"succeeded", "done"}
        /\ call[c].operation = lease[l].operation
        /\ lease[l].kind # "unused"
    BY <2>1, OwnLease DEF TInv, TypeOK, Bounds
  <2>3. lease[l].kind \in {"download", "listing", "query"} BY <2>2 DEF LeaseRecords
  <2> HIDE DEF l
  <2>4. CallFits(c, l)
    <3>1. /\ call'[c].pc = FirstStep[lease[l].kind] /\ call'[c].lease = l
          /\ call'[c].result = call[c].result /\ call'[c].operation = lease[l].operation
      BY <2>1, <2>2 DEF CallRecords, l
    <3> QED BY <2>2, <2>3, <3>1 DEF CallFits, FirstStep
  <2>5. LeaseFits(l)
    <3>1. /\ lease'[l].registered = lease[l].registered
          /\ lease'[l].position = lease[l].position
          /\ lease'[l].digest = lease[l].digest /\ lease'[l].read = lease[l].read
      BY <2>1, <2>2 DEF LeaseRecords
    <3>2. Len(lease[l].digest) \in Nat BY <2>2 DEF LeaseRecords
    <3> QED BY <2>2, <3>1, <3>2 DEF LeaseFits
  <2>6. RegistryFits(l) BY <2>1, <2>2, StaysFit
  <2> QED BY <2>1, <2>4, <2>5, <2>6, LocalTyped
<1>2. CASE ChannelFails(c) \/ ReadFails(c)
  <2>1. /\ call[c].pc # "idle" /\ Ends(c) /\ lease' = lease
        /\ UNCHANGED <<phase, session, file, directory>>
        /\ UNCHANGED <<lease, active, finalized, succeeded>>
    BY <1>2 DEF ChannelFails, ReadFails, remote, told
  <2>2. Local(c, l) /\ call'[c] = NoCall /\ NoCall.pc = "idle" BY <2>1, EndsShape
  <2>3. CallFits(c, l) BY <2>2 DEF CallFits
  <2> QED BY <2>1, <2>2, <2>3, QuietTyped
<1>3. CASE CloseEnds(c) \/ CloseRaises(c)
  BY <1>3, LetGoTyped DEF CloseEnds, CloseRaises, remote, told
<1>4. CASE SourceRead(c)
  <2>1. /\ Local(c, l) /\ call'[c] = [call[c] EXCEPT !.pc = "hash"]
        /\ lease'[l] = [lease[l] EXCEPT !.frozen = file]
    BY <1>4, SourceReadShape
  <2>2. call[c].pc = "lstat" /\ UNCHANGED <<active, finalized, succeeded>>
    BY <1>4 DEF SourceRead, told
  <2>3. /\ l \in Leases /\ lease[l] \in LeaseRecords /\ call[c] \in CallRecords
        /\ lease[l].position <= Len(lease[l].digest) /\ lease[l].read <= directory
        /\ lease[l].registered => lease[l].kind = "listing"
        /\ lease[l].kind = "download" /\ lease[l].operation \in Operations
        /\ call[c].result \notin {"succeeded", "done"}
        /\ call[c].operation = lease[l].operation
    BY <2>2, OwnLease DEF TInv, TypeOK, Bounds
  <2> HIDE DEF l
  <2>4. CallFits(c, l)
    <3>1. /\ call'[c].pc = "hash" /\ call'[c].lease = l
          /\ call'[c].result = call[c].result /\ call'[c].operation = lease[l].operation
      BY <2>1, <2>3 DEF CallRecords, l
    <3> QED BY <2>3, <3>1 DEF CallFits
  <2>5. LeaseFits(l)
    <3>1. /\ lease'[l].registered = lease[l].registered
          /\ lease'[l].position = lease[l].position
          /\ lease'[l].digest = lease[l].digest /\ lease'[l].read = lease[l].read
      BY <2>1, <2>3 DEF LeaseRecords
    <3>2. Len(lease[l].digest) \in Nat BY <2>3 DEF LeaseRecords
    <3> QED BY <2>3, <3>1, <3>2 DEF LeaseFits
  <2>6. RegistryFits(l) BY <2>2, <2>3, StaysFit
  <2> QED BY <2>1, <2>4, <2>5, <2>6, LocalTyped
<1>5. CASE SourceHashed(c) \/ BeginFails(c) \/ Answered(c)
  <2>1. /\ call[c].pc \in {"lstat", "hash", "handle", "query"}
        /\ lease' = lease /\ UNCHANGED <<phase, session, file, directory>>
        /\ UNCHANGED <<lease, active, finalized, succeeded>>
        /\ \/ Closes(c, l, "error") \/ Closes(c, l, "answer")
           \/ call[c].pc = "hash" /\ Goes(c, "handle")
    BY <1>5 DEF SourceHashed, BeginFails, Answered, remote, told
  <2>2. /\ call[c].pc # "idle" /\ l \in Leases /\ lease[l].kind # "unused"
        /\ phase # "stopped" /\ call[c] \in CallRecords
        /\ call[c].result \notin {"succeeded", "done"}
        /\ call[c].pc = "hash" => /\ lease[l].kind = "download"
                                  /\ call[c].operation = lease[l].operation
    BY <2>1, OwnLease, InProgress
  <2>3. ASSUME NEW result \in {"error", "answer"}, Closes(c, l, result)
        PROVE  Local(c, l) /\ CallFits(c, l)
    <3>1. result \in {"error", "succeeded", "cancelled", "done", "answer"} OBVIOUS
    <3>2. Local(c, l) /\ call'[c] = Closing(c, l, result)
      BY <2>1, <2>2, <2>3, <3>1, ClosesShape, ZenonT(30)
    <3>3. CallFits(c, l) BY <3>1, <3>2, CloseFits
    <3> QED BY <3>2, <3>3
  <2>4. ASSUME call[c].pc = "hash", Goes(c, "handle")
        PROVE  Local(c, l) /\ CallFits(c, l)
    <3>1. Local(c, l) /\ call'[c] = [call[c] EXCEPT !.pc = "handle"]
      BY <2>1, <2>2, <2>4, GoesShape
    <3>2. /\ call'[c].pc = "handle" /\ call'[c].lease = l
          /\ call'[c].result = call[c].result /\ call'[c].operation = call[c].operation
      BY <2>2, <3>1 DEF CallRecords
    <3> QED BY <2>2, <2>4, <3>1, <3>2 DEF CallFits
  <2>5. Local(c, l) /\ CallFits(c, l) BY <2>1, <2>3, <2>4
  <2> QED BY <2>1, <2>2, <2>5, QuietTyped
<1>6. CASE HandleOpens(c)
  <2>1. /\ call[c].pc = "handle" /\ Ends(c) /\ lease' = lease
        /\ UNCHANGED <<phase, session, file, directory>>
        /\ finalized' = finalized /\ succeeded' = succeeded
        /\ active' = [active EXCEPT ![call[c].operation] = l]
    BY <1>6 DEF HandleOpens, remote, told
  <2>2. Local(c, l) /\ call'[c] = NoCall /\ NoCall.pc = "idle" BY <2>1, EndsShape
  <2>3. CallFits(c, l) BY <2>2 DEF CallFits
  <2>4. /\ l \in Leases /\ lease[l].kind = "download" /\ lease[l].operation \in Operations
        /\ call[c].operation = lease[l].operation
    BY <2>1, OwnLease
  <2>5. LeaseFits(l) BY <2>1, <2>4, StaysFit
  <2>6. RegistryFits(l) BY <2>1, <2>4 DEF RegistryFits, TInv, TypeOK
  <2> QED BY <2>2, <2>3, <2>5, <2>6, LocalTyped
<1>7. CASE ReadTimesOut(c) \/ FinishReads(c)
  <2>1. /\ call[c].pc \in {"read", "final"}
        /\ \E result \in {"error", "succeeded", "cancelled"} :
             ClosesDownload(c, call[c].operation, l, result)
        /\ UNCHANGED <<phase, session, file, directory, lease, succeeded>>
    BY <1>7 DEF ReadTimesOut, FinishReads, remote, told
  <2>2. /\ l \in Leases /\ lease[l].kind = "download" /\ lease[l].operation \in Operations
        /\ call[c].operation = lease[l].operation /\ phase # "stopped"
    BY <2>1, OwnLease, InProgress
  <2> QED BY <2>1, <2>2, ClosesTyped
<1> QED BY <1>1, <1>2, <1>3, <1>4, <1>5, <1>6, <1>7, ChunkTyped, BatchTyped DEF Step

LEMMA WorldTyped ==
  ASSUME TInv, Stop \/ CloseAll \/ SessionCloses \/ ConnectionCloses \/ FileChanges
  PROVE  TInv'
<1> USE DEF remote, told
<1>1. CASE Stop
  BY <1>1 DEF Stop, TInv, TypeOK, Kinds, KindOf, Bounds, Mine
<1>2. CASE SessionCloses
  BY <1>2 DEF SessionCloses, TInv, TypeOK, Kinds, KindOf, Bounds, Mine
<1>3. CASE FileChanges
  <2>1. file' \in 0..MaxWrites BY <1>3, ReadsAssumption DEF FileChanges, TInv, TypeOK
  <2> QED BY <1>3, <2>1 DEF FileChanges, TInv, TypeOK, Kinds, KindOf, Bounds, Mine
<1>4. ASSUME lease' \in [Leases -> LeaseRecords],
             \A l \in Leases :
               /\ lease'[l].kind = lease[l].kind /\ lease'[l].operation = lease[l].operation
               /\ lease'[l].position = lease[l].position /\ lease'[l].digest = lease[l].digest
               /\ lease'[l].read = lease[l].read
               /\ lease'[l].registered => lease[l].registered
               /\ lease[l] = NoLease => lease'[l] = NoLease,
             UNCHANGED <<file, directory, call, succeeded>>,
             phase' \in {"running", "stopping", "stopped"},
             session' \in {"open", "closing", "closed"},
             phase' = "stopped" => \A c \in Calls : call[c].pc = "idle",
             active' \in [Operations -> Leases \cup {None}], finalized' \subseteq Operations,
             \A o \in Operations : active'[o] \in {active[o], None}
      PROVE  TInv'
  <2>1. TypeOK' BY <1>4 DEF TInv, TypeOK
  <2>2. ASSUME NEW c \in Calls PROVE KindOf(c)' BY <1>4 DEF TInv, Kinds, KindOf, Mine
  <2>3. ASSUME NEW o \in Operations, active'[o] # None
        PROVE  lease'[active'[o]].kind = "download" /\ lease'[active'[o]].operation = o
    BY <1>4, <2>3 DEF TInv, TypeOK, Kinds
  <2>4. Kinds' BY <1>4, <2>2, <2>3 DEF TInv, Kinds
  <2>5. \A l \in Leases : lease'[l].position <= Len(lease'[l].digest)
                          /\ lease'[l].read <= directory'
    BY <1>4 DEF TInv, Bounds
  <2>6. ASSUME NEW c \in Calls, call'[c].pc = "read"
        PROVE  /\ call'[c].at <= Len(lease'[call'[c].lease].digest)
               /\ call'[c].at < Size /\ call'[c].sequence < Size
    <3>1. call[c].pc = "read" /\ call'[c] = call[c] BY <1>4, <2>6
    <3>2. call[c].lease \in Leases BY <3>1 DEF TInv, Kinds, KindOf
    <3> QED BY <1>4, <3>1, <3>2 DEF TInv, Bounds, Mine
  <2>7. Bounds' BY <2>5, <2>6 DEF Bounds, Mine
  <2> QED BY <2>1, <2>4, <2>7 DEF TInv
<1>5. CASE ConnectionCloses
  <2>1. /\ lease' = [l \in Leases |-> [lease[l] EXCEPT !.open = FALSE]] /\ session' = "closed"
        /\ UNCHANGED <<phase, file, directory, call, active, finalized, succeeded>>
    BY <1>5 DEF ConnectionCloses
  <2>2. ASSUME NEW l \in Leases
        PROVE  /\ lease'[l] \in LeaseRecords
               /\ lease'[l].kind = lease[l].kind /\ lease'[l].operation = lease[l].operation
               /\ lease'[l].position = lease[l].position /\ lease'[l].digest = lease[l].digest
               /\ lease'[l].read = lease[l].read
               /\ lease'[l].registered => lease[l].registered
               /\ lease[l] = NoLease => lease'[l] = NoLease
    <3>1. lease'[l] = [lease[l] EXCEPT !.open = FALSE] BY <2>1
    <3>2. lease[l] \in LeaseRecords BY DEF TInv, TypeOK
    <3>3. ASSUME NEW r \in LeaseRecords, r.open = FALSE PROVE [r EXCEPT !.open = FALSE] = r
      BY ONLY <3>3 DEF LeaseRecords
    <3>4. lease[l] = NoLease => lease'[l] = NoLease
      <4>1. NoLease.open = FALSE BY DEF NoLease
      <4> QED BY <3>1, <3>2, <3>3, <4>1
    <3>5. /\ lease'[l].kind = lease[l].kind /\ lease'[l].operation = lease[l].operation
          /\ lease'[l].position = lease[l].position /\ lease'[l].digest = lease[l].digest
          /\ lease'[l].read = lease[l].read /\ lease'[l].registered = lease[l].registered
          /\ lease'[l] \in LeaseRecords
      BY <3>1, <3>2 DEF LeaseRecords
    <3> QED BY <3>4, <3>5
  <2>3. lease' \in [Leases -> LeaseRecords] BY <2>1, <2>2
  <2> QED BY <1>4, <2>1, <2>2, <2>3 DEF TInv, TypeOK, Kinds
<1>6. CASE CloseAll
  <2>1. /\ lease' = [l \in Leases |->
              IF l \in Cursors \cup Downloads
              THEN [lease[l] EXCEPT !.open = FALSE, !.ended = TRUE, !.registered = FALSE]
              ELSE lease[l]]
        /\ phase' = "stopped" /\ \A c \in Calls : call[c].pc = "idle"
        /\ active' = [o \in Operations |-> None]
        /\ finalized' = finalized \cup {o \in Operations : active[o] # None}
        /\ UNCHANGED <<session, file, directory, call, succeeded>>
    BY <1>6 DEF CloseAll
  <2>2. ASSUME NEW l \in Leases
        PROVE  /\ lease'[l] \in LeaseRecords
               /\ lease'[l].kind = lease[l].kind /\ lease'[l].operation = lease[l].operation
               /\ lease'[l].position = lease[l].position /\ lease'[l].digest = lease[l].digest
               /\ lease'[l].read = lease[l].read
               /\ lease'[l].registered => lease[l].registered
               /\ lease[l] = NoLease => lease'[l] = NoLease
    <3>1. lease[l] \in LeaseRecords BY DEF TInv, TypeOK
    <3>2. CASE l \in Cursors \cup Downloads
      <4>1. lease'[l] = [lease[l] EXCEPT !.open = FALSE, !.ended = TRUE, !.registered = FALSE]
        BY <2>1, <3>2
      <4>2. lease[l].kind # "unused"
        BY <3>2 DEF Cursors, Downloads, TInv, TypeOK, Kinds
      <4>3. lease[l] # NoLease BY <4>2 DEF NoLease
      <4> QED BY <3>1, <4>1, <4>3, ZenonT(60) DEF LeaseRecords
    <3>3. CASE l \notin Cursors \cup Downloads
      <4>1. lease'[l] = lease[l] BY <2>1, <3>3, ZenonT(60)
      <4> QED BY <3>1, <4>1
    <3> QED BY <3>2, <3>3
  <2>3. lease' \in [Leases -> LeaseRecords] BY <2>1, <2>2
  <2> QED BY <1>4, <2>1, <2>2, <2>3, ZenonT(60) DEF TInv, TypeOK
<1> QED BY <1>1, <1>2, <1>3, <1>5, <1>6

LEMMA TypeStep == TInv /\ [Next]_vars => TInv'
<1> SUFFICES ASSUME TInv, [Next]_vars PROVE TInv' OBVIOUS
<1>1. CASE UNCHANGED vars
  BY <1>1 DEF vars, remote, told, TInv, TypeOK, Kinds, KindOf, Bounds, Mine
<1>2. CASE Next
  BY <1>2, DownloadRequestTyped, ListingRequestTyped, StepTyped, WorldTyped DEF Next, Request
<1> QED BY <1>1, <1>2

\* The records stay within their sets: no listing returns more entries than
\* its limit, no handle reads past the file that was hashed.
THEOREM ReadsTyped == Spec => []TypeOK
<1>1. TInv => TypeOK BY DEF TInv
<1> QED BY <1>1, TypeInit, TypeStep, PTL DEF Spec
-----------------------------------------------------------------------------
(* The inductive invariant of what is read, lease by lease.                *)

BatchRecords == [sequence : Nat, first : Nat, last : 0..MaxEntries, done : BOOLEAN]

\* What was told is about leases that were used.
Told ==
  /\ delivered \in [Leases -> SUBSET (Nat \X Chunks)]
  /\ batches \in [Leases -> SUBSET BatchRecords]
  /\ \A l \in Leases : lease[l].kind = "unused" => delivered[l] = {} /\ batches[l] = {}

\* A call that begins is alone with its lease.
Alone(l) ==
  \A c \in Calls : Works(c, l) /\ call[c].pc \in Beginning =>
    /\ call[c].sequence = 0
    /\ \A d \in Calls : d # c => ~Works(d, l)
    /\ \A o \in Operations : active[o] # l
    /\ ~lease[l].registered /\ l \notin succeeded
    /\ call[c].pc = "opening" =>
         ~lease[l].open /\ lease[l].expected = 0 /\ lease[l].read = 0 /\ ~lease[l].ended

InOrder(l) == \A i \in DOMAIN lease[l].digest : lease[l].digest[i][1] = i - 1

\* As long as the chunks that were hashed are those of the file in its order,
\* each was delivered under its number, and every read is of the chunk it says.
Delivers(l) ==
  InOrder(l) =>
    /\ lease[l].position = Len(lease[l].digest)
    /\ delivered[l] = {<<i - 1, lease[l].digest[i]>> : i \in DOMAIN lease[l].digest}
    /\ \A c \in Calls : Works(c, l) /\ call[c].pc = "read" => call[c].sequence = call[c].at

\* Everything was delivered: no read can add to it.
Whole(l) ==
  /\ Len(lease[l].digest) >= Size
  /\ delivered[l] = {<<i, <<i, lease[l].frozen>>>> : i \in 0..(Size - 1)}

Succeeding(c) == call[c].pc = "final" \/ (call[c].pc = "close" /\ call[c].result = "succeeded")

Wholes(l) == l \in succeeded \/ (\E c \in Calls : Works(c, l) /\ Succeeding(c)) => Whole(l)

Reading(c, l) == call[c].pc = "batch" /\ call[c].lease = l

\* One request at a time is in the iterator.
Iterates(l) ==
  \A c \in Calls : Reading(c, l) =>
    /\ lease[l].running /\ call[c].sequence = lease[l].expected
    /\ \A d \in Calls : Reading(d, l) => d = c

\* A last batch is returned only when the lease is closed.
Returning(c, l) == call[c].lease = l /\ call[c].pc = "close" /\ call[c].result = "done"

All(l) == batches[l] \cup {Returned(c) : c \in {d \in Calls : Returning(d, l)}}

Chained(l) ==
  \A b \in All(l) :
    /\ b.sequence < lease[l].expected
    /\ b.sequence = 0 => b.first = 0
    /\ b.done => b.last = directory /\ directory <= MaxEntries
    /\ \A d \in All(l) :
         /\ d.sequence = b.sequence => d = b
         /\ d.sequence = b.sequence + 1 => d.first = b.last

\* A listing that may still be read stands where its last batch ended.
Live(l) == lease[l].registered \/ \E c \in Calls : Reading(c, l)

Headed(l) ==
  Live(l) =>
    /\ lease[l].expected = 0 => lease[l].read = 0
    /\ \A b \in All(l) : b.sequence + 1 = lease[l].expected => b.last = lease[l].read
    /\ lease[l].ended => lease[l].read = directory /\ directory <= MaxEntries

Safe(l) == Alone(l) /\ Delivers(l) /\ Wholes(l) /\ Iterates(l) /\ Chained(l) /\ Headed(l)

RInv == TInv /\ Told /\ \A l \in Leases : Safe(l)
-----------------------------------------------------------------------------
(* A step of one call with one lease leaves the other leases alone.        *)

Steps(c, l) ==
  /\ c \in Calls /\ l \in Leases
  /\ \A d \in Calls : d # c => call'[d] = call[d]
  /\ call[c].pc # "idle" => call[c].lease = l
  /\ call'[c].pc # "idle" => call'[c].lease = l
  /\ \A m \in Leases : m # l =>
       /\ lease'[m] = lease[m] /\ delivered'[m] = delivered[m] /\ batches'[m] = batches[m]
       /\ m \in succeeded' <=> m \in succeeded
       /\ \A o \in Operations : active'[o] = m => active[o] = m
  /\ directory' = directory

LEMMA CallsElsewhere ==
  ASSUME NEW c, NEW l, Steps(c, l), NEW m \in Leases, m # l, NEW d \in Calls
  PROVE  /\ Works(d, m)' <=> Works(d, m)
         /\ Works(d, m) => call'[d] = call[d]
         /\ Reading(d, m)' <=> Reading(d, m)
         /\ Returning(d, m)' <=> Returning(d, m)
         /\ Returning(d, m) => Returned(d)' = Returned(d)
<1>1. CASE d = c
  BY <1>1 DEF Steps, Works, Reading, Returning
<1>2. CASE d # c
  <2>1. call'[d] = call[d] BY <1>2 DEF Steps
  <2> QED BY <2>1 DEF Works, Reading, Returning, Returned
<1> QED BY <1>1, <1>2

LEMMA AllElsewhere ==
  ASSUME NEW c, NEW l, Steps(c, l), NEW m \in Leases, m # l
  PROVE  All(m)' = All(m)
<1>1. batches'[m] = batches[m] BY DEF Steps
<1>2. \A d \in Calls : /\ Returning(d, m)' <=> Returning(d, m)
                       /\ Returning(d, m) => Returned(d)' = Returned(d)
  BY CallsElsewhere
<1>3. {Returned(d) : d \in {e \in Calls : Returning(e, m)}}' =
      {Returned(d) : d \in {e \in Calls : Returning(e, m)}}
  BY <1>2
<1> QED BY <1>1, <1>3 DEF All

LEMMA SafeElsewhere ==
  ASSUME NEW c, NEW l, Steps(c, l), NEW m \in Leases, m # l, Safe(m)
  PROVE  Safe(m)'
<1>1. /\ lease'[m] = lease[m] /\ delivered'[m] = delivered[m] /\ directory' = directory
      /\ m \in succeeded' <=> m \in succeeded
      /\ \A o \in Operations : active'[o] = m => active[o] = m
  BY DEF Steps
<1>2. \A d \in Calls : /\ Works(d, m)' <=> Works(d, m)
                       /\ Works(d, m) => call'[d] = call[d]
                       /\ Reading(d, m)' <=> Reading(d, m)
  BY CallsElsewhere
<1>3. All(m)' = All(m) BY AllElsewhere
<1>4. \A d \in Calls : Reading(d, m) => Works(d, m) BY DEF Reading, Works
<1>5. Alone(m)' BY <1>1, <1>2 DEF Safe, Alone
<1>6. Delivers(m)' BY <1>1, <1>2 DEF Safe, Delivers, InOrder
<1>7. Wholes(m)'
  <2>1. \A d \in Calls : (Works(d, m) /\ Succeeding(d))' => Works(d, m) /\ Succeeding(d)
    BY <1>2 DEF Succeeding
  <2> QED BY <1>1, <2>1 DEF Safe, Wholes, Whole
<1>8. Iterates(m)' BY <1>1, <1>2, <1>4 DEF Safe, Iterates
<1>9. Chained(m)' BY <1>1, <1>3 DEF Safe, Chained
<1>10. Headed(m)' BY <1>1, <1>2, <1>3 DEF Safe, Headed, Live
<1> QED BY <1>5, <1>6, <1>7, <1>8, <1>9, <1>10 DEF Safe
-----------------------------------------------------------------------------
(* A step that reads nothing keeps what is known of its own lease.         *)

\* Other requests of lease l do not begin.
Shared(c, l) == \A d \in Calls : d # c => ~(Works(d, l) /\ call[d].pc \in Beginning)

LEMMA SharedRule ==
  ASSUME NEW c \in Calls, NEW l, Alone(l),
         Works(c, l) \/ lease[l].registered \/ \E o \in Operations : active[o] = l
  PROVE  Shared(c, l)
BY DEF Alone, Shared

\* The other calls of the lease.
LEMMA CallsHere ==
  ASSUME NEW c, NEW l, Steps(c, l), NEW d \in Calls, d # c
  PROVE  /\ call'[d] = call[d]
         /\ Works(d, l)' <=> Works(d, l)
         /\ Reading(d, l)' <=> Reading(d, l)
         /\ Returning(d, l)' <=> Returning(d, l)
         /\ Returned(d)' = Returned(d)
         /\ Succeeding(d)' <=> Succeeding(d)
<1>1. call'[d] = call[d] BY DEF Steps
<1> QED BY <1>1 DEF Works, Reading, Returning, Returned, Succeeding

LEMMA AllShrinks ==
  ASSUME NEW c, NEW l, Steps(c, l), batches'[l] = batches[l], ~Returning(c, l)'
  PROVE  All(l)' \subseteq All(l)
<1>1. ASSUME NEW d \in Calls, Returning(d, l)'
      PROVE  Returning(d, l) /\ Returned(d)' = Returned(d)
  BY <1>1, CallsHere
<1>2. {Returned(d) : d \in {e \in Calls : Returning(e, l)}}' \subseteq
      {Returned(d) : d \in {e \in Calls : Returning(e, l)}}
  BY <1>1
<1> QED BY <1>2 DEF All

LEMMA AloneKept ==
  ASSUME NEW c, NEW l, Steps(c, l), Shared(c, l), Alone(l),
         l \in succeeded' => l \in succeeded,
         lease'[l].registered => lease[l].registered,
         call'[c].pc \in Beginning =>
           /\ call'[c].pc # "opening" /\ call[c].pc \in Beginning
           /\ call'[c].sequence = call[c].sequence
           /\ \A o \in Operations : active'[o] = l => active[o] = l
  PROVE  Alone(l)'
<1>1. c \in Calls BY DEF Steps
<1>2. SUFFICES ASSUME NEW d \in Calls, (Works(d, l) /\ call[d].pc \in Beginning)'
               PROVE  /\ call'[d].sequence = 0
                      /\ \A e \in Calls : e # d => ~Works(e, l)'
                      /\ \A o \in Operations : active'[o] # l
                      /\ ~lease'[l].registered /\ l \notin succeeded'
                      /\ call'[d].pc # "opening"
  BY DEF Alone
<1>3. d = c BY <1>2, CallsHere DEF Shared
<1>4. call[c].pc \in Beginning /\ Works(c, l)
  BY <1>2, <1>3 DEF Steps, Works, Beginning
<1>5. /\ call[c].sequence = 0
      /\ \A e \in Calls : e # c => ~Works(e, l)
      /\ \A o \in Operations : active[o] # l
      /\ ~lease[l].registered /\ l \notin succeeded
  BY <1>1, <1>4 DEF Alone
<1> QED BY <1>2, <1>3, <1>5, CallsHere

LEMMA DeliversKept ==
  ASSUME NEW c, NEW l, Steps(c, l), Delivers(l),
         lease'[l].digest = lease[l].digest, lease'[l].position = lease[l].position,
         delivered'[l] = delivered[l], call'[c].pc # "read"
  PROVE  Delivers(l)'
<1>1. \A d \in Calls : (Works(d, l) /\ call[d].pc = "read")' =>
        /\ Works(d, l) /\ call[d].pc = "read" /\ call'[d] = call[d]
  BY CallsHere
<1> QED BY <1>1 DEF Delivers, InOrder

LEMMA WholesKept ==
  ASSUME NEW c, NEW l, Steps(c, l), Wholes(l),
         lease'[l].digest = lease[l].digest, lease'[l].frozen = lease[l].frozen,
         delivered'[l] = delivered[l], ~Succeeding(c)', l \in succeeded' => l \in succeeded
  PROVE  Wholes(l)'
<1>1. \A d \in Calls : (Works(d, l) /\ Succeeding(d))' => Works(d, l) /\ Succeeding(d)
  BY CallsHere
<1> QED BY <1>1 DEF Wholes, Whole

LEMMA IteratesKept ==
  ASSUME NEW c, NEW l, Steps(c, l), Iterates(l), lease'[l].expected = lease[l].expected,
         \A d \in Calls : d # c /\ Reading(d, l) => lease'[l].running,
         call'[c].pc # "batch"
  PROVE  Iterates(l)'
<1>1. \A d \in Calls : Reading(d, l)' => d # c /\ Reading(d, l) /\ call'[d] = call[d]
  BY CallsHere DEF Reading
<1> QED BY <1>1 DEF Iterates

LEMMA ChainedKept ==
  ASSUME NEW c, NEW l, Steps(c, l), Chained(l), All(l)' \subseteq All(l),
         lease'[l].expected = lease[l].expected
  PROVE  Chained(l)'
BY DEF Chained, Steps

LEMMA HeadedKept ==
  ASSUME NEW c, NEW l, Steps(c, l), Headed(l), All(l)' \subseteq All(l),
         \/ ~Live(l)'
         \/ /\ lease'[l].expected = lease[l].expected /\ lease'[l].read = lease[l].read
            /\ lease'[l].ended = lease[l].ended
            /\ lease'[l].registered => lease[l].registered
            /\ call'[c].pc # "batch"
  PROVE  Headed(l)'
<1>1. CASE ~Live(l)' BY <1>1 DEF Headed
<1>2. CASE Live(l)' /\ lease'[l].expected = lease[l].expected
           /\ lease'[l].read = lease[l].read /\ lease'[l].ended = lease[l].ended
           /\ (lease'[l].registered => lease[l].registered) /\ call'[c].pc # "batch"
  <2>1. \A d \in Calls : Reading(d, l)' => Reading(d, l) BY <1>2, CallsHere DEF Reading
  <2>2. Live(l) BY <1>2, <2>1 DEF Live
  <2>3. directory' = directory BY DEF Steps
  <2> QED BY <1>2, <2>2, <2>3 DEF Headed
<1> QED BY <1>1, <1>2

\* A step that changes neither the download nor the listing of its lease.
Calm(c, l) ==
  /\ Shared(c, l)
  /\ lease'[l].digest = lease[l].digest /\ lease'[l].position = lease[l].position
  /\ lease'[l].frozen = lease[l].frozen /\ lease'[l].expected = lease[l].expected
  /\ lease'[l].read = lease[l].read /\ lease'[l].ended = lease[l].ended
  /\ lease'[l].running = lease[l].running
  /\ lease'[l].registered => lease[l].registered
  /\ delivered'[l] = delivered[l] /\ batches'[l] = batches[l]
  /\ l \in succeeded' => l \in succeeded
  /\ call'[c].pc \notin {"opening", "read", "batch"}
  /\ ~Succeeding(c)' /\ ~Returning(c, l)'
  /\ call'[c].pc \in Beginning =>
       /\ call[c].pc \in Beginning /\ call'[c].sequence = call[c].sequence
       /\ \A o \in Operations : active'[o] = l => active[o] = l

LEMMA CalmSafe ==
  ASSUME NEW c, NEW l, Steps(c, l), Safe(l), Calm(c, l)
  PROVE  Safe(l)'
<1>1. Alone(l)' BY AloneKept DEF Safe, Calm
<1>2. Delivers(l)' BY DeliversKept DEF Safe, Calm
<1>3. Wholes(l)' BY WholesKept DEF Safe, Calm
<1>4. Iterates(l)' BY IteratesKept DEF Safe, Calm, Iterates
<1>5. All(l)' \subseteq All(l) BY AllShrinks DEF Calm
<1>6. Chained(l)' BY <1>5, ChainedKept DEF Safe, Calm
<1>7. Headed(l)' BY <1>5, HeadedKept DEF Safe, Calm
<1> QED BY <1>1, <1>2, <1>3, <1>4, <1>6, <1>7 DEF Safe
-----------------------------------------------------------------------------
(* Every step keeps what is read.                                          *)


LEMMA LocalSteps ==
  ASSUME NEW c, NEW l, Local(c, l),
         call[c].pc # "idle" => call[c].lease = l, call'[c].pc # "idle" => call'[c].lease = l,
         \A m \in Leases : m # l => /\ delivered'[m] = delivered[m] /\ batches'[m] = batches[m]
                                    /\ m \in succeeded' <=> m \in succeeded,
         \A o \in Operations : active'[o] \in {active[o], None, l}
  PROVE  Steps(c, l)
<1>1. \A m \in Leases : m # l => \A o \in Operations : active'[o] = m => active[o] = m
  BY ReadsAssumption DEF Leases
<1> QED BY <1>1 DEF Local, Steps

LEMMA RInvRule ==
  ASSUME RInv, TInv', NEW c, NEW l, Local(c, l), Steps(c, l), Safe(l)',
         delivered' \in [Leases -> SUBSET (Nat \X Chunks)],
         batches' \in [Leases -> SUBSET BatchRecords]
  PROVE  RInv'
<1>1. \A m \in Leases : Safe(m)' BY SafeElsewhere DEF RInv
<1>2. Told' BY DEF RInv, Told, Local, Steps
<1> QED BY <1>1, <1>2 DEF RInv

\* A step that leaves its lease and what was told as they are.
LEMMA CalmStep ==
  ASSUME RInv, TInv', NEW c, NEW l, Local(c, l),
         \/ call[c].pc # "idle" /\ call[c].lease = l
         \/ call[c].pc = "idle" /\ (lease[l].registered \/ \E o \in Operations : active[o] = l),
         UNCHANGED told, \A o \in Operations : active'[o] \in {active[o], None, l},
         \/ lease'[l] = lease[l]
         \/ lease'[l] = [lease[l] EXCEPT !.registered = FALSE],
         \/ call'[c].pc = "idle"
         \/ /\ call'[c].pc = "close" /\ call'[c].lease = l
            /\ call'[c].result \notin {"succeeded", "done"}
         \/ /\ call[c].pc \in {"lstat", "hash"} /\ call'[c].pc \in {"hash", "handle"}
            /\ call'[c].lease = l /\ call'[c].sequence = call[c].sequence
            /\ active' = active
  PROVE  RInv'
<1>1. UNCHANGED <<delivered, batches, succeeded>> BY DEF told
<1>2. Steps(c, l) BY <1>1, LocalSteps
<1>3. c \in Calls /\ l \in Leases /\ Safe(l) /\ Told /\ lease[l] \in LeaseRecords
  BY DEF Local, RInv
<1>4. Shared(c, l) BY <1>3, SharedRule DEF Safe, Works
<1>5. /\ lease'[l].digest = lease[l].digest /\ lease'[l].position = lease[l].position
      /\ lease'[l].frozen = lease[l].frozen /\ lease'[l].expected = lease[l].expected
      /\ lease'[l].read = lease[l].read /\ lease'[l].ended = lease[l].ended
      /\ lease'[l].running = lease[l].running
      /\ lease'[l].registered => lease[l].registered
  BY <1>3 DEF LeaseRecords
<1>6. /\ call'[c].pc \notin {"opening", "read", "batch"}
      /\ ~Succeeding(c)' /\ ~Returning(c, l)'
      /\ call'[c].pc \in Beginning =>
           /\ call[c].pc \in Beginning /\ call'[c].sequence = call[c].sequence
           /\ \A o \in Operations : active'[o] = l => active[o] = l
  BY DEF Succeeding, Returning, Beginning
<1>7. Calm(c, l) BY <1>1, <1>4, <1>5, <1>6 DEF Calm
<1>8. Safe(l)' BY <1>2, <1>3, <1>7, CalmSafe
<1> QED BY <1>1, <1>2, <1>3, <1>8, RInvRule DEF Told

\* A download that is closed without success.
LEMMA ClosesSafe ==
  ASSUME RInv, TInv', NEW c \in Calls, NEW o \in Operations, NEW l \in Leases,
         lease[l].kind = "download", lease[l].operation = o, phase # "stopped",
         NEW result \in {"error", "cancelled"},
         ClosesDownload(c, o, l, result),
         UNCHANGED <<phase, session, file, directory, lease>>, UNCHANGED told,
         \/ call[c].pc # "idle" /\ call[c].lease = l
         \/ call[c].pc = "idle" /\ active[o] = l
  PROVE  RInv'
<1>1. TInv /\ succeeded' = succeeded BY DEF RInv, told
<1>2. result \in {"error", "succeeded", "cancelled"} OBVIOUS
<1>3. UNCHANGED <<phase, session, file, directory, lease, succeeded>> BY <1>1
<1>4. Local(c, l) /\ call'[c] = Closing(c, l, result) BY <1>1, <1>2, <1>3, ClosesTyped
<1>5. call[c] \in CallRecords BY <1>4 DEF Local
<1>6. call'[c].pc = "close" /\ call'[c].lease = l /\ call'[c].result = result
  BY <1>4, <1>5 DEF Closing, CallRecords
<1>7. active' = [active EXCEPT ![o] = None] BY DEF ClosesDownload
<1>8. \A p \in Operations : active'[p] \in {active[p], None, l}
  BY <1>1, <1>7 DEF TInv, TypeOK
<1>9. lease'[l] = lease[l] OBVIOUS
<1> HIDE DEF Local
<1> QED BY <1>4, <1>6, <1>8, <1>9, CalmStep

LEMMA QuietSafe ==
  ASSUME RInv, TInv', NEW c \in Calls,
         \/ ChannelFails(c) \/ ReadFails(c) \/ HandleOpens(c) \/ SourceHashed(c)
         \/ BeginFails(c) \/ Answered(c) \/ ReadTimesOut(c)
  PROVE  RInv'
<1> DEFINE l == call[c].lease
<1>1. TInv BY DEF RInv
<1>2. call[c].pc # "idle" /\ lease' = lease /\ UNCHANGED told
      /\ UNCHANGED <<phase, session, file, directory>>
  BY DEF ChannelFails, ReadFails, HandleOpens, SourceHashed, BeginFails, Answered, ReadTimesOut,
         remote
<1>3. /\ l \in Leases /\ lease[l].kind # "unused" /\ phase # "stopped" /\ call[c] \in CallRecords
  BY <1>1, <1>2, InProgress
<1>4. CASE ChannelFails(c) \/ ReadFails(c) \/ HandleOpens(c)
  <2>1. Ends(c) BY <1>4 DEF ChannelFails, ReadFails, HandleOpens
  <2>2. Local(c, l) /\ call'[c] = NoCall /\ NoCall.pc = "idle" BY <1>1, <1>2, <2>1, EndsShape
  <2>3. \A o \in Operations : active'[o] \in {active[o], None, l}
    BY <1>1, <1>4 DEF ChannelFails, ReadFails, HandleOpens, TInv, TypeOK
  <2> HIDE DEF l
  <2> QED BY <1>2, <2>2, <2>3, CalmStep DEF l
<1>5. CASE SourceHashed(c) \/ BeginFails(c) \/ Answered(c)
  <2>1. \/ call[c].pc = "hash" /\ Goes(c, "handle")
        \/ \E result \in {"error", "answer"} : Closes(c, l, result)
    BY <1>5 DEF SourceHashed, BeginFails, Answered
  <2>2. active' = active BY <1>5 DEF SourceHashed, BeginFails, Answered
  <2>3. CASE call[c].pc = "hash" /\ Goes(c, "handle")
    <3>1. Local(c, l) /\ call'[c] = [call[c] EXCEPT !.pc = "handle"]
      BY <1>1, <1>2, <2>3, GoesShape
    <3>2. call'[c].pc = "handle" /\ call'[c].lease = l /\ call'[c].sequence = call[c].sequence
      BY <1>3, <3>1 DEF CallRecords
    <3> HIDE DEF l
    <3> QED BY <1>2, <2>2, <2>3, <3>1, <3>2, CalmStep DEF l
  <2>4. ASSUME NEW result \in {"error", "answer"}, Closes(c, l, result) PROVE RInv'
    <3>1. result \in {"error", "succeeded", "cancelled", "done", "answer"} OBVIOUS
    <3>2. Local(c, l) /\ call'[c] = Closing(c, l, result)
      BY <1>1, <1>2, <1>3, <2>4, <3>1, ClosesShape, ZenonT(30)
    <3>3. call'[c].pc = "close" /\ call'[c].lease = l /\ call'[c].result = result
      BY <1>3, <3>2 DEF Closing, CallRecords
    <3> HIDE DEF l
    <3> QED BY <1>2, <2>2, <3>2, <3>3, CalmStep DEF l
  <2> QED BY <2>1, <2>3, <2>4
<1>6. CASE ReadTimesOut(c)
  <2>1. /\ l \in Leases /\ lease[l].kind = "download" /\ lease[l].operation \in Operations
        /\ call[c].operation = lease[l].operation
    BY <1>1, <1>6, OwnLease DEF ReadTimesOut
  <2>2. ClosesDownload(c, lease[l].operation, l, "error") BY <1>6, <2>1 DEF ReadTimesOut
  <2> QED BY <1>2, <1>3, <2>1, <2>2, ClosesSafe
<1> QED BY <1>4, <1>5, <1>6

LEMMA UnregisterSafe ==
  ASSUME RInv, TInv', NEW c \in Calls, NEW l \in Leases, lease[l].registered,
         phase # "stopped", call[c].pc = "idle", Unregister(l),
         call' = [call EXCEPT ![c] = [NoCall EXCEPT !.pc = "close", !.lease = l]],
         UNCHANGED <<phase, session, file, directory>>, UNCHANGED told, active' = active
  PROVE  RInv'
<1>1. TInv BY DEF RInv
<1>2. lease[l].kind # "unused" BY <1>1 DEF TInv, TypeOK
<1> DEFINE nc == [NoCall EXCEPT !.pc = "close", !.lease = l]
<1>3. /\ Local(c, l) /\ call'[c] = nc /\ call'[c].result = "error"
      /\ lease'[l] = [lease[l] EXCEPT !.registered = FALSE]
  BY <1>1, <1>2, UnregisterShape
<1>4. nc.pc = "close" /\ nc.lease = l BY DEF NoCall
<1> HIDE DEF nc
<1> QED BY <1>3, <1>4, CalmStep

LEMMA ChannelOpensSafe ==
  ASSUME RInv, TInv', NEW c \in Calls, ChannelOpens(c)
  PROVE  RInv'
<1>. PICK l : l = call[c].lease OBVIOUS
<1>1. TInv BY DEF RInv
<1>2. /\ Local(c, l) /\ call[c].pc = "opening"
      /\ call'[c] = [call[c] EXCEPT !.pc = FirstStep[lease[l].kind]]
      /\ lease'[l] = [lease[l] EXCEPT !.open = TRUE, !.running = (lease[l].kind = "listing")]
      /\ UNCHANGED <<active, finalized, delivered, batches, succeeded>>
  BY <1>1, ChannelOpensShape, ZenonT(60)
<1>3. /\ c \in Calls /\ l \in Leases /\ lease[l].kind # "unused" /\ lease[l] \in LeaseRecords
      /\ call[c] \in CallRecords /\ Safe(l) /\ Told
  BY <1>2 DEF Local, RInv
<1>4. /\ call'[c].pc = FirstStep[lease[l].kind] /\ call'[c].lease = l
      /\ call'[c].sequence = call[c].sequence
  BY <1>2, <1>3 DEF CallRecords
<1>5. /\ lease'[l].digest = lease[l].digest /\ lease'[l].position = lease[l].position
      /\ lease'[l].frozen = lease[l].frozen /\ lease'[l].expected = lease[l].expected
      /\ lease'[l].read = lease[l].read /\ lease'[l].ended = lease[l].ended
      /\ lease'[l].registered = lease[l].registered
      /\ lease'[l].running = (lease[l].kind = "listing")
  BY <1>2, <1>3, SMTT(60) DEF LeaseRecords
<1>6. /\ call[c].sequence = 0
      /\ \A d \in Calls : d # c => ~Works(d, l)
      /\ \A o \in Operations : active[o] # l
      /\ ~lease[l].registered /\ l \notin succeeded
      /\ lease[l].expected = 0 /\ lease[l].read = 0 /\ ~lease[l].ended
  BY <1>2, <1>3 DEF Safe, Alone, Works, Beginning
<1>7. /\ call'[c].pc \in {"lstat", "batch", "query"}
      /\ call'[c].pc = "batch" => lease[l].kind = "listing"
  BY <1>3, <1>4 DEF LeaseRecords, FirstStep
<1>8. \A o \in Operations : active'[o] \in {active[o], None, l} BY <1>2
<1>9. Steps(c, l) BY <1>2, <1>4, <1>8, LocalSteps
<1>10. ~Succeeding(c)' /\ ~Returning(c, l)' BY <1>7 DEF Succeeding, Returning
<1>11. Shared(c, l) BY <1>6 DEF Shared
<1>12. \A d \in Calls : Reading(d, l)' => d = c /\ lease[l].kind = "listing"
  BY <1>6, <1>7, <1>9, CallsHere DEF Reading, Works
<1>13. Safe(l)'
  <2>1. Alone(l)' BY <1>2, <1>3, <1>4, <1>5, <1>7, <1>9, <1>11, AloneKept DEF Safe, Beginning
  <2>2. Delivers(l)' BY <1>2, <1>3, <1>5, <1>7, <1>9, DeliversKept DEF Safe
  <2>3. Wholes(l)' BY <1>2, <1>3, <1>5, <1>9, <1>10, WholesKept DEF Safe
  <2>4. Iterates(l)'
    BY <1>4, <1>5, <1>6, <1>12 DEF Iterates
  <2>5. All(l)' \subseteq All(l) BY <1>2, <1>9, <1>10, AllShrinks
  <2>6. Chained(l)' BY <1>3, <1>5, <1>9, <2>5, ChainedKept DEF Safe
  <2>7. Headed(l)'
    <3>1. All(l)' = {}
      <4>1. \A b \in All(l) : b.sequence \in Nat
        BY <1>1, <1>3 DEF All, Returned, Told, BatchRecords, TInv, TypeOK, CallRecords
      <4>2. \A b \in All(l) : b.sequence < 0 BY <1>3, <1>6 DEF Safe, Chained
      <4>3. All(l) = {} BY <4>1, <4>2
      <4> QED BY <2>5, <4>3
    <3> QED BY <1>5, <1>6, <3>1 DEF Headed
  <2> QED BY <2>1, <2>2, <2>3, <2>4, <2>6, <2>7 DEF Safe
<1> QED BY <1>1, <1>2, <1>3, <1>9, <1>13, RInvRule DEF Told

LEMMA SourceReadSafe ==
  ASSUME RInv, TInv', NEW c \in Calls, SourceRead(c)
  PROVE  RInv'
<1>. PICK l : l = call[c].lease OBVIOUS
<1>1. TInv BY DEF RInv
<1>2. /\ Local(c, l) /\ call'[c] = [call[c] EXCEPT !.pc = "hash"]
      /\ lease'[l] = [lease[l] EXCEPT !.frozen = file]
      /\ call[c].pc = "lstat" /\ UNCHANGED <<active, delivered, batches, succeeded>>
  BY <1>1, SourceReadShape DEF SourceRead, told
<1>3. /\ c \in Calls /\ l \in Leases /\ lease[l] \in LeaseRecords
      /\ call[c] \in CallRecords /\ Safe(l) /\ Told
  BY <1>2 DEF Local, RInv
<1>4. call'[c].pc = "hash" /\ call'[c].lease = l /\ call'[c].sequence = call[c].sequence
  BY <1>2, <1>3 DEF CallRecords
<1>5. /\ lease'[l].digest = lease[l].digest /\ lease'[l].position = lease[l].position
      /\ lease'[l].expected = lease[l].expected
      /\ lease'[l].read = lease[l].read /\ lease'[l].ended = lease[l].ended
      /\ lease'[l].registered = lease[l].registered /\ lease'[l].running = lease[l].running
  BY <1>2, <1>3 DEF LeaseRecords
<1>6. /\ \A d \in Calls : d # c => ~Works(d, l)
      /\ l \notin succeeded
  BY <1>2, <1>3 DEF Safe, Alone, Works, Beginning
<1>7. \A o \in Operations : active'[o] \in {active[o], None, l} BY <1>2
<1>8. Steps(c, l) BY <1>2, <1>4, <1>7, LocalSteps
<1>9. ~Succeeding(c)' /\ ~Returning(c, l)' BY <1>4 DEF Succeeding, Returning
<1>10. Shared(c, l) BY <1>6 DEF Shared
<1>11. Safe(l)'
  <2>1. Alone(l)' BY <1>2, <1>3, <1>4, <1>5, <1>8, <1>10, AloneKept, ZenonT(60) DEF Safe, Beginning
  <2>2. Delivers(l)' BY <1>2, <1>3, <1>4, <1>5, <1>8, DeliversKept DEF Safe
  <2>3. Wholes(l)' BY <1>2, <1>6, <1>8, <1>9, CallsHere DEF Wholes
  <2>4. Iterates(l)' BY <1>3, <1>4, <1>5, <1>8, IteratesKept DEF Safe, Iterates
  <2>5. All(l)' \subseteq All(l) BY <1>2, <1>8, <1>9, AllShrinks
  <2>6. Chained(l)' BY <1>3, <1>5, <1>8, <2>5, ChainedKept DEF Safe
  <2>7. Headed(l)' BY <1>3, <1>4, <1>5, <1>8, <2>5, HeadedKept DEF Safe
  <2> QED BY <2>1, <2>2, <2>3, <2>4, <2>6, <2>7 DEF Safe
<1> QED BY <1>1, <1>2, <1>3, <1>8, <1>11, RInvRule DEF Told

\* What hashes as the frozen file was delivered chunk by chunk.
LEMMA HashIsWhole ==
  ASSUME NEW l \in Leases, Delivers(l), lease[l].digest = HashOf(lease[l].frozen)
  PROVE  Whole(l)
<1> DEFINE f == lease[l].frozen
           g == lease[l].digest
<1>1. g = [i \in 1..Size |-> <<i - 1, f>>] BY DEF HashOf
<1>2. Size \in Nat BY ReadsAssumption
<1>3. DOMAIN g = 1..Size /\ \A i \in 1..Size : g[i] = <<i - 1, f>> BY <1>1
<1>4. Len(g) = Size
  <2> HIDE DEF f
  <2> QED BY <1>1, <1>2
<1>5. InOrder(l) BY <1>3 DEF InOrder
<1>6. delivered[l] = {<<i - 1, g[i]>> : i \in 1..Size} BY <1>3, <1>5 DEF Delivers
<1>7. {<<i - 1, g[i]>> : i \in 1..Size} = {<<i, <<i, f>>>> : i \in 0..(Size - 1)}
  <2> DEFINE A == {<<i - 1, g[i]>> : i \in 1..Size}
             B == {<<i, <<i, f>>>> : i \in 0..(Size - 1)}
  <2>1. ASSUME NEW x \in A PROVE x \in B
    <3>1. PICK i \in 1..Size : x = <<i - 1, g[i]>> BY <2>1
    <3>2. x = <<i - 1, <<i - 1, f>>>> BY <1>3, <3>1
    <3>3. i - 1 \in 0..(Size - 1) BY <1>2
    <3> QED BY <3>2, <3>3
  <2>2. ASSUME NEW x \in B PROVE x \in A
    <3>1. PICK i \in 0..(Size - 1) : x = <<i, <<i, f>>>> BY <2>2
    <3>2. i + 1 \in 1..Size /\ (i + 1) - 1 = i BY <1>2
    <3>3. x = <<(i + 1) - 1, g[i + 1]>> BY <1>3, <3>1, <3>2
    <3> QED BY <3>2, <3>3
  <2> HIDE DEF A, B
  <2>3. A = B BY <2>1, <2>2
  <2> QED BY <2>3 DEF A, B
<1> QED BY <1>2, <1>4, <1>6, <1>7 DEF Whole

LEMMA FinishSafe ==
  ASSUME RInv, TInv', NEW c \in Calls, NEW o \in Operations, Finish(c, o)
  PROVE  RInv'
<1>. PICK l : l = active[o] OBVIOUS
<1>1. TInv BY DEF RInv
<1>2. /\ l \in Leases /\ lease[l].kind = "download" /\ lease[l].operation = o
      /\ phase # "stopped" /\ call[c].pc = "idle"
      /\ lease' = lease /\ UNCHANGED <<phase, session, file, directory>> /\ UNCHANGED told
  BY <1>1, Registered DEF Finish, Admitted, remote
<1>3. Safe(l) /\ Told BY <1>2 DEF RInv
<1>4. CASE lease[l].digest = HashOf(lease[l].frozen)
  <2> DEFINE nc == [NoCall EXCEPT !.pc = "final", !.lease = l, !.operation = o]
  <2>1. call' = [call EXCEPT ![c] = nc] /\ UNCHANGED <<active, finalized>>
    BY <1>4 DEF Finish
  <2>2. nc \in CallRecords
    <3>1. l \in 0..Channels BY <1>2, ReadsAssumption DEF Leases
    <3> QED BY <3>1, NoCallTyped DEF CallRecords
  <2>3. nc.pc = "final" /\ nc.lease = l BY DEF NoCall
  <2> HIDE DEF nc
  <2>4. lease[l].kind # "unused" BY <1>2
  <2>5. Local(c, l) /\ call'[c] = nc BY <1>1, <1>2, <2>1, <2>2, <2>4, CallRule
  <2>6. UNCHANGED <<delivered, batches, succeeded>> BY <1>2 DEF told
  <2>7. Steps(c, l) BY <1>2, <2>1, <2>3, <2>5, <2>6, LocalSteps
  <2>8. ~Returning(c, l)' /\ call'[c].pc \notin Beginning \cup {"read", "batch"}
    BY <2>3, <2>5 DEF Returning, Beginning
  <2>9. Shared(c, l) BY <1>2, <1>3, SharedRule DEF Safe
  <2>10. Safe(l)'
    <3>1. Alone(l)' BY <1>2, <1>3, <2>6, <2>7, <2>8, <2>9, AloneKept DEF Safe
    <3>2. Delivers(l)' BY <1>2, <1>3, <2>6, <2>7, <2>8, DeliversKept DEF Safe
    <3>3. Whole(l) BY <1>2, <1>3, <1>4, HashIsWhole DEF Safe
    <3>4. Wholes(l)' BY <1>2, <2>6, <3>3 DEF Wholes, Whole
    <3>5. Iterates(l)' BY <1>2, <1>3, <2>7, <2>8, IteratesKept DEF Safe, Iterates
    <3>6. All(l)' \subseteq All(l) BY <2>6, <2>7, <2>8, AllShrinks
    <3>7. Chained(l)' BY <1>2, <1>3, <2>7, <3>6, ChainedKept DEF Safe
    <3>8. Headed(l)' BY <1>2, <1>3, <2>7, <2>8, <3>6, HeadedKept DEF Safe
    <3> QED BY <3>1, <3>2, <3>4, <3>5, <3>7, <3>8 DEF Safe
  <2> QED BY <1>3, <2>5, <2>6, <2>7, <2>10, RInvRule DEF Told
<1>5. CASE lease[l].digest # HashOf(lease[l].frozen)
  <2>1. ClosesDownload(c, o, l, "error") BY <1>5 DEF Finish
  <2> QED BY <1>2, <2>1, ClosesSafe
<1> QED BY <1>4, <1>5

LEMMA ReadChunkSafe ==
  ASSUME RInv, TInv', NEW c \in Calls, NEW o \in Operations, NEW s \in 0..Size, ReadChunk(c, o, s)
  PROVE  RInv'
<1>. PICK l : l = active[o] OBVIOUS
<1>1. TInv BY DEF RInv
<1>2. /\ l \in Leases /\ lease[l].kind = "download" /\ lease[l].operation = o
      /\ phase # "stopped" /\ call[c].pc = "idle"
      /\ lease' = lease /\ UNCHANGED <<phase, session, file, directory>> /\ UNCHANGED told
  BY <1>1, Registered DEF ReadChunk, Admitted, remote
<1>3. Safe(l) /\ Told BY <1>2 DEF RInv
<1>4. CASE ~(AtEnd(l) \/ s # Len(lease[l].digest))
  <2> DEFINE nc == Asking("read", l, o, s, lease[l].position)
  <2>1. call' = [call EXCEPT ![c] = nc] /\ UNCHANGED <<active, finalized>>
        /\ s = Len(lease[l].digest)
    BY <1>4 DEF ReadChunk, Asking
  <2>2. nc \in CallRecords
    <3>1. l \in 0..Channels BY <1>2, ReadsAssumption DEF Leases
    <3>2. lease[l].position \in Nat BY <1>1, <1>2, ReadsAssumption DEF TInv, TypeOK, LeaseRecords
    <3>3. s \in Nat BY ReadsAssumption
    <3> QED BY <3>1, <3>2, <3>3, NoCallTyped DEF CallRecords, Asking
  <2>3. nc.pc = "read" /\ nc.lease = l /\ nc.sequence = s /\ nc.at = lease[l].position
    BY DEF NoCall, Asking
  <2> HIDE DEF nc
  <2>4. lease[l].kind # "unused" BY <1>2
  <2>5. Local(c, l) /\ call'[c] = nc BY <1>1, <1>2, <2>1, <2>2, <2>4, CallRule
  <2>6. UNCHANGED <<delivered, batches, succeeded>> BY <1>2 DEF told
  <2>7. Steps(c, l) BY <1>2, <2>1, <2>3, <2>5, <2>6, LocalSteps
  <2>8. ~Returning(c, l)' /\ ~Succeeding(c)' /\ call'[c].pc \notin Beginning \cup {"batch"}
    BY <2>3, <2>5 DEF Returning, Succeeding, Beginning
  <2>9. Shared(c, l) BY <1>2, <1>3, SharedRule DEF Safe
  <2>10. Safe(l)'
    <3>1. Alone(l)' BY <1>2, <1>3, <2>6, <2>7, <2>8, <2>9, AloneKept DEF Safe
    <3>2. Delivers(l)'
      <4>1. SUFFICES ASSUME InOrder(l)'
                     PROVE  /\ lease'[l].position = Len(lease'[l].digest)
                            /\ delivered'[l] = {<<i - 1, lease'[l].digest[i]>> :
                                                  i \in DOMAIN lease'[l].digest}
                            /\ \A d \in Calls : Works(d, l)' /\ call'[d].pc = "read" =>
                                 call'[d].sequence = call'[d].at
        BY DEF Delivers
      <4>2. /\ lease[l].position = Len(lease[l].digest)
            /\ delivered[l] = {<<i - 1, lease[l].digest[i]>> : i \in DOMAIN lease[l].digest}
            /\ \A d \in Calls : Works(d, l) /\ call[d].pc = "read" =>
                 call[d].sequence = call[d].at
        BY <1>2, <1>3, <4>1 DEF Safe, Delivers, InOrder
      <4>3. ASSUME NEW d \in Calls, Works(d, l)', call'[d].pc = "read"
            PROVE  call'[d].sequence = call'[d].at
        <5>1. CASE d = c BY <2>1, <2>3, <2>5, <4>2, <5>1
        <5>2. CASE d # c BY <2>7, <4>2, <4>3, <5>2, CallsHere
        <5> QED BY <5>1, <5>2
      <4> QED BY <1>2, <2>6, <4>2, <4>3
    <3>3. Wholes(l)' BY <1>2, <1>3, <2>6, <2>7, <2>8, WholesKept DEF Safe
    <3>5. Iterates(l)' BY <1>2, <1>3, <2>7, <2>8, IteratesKept DEF Safe, Iterates
    <3>6. All(l)' \subseteq All(l) BY <2>6, <2>7, <2>8, AllShrinks
    <3>7. Chained(l)' BY <1>2, <1>3, <2>7, <3>6, ChainedKept DEF Safe
    <3>8. Headed(l)' BY <1>2, <1>3, <2>7, <2>8, <3>6, HeadedKept DEF Safe
    <3> QED BY <3>1, <3>2, <3>3, <3>5, <3>7, <3>8 DEF Safe
  <2> QED BY <1>3, <2>5, <2>6, <2>7, <2>10, RInvRule DEF Told
<1>5. CASE AtEnd(l) \/ s # Len(lease[l].digest)
  <2>1. ClosesDownload(c, o, l, "error") BY <1>5 DEF ReadChunk
  <2> QED BY <1>2, <2>1, ClosesSafe
<1> QED BY <1>4, <1>5

LEMMA AbortSafe ==
  ASSUME RInv, TInv', NEW c \in Calls, NEW o \in Operations, Abort(c, o)
  PROVE  RInv'
<1>1. TInv BY DEF RInv
<1>2. /\ active[o] \in Leases /\ lease[active[o]].kind = "download"
      /\ lease[active[o]].operation = o
      /\ phase # "stopped" /\ call[c].pc = "idle" /\ ClosesDownload(c, o, active[o], "cancelled")
      /\ UNCHANGED <<phase, session, file, directory, lease>> /\ UNCHANGED told
  BY <1>1, Registered DEF Abort, Admitted, remote
<1> QED BY <1>2, ClosesSafe

LEMMA FinishReadsSafe ==
  ASSUME RInv, TInv', NEW c \in Calls, FinishReads(c)
  PROVE  RInv'
<1>. PICK l : l = call[c].lease OBVIOUS
<1>1. TInv BY DEF RInv
<1>2. /\ call[c].pc = "final" /\ phase # "stopped"
      /\ l \in Leases /\ lease[l].kind = "download" /\ lease[l].operation \in Operations
      /\ call[c].operation = lease[l].operation
      /\ lease' = lease /\ UNCHANGED told
      /\ UNCHANGED <<phase, session, file, directory, lease>>
      /\ UNCHANGED <<delivered, batches, succeeded>>
  BY <1>1, OwnLease, InProgress DEF FinishReads, remote, told
<1>3. CASE ClosesDownload(c, lease[l].operation, l, "error") BY <1>2, <1>3, ClosesSafe
<1>4. CASE ClosesDownload(c, lease[l].operation, l, "succeeded")
  <2>1. "succeeded" \in {"error", "succeeded", "cancelled"}
        /\ UNCHANGED <<phase, session, file, directory, lease, succeeded>>
    BY <1>2
  <2>2. Local(c, l) /\ call'[c] = Closing(c, l, "succeeded")
    BY <1>1, <1>2, <1>4, <2>1, ClosesTyped
  <2>3. call[c] \in CallRecords /\ Safe(l) /\ Told BY <1>2, <2>2 DEF Local, RInv
  <2>4. call'[c].pc = "close" /\ call'[c].lease = l /\ call'[c].result = "succeeded"
    BY <2>2, <2>3 DEF Closing, CallRecords
  <2>5. \A o \in Operations : active'[o] \in {active[o], None, l}
    BY <1>1, <1>4 DEF ClosesDownload, TInv, TypeOK
  <2>6. Steps(c, l) BY <1>2, <2>2, <2>4, <2>5, LocalSteps
  <2>7. ~Returning(c, l)' /\ call'[c].pc \notin Beginning \cup {"read", "batch"}
    BY <2>4 DEF Returning, Beginning
  <2>8. Works(c, l) /\ Succeeding(c) BY <1>2 DEF Works, Succeeding
  <2>9. Shared(c, l) BY <2>3, <2>8, SharedRule DEF Safe
  <2>10. Safe(l)'
    <3>1. Alone(l)' BY <1>2, <2>3, <2>6, <2>7, <2>9, AloneKept DEF Safe
    <3>2. Delivers(l)' BY <1>2, <2>3, <2>6, <2>7, DeliversKept DEF Safe
    <3>3. Whole(l) BY <2>3, <2>8 DEF Safe, Wholes
    <3>4. Wholes(l)' BY <1>2, <3>3 DEF Wholes, Whole
    <3>5. Iterates(l)' BY <1>2, <2>3, <2>6, <2>7, IteratesKept DEF Safe, Iterates
    <3>6. All(l)' \subseteq All(l) BY <1>2, <2>6, <2>7, AllShrinks
    <3>7. Chained(l)' BY <1>2, <2>3, <2>6, <3>6, ChainedKept DEF Safe
    <3>8. Headed(l)' BY <1>2, <2>3, <2>6, <2>7, <3>6, HeadedKept DEF Safe
    <3> QED BY <3>1, <3>2, <3>4, <3>5, <3>7, <3>8 DEF Safe
  <2> QED BY <1>2, <2>2, <2>3, <2>6, <2>10, RInvRule DEF Told
<1> QED BY <1>2, <1>3, <1>4 DEF FinishReads

LEMMA ChunkArrivesSafe ==
  ASSUME RInv, TInv', NEW c \in Calls, ChunkArrives(c)
  PROVE  RInv'
<1>. PICK l : l = call[c].lease OBVIOUS
<1> DEFINE g == lease[l].digest
           chunk == <<call[c].at, file>>
           h == Append(g, chunk)
<1>1. TInv BY DEF RInv
<1>2. /\ Local(c, l) /\ call'[c] = NoCall /\ NoCall.pc = "idle" /\ h \in Seq(Chunks)
      /\ lease'[l] = [lease[l] EXCEPT !.digest = h, !.position = call[c].at + 1]
  BY <1>1, ChunkArrivesShape
<1>3. /\ call[c].pc = "read" /\ UNCHANGED <<active, batches, succeeded>>
      /\ delivered' = IF call[c].sequence # Len(g) THEN delivered
           ELSE [delivered EXCEPT ![l] = @ \cup {<<call[c].sequence, chunk>>}]
  BY DEF ChunkArrives, LetThrough, Mine
<1>4. /\ c \in Calls /\ l \in Leases /\ lease[l] \in LeaseRecords /\ call[c] \in CallRecords
      /\ Safe(l) /\ Told /\ g \in Seq(Chunks) /\ Len(g) \in Nat
      /\ call[c].at \in Nat /\ call[c].sequence \in Nat
      /\ call[c].at <= Len(g) /\ call[c].at < Size /\ call[c].sequence < Size
  <2>1. c \in Calls /\ l \in Leases /\ lease[l] \in LeaseRecords /\ call[c] \in CallRecords
        /\ Safe(l) /\ Told
    BY <1>2 DEF Local, RInv
  <2>2. g \in Seq(Chunks) /\ call[c].at \in Nat /\ call[c].sequence \in Nat
    BY <2>1 DEF LeaseRecords, CallRecords
  <2>3. call[c].at <= Len(g) /\ call[c].at < Size /\ call[c].sequence < Size
    BY <1>1, <1>3 DEF TInv, Bounds, Mine
  <2> QED BY <2>1, <2>2, <2>3
<1>5. chunk \in Chunks
  <2>1. call[c].at \in 0..Size BY <1>4, ReadsAssumption
  <2> QED BY <1>1, <2>1 DEF Chunks, TInv, TypeOK
<1>6. /\ Len(h) = Len(g) + 1 /\ DOMAIN h = 1..(Len(g) + 1)
      /\ \A i \in 1..Len(g) : h[i] = g[i]
      /\ h[Len(g) + 1] = chunk /\ DOMAIN g = 1..Len(g)
  <2>1. g \in Seq(Chunks) /\ Len(g) \in Nat /\ DOMAIN g = 1..Len(g) BY <1>4
  <2> HIDE DEF g, chunk
  <2>2. Len(h) = Len(g) + 1 BY <1>5, <2>1
  <2>3. h \in Seq(Chunks) BY <1>5, <2>1
  <2>4. DOMAIN h = 1..(Len(g) + 1) BY <2>2, <2>3
  <2>5. \A i \in 1..Len(g) : h[i] = g[i] BY <1>5, <2>1
  <2>6. h[Len(g) + 1] = chunk BY <1>5, <2>1
  <2> QED BY <2>1, <2>2, <2>4, <2>5, <2>6
<1> HIDE DEF h, g, chunk
<1>7. /\ lease'[l].digest = h /\ lease'[l].position = call[c].at + 1
      /\ lease'[l].frozen = lease[l].frozen /\ lease'[l].expected = lease[l].expected
      /\ lease'[l].read = lease[l].read /\ lease'[l].ended = lease[l].ended
      /\ lease'[l].registered = lease[l].registered /\ lease'[l].running = lease[l].running
  BY <1>2, <1>4 DEF LeaseRecords
<1>8. delivered' \in [Leases -> SUBSET (Nat \X Chunks)]
  BY <1>3, <1>4, <1>5 DEF Told
<1>9. delivered'[l] = IF call[c].sequence # Len(g) THEN delivered[l]
                      ELSE delivered[l] \cup {<<call[c].sequence, chunk>>}
  BY <1>3, <1>4 DEF Told
<1>10. \A o \in Operations : active'[o] \in {active[o], None, l} BY <1>3
<1>11. \A m \in Leases : m # l => delivered'[m] = delivered[m] BY <1>3, <1>4 DEF Told
<1>12. Steps(c, l) BY <1>2, <1>3, <1>10, <1>11, LocalSteps
<1>13. Works(c, l) BY <1>3 DEF Works
<1>14. Shared(c, l) BY <1>4, <1>13, SharedRule DEF Safe
<1>15. ~Succeeding(c)' /\ ~Returning(c, l)'
       /\ call'[c].pc \notin Beginning \cup {"read", "batch"}
  BY <1>2 DEF Succeeding, Returning, Beginning
<1>16. Delivers(l)'
  <2>1. SUFFICES ASSUME InOrder(l)'
                 PROVE  /\ lease'[l].position = Len(lease'[l].digest)
                        /\ delivered'[l] = {<<i - 1, lease'[l].digest[i]>> :
                                              i \in DOMAIN lease'[l].digest}
                        /\ \A d \in Calls : Works(d, l)' /\ call'[d].pc = "read" =>
                             call'[d].sequence = call'[d].at
    BY DEF Delivers
  <2>2. \A i \in 1..(Len(g) + 1) : h[i][1] = i - 1 BY <1>6, <1>7, <2>1 DEF InOrder
  <2>3. call[c].at = Len(g)
    <3>1. Len(g) + 1 \in 1..(Len(g) + 1) BY <1>4
    <3>2. chunk[1] = (Len(g) + 1) - 1 BY <1>6, <2>2, <3>1
    <3>3. chunk[1] = call[c].at BY DEF chunk
    <3> QED BY <1>4, <3>2, <3>3
  <2>4. InOrder(l)
    <3>1. ASSUME NEW i \in 1..Len(g) PROVE g[i][1] = i - 1
      <4>1. i \in 1..(Len(g) + 1) BY <1>4
      <4> QED BY <1>6, <2>2, <4>1
    <3> QED BY <1>6, <3>1, SMTT(60) DEF InOrder, g
  <2>5. /\ delivered[l] = {<<i - 1, g[i]>> : i \in 1..Len(g)}
        /\ \A d \in Calls : Works(d, l) /\ call[d].pc = "read" => call[d].sequence = call[d].at
    BY <1>4, <1>6, <2>4 DEF Safe, Delivers, g
  <2>6. call[c].sequence = Len(g) BY <1>3, <1>13, <2>3, <2>5
  <2>7. delivered'[l] = {<<i - 1, h[i]>> : i \in 1..(Len(g) + 1)}
    <3> DEFINE n == Len(g)
               A == {<<i - 1, g[i]>> : i \in 1..n}
               B == {<<i - 1, h[i]>> : i \in 1..(n + 1)}
    <3>1. delivered'[l] = A \cup {<<n, chunk>>} BY <1>9, <2>5, <2>6
    <3>2. ASSUME NEW x \in A PROVE x \in B
      <4>1. PICK i \in 1..n : x = <<i - 1, g[i]>> BY <3>2
      <4>2. i \in 1..(n + 1) BY <1>4
      <4> QED BY <1>6, <4>1, <4>2
    <3>3. <<n, chunk>> \in B
      <4>1. n + 1 \in 1..(n + 1) /\ (n + 1) - 1 = n BY <1>4
      <4>2. <<n, chunk>> = <<(n + 1) - 1, h[n + 1]>> BY <1>6, <4>1
      <4> QED BY <4>1, <4>2
    <3>4. ASSUME NEW x \in B PROVE x \in A \cup {<<n, chunk>>}
      <4>1. PICK i \in 1..(n + 1) : x = <<i - 1, h[i]>> BY <3>4
      <4>2. CASE i \in 1..n
        <5>1. x = <<i - 1, g[i]>> BY <1>6, <4>1, <4>2
        <5> QED BY <4>2, <5>1
      <4>3. CASE i \notin 1..n
        <5>1. i = n + 1 /\ i - 1 = n BY <1>4, <4>3
        <5> QED BY <1>6, <4>1, <5>1
      <4> QED BY <4>2, <4>3
    <3> HIDE DEF A, B
    <3>5. A \cup {<<n, chunk>>} = B BY <3>2, <3>3, <3>4
    <3> QED BY <3>1, <3>5 DEF B
  <2>8. ASSUME NEW d \in Calls, Works(d, l)', call'[d].pc = "read"
        PROVE  call'[d].sequence = call'[d].at
    <3>1. d # c BY <1>15, <2>8
    <3> QED BY <1>12, <2>5, <2>8, <3>1, CallsHere
  <2> QED BY <1>6, <1>7, <2>3, <2>7, <2>8
<1>17. Wholes(l)'
  <2>1. ASSUME Whole(l) PROVE Whole(l)'
    <3>1. Len(g) >= Size BY <2>1 DEF Whole, g
    <3>2. call[c].sequence # Len(g) /\ Len(h) >= Size BY <1>4, <1>6, <3>1, ReadsAssumption
    <3>3. delivered'[l] = delivered[l] BY <1>9, <3>2
    <3> QED BY <1>7, <2>1, <3>2, <3>3 DEF Whole
  <2>2. \A d \in Calls : (Works(d, l) /\ Succeeding(d))' => Works(d, l) /\ Succeeding(d)
    BY <1>12, <1>15, CallsHere
  <2> QED BY <1>3, <1>4, <2>1, <2>2 DEF Safe, Wholes
<1>18. Safe(l)'
  <2>1. Alone(l)' BY <1>3, <1>4, <1>7, <1>12, <1>14, <1>15, AloneKept DEF Safe
  <2>2. Iterates(l)' BY <1>4, <1>7, <1>12, <1>15, IteratesKept DEF Safe, Iterates
  <2>3. All(l)' \subseteq All(l) BY <1>3, <1>12, <1>15, AllShrinks
  <2>4. Chained(l)' BY <1>4, <1>7, <1>12, <2>3, ChainedKept DEF Safe
  <2>5. Headed(l)' BY <1>4, <1>7, <1>12, <1>15, <2>3, HeadedKept DEF Safe
  <2> QED BY <1>16, <1>17, <2>1, <2>2, <2>4, <2>5 DEF Safe
<1> QED BY <1>1, <1>2, <1>3, <1>4, <1>8, <1>12, <1>18, RInvRule DEF Told

LEMMA ReturnedTyped ==
  ASSUME NEW c \in Calls, call[c] \in CallRecords
  PROVE  Returned(c) \in BatchRecords
BY DEF Returned, BatchRecords, CallRecords

\* A listing that is still read when its lease is closed was not at its end.
LEMMA LetGoSafe ==
  ASSUME RInv, TInv', NEW c \in Calls, CloseEnds(c) \/ CloseRaises(c)
  PROVE  RInv'
<1>. PICK l : l = call[c].lease OBVIOUS
<1>1. TInv BY DEF RInv
<1>2. /\ call[c].pc = "close" /\ LetGo(l) /\ Ends(c)
      /\ UNCHANGED <<phase, session, file, directory>> /\ UNCHANGED <<active, delivered>>
      /\ \/ succeeded' = succeeded
         \/ succeeded' = succeeded \cup {l} /\ call[c].result = "succeeded"
      /\ \/ batches' = batches
         \/ /\ batches' = [batches EXCEPT ![l] = @ \cup {Returned(c)}]
            /\ call[c].result = "done"
  BY SMTT(60) DEF CloseEnds, CloseRaises, remote, told
<1>3. /\ Local(c, l) /\ call'[c] = NoCall /\ NoCall.pc = "idle"
      /\ lease'[l] = [lease[l] EXCEPT !.open = FALSE,
                        !.ended = lease[l].ended \/ ~lease[l].running, !.registered = FALSE]
  BY <1>1, <1>2, LetGoShape
<1>4. /\ c \in Calls /\ l \in Leases /\ lease[l] \in LeaseRecords /\ call[c] \in CallRecords
      /\ Safe(l) /\ Told
  BY <1>3 DEF Local, RInv
<1>5. /\ lease'[l].digest = lease[l].digest /\ lease'[l].position = lease[l].position
      /\ lease'[l].frozen = lease[l].frozen /\ lease'[l].expected = lease[l].expected
      /\ lease'[l].read = lease[l].read
      /\ lease'[l].ended = (lease[l].ended \/ ~lease[l].running)
      /\ lease'[l].registered = FALSE /\ lease'[l].running = lease[l].running
  BY <1>3, <1>4 DEF LeaseRecords
<1>6. /\ batches' \in [Leases -> SUBSET BatchRecords]
      /\ batches'[l] = batches[l]
           \/ (batches'[l] = batches[l] \cup {Returned(c)} /\ call[c].result = "done")
      /\ \A m \in Leases : m # l => batches'[m] = batches[m]
  BY <1>2, <1>4, ReturnedTyped DEF Told
<1>7. \A o \in Operations : active'[o] \in {active[o], None, l} BY <1>2
<1>8. \A m \in Leases : m # l => (m \in succeeded' <=> m \in succeeded) BY <1>2
<1>9. Steps(c, l) BY <1>2, <1>3, <1>6, <1>7, <1>8, LocalSteps
<1>10. Works(c, l) BY <1>2 DEF Works
<1>11. Shared(c, l) BY <1>4, <1>10, SharedRule DEF Safe
<1>12. ~Succeeding(c)' /\ ~Returning(c, l)'
       /\ call'[c].pc \notin Beginning \cup {"read", "batch"}
  BY <1>3 DEF Succeeding, Returning, Beginning
<1>13. Alone(l)'
  <2>1. \A d \in Calls : ~(Works(d, l)' /\ call'[d].pc \in Beginning)
    BY <1>9, <1>11, <1>12, CallsHere DEF Shared
  <2> QED BY <2>1 DEF Alone
<1>14. Delivers(l)' BY <1>2, <1>4, <1>5, <1>9, <1>12, DeliversKept DEF Safe
<1>15. Wholes(l)'
  <2>1. \A d \in Calls : (Works(d, l) /\ Succeeding(d))' => Works(d, l) /\ Succeeding(d)
    BY <1>9, <1>12, CallsHere
  <2>2. l \in succeeded' => l \in succeeded \/ Succeeding(c) BY <1>2 DEF Succeeding
  <2> QED BY <1>2, <1>4, <1>5, <1>10, <2>1, <2>2 DEF Safe, Wholes, Whole
<1>16. Iterates(l)' BY <1>4, <1>5, <1>9, <1>12, IteratesKept DEF Safe, Iterates
<1>17. All(l)' \subseteq All(l)
  <2>1. ASSUME NEW d \in Calls, Returning(d, l)'
        PROVE  Returning(d, l) /\ Returned(d)' = Returned(d)
    BY <1>9, <1>12, <2>1, CallsHere
  <2>2. {Returned(d) : d \in {e \in Calls : Returning(e, l)}}' \subseteq
        {Returned(d) : d \in {e \in Calls : Returning(e, l)}}
    BY <2>1
  <2>3. call[c].result = "done" => Returning(c, l) BY <1>2 DEF Returning
  <2>4. call[c].result = "done" => Returned(c) \in All(l) BY <2>3 DEF All
  <2>5. batches[l] \subseteq All(l) BY DEF All
  <2>6. batches'[l] \subseteq All(l) BY <1>6, <2>4, <2>5
  <2> QED BY <2>2, <2>6 DEF All
<1>18. Chained(l)' BY <1>4, <1>5, <1>9, <1>17, ChainedKept DEF Safe
<1>19. Headed(l)'
  <2>1. CASE ~Live(l)' BY <1>4, <1>9, <1>17, <2>1, HeadedKept DEF Safe
  <2>2. CASE Live(l)'
    <3>1. PICK d \in Calls : Reading(d, l)' BY <1>5, <2>2 DEF Live
    <3>2. Reading(d, l) BY <1>9, <1>12, <3>1, CallsHere DEF Reading
    <3>3. lease[l].running BY <1>4, <3>2 DEF Safe, Iterates
    <3>4. lease'[l].ended = lease[l].ended BY <1>4, <1>5, <3>3 DEF LeaseRecords
    <3> QED BY <1>4, <1>5, <1>9, <1>12, <1>17, <3>4, HeadedKept DEF Safe
  <2> QED BY <2>1, <2>2
<1>20. Safe(l)' BY <1>13, <1>14, <1>15, <1>16, <1>18, <1>19 DEF Safe
<1> QED BY <1>1, <1>2, <1>3, <1>4, <1>6, <1>9, <1>20, RInvRule DEF Told

LEMMA NextBatchSafe ==
  ASSUME RInv, TInv', NEW c \in Calls, NEW l \in Leases, NEW s \in Nat, NextBatch(c, l, s)
  PROVE  RInv'
<1>1. TInv BY DEF RInv
<1>2. /\ lease[l].registered /\ phase # "stopped" /\ call[c].pc = "idle"
      /\ UNCHANGED <<phase, session, file, directory>> /\ UNCHANGED told
      /\ active' = active /\ UNCHANGED <<delivered, batches, succeeded>>
  BY DEF NextBatch, Admitted, remote, told
<1>3. CASE s # lease[l].expected \/ lease[l].running
  BY <1>2, <1>3, UnregisterSafe DEF NextBatch
<1>4. CASE s = lease[l].expected /\ ~lease[l].running
  <2> DEFINE nc == Fetching(l, s)
  <2>1. /\ Local(c, l) /\ call'[c] = nc
        /\ lease'[l] = [lease[l] EXCEPT !.running = TRUE]
    BY <1>1, <1>4, NextBatchShape
  <2>2. nc.pc = "batch" /\ nc.lease = l /\ nc.sequence = s BY DEF NoCall, Fetching
  <2> HIDE DEF nc
  <2>3. Safe(l) /\ Told /\ lease[l] \in LeaseRecords BY <2>1 DEF Local, RInv
  <2>4. /\ lease'[l].digest = lease[l].digest /\ lease'[l].position = lease[l].position
        /\ lease'[l].frozen = lease[l].frozen /\ lease'[l].expected = lease[l].expected
        /\ lease'[l].read = lease[l].read /\ lease'[l].ended = lease[l].ended
        /\ lease'[l].registered = lease[l].registered /\ lease'[l].running = TRUE
    BY <2>1, <2>3 DEF LeaseRecords
  <2>5. \A o \in Operations : active'[o] \in {active[o], None, l} BY <1>2
  <2>6. Steps(c, l) BY <1>2, <2>1, <2>2, <2>5, LocalSteps
  <2>7. Shared(c, l) BY <1>2, <2>3, SharedRule DEF Safe
  <2>8. ~Succeeding(c)' /\ ~Returning(c, l)'
        /\ call'[c].pc \notin Beginning \cup {"read"}
    BY <2>1, <2>2 DEF Succeeding, Returning, Beginning
  <2>9. Alone(l)' BY <1>2, <2>3, <2>4, <2>6, <2>7, <2>8, AloneKept DEF Safe
  <2>10. Delivers(l)' BY <1>2, <2>3, <2>4, <2>6, <2>8, DeliversKept DEF Safe
  <2>11. Wholes(l)' BY <1>2, <2>3, <2>4, <2>6, <2>8, WholesKept DEF Safe
  <2>12. Iterates(l)'
    <3>1. \A d \in Calls : ~Reading(d, l) BY <1>4, <2>3 DEF Safe, Iterates
    <3>2. \A d \in Calls : Reading(d, l)' => d = c BY <2>6, <3>1, CallsHere
    <3> QED BY <1>4, <2>1, <2>2, <2>4, <3>2 DEF Iterates
  <2>13. All(l)' \subseteq All(l) BY <1>2, <2>6, <2>8, AllShrinks
  <2>14. Chained(l)' BY <2>3, <2>4, <2>6, <2>13, ChainedKept DEF Safe
  <2>15. Headed(l)' BY <1>2, <2>1, <2>3, <2>4, <2>13 DEF Safe, Headed, Live, Local
  <2>16. Safe(l)' BY <2>9, <2>10, <2>11, <2>12, <2>14, <2>15 DEF Safe
  <2> QED BY <1>1, <1>2, <2>1, <2>3, <2>6, <2>16, RInvRule DEF Told
<1> QED BY <1>3, <1>4

LEMMA BatchFailsSafe ==
  ASSUME RInv, TInv', NEW c \in Calls, BatchFails(c)
  PROVE  RInv'
<1>. PICK l : l = call[c].lease OBVIOUS
<1>1. TInv BY DEF RInv
<1>2. /\ Local(c, l) /\ call[c].pc = "batch"
      /\ call'[c] = Closing(c, l, "error")
      /\ \E n \in 0..MaxEntries :
           lease'[l] = [lease[l] EXCEPT !.read = n, !.running = FALSE, !.registered = FALSE]
      /\ active' = active /\ UNCHANGED <<delivered, batches, succeeded>>
  BY <1>1, BatchFailsShape DEF BatchFails, told, Closing
<1>3. /\ c \in Calls /\ l \in Leases /\ lease[l] \in LeaseRecords /\ call[c] \in CallRecords
      /\ Safe(l) /\ Told
  BY <1>2 DEF Local, RInv
<1>4. /\ lease'[l].digest = lease[l].digest /\ lease'[l].position = lease[l].position
      /\ lease'[l].frozen = lease[l].frozen /\ lease'[l].expected = lease[l].expected
      /\ lease'[l].registered = FALSE
  BY <1>2, <1>3 DEF LeaseRecords
<1>5. call'[c].pc = "close" /\ call'[c].lease = l /\ call'[c].result = "error"
  BY <1>2, <1>3 DEF Closing, CallRecords
<1>6. \A o \in Operations : active'[o] \in {active[o], None, l} BY <1>2
<1>7. Steps(c, l) BY <1>2, <1>5, <1>6, LocalSteps
<1>8. Works(c, l) /\ Reading(c, l) BY <1>2 DEF Works, Reading
<1>9. Shared(c, l) BY <1>3, <1>8, SharedRule DEF Safe
<1>10. ~Succeeding(c)' /\ ~Returning(c, l)'
       /\ call'[c].pc \notin Beginning \cup {"read", "batch"}
  BY <1>5 DEF Succeeding, Returning, Beginning
<1>11. \A d \in Calls : ~Reading(d, l)'
  <2>1. \A d \in Calls : Reading(d, l) => d = c BY <1>3, <1>8 DEF Safe, Iterates
  <2> QED BY <1>7, <1>10, <2>1, CallsHere DEF Reading
<1>12. Alone(l)' BY <1>2, <1>3, <1>4, <1>7, <1>9, <1>10, AloneKept DEF Safe
<1>13. Delivers(l)' BY <1>2, <1>3, <1>4, <1>7, <1>10, DeliversKept DEF Safe
<1>14. Wholes(l)' BY <1>2, <1>3, <1>4, <1>7, <1>10, WholesKept DEF Safe
<1>15. Iterates(l)' BY <1>11 DEF Iterates
<1>16. All(l)' \subseteq All(l) BY <1>2, <1>7, <1>10, AllShrinks
<1>17. Chained(l)' BY <1>3, <1>4, <1>7, <1>16, ChainedKept DEF Safe
<1>18. Headed(l)' BY <1>4, <1>11 DEF Headed, Live
<1>19. Safe(l)' BY <1>12, <1>13, <1>14, <1>15, <1>17, <1>18 DEF Safe
<1> QED BY <1>1, <1>2, <1>3, <1>7, <1>19, RInvRule DEF Told

LEMMA AllTyped ==
  ASSUME RInv, NEW l \in Leases
  PROVE  \A b \in All(l) : b \in BatchRecords /\ b.sequence \in Nat
<1>1. ASSUME NEW b \in All(l) PROVE b \in BatchRecords
  BY ReturnedTyped DEF All, RInv, Told, TInv, TypeOK
<1> QED BY <1>1 DEF BatchRecords

\* A batch that continues the last one keeps the chain.
LEMMA ChainGrows ==
  ASSUME RInv, NEW l \in Leases, Live(l), NEW b \in BatchRecords,
         b.sequence = lease[l].expected, b.first = lease[l].read, b.last = lease'[l].read,
         b.done \/ lease'[l].ended => b.last = directory /\ directory <= MaxEntries,
         All(l)' \subseteq All(l) \cup {b}, lease'[l].expected = b.sequence + 1,
         directory' = directory
  PROVE  Chained(l)' /\ Headed(l)'
<1>1. /\ Chained(l) /\ b.sequence \in Nat
      /\ lease[l].expected = 0 => lease[l].read = 0
      /\ \A d \in All(l) : d.sequence + 1 = lease[l].expected => d.last = lease[l].read
      /\ \A d \in All(l) : d.sequence \in Nat /\ d.sequence < b.sequence
  BY AllTyped DEF RInv, Safe, Headed, Chained, BatchRecords
<1>2. Chained(l)'
  <2>1. SUFFICES ASSUME NEW d \in All(l)'
                 PROVE  /\ d.sequence < lease'[l].expected
                        /\ d.sequence = 0 => d.first = 0
                        /\ d.done => d.last = directory' /\ directory' <= MaxEntries
                        /\ \A e \in All(l)' :
                             /\ e.sequence = d.sequence => e = d
                             /\ e.sequence = d.sequence + 1 => e.first = d.last
    BY DEF Chained
  <2>2. d \in All(l) \/ d = b OBVIOUS
  <2>3. d.sequence < lease'[l].expected BY <1>1, <2>2
  <2>4. d.sequence = 0 => d.first = 0 BY <1>1, <2>2 DEF Chained
  <2>5. d.done => d.last = directory' /\ directory' <= MaxEntries BY <1>1, <2>2 DEF Chained
  <2>6. ASSUME NEW e \in All(l)'
        PROVE  /\ e.sequence = d.sequence => e = d
               /\ e.sequence = d.sequence + 1 => e.first = d.last
    <3>1. e \in All(l) \/ e = b OBVIOUS
    <3>2. CASE d \in All(l) /\ e \in All(l) BY <1>1, <3>2 DEF Chained
    <3>3. CASE d \in All(l) /\ e = b BY <1>1, <3>3
    <3>4. CASE d = b /\ e \in All(l) BY <1>1, <3>4
    <3>5. CASE d = b /\ e = b BY <1>1, <3>5
    <3> QED BY <2>2, <3>1, <3>2, <3>3, <3>4, <3>5
  <2> QED BY <2>3, <2>4, <2>5, <2>6
<1>3. Headed(l)'
  <2>1. lease'[l].expected # 0 BY <1>1
  <2>2. ASSUME NEW d \in All(l)', d.sequence + 1 = lease'[l].expected
        PROVE  d.last = lease'[l].read
    BY <1>1, <2>2
  <2> QED BY <2>1, <2>2 DEF Headed
<1> QED BY <1>2, <1>3

LEMMA BatchArrivesSafe ==
  ASSUME RInv, TInv', NEW c \in Calls, BatchArrives(c)
  PROVE  RInv'
<1>. PICK l : l = call[c].lease OBVIOUS
<1>. PICK n : n = lease[l].read OBVIOUS
<1>. PICK m : m = IF lease[l].ended THEN n ELSE BatchEnd(n) OBVIOUS
<1> DEFINE next == [lease[l] EXCEPT !.read = m, !.running = FALSE,
                                    !.expected = call[c].sequence + 1]
           done == [call[c] EXCEPT !.pc = "close", !.at = n, !.last = m, !.result = "done"]
           more == [Returned(c) EXCEPT !.first = n, !.last = m]
           b    == [sequence |-> call[c].sequence, first |-> n, last |-> m,
                    done |-> (m < n + Batch)]
<1>1. TInv BY DEF RInv
<1>2. /\ Local(c, l) /\ call[c].pc = "batch"
      /\ m \in 0..MaxEntries /\ n <= m /\ m <= directory
      /\ \/ /\ m < n + Batch
            /\ lease[l].ended \/ (lease[l].open /\ m = directory)
            /\ call'[c] = done /\ lease'[l] = [next EXCEPT !.ended = TRUE]
            /\ batches' = batches
         \/ /\ m = n + Batch
            /\ call'[c] = NoCall /\ NoCall.pc = "idle"
            /\ lease'[l] = [next EXCEPT !.registered = lease[l].registered
                                                       \/ call[c].sequence = 0]
            /\ batches' = [batches EXCEPT ![l] = batches[l] \cup {more}]
  BY <1>1, BatchArrivesShape, ZenonT(60)
<1>3. /\ c \in Calls /\ l \in Leases /\ lease[l] \in LeaseRecords /\ call[c] \in CallRecords
      /\ Safe(l) /\ Told /\ n \in Nat /\ call[c].sequence \in Nat /\ directory' = directory
      /\ call[c].result # "done" /\ lease[l].kind = "listing"
      /\ active' = active /\ UNCHANGED <<delivered, succeeded>>
  <2>1. c \in Calls /\ l \in Leases /\ lease[l] \in LeaseRecords /\ call[c] \in CallRecords
        /\ Safe(l) /\ Told /\ directory' = directory
    BY <1>2 DEF Local, RInv
  <2>2. n \in Nat /\ call[c].sequence \in Nat
    BY <2>1, ReadsAssumption, SMTT(60) DEF LeaseRecords, CallRecords
  <2>3. call[c].result # "done" /\ lease[l].kind = "listing" BY <1>1, <1>2, OwnLease, ZenonT(60)
  <2> QED BY <2>1, <2>2, <2>3 DEF BatchArrives
<1>4. Reading(c, l) /\ Works(c, l) /\ Live(l) BY <1>2, <1>3 DEF Reading, Works, Live
<1>5. /\ lease[l].running /\ call[c].sequence = lease[l].expected
      /\ \A d \in Calls : Reading(d, l) => d = c
  BY <1>3, <1>4 DEF Safe, Iterates
<1>6. b \in BatchRecords
  <2>1. (m < n + Batch) \in BOOLEAN OBVIOUS
  <2> QED BY <1>2, <1>3 DEF BatchRecords
<1>7. /\ next \in LeaseRecords /\ next.digest = lease[l].digest
      /\ next.position = lease[l].position /\ next.frozen = lease[l].frozen
      /\ next.read = m /\ next.expected = call[c].sequence + 1
      /\ next.ended = lease[l].ended /\ next.registered = lease[l].registered
  <2>1. call[c].sequence + 1 \in Nat BY <1>3
  <2> QED BY <1>2, <1>3, <2>1, ZenonT(60) DEF LeaseRecords
<1>8. m = n + Batch => more = b
  <2>1. m = n + Batch => (m < n + Batch) = FALSE BY <1>3, ReadsAssumption
  <2>2. (call[c].result = "done") = FALSE BY <1>3
  <2>3. Returned(c) \in BatchRecords /\ Returned(c).sequence = call[c].sequence
        /\ Returned(c).done = (call[c].result = "done")
    BY <1>3, ReturnedTyped DEF Returned
  <2>4. /\ more \in BatchRecords /\ more.sequence = call[c].sequence
        /\ more.first = n /\ more.last = m /\ more.done = (call[c].result = "done")
    BY <1>2, <1>3, <2>3 DEF BatchRecords
  <2>5. /\ b.sequence = call[c].sequence /\ b.first = n /\ b.last = m
        /\ b.done = (m < n + Batch)
    OBVIOUS
  <2> HIDE DEF more, b
  <2> QED BY <1>6, <2>1, <2>2, <2>4, <2>5 DEF BatchRecords
<1>9. /\ done.pc = "close" /\ done.lease = l /\ done.result = "done"
      /\ done.sequence = call[c].sequence /\ done.at = n /\ done.last = m
  BY <1>3 DEF CallRecords
<1> HIDE DEF next, done, more, b
<1>10. /\ lease'[l].digest = lease[l].digest /\ lease'[l].position = lease[l].position
       /\ lease'[l].frozen = lease[l].frozen
       /\ lease'[l].read = m /\ lease'[l].expected = call[c].sequence + 1
       /\ lease'[l].ended = IF m < n + Batch THEN TRUE ELSE lease[l].ended
  <2>1. m = n + Batch => ~(m < n + Batch) BY <1>3, ReadsAssumption
  <2> QED BY <1>2, <1>7, <2>1 DEF LeaseRecords
<1>11. lease'[l].registered => lease[l].registered \/ call[c].sequence = 0
  BY <1>2, <1>7 DEF LeaseRecords
<1>12. /\ batches' \in [Leases -> SUBSET BatchRecords]
       /\ batches'[l] = IF m < n + Batch THEN batches[l] ELSE batches[l] \cup {b}
       /\ \A k \in Leases : k # l => batches'[k] = batches[k]
  <2>1. m = n + Batch => ~(m < n + Batch) BY <1>3, ReadsAssumption
  <2>2. CASE m < n + Batch
    <3>1. batches' = batches BY <1>2, <2>1, <2>2
    <3> QED BY <1>3, <2>2, <3>1 DEF Told
  <2>3. CASE ~(m < n + Batch)
    <3>1. batches' = [batches EXCEPT ![l] = batches[l] \cup {b}] BY <1>2, <1>8, <2>3
    <3>2. batches \in [Leases -> SUBSET BatchRecords] BY <1>3 DEF Told
    <3>3. batches[l] \cup {b} \subseteq BatchRecords BY <1>3, <1>6, <3>2
    <3> QED BY <1>3, <2>3, <3>1, <3>2, <3>3
  <2> QED BY <2>2, <2>3
<1>13. \A o \in Operations : active'[o] \in {active[o], None, l} BY <1>3
<1>14. call'[c].pc # "idle" => call'[c].lease = l BY <1>2, <1>9
<1>15. Steps(c, l) BY <1>2, <1>3, <1>12, <1>13, <1>14, LocalSteps
<1>16. Shared(c, l) BY <1>3, <1>4, SharedRule DEF Safe
<1>17. ~Succeeding(c)' /\ call'[c].pc \notin Beginning \cup {"read", "batch"}
  BY <1>2, <1>9 DEF Succeeding, Beginning
<1>18. Alone(l)'
  <2>1. \A d \in Calls : ~(Works(d, l)' /\ call'[d].pc \in Beginning)
    BY <1>15, <1>16, <1>17, CallsHere DEF Shared
  <2> QED BY <2>1 DEF Alone
<1>19. Delivers(l)' BY <1>3, <1>10, <1>15, <1>17, DeliversKept DEF Safe
<1>20. Wholes(l)' BY <1>3, <1>10, <1>15, <1>17, WholesKept DEF Safe
<1>21. Iterates(l)'
  <2>1. \A d \in Calls : ~Reading(d, l)' BY <1>5, <1>15, <1>17, CallsHere DEF Reading
  <2> QED BY <2>1 DEF Iterates
<1>22. All(l)' \subseteq All(l) \cup {b}
  <2>1. ASSUME NEW d \in Calls, Returning(d, l)'
        PROVE  Returned(d)' \in All(l) \cup {b}
    <3>1. CASE d = c
      <4>1. call'[c] = done /\ m < n + Batch BY <1>2, <2>1, <3>1 DEF Returning
      <4>2. Returned(c)' = b BY <1>9, <4>1 DEF Returned, b
      <4> QED BY <3>1, <4>2
    <3>2. CASE d # c BY <1>15, <2>1, <3>2, CallsHere DEF All
    <3> QED BY <3>1, <3>2
  <2>2. batches'[l] \subseteq All(l) \cup {b} BY <1>12 DEF All
  <2> QED BY <2>1, <2>2 DEF All
<1>23. Chained(l)' /\ Headed(l)'
  <2>1. /\ b.sequence = lease[l].expected /\ b.first = lease[l].read /\ b.last = lease'[l].read
        /\ lease'[l].expected = b.sequence + 1 /\ b.done = (m < n + Batch)
    BY <1>5, <1>10 DEF b
  <2>2. b.done \/ lease'[l].ended => b.last = directory /\ directory <= MaxEntries
    <3>1. lease[l].ended => n = directory /\ directory <= MaxEntries /\ m = n
      BY <1>3, <1>4 DEF Safe, Headed
    <3>2. b.last = m BY <1>10, <2>1
    <3>3. CASE m < n + Batch
      <4>1. lease[l].ended \/ m = directory BY <1>2, <1>3, <3>3, ReadsAssumption
      <4>2. m = directory => directory <= MaxEntries BY <1>2, ReadsAssumption
      <4> QED BY <3>1, <3>2, <4>1, <4>2
    <3>4. CASE ~(m < n + Batch)
      <4>1. m = n + Batch BY <1>2, <3>4
      <4>2. m # n BY <1>3, <4>1, ReadsAssumption
      <4> QED BY <1>10, <2>1, <3>1, <3>4, <4>2
    <3> QED BY <3>3, <3>4
  <2> QED BY <1>3, <1>4, <1>6, <1>22, <2>1, <2>2, ChainGrows
<1>24. Safe(l)' BY <1>18, <1>19, <1>20, <1>21, <1>23 DEF Safe
<1> QED BY <1>1, <1>2, <1>3, <1>12, <1>15, <1>24, RInvRule DEF Told

LEMMA OpensSafe ==
  ASSUME RInv, TInv', NEW c \in Calls, NEW kind \in {"download", "listing", "query"},
         NEW o \in Operations \cup {None}, Opens(c, kind, o)
  PROVE  RInv'
<1>1. PICK l \in Leases :
        /\ lease[l].kind = "unused"
        /\ lease' = [lease EXCEPT ![l] = [lease[l] EXCEPT !.kind = kind, !.operation = o]]
        /\ call' = [call EXCEPT ![c] =
              [NoCall EXCEPT !.pc = "opening", !.lease = l, !.operation = o]]
  BY DEF Opens
<1>2. /\ UNCHANGED <<directory, active, delivered, batches, succeeded>>
      /\ call[c].pc = "idle"
  BY DEF Opens, Admitted, remote, told
<1>3. TypeOK /\ Kinds /\ Told BY DEF RInv, TInv
<1> DEFINE nc == [NoCall EXCEPT !.pc = "opening", !.lease = l, !.operation = o]
           nl == [lease[l] EXCEPT !.kind = kind, !.operation = o]
<1>4. nc.pc = "opening" /\ nc.lease = l /\ nc.sequence = 0 BY DEF NoCall
<1>5. lease[l] = NoLease BY <1>1, <1>3 DEF Kinds
<1>6. /\ nl.kind = kind /\ nl.registered = FALSE /\ nl.digest = <<>> /\ nl.position = 0
      /\ nl.open = FALSE /\ nl.expected = 0 /\ nl.read = 0 /\ nl.ended = FALSE
  BY <1>5 DEF NoLease
<1> HIDE DEF nc, nl
<1>7. call'[c] = nc /\ \A d \in Calls : d # c => call'[d] = call[d]
  BY <1>1, <1>3 DEF TypeOK, nc
<1>8. lease'[l] = nl /\ \A m \in Leases : m # l => lease'[m] = lease[m]
  BY <1>1, <1>3 DEF TypeOK, nl
<1>9. Steps(c, l) BY <1>2, <1>4, <1>7, <1>8 DEF Steps
<1>10. /\ \A d \in Calls : ~Works(d, l)
       /\ \A p \in Operations : active[p] # l
       /\ delivered[l] = {} /\ batches[l] = {} /\ l \notin succeeded
  <2>1. \A d \in Calls : ~Works(d, l) BY <1>1, <1>3 DEF Kinds, KindOf, Works, Mine
  <2>2. \A p \in Operations : active[p] # l
    BY <1>1, <1>3, ReadsAssumption DEF Kinds, Leases
  <2>3. delivered[l] = {} /\ batches[l] = {} /\ l \notin succeeded
    BY <1>1, <1>3 DEF Told, TypeOK
  <2> QED BY <2>1, <2>2, <2>3
<1>11. \A d \in Calls : d # c => ~Works(d, l)' BY <1>9, <1>10, CallsHere
<1>12. \A d \in Calls : ~Reading(d, l)' /\ ~Returning(d, l)'
                        /\ ~(Works(d, l) /\ (Succeeding(d) \/ call[d].pc = "read"))'
  BY <1>4, <1>7, <1>11 DEF Works, Reading, Returning, Succeeding
<1>13. All(l)' = {} BY <1>2, <1>10, <1>12 DEF All
<1>14. Safe(l)'
  <2>1. Alone(l)'
    BY <1>2, <1>4, <1>6, <1>7, <1>8, <1>10, <1>11 DEF Alone
  <2>2. Delivers(l)'
    <3>1. lease'[l].digest = <<>> /\ lease'[l].position = 0 BY <1>6, <1>8
    <3>2. Len(<<>>) = 0 /\ DOMAIN <<>> = {} OBVIOUS
    <3>3. delivered'[l] = {<<i - 1, lease'[l].digest[i]>> : i \in DOMAIN lease'[l].digest}
      BY <1>2, <1>10, <3>1, <3>2
    <3> QED BY <1>12, <3>1, <3>2, <3>3 DEF Delivers
  <2>3. Wholes(l)' BY <1>2, <1>10, <1>12 DEF Wholes
  <2>4. Iterates(l)' BY <1>12 DEF Iterates
  <2>5. Chained(l)' BY <1>13 DEF Chained
  <2>6. Headed(l)' BY <1>6, <1>8, <1>12 DEF Headed, Live
  <2> QED BY <2>1, <2>2, <2>3, <2>4, <2>5, <2>6 DEF Safe
<1>15. \A m \in Leases : Safe(m)' BY <1>9, <1>14, SafeElsewhere DEF RInv
<1>16. Told'
  <2>1. kind # "unused" OBVIOUS
  <2>2. \A m \in Leases : lease'[m].kind = "unused" => lease[m].kind = "unused"
    BY <1>6, <1>8, <2>1
  <2> QED BY <1>2, <1>3, <2>2 DEF Told
<1> QED BY <1>15, <1>16 DEF RInv

\* What the service, the session and the server do changes no answer.
LEMMA WorldRule ==
  ASSUME RInv, TInv', UNCHANGED <<directory, call>>, UNCHANGED told,
         \A l \in Leases :
           /\ lease'[l].kind = lease[l].kind
           /\ lease'[l].digest = lease[l].digest /\ lease'[l].position = lease[l].position
           /\ lease'[l].frozen = lease[l].frozen /\ lease'[l].expected = lease[l].expected
           /\ lease'[l].read = lease[l].read /\ lease'[l].running = lease[l].running
           /\ lease'[l].open => lease[l].open
           /\ lease'[l].registered => lease[l].registered
           /\ lease'[l].ended = lease[l].ended
                \/ (~lease'[l].registered /\ \A c \in Calls : call[c].pc = "idle")
           /\ \A o \in Operations : active'[o] = l => active[o] = l
  PROVE  RInv'
<1>1. UNCHANGED <<delivered, batches, succeeded>> BY DEF told
<1>2. ASSUME NEW l \in Leases PROVE Safe(l)'
  <2>1. Safe(l) BY DEF RInv
  <2>2. \A d \in Calls : /\ Works(d, l)' <=> Works(d, l)
                         /\ Reading(d, l)' <=> Reading(d, l)
                         /\ Succeeding(d)' <=> Succeeding(d)
                         /\ Returning(d, l)' <=> Returning(d, l)
                         /\ Returned(d)' = Returned(d)
    BY DEF Works, Reading, Succeeding, Returning, Returned
  <2>3. All(l)' = All(l)
    <3>1. {Returned(d) : d \in {e \in Calls : Returning(e, l)}}' =
          {Returned(d) : d \in {e \in Calls : Returning(e, l)}}
      BY <2>2
    <3> QED BY <1>1, <3>1 DEF All
  <2>4. Alone(l)'
    <3>1. SUFFICES ASSUME NEW c \in Calls, (Works(c, l) /\ call[c].pc \in Beginning)'
                   PROVE  /\ call'[c].sequence = 0
                          /\ \A d \in Calls : d # c => ~Works(d, l)'
                          /\ \A o \in Operations : active'[o] # l
                          /\ ~lease'[l].registered /\ l \notin succeeded'
                          /\ call'[c].pc = "opening" =>
                               /\ ~lease'[l].open /\ lease'[l].expected = 0
                               /\ lease'[l].read = 0 /\ ~lease'[l].ended
      BY DEF Alone
    <3>2. /\ call[c].sequence = 0
          /\ \A d \in Calls : d # c => ~Works(d, l)
          /\ \A o \in Operations : active[o] # l
          /\ ~lease[l].registered /\ l \notin succeeded
          /\ call[c].pc = "opening" =>
               ~lease[l].open /\ lease[l].expected = 0 /\ lease[l].read = 0 /\ ~lease[l].ended
      BY <2>1, <2>2, <3>1 DEF Safe, Alone
    <3>3. call[c].pc # "idle" BY <3>1 DEF Beginning
    <3>4. lease'[l].ended = lease[l].ended BY <3>3
    <3> QED BY <1>1, <2>2, <3>2, <3>4
  <2>5. Delivers(l)' BY <1>1, <2>1, <2>2 DEF Safe, Delivers, InOrder
  <2>6. Wholes(l)' BY <1>1, <2>1, <2>2 DEF Safe, Wholes, Whole
  <2>7. Iterates(l)' BY <2>1, <2>2 DEF Safe, Iterates
  <2>8. Chained(l)' BY <2>1, <2>3 DEF Safe, Chained
  <2>9. Headed(l)'
    <3>1. CASE Live(l)'
      <4>1. Live(l) BY <2>2, <3>1 DEF Live
      <4>2. lease'[l].ended = lease[l].ended BY <3>1 DEF Live, Reading
      <4> QED BY <2>1, <2>3, <4>1, <4>2 DEF Safe, Headed
    <3>2. CASE ~Live(l)' BY <3>2 DEF Headed
    <3> QED BY <3>1, <3>2
  <2> QED BY <2>4, <2>5, <2>6, <2>7, <2>8, <2>9 DEF Safe
<1>3. Told' BY <1>1 DEF RInv, Told
<1> QED BY <1>2, <1>3 DEF RInv

LEMMA WorldSafe ==
  ASSUME RInv, TInv', Stop \/ CloseAll \/ SessionCloses \/ ConnectionCloses \/ FileChanges
  PROVE  RInv'
<1>1. TypeOK BY DEF RInv, TInv
<1>2. CASE Stop \/ SessionCloses \/ FileChanges
  <2>1. UNCHANGED <<directory, call, lease, active>> /\ UNCHANGED told
    BY <1>2 DEF Stop, SessionCloses, FileChanges, remote
  <2> QED BY <2>1, WorldRule
<1>3. CASE ConnectionCloses
  <2>1. /\ lease' = [l \in Leases |-> [lease[l] EXCEPT !.open = FALSE]]
        /\ UNCHANGED <<directory, call>> /\ UNCHANGED told /\ active' = active
    BY <1>3 DEF ConnectionCloses
  <2>2. ASSUME NEW l \in Leases
        PROVE  /\ lease'[l].kind = lease[l].kind
               /\ lease'[l].digest = lease[l].digest /\ lease'[l].position = lease[l].position
               /\ lease'[l].frozen = lease[l].frozen /\ lease'[l].expected = lease[l].expected
               /\ lease'[l].read = lease[l].read /\ lease'[l].running = lease[l].running
               /\ lease'[l].open = FALSE
               /\ lease'[l].registered = lease[l].registered
               /\ lease'[l].ended = lease[l].ended
    <3>1. lease[l] \in LeaseRecords BY <1>1 DEF TypeOK
    <3>2. lease'[l] = [lease[l] EXCEPT !.open = FALSE] BY <2>1
    <3> QED BY <3>1, <3>2 DEF LeaseRecords
  <2> QED BY <2>1, <2>2, WorldRule
<1>4. CASE CloseAll
  <2>1. /\ lease' = [l \in Leases |->
              IF l \in Cursors \cup Downloads
              THEN [lease[l] EXCEPT !.open = FALSE, !.ended = TRUE, !.registered = FALSE]
              ELSE lease[l]]
        /\ \A c \in Calls : call[c].pc = "idle"
        /\ active' = [o \in Operations |-> None]
        /\ UNCHANGED <<directory, call>> /\ UNCHANGED told
    BY <1>4 DEF CloseAll, remote
  <2>2. ASSUME NEW l \in Leases
        PROVE  /\ lease'[l].kind = lease[l].kind
               /\ lease'[l].digest = lease[l].digest /\ lease'[l].position = lease[l].position
               /\ lease'[l].frozen = lease[l].frozen /\ lease'[l].expected = lease[l].expected
               /\ lease'[l].read = lease[l].read /\ lease'[l].running = lease[l].running
               /\ lease'[l].open => lease[l].open
               /\ lease'[l].registered => lease[l].registered
               /\ lease'[l].ended = lease[l].ended \/ ~lease'[l].registered
    <3>1. lease[l] \in LeaseRecords BY <1>1 DEF TypeOK
    <3>2. CASE l \in Cursors \cup Downloads
      <4>1. lease'[l] = [lease[l] EXCEPT !.open = FALSE, !.ended = TRUE, !.registered = FALSE]
        BY <2>1, <3>2
      <4> QED BY <3>1, <4>1 DEF LeaseRecords
    <3>3. CASE l \notin Cursors \cup Downloads
      <4>1. lease'[l] = lease[l] BY <2>1, <3>3
      <4> QED BY <4>1
    <3> QED BY <3>2, <3>3
  <2>3. \A l \in Leases : \A o \in Operations : active'[o] # l
    BY <2>1, ReadsAssumption DEF Leases
  <2> QED BY <2>1, <2>2, <2>3, WorldRule
<1> QED BY <1>2, <1>3, <1>4

LEMMA SafeInit == Init => RInv
<1> SUFFICES ASSUME Init PROVE RInv OBVIOUS
<1>1. TInv BY TypeInit
<1>2. Told BY DEF Init, Told
<1>3. ASSUME NEW l \in Leases PROVE Safe(l)
  <2>1. \A c \in Calls : call[c].pc = "idle" BY DEF Init, NoCall
  <2>2. lease[l] = NoLease /\ delivered[l] = {} /\ batches[l] = {} /\ l \notin succeeded
    BY DEF Init
  <2>3. NoLease.digest = <<>> /\ NoLease.position = 0 /\ NoLease.registered = FALSE
    BY DEF NoLease
  <2>4. Delivers(l)
    <3>1. Len(<<>>) = 0 /\ DOMAIN <<>> = {} OBVIOUS
    <3> QED BY <2>1, <2>2, <2>3, <3>1 DEF Delivers, Works
  <2>5. All(l) = {} BY <2>1, <2>2 DEF All, Returning
  <2> QED BY <2>1, <2>2, <2>3, <2>4, <2>5
       DEF Safe, Alone, Wholes, Works, Iterates, Reading, Chained, Headed, Live
<1> QED BY <1>1, <1>2, <1>3 DEF RInv

LEMMA SafeStep == RInv /\ [Next]_vars => RInv'
<1> SUFFICES ASSUME RInv, [Next]_vars PROVE RInv' OBVIOUS
<1>1. TInv' BY TypeStep DEF RInv
<1>2. CASE UNCHANGED vars
  <2>1. UNCHANGED <<directory, call, lease, active>> /\ UNCHANGED told
    BY <1>2 DEF vars, remote
  <2> QED BY <1>1, <2>1, WorldRule
<1>3. ASSUME NEW c \in Calls, Request(c) PROVE RInv'
  <2>1. CASE DownloadRequest(c)
    <3>1. PICK o \in Operations : \/ BeginDownload(c, o) \/ Finish(c, o) \/ Abort(c, o)
                                  \/ \E s \in 0..Size : ReadChunk(c, o, s)
      BY <2>1 DEF DownloadRequest
    <3> QED BY <1>1, <3>1, OpensSafe, FinishSafe, AbortSafe, ReadChunkSafe DEF BeginDownload
  <2>2. CASE BeginListing(c) \/ Ask(c) BY <1>1, <2>2, OpensSafe DEF BeginListing, Ask
  <2>3. ASSUME NEW l \in Leases, CloseListing(c, l) PROVE RInv'
    <3>1. /\ lease[l].registered /\ phase # "stopped" /\ call[c].pc = "idle" /\ Unregister(l)
          /\ call' = [call EXCEPT ![c] = [NoCall EXCEPT !.pc = "close", !.lease = l]]
          /\ UNCHANGED <<phase, session, file, directory>> /\ UNCHANGED told
          /\ active' = active
      BY <2>3 DEF CloseListing, Admitted, remote
    <3> QED BY <1>1, <3>1, UnregisterSafe
  <2>4. ASSUME NEW l \in Leases, NEW s \in 0..(MaxEntries + 1), NextBatch(c, l, s) PROVE RInv'
    <3>1. s \in Nat BY ReadsAssumption
    <3> QED BY <1>1, <2>4, <3>1, NextBatchSafe
  <2> QED BY <1>3, <2>1, <2>2, <2>3, <2>4 DEF Request, ListingRequest
<1>4. ASSUME NEW c \in Calls, Step(c) PROVE RInv'
  BY <1>1, <1>4, ChannelOpensSafe, QuietSafe, LetGoSafe, SourceReadSafe, ChunkArrivesSafe,
     FinishReadsSafe, BatchArrivesSafe, BatchFailsSafe DEF Step
<1> QED BY <1>1, <1>2, <1>3, <1>4, WorldSafe DEF Next

\* A download that was told to have succeeded was delivered, chunk by chunk, in
\* the version its snapshot was taken of, and the batches of a listing continue
\* each other up to its end: under every overlap of requests (read_chunk,
\* finish, next, _read_batch).
THEOREM ReadsAreAlwaysTrue == Spec => []ReadsAreTrue
<1>1. RInv => ReadsAreTrue
  <2> SUFFICES ASSUME RInv PROVE DownloadIsSource /\ ListingIsWhole BY DEF ReadsAreTrue
  <2>1. DownloadIsSource
    <3>1. \A l \in succeeded : l \in Leases BY DEF RInv, TInv, TypeOK
    <3> QED BY <3>1 DEF DownloadIsSource, RInv, Safe, Wholes, Whole
  <2>2. ListingIsWhole
    BY DEF ListingIsWhole, RInv, Safe, Chained, All
  <2> QED BY <2>1, <2>2
<1> QED BY <1>1, SafeInit, SafeStep, PTL DEF Spec
-----------------------------------------------------------------------------
(* Who holds an open channel.                                              *)

\* A call that will close its lease or hand it on: the first batch of a listing
\* is read before the listing can be asked for.
Holds(c, l) ==
  /\ call[c].lease = l
  /\ \/ call[c].pc \in Beginning \cup {"close"}
     \/ call[c].pc = "batch" /\ call[c].sequence = 0

Known(l) == lease[l].registered \/ \E o \in Operations : active[o] = l

Owned(l) ==
  lease[l].open => \/ \E c \in Calls : Holds(c, l)
                   \/ phase # "stopped" /\ Known(l)
                   \/ Contested(l)

OInv == RInv /\ \A l \in Leases : Owned(l)

\* A lease that had an identifier keeps it.
LEMMA ContestedStays ==
  ASSUME \A k \in Leases : lease[k].operation # None => lease'[k].operation = lease[k].operation,
         NEW l \in Leases, Contested(l)
  PROVE  Contested(l)'
BY DEF Contested

\* A step of one call with one lease; it takes another download out of the
\* registry only if both have the same identifier.
LEMMA OwnedElsewhere ==
  ASSUME OInv, NEW c, NEW l, Local(c, l),
         call[c].pc # "idle" => call[c].lease = l, call'[c].pc # "idle" => call'[c].lease = l,
         \A o \in Operations : active'[o] = active[o] \/ o = lease[l].operation,
         NEW m \in Leases, m # l
  PROVE  Owned(m)'
<1>1. SUFFICES ASSUME lease'[m].open
               PROVE  \/ \E d \in Calls : Holds(d, m)'
                      \/ phase' # "stopped" /\ Known(m)'
                      \/ Contested(m)'
  BY DEF Owned
<1>2. /\ lease'[m] = lease[m] /\ phase' = phase /\ phase # "stopped" /\ l \in Leases
      /\ \A d \in Calls : d # c => call'[d] = call[d]
      /\ \A k \in Leases : lease'[k].operation = lease[k].operation
  BY DEF Local
<1>3. \/ \E d \in Calls : Holds(d, m)
      \/ lease[m].registered
      \/ \E o \in Operations : active[o] = m
      \/ Contested(m)
  BY <1>1, <1>2 DEF OInv, Owned, Known
<1>4. ASSUME NEW d \in Calls, Holds(d, m) PROVE Holds(d, m)'
  <2>1. call[d].pc # "idle" /\ call[d].lease = m BY <1>4 DEF Holds, Beginning
  <2>2. d # c BY <2>1
  <2> QED BY <1>2, <1>4, <2>2 DEF Holds
<1>5. ASSUME NEW o \in Operations, active[o] = m PROVE Known(m)' \/ Contested(m)'
  <2>1. lease[m].operation = o BY <1>5, ReadsAssumption DEF OInv, RInv, TInv, Kinds, Leases
  <2>2. CASE active'[o] = m BY <2>2 DEF Known
  <2>3. CASE active'[o] # m
    <3>1. o = lease[l].operation BY <1>5, <2>3
    <3>2. o # None BY ReadsAssumption
    <3> QED BY <1>2, <2>1, <3>1, <3>2 DEF Contested
  <2> QED BY <2>2, <2>3
<1>6. Contested(m) => Contested(m)' BY <1>2, ContestedStays
<1> QED BY <1>2, <1>3, <1>4, <1>5, <1>6 DEF Known

\* How the lease of the step itself stays owned.
LEMMA OwnedRule ==
  ASSUME OInv, RInv', NEW c, NEW l, Local(c, l),
         call[c].pc # "idle" => call[c].lease = l, call'[c].pc # "idle" => call'[c].lease = l,
         \A o \in Operations : active'[o] = active[o] \/ o = lease[l].operation,
         \/ ~lease'[l].open
         \/ Holds(c, l)'
         \/ lease'[l].registered
         \/ \E o \in Operations : active'[o] = l
         \/ /\ ~Holds(c, l) /\ active' = active
            /\ lease'[l].open => lease[l].open
            /\ lease[l].registered => lease'[l].registered
  PROVE  OInv'
<1>1. /\ phase' = phase /\ phase # "stopped" /\ l \in Leases /\ c \in Calls
      /\ \A d \in Calls : d # c => call'[d] = call[d]
      /\ \A k \in Leases : lease'[k].operation = lease[k].operation
  BY DEF Local
<1>2. Owned(l)'
  <2>1. CASE ~lease'[l].open \/ Holds(c, l)' \/ Known(l)' BY <1>1, <2>1 DEF Owned
  <2>2. CASE /\ ~Holds(c, l) /\ active' = active
             /\ lease'[l].open => lease[l].open
             /\ lease[l].registered => lease'[l].registered
    <3>1. \A d \in Calls : Holds(d, l) => Holds(d, l)'
      <4>1. ASSUME NEW d \in Calls, Holds(d, l) PROVE Holds(d, l)'
        <5>1. d # c BY <2>2, <4>1
        <5> QED BY <1>1, <4>1, <5>1 DEF Holds
      <4> QED BY <4>1
    <3>2. Contested(l) => Contested(l)' BY <1>1, ContestedStays
    <3>3. Known(l) => Known(l)' BY <2>2 DEF Known
    <3> QED BY <1>1, <2>2, <3>1, <3>2, <3>3 DEF OInv, Owned
  <2> QED BY <2>1, <2>2 DEF Known
<1>3. \A m \in Leases : Owned(m)' BY <1>2, OwnedElsewhere
<1> QED BY <1>3 DEF OInv

LEMMA ClosingHolds ==
  ASSUME NEW c, NEW l, NEW result, call[c] \in CallRecords, call'[c] = Closing(c, l, result)
  PROVE  Holds(c, l)' /\ call'[c].lease = l
<1>1. call'[c].pc = "close" /\ call'[c].lease = l BY DEF Closing, CallRecords
<1> QED BY <1>1 DEF Holds

\* The registry changes under the identifier of the lease, or not at all.
LEMMA ClosesOwned ==
  ASSUME OInv, RInv', NEW c \in Calls, NEW o \in Operations, NEW l \in Leases,
         lease[l].kind = "download", lease[l].operation = o, phase # "stopped",
         NEW result \in {"error", "succeeded", "cancelled"},
         ClosesDownload(c, o, l, result),
         UNCHANGED <<phase, session, file, directory, lease, succeeded>>,
         call[c].pc # "idle" => call[c].lease = l
  PROVE  OInv'
<1>1. TInv /\ TypeOK BY DEF OInv, RInv, TInv
<1>2. Local(c, l) /\ call'[c] = Closing(c, l, result) BY <1>1, ClosesTyped
<1>3. Holds(c, l)' /\ call'[c].lease = l BY <1>2, ClosingHolds DEF Local
<1>4. \A p \in Operations : active'[p] = active[p] \/ p = lease[l].operation
  BY <1>1 DEF ClosesDownload, TypeOK
<1> QED BY <1>2, <1>3, <1>4, OwnedRule

LEMMA DownloadRequestOwned ==
  ASSUME OInv, RInv', NEW c \in Calls, NEW o \in Operations,
         Finish(c, o) \/ Abort(c, o) \/ \E s \in 0..Size : ReadChunk(c, o, s)
  PROVE  OInv'
<1>. PICK l : l = active[o] OBVIOUS
<1>1. TInv BY DEF OInv, RInv
<1>2. /\ call[c].pc = "idle" /\ phase # "stopped" /\ lease' = lease
      /\ active[o] # None
      /\ UNCHANGED <<phase, session, file, directory, lease, succeeded>>
      /\ UNCHANGED <<phase, session, file, directory>>
  BY DEF Finish, Abort, ReadChunk, Admitted, remote, told
<1>3. l \in Leases /\ lease[l].kind = "download" /\ lease[l].operation = o
      /\ lease[l].kind # "unused"
  BY <1>1, <1>2, Registered
<1>4. \/ \E result \in {"error", "succeeded", "cancelled"} : ClosesDownload(c, o, l, result)
      \/ /\ active' = active
         /\ call' = [call EXCEPT ![c] =
              [NoCall EXCEPT !.pc = "final", !.lease = l, !.operation = o]]
      \/ /\ active' = active
         /\ \E s \in 0..Size :
              call' = [call EXCEPT ![c] = Asking("read", l, o, s, lease[l].position)]
  BY DEF Finish, Abort, ReadChunk, Asking
<1>5. ASSUME NEW result \in {"error", "succeeded", "cancelled"}, ClosesDownload(c, o, l, result)
      PROVE  OInv'
  BY <1>2, <1>3, <1>5, ClosesOwned
<1>6. ASSUME NEW nc \in CallRecords, nc.lease = l, active' = active,
             call' = [call EXCEPT ![c] = nc]
      PROVE  OInv'
  <2>1. Local(c, l) /\ call'[c] = nc BY <1>1, <1>2, <1>3, <1>6, CallRule
  <2>2. ~Holds(c, l) BY <1>2 DEF Holds, Beginning
  <2> QED BY <1>2, <1>6, <2>1, <2>2, OwnedRule
<1>7. l \in 0..Channels BY <1>3, ReadsAssumption DEF Leases
<1>8. /\ [NoCall EXCEPT !.pc = "final", !.lease = l, !.operation = o] \in CallRecords
      /\ [NoCall EXCEPT !.pc = "final", !.lease = l, !.operation = o].lease = l
  BY <1>7, NoCallTyped DEF CallRecords
<1>9. ASSUME NEW s \in 0..Size
      PROVE  /\ Asking("read", l, o, s, lease[l].position) \in CallRecords
             /\ Asking("read", l, o, s, lease[l].position).lease = l
  <2>1. s \in Nat /\ lease[l].position \in Nat
    BY <1>1, <1>3, ReadsAssumption DEF TInv, TypeOK, LeaseRecords
  <2> QED BY <1>7, <2>1, NoCallTyped DEF CallRecords, Asking
<1> QED BY <1>4, <1>5, <1>6, <1>8, <1>9

LEMMA ListingRequestOwned ==
  ASSUME OInv, RInv', NEW c \in Calls, NEW l \in Leases,
         CloseListing(c, l) \/ \E s \in Nat : NextBatch(c, l, s)
  PROVE  OInv'
<1>1. TInv BY DEF OInv, RInv
<1>2. /\ call[c].pc = "idle" /\ phase # "stopped" /\ lease[l].registered /\ active' = active
      /\ UNCHANGED <<phase, session, file, directory>>
      /\ lease[l].kind # "unused" /\ lease[l] \in LeaseRecords
  BY <1>1 DEF CloseListing, NextBatch, Admitted, remote, TInv, TypeOK
<1>3. CASE /\ Unregister(l)
           /\ call' = [call EXCEPT ![c] = [NoCall EXCEPT !.pc = "close", !.lease = l]]
  <2> DEFINE nc == [NoCall EXCEPT !.pc = "close", !.lease = l]
  <2>1. Local(c, l) /\ call'[c] = nc BY <1>1, <1>2, <1>3, UnregisterShape
  <2>2. nc.pc = "close" /\ nc.lease = l BY DEF NoCall
  <2> HIDE DEF nc
  <2>3. Holds(c, l)' BY <2>1, <2>2 DEF Holds
  <2> QED BY <1>2, <2>1, <2>2, <2>3, OwnedRule
<1>4. ASSUME NEW s \in Nat, NextBatch(c, l, s), s = lease[l].expected, ~lease[l].running
      PROVE  OInv'
  <2>1. /\ Local(c, l) /\ call'[c] = Fetching(l, s)
        /\ lease'[l] = [lease[l] EXCEPT !.running = TRUE]
    BY <1>1, <1>4, NextBatchShape
  <2>2. Fetching(l, s).lease = l BY DEF NoCall, Fetching
  <2>3. lease'[l].registered BY <1>2, <2>1 DEF LeaseRecords
  <2> QED BY <1>2, <2>1, <2>2, <2>3, OwnedRule
<1> QED BY <1>3, <1>4 DEF CloseListing, NextBatch

\* A step of one call with one lease that a call in progress takes.
LEMMA StepOwned ==
  ASSUME OInv, RInv', NEW c \in Calls, Step(c)
  PROVE  OInv'
<1>. PICK l : l = call[c].lease OBVIOUS
<1>1. TInv /\ TypeOK BY DEF OInv, RInv, TInv
<1>2. ASSUME call[c].pc # "idle"
      PROVE  /\ l \in Leases /\ lease[l].kind # "unused" /\ lease[l] \in LeaseRecords
             /\ call[c] \in CallRecords /\ phase # "stopped" /\ Alone(l)
  BY <1>1, <1>2, InProgress DEF OInv, RInv, Safe
<1>3. CASE ChannelOpens(c)
  <2>1. /\ Local(c, l) /\ call[c].pc = "opening" /\ active' = active
        /\ call'[c] = [call[c] EXCEPT !.pc = FirstStep[lease[l].kind]]
    BY <1>1, <1>3, ChannelOpensShape
  <2>2. call[c].sequence = 0 BY <1>2, <2>1 DEF Alone, Works, Beginning
  <2>3. lease[l].kind \in {"download", "listing", "query"} BY <1>2, <2>1 DEF LeaseRecords
  <2>4. /\ call'[c].pc = FirstStep[lease[l].kind] /\ call'[c].lease = l
        /\ call'[c].sequence = 0
    BY <1>2, <2>1, <2>2 DEF CallRecords
  <2>5. Holds(c, l)' BY <2>3, <2>4 DEF Holds, FirstStep, Beginning
  <2> QED BY <2>1, <2>4, <2>5, OwnedRule
<1>4. CASE ChannelFails(c) \/ ReadFails(c)
  <2>1. /\ call[c].pc \in {"opening", "read", "final"} /\ Ends(c) /\ lease' = lease
        /\ active' = active /\ UNCHANGED <<phase, session, file, directory>>
    BY <1>4 DEF ChannelFails, ReadFails, remote
  <2>2. Local(c, l) /\ call'[c].pc = "idle" BY <1>1, <2>1, EndsShape
  <2>3. CASE call[c].pc = "opening"
    <3>1. ~lease[l].open BY <1>2, <2>3 DEF Alone, Works, Beginning
    <3> QED BY <2>1, <2>2, <3>1, OwnedRule
  <2>4. CASE call[c].pc # "opening"
    <3>1. ~Holds(c, l) BY <2>1, <2>4 DEF Holds, Beginning
    <3> QED BY <2>1, <2>2, <3>1, OwnedRule
  <2> QED BY <2>3, <2>4
<1>5. CASE CloseEnds(c) \/ CloseRaises(c)
  <2>1. /\ call[c].pc = "close" /\ LetGo(l) /\ Ends(c) /\ active' = active
        /\ UNCHANGED <<phase, session, file, directory>>
    BY <1>5 DEF CloseEnds, CloseRaises, remote
  <2>2. /\ Local(c, l) /\ call'[c].pc = "idle"
        /\ lease'[l] = [lease[l] EXCEPT !.open = FALSE,
                          !.ended = lease[l].ended \/ ~lease[l].running, !.registered = FALSE]
    BY <1>1, <2>1, LetGoShape
  <2>3. ~lease'[l].open BY <1>2, <2>1, <2>2 DEF LeaseRecords
  <2> QED BY <2>1, <2>2, <2>3, OwnedRule
<1>6. CASE SourceRead(c)
  <2>1. Local(c, l) /\ call'[c] = [call[c] EXCEPT !.pc = "hash"]
    BY <1>1, <1>6, SourceReadShape
  <2>2. call[c].pc # "idle" /\ active' = active BY <1>6 DEF SourceRead
  <2>3. call'[c].pc = "hash" /\ call'[c].lease = l BY <1>2, <2>1, <2>2 DEF CallRecords
  <2>4. Holds(c, l)' BY <2>3 DEF Holds, Beginning
  <2> QED BY <2>1, <2>2, <2>3, <2>4, OwnedRule
<1>7. CASE SourceHashed(c) \/ BeginFails(c) \/ Answered(c)
  <2>1. /\ call[c].pc # "idle" /\ lease' = lease /\ active' = active
        /\ UNCHANGED <<phase, session, file, directory>>
        /\ \/ \E result \in {"error", "answer"} : Closes(c, l, result)
           \/ Goes(c, "handle")
    BY <1>7 DEF SourceHashed, BeginFails, Answered, remote
  <2>2. ASSUME NEW result \in {"error", "answer"}, Closes(c, l, result) PROVE OInv'
    <3>1. result \in {"error", "succeeded", "cancelled", "done", "answer"} OBVIOUS
    <3>2. Local(c, l) /\ call'[c] = Closing(c, l, result)
      BY <1>1, <1>2, <2>1, <2>2, <3>1, ClosesShape
    <3>3. Holds(c, l)' /\ call'[c].lease = l BY <3>2, ClosingHolds DEF Local
    <3> QED BY <2>1, <3>2, <3>3, OwnedRule
  <2>3. ASSUME Goes(c, "handle") PROVE OInv'
    <3>1. Local(c, l) /\ call'[c] = [call[c] EXCEPT !.pc = "handle"]
      BY <1>1, <2>1, <2>3, GoesShape
    <3>2. call'[c].pc = "handle" /\ call'[c].lease = l BY <1>2, <2>1, <3>1 DEF CallRecords
    <3>3. Holds(c, l)' BY <3>2 DEF Holds, Beginning
    <3> QED BY <2>1, <3>1, <3>2, <3>3, OwnedRule
  <2> QED BY <2>1, <2>2, <2>3
<1>8. CASE HandleOpens(c)
  <2>1. /\ call[c].pc = "handle" /\ Ends(c) /\ lease' = lease
        /\ UNCHANGED <<phase, session, file, directory>>
        /\ active' = [active EXCEPT ![call[c].operation] = l]
    BY <1>8 DEF HandleOpens, remote
  <2>2. Local(c, l) /\ call'[c].pc = "idle" BY <1>1, <2>1, EndsShape
  <2>3. call[c].operation = lease[l].operation /\ lease[l].operation \in Operations
    BY <1>1, <2>1, OwnLease
  <2>4. /\ \A o \in Operations : active'[o] = active[o] \/ o = lease[l].operation
        /\ \E o \in Operations : active'[o] = l
    BY <1>1, <2>1, <2>3 DEF TypeOK
  <2> QED BY <2>2, <2>4, OwnedRule
<1>9. CASE ReadTimesOut(c) \/ FinishReads(c)
  <2>1. /\ call[c].pc \in {"read", "final"}
        /\ \E result \in {"error", "succeeded", "cancelled"} :
             ClosesDownload(c, call[c].operation, l, result)
        /\ UNCHANGED <<phase, session, file, directory, lease, succeeded>>
    BY <1>9 DEF ReadTimesOut, FinishReads, remote, told
  <2>2. /\ l \in Leases /\ lease[l].kind = "download" /\ lease[l].operation \in Operations
        /\ call[c].operation = lease[l].operation /\ phase # "stopped"
    BY <1>1, <1>2, <2>1, OwnLease
  <2> QED BY <2>1, <2>2, ClosesOwned
<1>10. CASE ChunkArrives(c)
  <2>1. /\ Local(c, l) /\ call'[c].pc = "idle"
        /\ lease'[l] = [lease[l] EXCEPT !.digest = Append(lease[l].digest, <<call[c].at, file>>),
                                        !.position = call[c].at + 1]
    BY <1>1, <1>10, ChunkArrivesShape
  <2>2. call[c].pc = "read" /\ active' = active BY <1>10 DEF ChunkArrives
  <2>3. lease'[l].open = lease[l].open /\ lease'[l].registered = lease[l].registered
    BY <1>2, <2>1, <2>2 DEF LeaseRecords
  <2>4. ~Holds(c, l) BY <2>2 DEF Holds, Beginning
  <2> QED BY <2>1, <2>2, <2>3, <2>4, OwnedRule
<1>11. CASE BatchFails(c)
  <2>1. Local(c, l) /\ call[c].pc = "batch" /\ call'[c] = Closing(c, l, "error")
    BY <1>1, <1>11, BatchFailsShape DEF Closing
  <2>2. active' = active BY <1>11 DEF BatchFails
  <2>3. Holds(c, l)' /\ call'[c].lease = l BY <2>1, ClosingHolds DEF Local
  <2>4. call[c].lease = l OBVIOUS
  <2> QED BY ONLY OInv, RInv', <2>1, <2>2, <2>3, <2>4, OwnedRule, SMTT(60)
<1>12. CASE BatchArrives(c)
  <2>. PICK m : m = IF lease[l].ended THEN lease[l].read ELSE BatchEnd(lease[l].read) OBVIOUS
  <2>. DEFINE next == [lease[l] EXCEPT !.read = m, !.running = FALSE,
                                       !.expected = call[c].sequence + 1]
              done == [call[c] EXCEPT !.pc = "close", !.at = lease[l].read, !.last = m,
                                      !.result = "done"]
  <2>1. /\ Local(c, l) /\ call[c].pc = "batch"
        /\ \/ call'[c] = done
           \/ /\ call'[c].pc = "idle"
              /\ lease'[l] = [next EXCEPT !.registered = lease[l].registered
                                                          \/ call[c].sequence = 0]
    BY <1>1, <1>12, BatchArrivesShape, ZenonT(60)
  <2>2. active' = active BY <1>12 DEF BatchArrives
  <2>3. CASE call'[c] = done
    <3>1. call'[c].pc = "close" /\ call'[c].lease = l BY <1>2, <2>1, <2>3 DEF CallRecords
    <3>2. Holds(c, l)' BY <3>1 DEF Holds
    <3> HIDE DEF done
    <3> QED BY <2>1, <2>2, <3>1, <3>2, OwnedRule
  <2>4. CASE /\ call'[c].pc = "idle"
             /\ lease'[l] = [next EXCEPT !.registered = lease[l].registered
                                                         \/ call[c].sequence = 0]
    <3>1. /\ lease'[l].open = lease[l].open
          /\ lease'[l].registered = (lease[l].registered \/ call[c].sequence = 0)
      BY <1>2, <2>1, <2>4 DEF LeaseRecords
    <3>2. call[c].sequence # 0 => ~Holds(c, l) BY <2>1 DEF Holds, Beginning
    <3> HIDE DEF next, done
    <3> QED BY <2>1, <2>2, <2>4, <3>1, <3>2, OwnedRule
  <2> QED BY <2>1, <2>3, <2>4
<1> QED BY <1>3, <1>4, <1>5, <1>6, <1>7, <1>8, <1>9, <1>10, <1>11, <1>12 DEF Step

\* A new lease is not open yet, and the others stay as they are.
LEMMA OpensOwned ==
  ASSUME OInv, RInv', NEW c \in Calls, NEW kind, NEW o, Opens(c, kind, o)
  PROVE  OInv'
<1>1. PICK l \in Leases :
        /\ lease[l].kind = "unused"
        /\ lease' = [lease EXCEPT ![l] = [lease[l] EXCEPT !.kind = kind, !.operation = o]]
        /\ call' = [call EXCEPT ![c] =
              [NoCall EXCEPT !.pc = "opening", !.lease = l, !.operation = o]]
  BY DEF Opens
<1>2. /\ phase' = phase /\ phase # "stopped" /\ active' = active /\ call[c].pc = "idle"
  BY DEF Opens, Admitted
<1>3. TypeOK /\ lease[l] = NoLease BY <1>1 DEF OInv, RInv, TInv, Kinds
<1> DEFINE nl == [lease[l] EXCEPT !.kind = kind, !.operation = o]
<1>4. nl.open = FALSE /\ lease[l].operation = None BY <1>3 DEF NoLease
<1> HIDE DEF nl
<1>5. \A d \in Calls : d # c => call'[d] = call[d] BY <1>1, <1>3 DEF TypeOK
<1>6. lease'[l] = nl /\ \A m \in Leases : m # l => lease'[m] = lease[m]
  BY <1>1, <1>3 DEF TypeOK, nl
<1>7. ASSUME NEW m \in Leases, lease'[m].open PROVE Owned(m)'
  <2>1. m # l /\ lease'[m] = lease[m] BY <1>4, <1>6, <1>7
  <2>2. \/ \E d \in Calls : Holds(d, m)
        \/ Known(m)
        \/ Contested(m)
    BY <1>7, <2>1 DEF OInv, Owned
  <2>3. \A d \in Calls : Holds(d, m) => Holds(d, m)'
    <3>1. \A d \in Calls : Holds(d, m) => d # c BY <1>2 DEF Holds, Beginning
    <3> QED BY <1>5, <3>1 DEF Holds
  <2>4. Known(m) => Known(m)' BY <1>2, <2>1 DEF Known
  <2>5. Contested(m) => Contested(m)' BY <1>4, <1>6, ContestedStays
  <2> QED BY <1>2, <2>2, <2>3, <2>4, <2>5 DEF Owned
<1> QED BY <1>7 DEF OInv, Owned

\* What the service, the session and the server do.
LEMMA WorldOwned ==
  ASSUME OInv, RInv', \/ Stop \/ CloseAll \/ SessionCloses \/ ConnectionCloses \/ FileChanges
                      \/ UNCHANGED vars
  PROVE  OInv'
<1>1. TypeOK BY DEF OInv, RInv, TInv
<1>2. CASE Stop \/ SessionCloses \/ FileChanges \/ UNCHANGED vars
  <2>1. UNCHANGED <<call, lease, active>> /\ (phase # "stopped" => phase' # "stopped")
    BY <1>2 DEF Stop, SessionCloses, FileChanges, vars
  <2>2. ASSUME NEW l \in Leases PROVE Owned(l)'
    <3>1. Owned(l) BY DEF OInv
    <3>2. /\ Known(l)' <=> Known(l)
          /\ Contested(l)' <=> Contested(l)
          /\ \A c \in Calls : Holds(c, l)' <=> Holds(c, l)
      BY <2>1 DEF Known, Contested, Holds
    <3> QED BY <2>1, <3>1, <3>2 DEF Owned
  <2> QED BY <2>2 DEF OInv
<1>3. CASE ConnectionCloses
  <2>1. ASSUME NEW l \in Leases PROVE ~lease'[l].open
    <3>1. lease'[l] = [lease[l] EXCEPT !.open = FALSE] BY <1>3 DEF ConnectionCloses
    <3>2. lease[l] \in LeaseRecords BY <1>1 DEF TypeOK
    <3> QED BY <3>1, <3>2 DEF LeaseRecords
  <2> QED BY <2>1 DEF OInv, Owned
<1>4. CASE CloseAll
  <2>1. /\ lease' = [l \in Leases |->
              IF l \in Cursors \cup Downloads
              THEN [lease[l] EXCEPT !.open = FALSE, !.ended = TRUE, !.registered = FALSE]
              ELSE lease[l]]
        /\ \A c \in Calls : call[c].pc = "idle"
    BY <1>4 DEF CloseAll
  <2>2. ASSUME NEW l \in Leases, l \in Cursors \cup Downloads PROVE ~lease'[l].open
    <3>1. lease'[l] = [lease[l] EXCEPT !.open = FALSE, !.ended = TRUE, !.registered = FALSE]
      BY <2>1, <2>2
    <3>2. lease[l] \in LeaseRecords BY <1>1 DEF TypeOK
    <3> QED BY <3>1, <3>2 DEF LeaseRecords
  <2>3. ASSUME NEW l \in Leases, l \notin Cursors \cup Downloads, lease'[l].open
        PROVE  Contested(l)'
    <3>1. lease'[l] = lease[l] BY <2>1, <2>3
    <3>2. ~Known(l) BY <2>3, ReadsAssumption DEF Known, Cursors, Downloads, Leases
    <3>3. \A c \in Calls : ~Holds(c, l) BY <2>1 DEF Holds, Beginning
    <3>4. Contested(l) BY <2>3, <3>1, <3>2, <3>3 DEF OInv, Owned
    <3>5. \A k \in Leases : lease'[k].operation = lease[k].operation
      <4>1. ASSUME NEW k \in Leases, k \in Cursors \cup Downloads
            PROVE  lease'[k].operation = lease[k].operation
        <5>1. lease'[k] = [lease[k] EXCEPT !.open = FALSE, !.ended = TRUE, !.registered = FALSE]
          BY <2>1, <4>1
        <5>2. lease[k] \in LeaseRecords BY <1>1 DEF TypeOK
        <5> QED BY <5>1, <5>2 DEF LeaseRecords
      <4>2. ASSUME NEW k \in Leases, k \notin Cursors \cup Downloads
            PROVE  lease'[k].operation = lease[k].operation
        BY <2>1, <4>2
      <4> QED BY <4>1, <4>2
    <3> QED BY <3>4, <3>5, ContestedStays
  <2> QED BY <2>2, <2>3 DEF OInv, Owned
<1> QED BY <1>2, <1>3, <1>4

LEMMA OwnedStep == OInv /\ [Next]_vars => OInv'
<1> SUFFICES ASSUME OInv, [Next]_vars PROVE OInv' OBVIOUS
<1>1. RInv' BY SafeStep DEF OInv
<1>2. ASSUME NEW c \in Calls, Request(c) PROVE OInv'
  <2>1. CASE DownloadRequest(c)
    <3>1. PICK o \in Operations : \/ BeginDownload(c, o) \/ Finish(c, o) \/ Abort(c, o)
                                  \/ \E s \in 0..Size : ReadChunk(c, o, s)
      BY <2>1 DEF DownloadRequest
    <3> QED BY <1>1, <3>1, OpensOwned, DownloadRequestOwned DEF BeginDownload
  <2>2. CASE BeginListing(c) \/ Ask(c) BY <1>1, <2>2, OpensOwned DEF BeginListing, Ask
  <2>3. CASE \E l \in Leases : \/ CloseListing(c, l)
                               \/ \E s \in 0..(MaxEntries + 1) : NextBatch(c, l, s)
    <3>1. 0..(MaxEntries + 1) \subseteq Nat BY ReadsAssumption
    <3> QED BY <1>1, <2>3, <3>1, ListingRequestOwned
  <2> QED BY <1>2, <2>1, <2>2, <2>3 DEF Request, ListingRequest
<1> QED BY <1>1, <1>2, StepOwned, WorldOwned DEF Next

LEMMA OwnedInit == Init => OInv
<1> SUFFICES ASSUME Init PROVE OInv OBVIOUS
<1>1. \A l \in Leases : ~lease[l].open BY DEF Init, NoLease
<1> QED BY <1>1, SafeInit DEF OInv, Owned

\* Every open channel has someone who will close it: the request that opened it,
\* the registry, or a session that ends; none is forgotten, whatever fails while
\* a download or a listing begins and whoever closes it in the meantime (begin,
\* read_chunk, _close_download, _close_cursor, close_all).
THEOREM ChannelsAreOwned == Spec => []ChannelsOwned
<1>1. OInv => ChannelsOwned
  <2> SUFFICES ASSUME OInv, NEW l \in Leases, lease[l].open
               PROVE  \/ \E c \in Calls : call[c].pc # "idle" /\ call[c].lease = l
                      \/ phase # "stopped" /\ Known(l)
                      \/ Contested(l)
    BY DEF ChannelsOwned, Known
  <2>1. \A c \in Calls : Holds(c, l) => call[c].pc # "idle" /\ call[c].lease = l
    BY DEF Holds, Beginning
  <2> QED BY <2>1 DEF OInv, Owned
<1> QED BY <1>1, OwnedInit, OwnedStep, PTL DEF Spec
=============================================================================
