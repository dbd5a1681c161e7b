-------------------------- MODULE DesktopTerminal --------------------------
(***************************************************************************)
(* The interactive terminals of one SSH session (PtyManager), the one       *)
(* WebSocket of the desktop that carries their output and input             *)
(* (RuntimeWebSocketGateway), the disconnect of the session, and the        *)
(* shutdown of the process, which closes all of them.                       *)
(*                                                                          *)
(* What the backend tells the desktop goes through one bounded queue that   *)
(* only a connected desktop drains.  A task that finds the queue full       *)
(* waits; when there is room, any task that waits or comes by may take it:  *)
(* asyncio.Queue.put lets a newcomer overtake a waiter that was woken, and  *)
(* the waiter then waits behind all others.                                 *)
(***************************************************************************)
EXTENDS Naturals, Sequences, SequencesExt

CONSTANTS
  Arrivals,      \* number of WebSocket connections over time
  Ptys,          \* terminals over time
  Capacity,      \* WEBSOCKET_QUEUE_CAPACITY
  MaxOutputs,    \* bound: chunks that a terminal puts out
  MaxMessages    \* bound: messages that the desktop sends

ASSUME LimitsAssumption ==
  /\ Arrivals \in Nat
  /\ Capacity \in Nat \ {0}
  /\ MaxOutputs \in Nat
  /\ MaxMessages \in Nat

VARIABLES
  runtime,     \* phase of the RuntimeOwner and of RuntimeResources.shutdown
  connected,   \* RuntimeWebSocketGateway._connected
  conn,        \* the endpoint of each connection: what its tasks have in hand
  inbound,     \* what _receive has put and _process has not taken
  outbound,    \* the queue to the desktop
  pty,         \* each terminal: _PtyState, its tasks, its channel, its close
  transport,   \* the SSH connection
  session,     \* the SshSession and its SshSessionRegistry.close
  disconnect,  \* the disconnect request of the user
  remaining,   \* the terminals that close_all of the shutdown has not come to
  failed,      \* the shutdown met an error
  messages,    \* messages the desktop has sent so far
  taken,       \* what of each terminal has left the queue for a desktop (history)
  written      \* inputs written to a terminal (history)

exitVars    == <<runtime, remaining, failed>>
sessionVars == <<transport, session, disconnect>>
historyVars == <<messages, taken, written>>
terminalVars == <<exitVars, connected, conn, inbound, outbound, pty, sessionVars, historyVars>>

Desktops  == 1..Arrivals   \* in the order they arrive
Streams   == {"stdout", "stderr"}
Nothing   == [kind |-> "nothing"]
Unused    == [pc |-> "new", replying |-> Nothing]
NoPty     == [state |-> "none", listed |-> FALSE, next |-> 1,
              reader |-> [s \in Streams |-> "none"], chunk |-> [s \in Streams |-> 0],
              monitor |-> "none",
              channel |-> "none", child |-> FALSE, close |-> "none"]

TerminalInit ==
  /\ runtime = "ready" /\ remaining = {} /\ failed = FALSE
  /\ connected = FALSE
  /\ conn = [c \in Desktops |-> Unused]
  /\ inbound = <<>> /\ outbound = <<>>
  /\ pty = [p \in Ptys |-> NoPty]
  /\ transport = "up"
  /\ session = [pc |-> "up", channels |-> {}]
  /\ disconnect = "none"
  /\ messages = 0
  /\ taken = [p \in Ptys |-> <<>>] /\ written = <<>>

Output(p, s, n) == [kind |-> "output", pty |-> p, stream |-> s, number |-> n]
Closed(p)       == [kind |-> "closed", pty |-> p]
Status(state)   == [kind |-> "status", state |-> state]

Room       == Len(outbound) < Capacity
Publish(m) == Room /\ outbound' = Append(outbound, m)

-----------------------------------------------------------------------------
(* The gateway *)

\* The endpoint: the runtime is ready and no other desktop is connected.  A
\* connection that is refused is closed at once and changes nothing.
Claim(c) ==
  /\ runtime = "ready"
  /\ conn[c].pc = "new"
  /\ \A d \in 1..(c - 1) : conn[d].pc # "new"
  /\ ~connected
  /\ conn' = [conn EXCEPT ![c].pc = "serving"]
  /\ connected' = TRUE
  /\ UNCHANGED <<exitVars, inbound, outbound, pty, sessionVars, historyVars>>

\* _receive: input for a terminal the desktop knows.  Pings are left out: they
\* are answered the way input is.
Receive(c) ==
  /\ conn[c].pc = "serving"
  /\ Len(inbound) < Capacity
  /\ messages < MaxMessages
  /\ messages' = messages + 1
  /\ \E p \in Ptys :
       /\ pty[p].state \in {"OPEN", "CLOSED"}
       /\ inbound' = Append(inbound, [pty |-> p, number |-> messages'])
  /\ UNCHANGED <<exitVars, connected, conn, outbound, pty, sessionVars, taken, written>>

\* When the first task has ended, run cancels the others; the answer that
\* _process had not yet put is dropped.
EndTasks(c) == conn' = [conn EXCEPT ![c] = [pc |-> "ending", replying |-> Nothing]]

IsOpen(p) == pty[p].listed /\ pty[p].state = "OPEN"

\* A channel takes input until somebody has sent the EOF or has closed it.
OpenForSending(p) ==
  /\ pty[p].channel = "running"
  /\ pty[p].close = "none"
  /\ p \notin session.channels

Result(n, accepted) == [kind |-> "result", number |-> n, accepted |-> accepted]

\* (mutant) The result does not wait for what the write has to say.
ProcessUnchecked(c) ==
  /\ conn[c].pc = "serving" /\ conn[c].replying = Nothing
  /\ inbound # <<>>
  /\ inbound' = Tail(inbound)
  /\ LET m == Head(inbound)
     IN  /\ conn' = [conn EXCEPT ![c].replying = Result(m.number, TRUE)]
         /\ written' = IF IsOpen(m.pty) /\ OpenForSending(m.pty)
                       THEN Append(written, m.number) ELSE written
  /\ UNCHANGED <<exitVars, connected, outbound, pty, sessionVars, messages, taken>>

\* _process: input goes through the dispatcher to the terminal, and its result
\* is published.  A write to a channel that takes none raises what _write_pty
\* does not catch, and the connection ends.
Process(c) ==
  /\ conn[c].pc = "serving" /\ conn[c].replying = Nothing
  /\ inbound # <<>>
  /\ inbound' = Tail(inbound)
  /\ LET m == Head(inbound)
         reply(r) == conn' = [conn EXCEPT ![c].replying = r]
     IN  IF ~IsOpen(m.pty) THEN reply(Result(m.number, FALSE)) /\ UNCHANGED written
         ELSE IF OpenForSending(m.pty)
              THEN reply(Result(m.number, TRUE)) /\ written' = Append(written, m.number)
         ELSE EndTasks(c) /\ UNCHANGED written
  /\ UNCHANGED <<exitVars, connected, outbound, pty, sessionVars, messages, taken>>

Reply(c) ==
  /\ conn[c].replying # Nothing
  /\ Publish(conn[c].replying)
  /\ conn' = [conn EXCEPT ![c].replying = Nothing]
  /\ UNCHANGED <<exitVars, connected, inbound, pty, sessionVars, historyVars>>

\* _send: off the queue and to the socket.  What the socket loses when the
\* connection breaks is not kept: for the backend it has been told.
OfPty(m) == m.kind \in {"output", "closed"}

Take(c) ==
  /\ conn[c].pc = "serving"
  /\ outbound # <<>>
  /\ outbound' = Tail(outbound)
  /\ LET m == Head(outbound)
     IN  taken' = IF OfPty(m) THEN [taken EXCEPT ![m.pty] = Append(@, m)] ELSE taken
  /\ UNCHANGED <<exitVars, connected, conn, inbound, pty, sessionVars, messages, written>>

\* The desktop leaves, says what the contract forbids or misses its heartbeat,
\* or the server that exits closes the connection.
End(c) ==
  /\ conn[c].pc = "serving"
  /\ EndTasks(c)
  /\ UNCHANGED <<exitVars, connected, inbound, outbound, pty, sessionVars, historyVars>>

\* release: only unread input is dropped.
Release(c) ==
  /\ conn[c].pc = "ending"
  /\ conn' = [conn EXCEPT ![c].pc = "over"]
  /\ connected' = FALSE
  /\ inbound' = <<>>
  /\ UNCHANGED <<exitVars, outbound, pty, sessionVars, historyVars>>

-----------------------------------------------------------------------------
(* Terminals *)

OnlyPty == UNCHANGED <<exitVars, connected, conn, inbound, sessionVars, historyVars>>

\* PtyManager.open looks the session up, then awaits the channel.
RequestOpen(p) ==
  /\ runtime = "ready"
  /\ pty[p].state = "none"
  /\ session.pc = "up"
  /\ pty' = [pty EXCEPT ![p].state = "opening"]
  /\ OnlyPty /\ UNCHANGED outbound

\* By now the session may be closing, as long as its connection is there.
Opened(p) ==
  /\ pty[p].state = "opening"
  /\ transport = "up"
  /\ pty' = [pty EXCEPT ![p] =
               [@ EXCEPT !.state = "OPEN", !.listed = TRUE, !.child = TRUE,
                         !.channel = "running", !.monitor = "readers",
                         !.reader = [s \in Streams |-> "reading"]]]
  /\ OnlyPty /\ UNCHANGED outbound

OpenFails(p) ==
  /\ pty[p].state = "opening"
  /\ pty' = [pty EXCEPT ![p].state = "failed"]
  /\ OnlyPty /\ UNCHANGED outbound

\* _read_stream draws the number of a chunk and puts the chunk at once, or waits
\* when the queue is full.  What the channel has received is read after its end
\* too.
Read(p, s) ==
  /\ pty[p].reader[s] = "reading"
  /\ pty[p].next <= MaxOutputs
  /\ \/ /\ Publish(Output(p, s, pty[p].next))
        /\ pty' = [pty EXCEPT ![p].next = @ + 1]
     \/ /\ ~Room /\ UNCHANGED outbound
        /\ pty' = [pty EXCEPT ![p] = [@ EXCEPT !.reader[s] = "putting",
                                               !.chunk[s] = pty[p].next,
                                               !.next = pty[p].next + 1]]
  /\ OnlyPty

Put(p, s) ==
  /\ pty[p].reader[s] = "putting"
  /\ Publish(Output(p, s, pty[p].chunk[s]))
  /\ pty' = [pty EXCEPT ![p] = [@ EXCEPT !.reader[s] = "reading", !.chunk[s] = 0]]
  /\ OnlyPty

\* The stream is at its end, or raises what broke the connection.
ReadEnds(p, s) ==
  /\ pty[p].reader[s] = "reading"
  /\ pty[p].channel \in {"ended", "broken"}
  /\ pty' = [pty EXCEPT ![p].reader[s] = IF pty[p].channel = "ended" THEN "done" ELSE "raised"]
  /\ OnlyPty /\ UNCHANGED outbound

ReadersDone(p) == \A s \in Streams : pty[p].reader[s] = "done"

\* _monitor: both streams are drained and the channel is closed.
Drained(p) ==
  /\ pty[p].monitor = "readers"
  /\ ReadersDone(p)
  /\ pty' = [pty EXCEPT ![p] = [@ EXCEPT !.state = "CLOSED", !.monitor = "publishing"]]
  /\ OnlyPty /\ UNCHANGED outbound

\* (mutant) The terminal stays in the index.
ForgottenByOwner(p) ==
  [pty EXCEPT ![p] = [@ EXCEPT !.monitor = "done", !.child = FALSE]]

\* Its finally, which wakes close.
Forgotten(p) ==
  [pty EXCEPT ![p] = [@ EXCEPT !.monitor = "done", !.listed = FALSE, !.child = FALSE]]

PublishClosed(p) ==
  /\ pty[p].monitor = "publishing"
  /\ Publish(Closed(p))
  /\ pty' = Forgotten(p)
  /\ OnlyPty

\* A reader raised, so gather does, at once: no closed event, and the state of
\* the terminal stays OPEN.
MonitorRaises(p) ==
  /\ pty[p].monitor = "readers"
  /\ \E s \in Streams : pty[p].reader[s] = "raised"
  /\ pty' = Forgotten(p)
  /\ OnlyPty /\ UNCHANGED outbound

\* PtyManager.close: EOF; after two seconds the channel is closed by force.
StartClose(p) == pty' = [pty EXCEPT ![p].close = "eof"]

RequestClose(p) ==
  /\ runtime = "ready"
  /\ IsOpen(p)
  /\ pty[p].close = "none"
  /\ StartClose(p)
  /\ OnlyPty /\ UNCHANGED outbound

\* (mutant) The channel gets the EOF only.
CloseOnlyWaits(p) == FALSE /\ UNCHANGED terminalVars

CloseByForce(p) ==
  /\ pty[p].close = "eof"
  /\ pty[p].monitor # "done"
  /\ pty' = [pty EXCEPT ![p].close = "forced"]
  /\ OnlyPty /\ UNCHANGED outbound

CloseReturns(p) ==
  /\ pty[p].close \in {"eof", "forced"}
  /\ pty[p].monitor = "done"
  /\ pty' = [pty EXCEPT ![p].close = "done"]
  /\ OnlyPty /\ UNCHANGED outbound

\* The remote process ends: by itself, because of the EOF, or by force.
ChannelEnds(p) ==
  /\ pty[p].channel = "running"
  /\ pty' = [pty EXCEPT ![p].channel = "ended"]
  /\ OnlyPty /\ UNCHANGED outbound

-----------------------------------------------------------------------------
(* The session *)

\* SshRuntime.disconnect says so first.
RequestDisconnect ==
  /\ runtime = "ready"
  /\ session.pc = "up" /\ disconnect = "none"
  /\ disconnect' = "announcing"
  /\ UNCHANGED <<exitVars, connected, conn, inbound, outbound, pty, transport, session,
                 historyVars>>

\* SshSessionRegistry.close up to its first await: the session leaves the
\* registry and every child is told to close.
CloseSession ==
  session' = [pc |-> "children", channels |-> {p \in Ptys : pty[p].child}]

Announce ==
  /\ disconnect = "announcing"
  /\ Publish(Status("CLOSING"))
  /\ disconnect' = "closing"
  /\ CloseSession
  /\ UNCHANGED <<exitVars, connected, conn, inbound, pty, transport, historyVars>>

\* These have closed; the connection is closed, and with it every channel that
\* was opened in between.
CloseTarget ==
  /\ session.pc = "children"
  /\ \A p \in session.channels : pty[p].channel # "running"
  /\ session' = [session EXCEPT !.pc = "down"]
  /\ transport' = "closed"
  /\ pty' = [p \in Ptys |->
               [pty[p] EXCEPT !.child = FALSE,
                              !.channel = IF @ = "running" THEN "ended" ELSE @]]
  /\ UNCHANGED <<exitVars, connected, conn, inbound, outbound, disconnect, historyVars>>

Disconnected ==
  /\ disconnect = "closing"
  /\ session.pc = "down"
  /\ Publish(Status("DISCONNECTED"))
  /\ disconnect' = "done"
  /\ UNCHANGED <<exitVars, connected, conn, inbound, pty, transport, session, historyVars>>

\* The network: the session stays in the registry.
ConnectionBreaks ==
  /\ transport = "up"
  /\ transport' = "broken"
  /\ pty' = [p \in Ptys |->
               [pty[p] EXCEPT !.channel = IF @ = "running" THEN "broken" ELSE @]]
  /\ UNCHANGED <<exitVars, connected, conn, inbound, outbound, session, disconnect,
                 historyVars>>

-----------------------------------------------------------------------------
(* The shutdown *)

OnlyExit == UNCHANGED <<connected, conn, inbound, outbound, transport, disconnect, historyVars>>

\* The launcher says stop, or is gone.  The server takes no more connections
\* and requests, closes the WebSocket, and waits for its requests.
Exit ==
  /\ runtime = "ready"
  /\ runtime' = "exiting"
  /\ UNCHANGED <<remaining, failed, pty, session>>
  /\ OnlyExit

Listed == {p \in Ptys : pty[p].listed}
InProgress ==
  \/ \E c \in Desktops : conn[c].pc \in {"serving", "ending"}
  \/ \E p \in Ptys : pty[p].state = "opening" \/ pty[p].close \in {"eof", "forced"}
  \/ disconnect \in {"announcing", "closing"}

\* RuntimeOwner.shutdown: the dispatcher has nothing left to wait for, and
\* PtyManager.close_all starts with the terminals it finds.
Shutdown ==
  /\ runtime = "exiting"
  /\ ~InProgress
  /\ runtime' = "ptys"
  /\ remaining' = Listed
  /\ UNCHANGED <<failed, pty, session>>
  /\ OnlyExit

Closing(p) ==
  \/ pty[p].close \in {"eof", "forced"}
  \/ pty[p].state = "CLOSED" /\ pty[p].listed

\* One after the other.  A terminal whose monitor raised is OPEN and not
\* listed: close raises, and the rest is left to the session.
CloseNext ==
  /\ runtime = "ptys"
  /\ \A p \in Ptys \ remaining : ~Closing(p)
  /\ \E p \in remaining :
       IF pty[p].state = "OPEN" /\ ~pty[p].listed
       THEN /\ remaining' = {}
            /\ failed' = TRUE
            /\ UNCHANGED pty
       ELSE /\ remaining' = remaining \ {p}
            /\ IF pty[p].state = "OPEN" THEN StartClose(p) ELSE UNCHANGED pty
            /\ UNCHANGED failed
  /\ UNCHANGED <<runtime, session>>
  /\ OnlyExit

\* (mutant) The sessions are not closed.
StopAfterPtys ==
  /\ runtime = "ptys" /\ remaining = {}
  /\ \A p \in Ptys : ~Closing(p)
  /\ runtime' = "sessions"
  /\ session' = [session EXCEPT !.pc = "down"]
  /\ UNCHANGED <<remaining, failed, pty>>
  /\ OnlyExit

\* SshRuntime.close_all.
CloseSessions ==
  /\ runtime = "ptys" /\ remaining = {}
  /\ \A p \in Ptys : ~Closing(p)
  /\ runtime' = "sessions"
  /\ IF session.pc = "up" THEN CloseSession ELSE UNCHANGED session
  /\ UNCHANGED <<remaining, failed, pty>>
  /\ OnlyExit

Stop ==
  /\ runtime = "sessions"
  /\ session.pc = "down"
  /\ runtime' = IF failed THEN "failed" ELSE "stopped"
  /\ UNCHANGED <<remaining, failed, pty, session>>
  /\ OnlyExit

-----------------------------------------------------------------------------

Gateway(c) ==
  \/ Claim(c) \/ Receive(c) \/ Process(c) \/ Reply(c) \/ Take(c) \/ End(c)
  \/ Release(c)

\* What the event loop runs once it is due.
PtyTasks(p) ==
  \/ \E s \in Streams : Read(p, s) \/ Put(p, s) \/ ReadEnds(p, s)
  \/ Drained(p) \/ PublishClosed(p) \/ MonitorRaises(p)
  \/ CloseByForce(p) \/ CloseReturns(p)

TerminalRequests ==
  \/ \E p \in Ptys : RequestOpen(p) \/ Opened(p) \/ OpenFails(p) \/ RequestClose(p)
  \/ RequestDisconnect

Closes == Announce \/ CloseTarget \/ Disconnected \/ Shutdown \/ CloseNext \/ CloseSessions \/ Stop

TerminalNext ==
  \/ \E c \in Desktops : Gateway(c)
  \/ \E p \in Ptys : PtyTasks(p) \/ ChannelEnds(p)
  \/ TerminalRequests \/ Closes \/ ConnectionBreaks \/ Exit

TerminalSpec == TerminalInit /\ [][TerminalNext]_terminalVars

\* An open request is answered, a channel that was told to close does; the
\* server that exits closes the connection.  The desktop is not relied upon.
FairTerminalSpec ==
  /\ TerminalSpec
  /\ \A p \in Ptys :
       /\ WF_terminalVars(PtyTasks(p))
       /\ WF_terminalVars(Opened(p) \/ OpenFails(p))
       /\ WF_terminalVars((pty[p].close = "forced" \/ p \in session.channels) /\ ChannelEnds(p))
  /\ \A c \in Desktops : WF_terminalVars((runtime = "exiting" /\ End(c)) \/ Release(c))
  /\ WF_terminalVars(Closes)

-----------------------------------------------------------------------------
(* Properties *)

Outputs  == [kind : {"output"}, pty : Ptys, stream : Streams, number : 1..MaxOutputs]
Events   == Outputs \cup [kind : {"closed"}, pty : Ptys]
            \cup [kind : {"status"}, state : {"CLOSING", "DISCONNECTED"}]
Replies  == [kind : {"result"}, number : 1..MaxMessages, accepted : BOOLEAN]

\* A terminal is listed from its opening until its monitor ends, and the queue
\* keeps its bound.
TerminalTypeOK ==
  /\ runtime \in {"ready", "exiting", "ptys", "sessions", "stopped", "failed"}
  /\ connected \in BOOLEAN /\ failed \in BOOLEAN
  /\ conn \in [Desktops ->
       [pc : {"new", "serving", "ending", "over"},
        replying : Replies \cup {Nothing}]]
  /\ inbound \in Seq([pty : Ptys, number : 1..MaxMessages])
  /\ outbound \in Seq(Events \cup Replies) /\ Len(outbound) <= Capacity
  /\ pty \in [Ptys ->
       [state : {"none", "opening", "failed", "OPEN", "CLOSED"}, listed : BOOLEAN,
        next : 1..MaxOutputs + 1,
        reader : [Streams -> {"none", "reading", "putting", "done", "raised"}],
        chunk : [Streams -> 0..MaxOutputs],
        monitor : {"none", "readers", "publishing", "done"},
        channel : {"none", "running", "ended", "broken"}, child : BOOLEAN,
        close : {"none", "eof", "forced", "done"}]]
  /\ \A p \in Ptys : pty[p].listed <=> pty[p].monitor \in {"readers", "publishing"}
  /\ transport \in {"up", "broken", "closed"}
  /\ session \in [pc : {"up", "children", "down"}, channels : SUBSET Ptys]
  /\ disconnect \in {"none", "announcing", "closing", "done"}
  /\ remaining \subseteq Ptys

\* Where in what has been told a message of a terminal is.
Places(told, p, kind) == {i \in DOMAIN told : told[i].kind = kind /\ told[i].pty = p}

InReader(t) == {t.chunk[s] : s \in Streams} \ {0}

\* Of what has been told, whatever is about terminal p is intact, if t is its state.
Intact(told, p, t) ==
  LET outputs == Places(told, p, "output")
      closed  == Places(told, p, "closed")
      numbers == {told[i].number : i \in outputs}
  IN  /\ \A i, j \in outputs :
           i < j => /\ told[i].number # told[j].number
                    /\ told[i].stream = told[j].stream => told[i].number < told[j].number
      /\ \A i \in closed : (\A j \in outputs \cup closed : j <= i) /\ InReader(t) = {}
      /\ numbers \cup InReader(t) = 1..(t.next - 1)
      /\ numbers \cap InReader(t) = {}

\* What has been told, to the last place of the queue: what was taken of a
\* terminal, and the queue.
Told(p) == taken[p] \o outbound

\* Whoever is connected, and whenever desktops come and go: every chunk that
\* was read is held by its reader or was told exactly once; each stream is told
\* in order; and nothing follows the closed event (PtyManager._read_stream and
\* _monitor, release, _send).
OutputIntact == \A p \in Ptys : Intact(Told(p), p, pty[p])

\* A result that is on its way says accepted exactly when the terminal took the
\* input, though the terminal may have closed since or another desktop may
\* read it; input is written once and in the order it was sent (_process,
\* _write_pty).
AckIsTrue ==
  /\ \A i, j \in DOMAIN written : i < j => written[i] < written[j]
  /\ \A m \in ToSet(outbound) \cup {conn[c].replying : c \in Desktops} :
       m.kind = "result" => (m.accepted <=> m.number \in ToSet(written))

\* Both directions of a terminal are true: no output is lost, repeated or
\* overtaken by its end, and no input is acknowledged that was not written,
\* whatever happens to the connection in between.
TerminalIsTrue == OutputIntact /\ AckIsTrue

\* However requests, a disconnect and a broken connection interleave with the
\* exit: a process that has stopped or failed leaves no connection and no
\* channel open, and one that has stopped no terminal with its tasks running
\* (RuntimeResources.shutdown, SshSessionRegistry.close).
NothingLeftOpen ==
  runtime \in {"stopped", "failed"} =>
    /\ transport = "closed"
    /\ \A p \in Ptys : pty[p].channel # "running"
    /\ runtime = "stopped" => Listed = {}

\* A process that is told to exit ends, unless the queue to the desktop that
\* has gone is full (RuntimeResources.shutdown, PtyManager.close_all).
ShutdownConverges == runtime = "exiting" ~> (runtime \in {"stopped", "failed"} \/ ~Room)

\* The output of a terminal is told in the order of its numbers, which its two
\* streams share: the docstring of _read_stream says so, and the desktop fails
\* a terminal for good when it is not (TerminalOutputBuffer.ingest).
OutputInOrder ==
  \A p \in Ptys :
    \A i, j \in Places(Told(p), p, "output") : i < j => Told(p)[i].number < Told(p)[j].number
=============================================================================
