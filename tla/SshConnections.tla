-------------------------- MODULE SshConnections --------------------------
(***************************************************************************)
(* Inspecting host keys, connecting and disconnecting (CredentialService,   *)
(* SshRuntime), directly or through one jump, while the user edits the      *)
(* profiles and confirms keys (SshProfiles) and servers change their keys.  *)
(*                                                                          *)
(* A call reads profiles, credentials and trusted keys before its first     *)
(* await, so in one step, and works with that snapshot to its end.  A call  *)
(* that is refused before it contacts anybody changes nothing.              *)
(***************************************************************************)
EXTENDS SshProfiles, FiniteSets

CONSTANTS
  Calls,        \* slots for calls to inspect or to connect
  MaxDialogs    \* bound: keys before the user's eyes at a time

ASSUME DialogsAssumption == MaxDialogs \in Nat

VARIABLES
  server,   \* the host key that each endpoint presents
  call,     \* each call and, once it is ready, the session it has registered
  dialogs   \* the keys the user was shown and has not decided about

vars == <<profileVars, server, call, dialogs>>

NoProfile == [connection |-> None, version |-> 0, endpoint |-> None, jump |-> None]

\* target and jump are the snapshots of the profiles, key and jumpKey of what
\* is trusted for them; seen and jumpSeen are what the servers presented when
\* they were authenticated.
Idle ==
  [pc |-> "idle", connects |-> FALSE, target |-> NoProfile, jump |-> NoProfile,
   key |-> None, jumpKey |-> None, seen |-> None, jumpSeen |-> None, tries |-> 1,
   targetOpen |-> FALSE, jumpOpen |-> FALSE, tunnelRefused |-> FALSE]

Init ==
  /\ ProfilesInit
  /\ server \in [Endpoints -> Keys]
  /\ call = [a \in Calls |-> Idle]
  /\ dialogs = {}

Snapshot(c) ==
  IF c = None THEN NoProfile
  ELSE [connection |-> c, version |-> profile[c].version,
        endpoint |-> profile[c].endpoint, jump |-> profile[c].jump]

Trusted(c) == IF c = None THEN None ELSE hostKey[c].active

OnlyCalls == UNCHANGED <<profileVars, server, dialogs>>

-----------------------------------------------------------------------------

\* inspect_host_key: a jump whose key nobody trusts is inspected itself, and is
\* the way to the target otherwise.
InspectsFirst(target, jumpKey) ==
  IF target.jump = None THEN "inspect target"
  ELSE IF jumpKey = None THEN "inspect jump" ELSE "jump"

\* Whom a call contacts first.  To connect makes a difference without a jump
\* only; through a jump it makes one later.
FirstContact(target, jumpKey, connects) ==
  IF target.jump = None /\ connects THEN "target" ELSE InspectsFirst(target, jumpKey)

\* _resolve_profile: the records are there, of the kinds the profile asks for.
CredentialsResolve(p) ==
  /\ Owned(p) \subseteq credentials
  /\ p.credential.kind = KindOf(p.auth)
  /\ \A k \in p.passphrase : k.kind = "private_key_passphrase"

\* _proxy_profile: the jump needs no jump.
OneHop(c) == profile[c].jump # None => profile[profile[c].jump].jump = None

\* Versions that are read in one step do not differ.
Resolves(c) ==
  /\ OneHop(c)
  /\ \A d \in {c, profile[c].jump} \ {None} : CredentialsResolve(profile[d])

Begin(a, c, connect) ==
  /\ call[a].pc = "idle"
  /\ c \in Rows /\ Resolves(c)
  /\ LET target   == Snapshot(c)
         key      == Trusted(c)
         jumpKey  == Trusted(target.jump)
         connects == connect /\ key # None
     IN  call' = [call EXCEPT ![a] =
           [Idle EXCEPT !.pc = FirstContact(target, jumpKey, connects),
                        !.connects = connects,
                        !.target = target, !.jump = Snapshot(target.jump),
                        !.key = key, !.jumpKey = jumpKey]]
  /\ OnlyCalls

\* _open_verified lets a handshake succeed only with the key of the snapshot.
JumpOpens(a) ==
  /\ call[a].pc = "jump"
  /\ server[call[a].jump.endpoint] = call[a].jumpKey
  /\ call' = [call EXCEPT ![a] =
       [@ EXCEPT !.pc = IF call[a].connects THEN "target" ELSE "inspect target",
                 !.jumpOpen = TRUE, !.jumpSeen = server[call[a].jump.endpoint]]]
  /\ OnlyCalls

\* SshSessionRegistry.register: the session owns the connection and its jump.
Registered(a) ==
  [call[a] EXCEPT !.pc = "ready", !.targetOpen = TRUE,
                  !.seen = server[call[a].target.endpoint]]

\* (mutant) Any key will do.
TargetOpensAny(a) ==
  /\ call[a].pc = "target"
  /\ call' = [call EXCEPT ![a] = Registered(a)]
  /\ OnlyCalls

TargetOpens(a) ==
  /\ call[a].pc = "target"
  /\ server[call[a].target.endpoint] = call[a].key
  /\ call' = [call EXCEPT ![a] = Registered(a)]
  /\ OnlyCalls

\* The call ends; the jump is closed.
Ended(a) == call' = [call EXCEPT ![a] = Idle]

\* The user is shown the key that was seen at the endpoint of a profile and the
\* one that is trusted for it, and may look at it or not.
Shows(p, key, trusted) ==
  \/ UNCHANGED dialogs
  \/ /\ Cardinality(dialogs) < MaxDialogs
     /\ dialogs' = dialogs \cup
          {[connection |-> p.connection, endpoint |-> p.endpoint, key |-> key,
            trusted |-> trusted]}

\* HOST_KEY_CHANGED, with the trusted key of the snapshot.
Mismatches(p, trusted) ==
  /\ server[p.endpoint] # trusted
  /\ Shows(p, server[p.endpoint], trusted)

Mismatch(a) ==
  /\ \/ call[a].pc = "jump" /\ Mismatches(call[a].jump, call[a].jumpKey)
     \/ call[a].pc = "target" /\ Mismatches(call[a].target, call[a].key)
  /\ Ended(a)
  /\ UNCHANGED <<profileVars, server>>

AuthenticationFails(a) ==
  /\ call[a].pc \in {"jump", "target"}
  /\ Ended(a)
  /\ OnlyCalls

Retries(a, tries, jumpOpen) ==
  call' = [call EXCEPT ![a] =
    [@ EXCEPT !.tries = tries, !.jumpOpen = jumpOpen, !.jumpSeen = None,
              !.pc = IF call[a].target.jump = None THEN "target" ELSE "jump"]]

\* (mutant) The jump of the first try is not closed.
NetworkFailsKeepsJump(a) ==
  /\ call[a].pc \in {"jump", "target"}
  /\ IF call[a].connects /\ call[a].tries = 1 THEN Retries(a, 2, call[a].jumpOpen) ELSE Ended(a)
  /\ OnlyCalls

\* An OSError or a disconnect: connect tries once more, from the jump on.
NetworkFails(a) ==
  /\ call[a].pc \in {"jump", "target"}
  /\ IF call[a].connects /\ call[a].tries = 1 THEN Retries(a, 2, FALSE) ELSE Ended(a)
  /\ OnlyCalls

\* The jump refuses the tunnel: AsyncSSH raises ChannelOpenError, which is
\* neither of the errors that connect catches.  The jump stays open.
TunnelRefused(a) ==
  /\ call[a].pc = "target" /\ call[a].jumpOpen
  /\ call' = [call EXCEPT ![a] = [Idle EXCEPT !.jumpOpen = TRUE, !.tunnelRefused = TRUE]]
  /\ OnlyCalls

\* _inspect_profile: the key that is seen is compared with the one trusted now.
Inspected(a) ==
  /\ call[a].pc \in {"inspect target", "inspect jump"}
  /\ LET p == IF call[a].pc = "inspect jump" THEN call[a].jump ELSE call[a].target
     IN  IF server[p.endpoint] = Trusted(p.connection) THEN UNCHANGED dialogs
         ELSE Shows(p, server[p.endpoint], Trusted(p.connection))
  /\ Ended(a)
  /\ UNCHANGED <<profileVars, server>>

InspectionFails(a) ==
  /\ call[a].pc \in {"inspect target", "inspect jump"}
  /\ Ended(a)
  /\ OnlyCalls

\* SshSessionRegistry.close
Disconnect(a) ==
  /\ call[a].pc = "ready"
  /\ call' = [call EXCEPT ![a] = Idle]
  /\ OnlyCalls

-----------------------------------------------------------------------------
(* The user and the servers *)

\* The user trusts the key, or replaces by it what the dialog says is trusted;
\* a request that is refused leaves the dialog.
ConfirmShown(d) ==
  /\ IF d.trusted = None THEN TrustFirst(d.connection, d.endpoint, d.key)
     ELSE Replace(d.connection, d.endpoint, d.key, d.trusted)
  /\ dialogs' = dialogs \ {d}
  /\ UNCHANGED <<server, call>>

Dismiss(d) ==
  /\ dialogs' = dialogs \ {d}
  /\ UNCHANGED <<profileVars, server, call>>

EditProfiles ==
  /\ \E c \in Connections : Edit(c)
  /\ UNCHANGED <<server, call, dialogs>>

ServerChanges(e) ==
  /\ \E k \in Keys : server' = [server EXCEPT ![e] = k]
  /\ UNCHANGED <<profileVars, call, dialogs>>

-----------------------------------------------------------------------------

Step(a) ==
  \/ JumpOpens(a) \/ TargetOpens(a) \/ Mismatch(a) \/ AuthenticationFails(a)
  \/ NetworkFails(a) \/ TunnelRefused(a) \/ Inspected(a) \/ InspectionFails(a)

Requests(a) ==
  \/ \E c \in Connections, connect \in BOOLEAN : Begin(a, c, connect)
  \/ Disconnect(a)

Next ==
  \/ \E a \in Calls : Requests(a) \/ Step(a)
  \/ \E d \in dialogs : ConfirmShown(d) \/ Dismiss(d)
  \/ EditProfiles
  \/ \E e \in Endpoints : ServerChanges(e)

Spec == Init /\ [][Next]_vars

-----------------------------------------------------------------------------
(* Properties *)

Snapshots == [connection : Connections, version : 1..MaxVersion, endpoint : Endpoints,
              jump : Connections \cup {None}] \cup {NoProfile}

Contacts == {"jump", "target", "inspect jump", "inspect target"}

TypeOK ==
  /\ ProfilesTypeOK
  /\ server \in [Endpoints -> Keys]
  /\ call \in [Calls ->
       [pc : {"idle", "ready"} \cup Contacts, connects : BOOLEAN,
        target : Snapshots, jump : Snapshots,
        key : Keys \cup {None}, jumpKey : Keys \cup {None},
        seen : Keys \cup {None}, jumpSeen : Keys \cup {None}, tries : 1..2,
        targetOpen : BOOLEAN, jumpOpen : BOOLEAN, tunnelRefused : BOOLEAN]]
  /\ dialogs \subseteq [connection : Connections, endpoint : Endpoints, key : Keys,
                        trusted : Keys \cup {None}]

WasConfirmed(c, k) ==
  \E m \in confirmed : m.connection = c /\ m.key = k

\* Whatever was edited, replaced or deleted while it connected: a session is
\* authenticated by the key the user confirmed for its connection and, through
\* a jump that needs no jump itself, by that of its jump; and as long as the
\* version it was frozen with is the current one, so is the profile (connect,
\* _connect_via_proxy, SshSessionRegistry.register, find_recovery_session).
SessionIsVerified ==
  \A a \in Calls :
    LET s == call[a]
    IN  s.pc = "ready" =>
          /\ WasConfirmed(s.target.connection, s.seen)
          /\ s.jump.connection = s.target.jump /\ s.jump.jump = None
          /\ s.target.jump # None => WasConfirmed(s.jump.connection, s.jumpSeen)
          /\ \A p \in {s.target, s.jump} :
               p.connection \in Rows /\ profile[p.connection].version = p.version
                 => p = Snapshot(p.connection)

\* A connection is open only while the call that opened it goes on or its
\* session is registered, and a session with a jump has it open; a refused
\* tunnel is left out, which leaves the jump open for good (connect,
\* _connect_via_proxy, inspect_host_key).
ConnectionsOwned ==
  \A a \in Calls :
    LET s == call[a]
    IN  /\ s.targetOpen => s.pc = "ready"
        /\ s.jumpOpen /\ ~s.tunnelRefused => s.pc \in {"target", "inspect target", "ready"}
        /\ s.pc = "ready" => s.targetOpen /\ (s.jumpOpen <=> s.target.jump # None)

\* What is trusted changes only from what the user was shown as trusted to the
\* key the user was shown, at the endpoint that the profile still has
\* (trust_first_host_key, replace_host_key).
TrustMovesAsShown ==
  [][\A c \in Connections :
       hostKey'[c].active \notin {hostKey[c].active, None} =>
         [connection |-> c, endpoint |-> profile[c].endpoint,
          key |-> hostKey'[c].active, trusted |-> hostKey[c].active] \in dialogs]_vars
=============================================================================
