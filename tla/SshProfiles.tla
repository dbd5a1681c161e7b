---------------------------- MODULE SshProfiles ----------------------------
(***************************************************************************)
(* What the database keeps of SSH connections: the profiles, the            *)
(* credentials each of them owns, and the host keys the user has trusted.   *)
(* Every action is one write transaction of a connection handler; one that  *)
(* raises is rolled back and changes nothing, so it is not an action.       *)
(*                                                                          *)
(* The identifier of a credential is a random UUID.  Here it is named by    *)
(* what made it: its owner, the version of the profile it came with, and    *)
(* its kind.                                                                *)
(***************************************************************************)
EXTENDS Naturals

CONSTANTS
  Connections,   \* identifiers of connection profiles
  Endpoints,     \* a host and a port
  Keys,          \* host keys
  AuthKinds,     \* the ways to authenticate that are in use
  MaxVersion,    \* 2^53 - 1, the last version of a profile
  None

ASSUME ProfilesAssumption ==
  /\ None \notin Connections \cup Keys \cup Endpoints
  /\ AuthKinds \subseteq {"password", "private_key"}
  /\ MaxVersion \in Nat \ {0}

VARIABLES
  profile,       \* connection_profiles: a function on the rows
  retired,       \* identifiers of deleted profiles, never drawn again
  credentials,   \* the credential records
  hostKey,       \* host_keys: the active key and the replaced ones
  confirmed      \* what the user has confirmed (history)

profileVars == <<profile, retired, credentials, hostKey, confirmed>>

Kinds == {"ssh_password", "imported_private_key", "private_key_passphrase"}
KindOf(auth) == IF auth = "password" THEN "ssh_password" ELSE "imported_private_key"

Credential(c, v, kind) == [owner |-> c, since |-> v, kind |-> kind]
Passphrase(c, v)       == Credential(c, v, "private_key_passphrase")

\* The credential and the passphrase, if there is one, of a profile.
Owned(p) == {p.credential} \cup p.passphrase

NoKey == [active |-> None, replaced |-> {}]

ProfilesInit ==
  /\ profile = [c \in {} |-> None]
  /\ retired = {}
  /\ credentials = {}
  /\ hostKey = [c \in Connections |-> NoKey]
  /\ confirmed = {}

Rows == DOMAIN profile

Stored(c, p) == [d \in Rows \cup {c} |-> IF d = c THEN p ELSE profile[d]]

-----------------------------------------------------------------------------

\* _validate_proxy: the jump exists, is another connection and needs no jump.
ValidJump(c, j) == j = None \/ (j # c /\ j \in Rows /\ profile[j].jump = None)

Create(c, endpoint, jump, auth, withPassphrase) ==
  /\ c \notin Rows \cup retired
  /\ withPassphrase => auth = "private_key"
  /\ ValidJump(c, jump)
  /\ LET p == [version |-> 1, endpoint |-> endpoint, jump |-> jump, auth |-> auth,
               credential |-> Credential(c, 1, KindOf(auth)),
               passphrase |-> IF withPassphrase THEN {Passphrase(c, 1)} ELSE {}]
     IN  /\ profile' = Stored(c, p)
         /\ credentials' = credentials \cup Owned(p)
  /\ UNCHANGED <<retired, hostKey, confirmed>>

\* A password has no passphrase; a private key keeps the one it had unless a
\* new one comes with it.
UpdatedPassphrase(c, v, auth, newPassphrase) ==
  IF auth = "password" THEN {}
  ELSE IF newPassphrase THEN {Passphrase(c, v)}
  ELSE IF profile[c].auth = "private_key" THEN profile[c].passphrase
  ELSE {}

\* What the profile has after the update, with the next version.
Updated(c, endpoint, jump, auth, newCredential, newPassphrase) ==
  LET v == profile[c].version + 1
  IN  [version |-> v, endpoint |-> endpoint, jump |-> jump, auth |-> auth,
       credential |-> IF newCredential THEN Credential(c, v, KindOf(auth))
                      ELSE profile[c].credential,
       passphrase |-> UpdatedPassphrase(c, v, auth, newPassphrase)]

\* (mutant) The last version is not the last.
UpdateBeyondLast(c, endpoint, jump, auth, newCredential, newPassphrase) ==
  /\ c \in Rows
  /\ auth # profile[c].auth => newCredential
  /\ newPassphrase => auth = "private_key"
  /\ ValidJump(c, jump)
  /\ LET p == Updated(c, endpoint, jump, auth, newCredential, newPassphrase)
     IN  /\ profile' = Stored(c, p)
         /\ credentials' = (credentials \ Owned(profile[c])) \cup Owned(p)
  /\ UNCHANGED <<retired, hostKey, confirmed>>

\* (mutant) The credentials that are replaced stay.
UpdateKeeps(c, endpoint, jump, auth, newCredential, newPassphrase) ==
  /\ c \in Rows /\ profile[c].version < MaxVersion
  /\ auth # profile[c].auth => newCredential
  /\ newPassphrase => auth = "private_key"
  /\ ValidJump(c, jump)
  /\ LET p == Updated(c, endpoint, jump, auth, newCredential, newPassphrase)
     IN  /\ profile' = Stored(c, p)
         /\ credentials' = credentials \cup Owned(p)
  /\ UNCHANGED <<retired, hostKey, confirmed>>

\* A way to authenticate that changes needs a new credential; what the profile
\* no longer owns is deleted, and must be there.
Update(c, endpoint, jump, auth, newCredential, newPassphrase) ==
  /\ c \in Rows /\ profile[c].version < MaxVersion
  /\ auth # profile[c].auth => newCredential
  /\ newPassphrase => auth = "private_key"
  /\ ValidJump(c, jump)
  /\ LET p       == Updated(c, endpoint, jump, auth, newCredential, newPassphrase)
         dropped == Owned(profile[c]) \ Owned(p)
     IN  /\ dropped \subseteq credentials
         /\ profile' = Stored(c, p)
         /\ credentials' = (credentials \cup Owned(p)) \ dropped
  /\ UNCHANGED <<retired, hostKey, confirmed>>

\* A profile that is the jump of another stays; its host keys go with it.
Delete(c) ==
  /\ c \in Rows
  /\ \A d \in Rows : profile[d].jump # c
  /\ Owned(profile[c]) \subseteq credentials
  /\ profile' = [d \in Rows \ {c} |-> profile[d]]
  /\ retired' = retired \cup {c}
  /\ credentials' = credentials \ Owned(profile[c])
  /\ hostKey' = [hostKey EXCEPT ![c] = NoKey]
  /\ UNCHANGED confirmed

\* The user confirms a key that was seen at the endpoint the profile has now.
Confirms(c, endpoint, key) ==
  /\ c \in Rows /\ profile[c].endpoint = endpoint
  /\ confirmed' = confirmed \cup {[connection |-> c, endpoint |-> endpoint, key |-> key]}
  /\ UNCHANGED <<profile, retired, credentials>>

\* (mutant) No look at whether a key is trusted already.
TrustFirstAnyway(c, endpoint, key) ==
  /\ Confirms(c, endpoint, key)
  /\ key \notin hostKey[c].replaced
  /\ hostKey' = [hostKey EXCEPT ![c].active = key]

\* trust_first_host_key
TrustFirst(c, endpoint, key) ==
  /\ Confirms(c, endpoint, key)
  /\ hostKey[c].active = None
  /\ key \notin hostKey[c].replaced
  /\ hostKey' = [hostKey EXCEPT ![c].active = key]

\* replace_host_key: compare and swap.  A key the connection has had before
\* cannot be inserted a second time.
Replace(c, endpoint, key, expected) ==
  /\ Confirms(c, endpoint, key)
  /\ hostKey[c].active # None /\ hostKey[c].active = expected
  /\ key \notin hostKey[c].replaced \cup {hostKey[c].active}
  /\ hostKey' = [hostKey EXCEPT ![c] =
                   [active |-> key, replaced |-> @.replaced \cup {@.active}]]

\* What the user edits.
Edit(c) ==
  \/ \E endpoint \in Endpoints, jump \in Connections \cup {None}, auth \in AuthKinds,
        withPassphrase \in BOOLEAN :
       Create(c, endpoint, jump, auth, withPassphrase)
  \/ \E endpoint \in Endpoints, jump \in Connections \cup {None}, auth \in AuthKinds,
        newCredential, newPassphrase \in BOOLEAN :
       Update(c, endpoint, jump, auth, newCredential, newPassphrase)
  \/ Delete(c)

Trust(c) ==
  \E endpoint \in Endpoints, key \in Keys :
    \/ TrustFirst(c, endpoint, key)
    \/ \E expected \in Keys : Replace(c, endpoint, key, expected)

ProfilesNext == \E c \in Connections : Edit(c) \/ Trust(c)

ProfilesSpec == ProfilesInit /\ [][ProfilesNext]_profileVars

-----------------------------------------------------------------------------
(* Properties *)

Credentials == [owner : Connections, since : 1..MaxVersion, kind : Kinds]
Profiles ==
  [version : 1..MaxVersion, endpoint : Endpoints, jump : Connections \cup {None},
   auth : AuthKinds, credential : Credentials, passphrase : SUBSET Credentials]

ProfilesTypeOK ==
  /\ Rows \subseteq Connections /\ profile \in [Rows -> Profiles]
  /\ retired \subseteq Connections
  /\ credentials \subseteq Credentials
  /\ hostKey \in [Connections -> [active : Keys \cup {None}, replaced : SUBSET Keys]]
  /\ confirmed \subseteq [connection : Connections, endpoint : Endpoints, key : Keys]

\* The credentials of a profile: its own, no newer than the profile, of the kind
\* that its way to authenticate asks for; only a private key has a passphrase.
OwnCredentials(c, p) ==
  /\ \A k \in Owned(p) : k.owner = c /\ k.since <= p.version
  /\ p.credential.kind = KindOf(p.auth)
  /\ \A k \in p.passphrase : k.kind = "private_key_passphrase"
  /\ p.auth = "password" => p.passphrase = {}

\* After any sequence of edits the credential records are exactly those that
\* the profiles own, and every profile owns its own (_create_credential,
\* _delete_replaced_credentials).
CredentialsOwned ==
  /\ credentials = UNION {Owned(profile[c]) : c \in Rows}
  /\ \A c \in Rows : OwnCredentials(c, profile[c])

\* A key that is trusted, or was, is one that the user confirmed for this
\* connection; one that was replaced is never trusted again; and nothing is
\* trusted for a connection that is gone (trust_first_host_key,
\* replace_host_key, the unique constraint of host_keys).
TrustIsConfirmed ==
  \A c \in Connections :
    /\ hostKey[c].active \notin hostKey[c].replaced
    /\ c \notin Rows => hostKey[c] = NoKey
    /\ \A k \in hostKey[c].replaced \cup ({hostKey[c].active} \ {None}) :
         \E e \in Endpoints : [connection |-> c, endpoint |-> e, key |-> k] \in confirmed

\* A jump is another connection, and exists (_validate_proxy, the foreign key).
JumpsExist == \A c \in Rows : profile[c].jump # None => profile[c].jump \in Rows \ {c}

\* No profile jumps through a profile that jumps: the docstring of
\* _validate_proxy says so.
SingleHop ==
  \A c \in Rows : profile[c].jump # None => profile[profile[c].jump].jump = None
=============================================================================
