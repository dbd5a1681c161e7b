------------------------------ MODULE SshProofs ------------------------------
(***************************************************************************)
(* Proofs about SshProfiles, SshConnections and DesktopTerminal, for any    *)
(* number of calls, connections, endpoints, keys, dialogs, terminals and    *)
(* desktops.  Of the database alone: what the profiles own, what is         *)
(* trusted, and that every jump exists.  Of the connections made from it:   *)
(* sessions are verified, connections are owned, and trust moves only as    *)
(* the user was shown.  Of the terminals of a session: what is told of them *)
(* is true, and the exit leaves nothing open.                               *)
(***************************************************************************)
EXTENDS SshConnections, DesktopTerminal, SequenceTheorems, TLAPS

USE ProfilesAssumption

\* The inductive invariant: the properties hold each other up.  What an update
\* or a deletion drops belongs to no other profile, because every profile owns
\* its own; and a key that is replaced was confirmed when it was trusted.
ProfilesInv ==
  /\ ProfilesTypeOK
  /\ CredentialsOwned
  /\ TrustIsConfirmed
  /\ JumpsExist

-----------------------------------------------------------------------------
(* The operators *)

\* Stored changes one row and no other.
LEMMA StoredRow ==
  ASSUME NEW c, NEW p, profile' = Stored(c, p)
  PROVE  /\ Rows' = Rows \cup {c}
         /\ profile'[c] = p
         /\ \A d \in Rows \ {c} : profile'[d] = profile[d]
  BY DEF Stored, Rows

\* Storing a profile keeps the type of the table.
LEMMA StoredType ==
  ASSUME NEW c \in Connections, NEW p \in Profiles, ProfilesTypeOK,
         profile' = Stored(c, p)
  PROVE  Rows' \subseteq Connections /\ profile' \in [Rows' -> Profiles]
  BY DEF Stored, Rows, ProfilesTypeOK

\* A credential and a passphrase that an edit makes.
LEMMA CredentialType ==
  ASSUME NEW c \in Connections, NEW v \in 1..MaxVersion, NEW auth \in AuthKinds
  PROVE  /\ Credential(c, v, KindOf(auth)) \in Credentials
         /\ Credential(c, v, KindOf(auth)).owner = c
         /\ Credential(c, v, KindOf(auth)).since = v
         /\ Credential(c, v, KindOf(auth)).kind = KindOf(auth)
         /\ Passphrase(c, v) \in Credentials
         /\ Passphrase(c, v).owner = c
         /\ Passphrase(c, v).since = v
         /\ Passphrase(c, v).kind = "private_key_passphrase"
  BY DEF Credential, Passphrase, Credentials, Kinds, KindOf

\* The profile that an update makes is a profile of the next version that owns
\* its own credentials.
LEMMA UpdatedProfile ==
  ASSUME ProfilesInv, NEW c \in Rows, profile[c].version < MaxVersion,
         NEW endpoint \in Endpoints, NEW jump \in Connections \cup {None},
         NEW auth \in AuthKinds, NEW newCredential \in BOOLEAN,
         NEW newPassphrase \in BOOLEAN,
         auth # profile[c].auth => newCredential,
         newPassphrase => auth = "private_key"
  PROVE  LET p == Updated(c, endpoint, jump, auth, newCredential, newPassphrase)
         IN  p \in Profiles /\ OwnCredentials(c, p) /\ p.jump = jump
<1> DEFINE v == profile[c].version + 1
           p == Updated(c, endpoint, jump, auth, newCredential, newPassphrase)
<1>1. profile[c] \in Profiles /\ c \in Connections /\ OwnCredentials(c, profile[c])
  BY DEF ProfilesInv, ProfilesTypeOK, CredentialsOwned
<1>2. v \in 1..MaxVersion /\ profile[c].version \in Nat
  BY <1>1 DEF Profiles
<1>3. p.credential \in Credentials /\ p.credential.owner = c /\ p.credential.since <= v
      /\ p.credential.kind = KindOf(auth)
  <2>1. CASE newCredential
    BY <2>1, <1>1, <1>2, CredentialType DEF Updated
  <2>2. CASE ~newCredential
    <3>1. p.credential = profile[c].credential /\ auth = profile[c].auth
      BY <2>2 DEF Updated
    <3>2. profile[c].credential \in Credentials /\ profile[c].credential.since \in Nat
      BY <1>1 DEF Profiles, Credentials
    <3>3. profile[c].credential.owner = c
          /\ profile[c].credential.since <= profile[c].version
          /\ profile[c].credential.kind = KindOf(profile[c].auth)
      BY <1>1 DEF OwnCredentials, Owned
    <3> QED BY <3>1, <3>2, <3>3, <1>2
  <2> QED BY <2>1, <2>2
<1>4. p.passphrase = UpdatedPassphrase(c, v, auth, newPassphrase)
  BY DEF Updated
<1>5. /\ p.passphrase \in SUBSET Credentials
      /\ \A k \in p.passphrase :
           k.owner = c /\ k.since <= v /\ k.kind = "private_key_passphrase"
  <2>1. CASE p.passphrase = {}
    BY <2>1
  <2>2. CASE p.passphrase = {Passphrase(c, v)}
    <3>1. /\ Passphrase(c, v) \in Credentials /\ Passphrase(c, v).owner = c
          /\ Passphrase(c, v).since = v /\ Passphrase(c, v).kind = "private_key_passphrase"
      BY <1>1, <1>2, CredentialType
    <3> QED BY <2>2, <3>1, <1>2
  <2>3. CASE p.passphrase = profile[c].passphrase
    <3>1. profile[c].passphrase \in SUBSET Credentials
          /\ \A k \in profile[c].passphrase : k.since \in Nat
      BY <1>1 DEF Profiles, Credentials
    <3>2. \A k \in profile[c].passphrase :
            k.owner = c /\ k.since <= profile[c].version /\ k.kind = "private_key_passphrase"
      BY <1>1 DEF OwnCredentials, Owned
    <3> QED BY <2>3, <3>1, <3>2, <1>2
  <2> QED BY <1>4, <2>1, <2>2, <2>3 DEF UpdatedPassphrase
<1>6. p.auth = auth /\ p.version = v /\ p.endpoint = endpoint /\ p.jump = jump
  BY DEF Updated
<1>7. auth = "password" => p.passphrase = {}
  BY <1>4 DEF UpdatedPassphrase
<1>8. p \in Profiles
  <2>1. p = [version |-> v, endpoint |-> endpoint, jump |-> jump, auth |-> auth,
             credential |-> p.credential, passphrase |-> p.passphrase]
    BY DEF Updated
  <2> HIDE DEF p
  <2> QED BY <2>1, <1>2, <1>3, <1>5 DEF Profiles
<1>9. OwnCredentials(c, p)
  <2> HIDE DEF p
  <2> QED BY <1>3, <1>5, <1>6, <1>7 DEF OwnCredentials, Owned
<1> QED BY <1>6, <1>8, <1>9

-----------------------------------------------------------------------------
(* The invariant *)

LEMMA ProfilesInitInv == ProfilesInit => ProfilesInv
  BY DEF ProfilesInit, ProfilesInv, ProfilesTypeOK, CredentialsOwned, TrustIsConfirmed,
         JumpsExist, Rows, NoKey

\* A new row, or one that is stored again with what it owns now.
LEMMA StoreKeepsOwned ==
  ASSUME ProfilesInv, NEW c \in Connections, NEW p, OwnCredentials(c, p),
         profile' = Stored(c, p),
         c \in Rows => credentials' = (credentials \cup Owned(p)) \ (Owned(profile[c]) \ Owned(p)),
         c \notin Rows => credentials' = credentials \cup Owned(p)
  PROVE  CredentialsOwned'
<1>1. Rows' = Rows \cup {c} /\ profile'[c] = p
      /\ \A d \in Rows \ {c} : profile'[d] = profile[d]
  BY StoredRow
<1>2. \A d \in Rows' : OwnCredentials(d, profile'[d])
  BY <1>1 DEF ProfilesInv, CredentialsOwned
<1>3. \A d \in Rows \ {c} : \A k \in Owned(profile[d]) : k.owner = d
  BY DEF ProfilesInv, CredentialsOwned, OwnCredentials
<1>4. \A k \in Owned(p) : k.owner = c
  BY DEF OwnCredentials
<1>5. c \in Rows => \A k \in Owned(profile[c]) : k.owner = c
  BY DEF ProfilesInv, CredentialsOwned, OwnCredentials
<1>6. credentials = UNION {Owned(profile[d]) : d \in Rows}
  BY DEF ProfilesInv, CredentialsOwned
<1>7. UNION {Owned(profile'[d]) : d \in Rows'}
        = Owned(p) \cup UNION {Owned(profile[d]) : d \in Rows \ {c}}
  BY <1>1
<1>8. credentials' = Owned(p) \cup UNION {Owned(profile[d]) : d \in Rows \ {c}}
  <2>1. CASE c \in Rows
    BY <2>1, <1>3, <1>5, <1>6
  <2>2. CASE c \notin Rows
    BY <2>2, <1>6
  <2> QED BY <2>1, <2>2
<1>9. \A d \in Rows' : OwnCredentials(d, profile[d])'
  BY <1>2 DEF OwnCredentials, Owned
<1>10. (UNION {Owned(profile[d]) : d \in Rows})' = UNION {Owned(profile'[d]) : d \in Rows'}
  BY DEF Owned
<1> QED BY <1>7, <1>8, <1>9, <1>10 DEF CredentialsOwned

\* Trust is untouched by what only stores a row.
LEMMA StoreKeepsTrust ==
  ASSUME ProfilesInv, NEW c, NEW p, profile' = Stored(c, p), UNCHANGED <<hostKey, confirmed>>
  PROVE  TrustIsConfirmed'
<1>1. Rows' = Rows \cup {c}
  BY StoredRow
<1> QED BY <1>1 DEF ProfilesInv, TrustIsConfirmed, NoKey

\* A jump that is valid exists after the row is stored.
LEMMA StoreKeepsJumps ==
  ASSUME ProfilesInv, NEW c \in Connections, NEW p, ValidJump(c, p.jump),
         profile' = Stored(c, p)
  PROVE  JumpsExist'
<1>1. Rows' = Rows \cup {c} /\ profile'[c] = p
      /\ \A d \in Rows \ {c} : profile'[d] = profile[d]
  BY StoredRow
<1> QED BY <1>1 DEF ProfilesInv, JumpsExist, ValidJump

\* A profile is created with its credentials.
LEMMA CreateInv ==
  ASSUME ProfilesInv, NEW c \in Connections, NEW endpoint \in Endpoints,
         NEW jump \in Connections \cup {None}, NEW auth \in AuthKinds,
         NEW withPassphrase \in BOOLEAN, Create(c, endpoint, jump, auth, withPassphrase)
  PROVE  ProfilesInv'
<1> DEFINE p == [version |-> 1, endpoint |-> endpoint, jump |-> jump, auth |-> auth,
                 credential |-> Credential(c, 1, KindOf(auth)),
                 passphrase |-> IF withPassphrase THEN {Passphrase(c, 1)} ELSE {}]
<1>1. /\ c \notin Rows /\ ValidJump(c, jump) /\ (withPassphrase => auth = "private_key")
      /\ profile' = Stored(c, p) /\ credentials' = credentials \cup Owned(p)
      /\ UNCHANGED <<retired, hostKey, confirmed>>
  BY DEF Create
<1>2. p \in Profiles
  <2>1. Credential(c, 1, KindOf(auth)) \in Credentials /\ Passphrase(c, 1) \in Credentials
    BY CredentialType
  <2> QED BY <2>1 DEF Profiles
<1>3. OwnCredentials(c, p)
  BY <1>1, CredentialType DEF OwnCredentials, Owned
<1>4. p.jump = jump
  OBVIOUS
<1> HIDE DEF p
<1>5. ProfilesTypeOK'
  <2>1. Rows' \subseteq Connections /\ profile' \in [Rows' -> Profiles]
    BY <1>1, <1>2, StoredType DEF ProfilesInv
  <2>2. Owned(p) \subseteq Credentials
    BY <1>2 DEF Profiles, Owned
  <2> QED BY <1>1, <2>1, <2>2 DEF ProfilesInv, ProfilesTypeOK, Profiles, Credentials, Rows
<1>6. CredentialsOwned'
  BY <1>1, <1>3, StoreKeepsOwned
<1>7. TrustIsConfirmed'
  BY <1>1, StoreKeepsTrust
<1>8. JumpsExist'
  BY <1>1, <1>4, StoreKeepsJumps
<1> QED BY <1>5, <1>6, <1>7, <1>8 DEF ProfilesInv

\* An update stores the next version and drops what it no longer owns.
LEMMA UpdateInv ==
  ASSUME ProfilesInv, NEW c \in Connections, NEW endpoint \in Endpoints,
         NEW jump \in Connections \cup {None}, NEW auth \in AuthKinds,
         NEW newCredential \in BOOLEAN, NEW newPassphrase \in BOOLEAN,
         Update(c, endpoint, jump, auth, newCredential, newPassphrase)
  PROVE  ProfilesInv'
<1> DEFINE p == Updated(c, endpoint, jump, auth, newCredential, newPassphrase)
<1>1. /\ c \in Rows /\ ValidJump(c, jump)
      /\ profile' = Stored(c, p)
      /\ credentials' = (credentials \cup Owned(p)) \ (Owned(profile[c]) \ Owned(p))
      /\ UNCHANGED <<retired, hostKey, confirmed>>
  BY DEF Update
<1>2. p \in Profiles /\ OwnCredentials(c, p) /\ p.jump = jump
  BY <1>1, UpdatedProfile DEF Update
<1> HIDE DEF p
<1>3. ProfilesTypeOK'
  <2>1. Rows' \subseteq Connections /\ profile' \in [Rows' -> Profiles]
    BY <1>1, <1>2, StoredType DEF ProfilesInv
  <2>2. Owned(p) \subseteq Credentials
    BY <1>2 DEF Profiles, Owned
  <2> QED BY <1>1, <2>1, <2>2 DEF ProfilesInv, ProfilesTypeOK, Profiles, Credentials, Rows
<1>4. CredentialsOwned'
  BY <1>1, <1>2, StoreKeepsOwned
<1>5. TrustIsConfirmed'
  BY <1>1, StoreKeepsTrust
<1>6. JumpsExist'
  BY <1>1, <1>2, StoreKeepsJumps
<1> QED BY <1>3, <1>4, <1>5, <1>6 DEF ProfilesInv

\* A profile that is deleted takes its credentials and host keys with it.
LEMMA DeleteInv ==
  ASSUME ProfilesInv, NEW c \in Connections, Delete(c)
  PROVE  ProfilesInv'
<1>1. /\ c \in Rows /\ (\A d \in Rows : profile[d].jump # c)
      /\ profile' = [d \in Rows \ {c} |-> profile[d]]
      /\ retired' = retired \cup {c}
      /\ credentials' = credentials \ Owned(profile[c])
      /\ hostKey' = [hostKey EXCEPT ![c] = NoKey]
      /\ confirmed' = confirmed
  BY DEF Delete
<1>2. Rows' = Rows \ {c} /\ \A d \in Rows \ {c} : profile'[d] = profile[d]
  BY <1>1 DEF Rows
<1>3. ProfilesTypeOK'
  <2>1. profile' \in [Rows' -> Profiles] /\ Rows' \subseteq Connections
    BY <1>1, <1>2 DEF ProfilesInv, ProfilesTypeOK
  <2>2. hostKey' \in [Connections -> [active : Keys \cup {None}, replaced : SUBSET Keys]]
    BY <1>1 DEF ProfilesInv, ProfilesTypeOK, NoKey
  <2> QED BY <1>1, <2>1, <2>2 DEF ProfilesInv, ProfilesTypeOK, Profiles, Credentials, Rows
<1>4. CredentialsOwned'
  <2>1. \A d \in Rows \ {c} : \A k \in Owned(profile[d]) : k.owner = d
    BY DEF ProfilesInv, CredentialsOwned, OwnCredentials
  <2>2. \A k \in Owned(profile[c]) : k.owner = c
    BY <1>1 DEF ProfilesInv, CredentialsOwned, OwnCredentials
  <2>3. credentials = UNION {Owned(profile[d]) : d \in Rows}
    BY DEF ProfilesInv, CredentialsOwned
  <2>4. credentials' = UNION {Owned(profile[d]) : d \in Rows \ {c}}
    BY <1>1, <2>1, <2>2, <2>3
  <2>5. UNION {Owned(profile'[d]) : d \in Rows'} = UNION {Owned(profile[d]) : d \in Rows \ {c}}
    BY <1>2
  <2>6. (UNION {Owned(profile[d]) : d \in Rows})' = UNION {Owned(profile'[d]) : d \in Rows'}
    BY DEF Owned
  <2>7. \A d \in Rows' : OwnCredentials(d, profile'[d])
    BY <1>2 DEF ProfilesInv, CredentialsOwned
  <2>8. \A d \in Rows' : OwnCredentials(d, profile[d])'
    BY <2>7 DEF OwnCredentials, Owned
  <2> QED BY <2>4, <2>5, <2>6, <2>8 DEF CredentialsOwned
<1>5. TrustIsConfirmed'
  <2>1. \A d \in Connections : hostKey'[d] = IF d = c THEN NoKey ELSE hostKey[d]
    BY <1>1 DEF ProfilesInv, ProfilesTypeOK
  <2> SUFFICES ASSUME NEW d \in Connections
               PROVE  /\ hostKey'[d].active \notin hostKey'[d].replaced
                      /\ d \notin Rows' => hostKey'[d] = NoKey
                      /\ \A k \in hostKey'[d].replaced \cup ({hostKey'[d].active} \ {None}) :
                           \E e \in Endpoints :
                             [connection |-> d, endpoint |-> e, key |-> k] \in confirmed'
    BY DEF TrustIsConfirmed, NoKey
  <2>2. CASE d = c
    BY <2>1, <2>2 DEF NoKey
  <2>3. CASE d # c
    <3>1. hostKey'[d] = hostKey[d] /\ confirmed' = confirmed /\ (d \in Rows' <=> d \in Rows)
      BY <1>1, <1>2, <2>1, <2>3
    <3> QED BY <3>1 DEF ProfilesInv, TrustIsConfirmed
  <2> QED BY <2>2, <2>3
<1>6. JumpsExist'
  BY <1>1, <1>2 DEF ProfilesInv, JumpsExist
<1> QED BY <1>3, <1>4, <1>5, <1>6 DEF ProfilesInv

\* A key that the user confirms becomes the active one; the one it replaces,
\* if there is one, is kept as replaced.
LEMMA TrustInv ==
  ASSUME ProfilesInv, NEW c \in Connections, NEW endpoint \in Endpoints, NEW key \in Keys,
         Confirms(c, endpoint, key),
         \/ /\ key \notin hostKey[c].replaced
            /\ hostKey' = [hostKey EXCEPT ![c].active = key]
         \/ /\ key \notin hostKey[c].replaced \cup {hostKey[c].active}
            /\ hostKey[c].active \in Keys
            /\ hostKey' = [hostKey EXCEPT ![c] =
                 [active |-> key, replaced |-> @.replaced \cup {@.active}]]
  PROVE  ProfilesInv'
<1>1. /\ c \in Rows
      /\ confirmed' = confirmed \cup {[connection |-> c, endpoint |-> endpoint, key |-> key]}
      /\ UNCHANGED <<profile, retired, credentials>>
  BY DEF Confirms
<1>2. hostKey \in [Connections -> [active : Keys \cup {None}, replaced : SUBSET Keys]]
  BY DEF ProfilesInv, ProfilesTypeOK
<1>3. /\ hostKey'[c].active = key /\ key \notin hostKey'[c].replaced
      /\ hostKey'[c].replaced \subseteq hostKey[c].replaced \cup ({hostKey[c].active} \ {None})
      /\ hostKey'[c] \in [active : Keys \cup {None}, replaced : SUBSET Keys]
      /\ \A d \in Connections \ {c} : hostKey'[d] = hostKey[d]
  <2>1. CASE hostKey' = [hostKey EXCEPT ![c].active = key] /\ key \notin hostKey[c].replaced
    BY <2>1, <1>2
  <2>2. CASE /\ key \notin hostKey[c].replaced \cup {hostKey[c].active}
             /\ hostKey[c].active \in Keys
             /\ hostKey' = [hostKey EXCEPT ![c] =
                  [active |-> key, replaced |-> @.replaced \cup {@.active}]]
    BY <2>2, <1>2
  <2> QED BY <2>1, <2>2
<1>4. ProfilesTypeOK'
  <2>1. hostKey' \in [Connections -> [active : Keys \cup {None}, replaced : SUBSET Keys]]
    <3>1. \E f : hostKey' = [hostKey EXCEPT ![c] = f]
      OBVIOUS
    <3> QED BY <3>1, <1>2, <1>3
  <2> QED BY <1>1, <2>1 DEF ProfilesInv, ProfilesTypeOK, Rows, Profiles, Credentials
<1>5. CredentialsOwned'
  BY <1>1 DEF ProfilesInv, CredentialsOwned, OwnCredentials, Owned, Rows
<1>6. TrustIsConfirmed'
  <2> SUFFICES ASSUME NEW d \in Connections
               PROVE  /\ hostKey'[d].active \notin hostKey'[d].replaced
                      /\ d \notin Rows' => hostKey'[d] = NoKey
                      /\ \A k \in hostKey'[d].replaced \cup ({hostKey'[d].active} \ {None}) :
                           \E e \in Endpoints :
                             [connection |-> d, endpoint |-> e, key |-> k] \in confirmed'
    BY DEF TrustIsConfirmed, NoKey
  <2>1. \A k \in hostKey[d].replaced \cup ({hostKey[d].active} \ {None}) :
          \E e \in Endpoints : [connection |-> d, endpoint |-> e, key |-> k] \in confirmed
    BY DEF ProfilesInv, TrustIsConfirmed
  <2>2. hostKey[d].active \notin hostKey[d].replaced /\ (d \notin Rows => hostKey[d] = NoKey)
    BY DEF ProfilesInv, TrustIsConfirmed
  <2>3. Rows' = Rows
    BY <1>1 DEF Rows
  <2>4. CASE d = c
    BY <2>4, <2>1, <1>1, <1>3, <2>3
  <2>5. CASE d # c
    BY <2>5, <2>1, <2>2, <1>1, <1>3, <2>3
  <2> QED BY <2>4, <2>5
<1>7. JumpsExist'
  BY <1>1 DEF ProfilesInv, JumpsExist, Rows
<1> QED BY <1>4, <1>5, <1>6, <1>7 DEF ProfilesInv

LEMMA TrustFirstInv ==
  ASSUME ProfilesInv, NEW c \in Connections, NEW endpoint \in Endpoints, NEW key \in Keys,
         TrustFirst(c, endpoint, key)
  PROVE  ProfilesInv'
  BY TrustInv DEF TrustFirst

LEMMA ReplaceInv ==
  ASSUME ProfilesInv, NEW c \in Connections, NEW endpoint \in Endpoints, NEW key \in Keys,
         NEW expected, Replace(c, endpoint, key, expected)
  PROVE  ProfilesInv'
<1>1. hostKey[c].active \in Keys
  BY DEF Replace, ProfilesInv, ProfilesTypeOK
<1> QED BY <1>1, TrustInv DEF Replace

\* Every edit keeps the invariant.
LEMMA EditInv ==
  ASSUME ProfilesInv, NEW c \in Connections, Edit(c)
  PROVE  ProfilesInv'
  BY CreateInv, UpdateInv, DeleteInv DEF Edit

LEMMA StutterInv ==
  ASSUME ProfilesInv, UNCHANGED profileVars
  PROVE  ProfilesInv'
<1> USE DEF ProfilesInv, profileVars, Rows
<1>1. ProfilesTypeOK'
  BY DEF ProfilesTypeOK, Profiles, Credentials
<1>2. CredentialsOwned'
  BY DEF CredentialsOwned, OwnCredentials, Owned
<1>3. TrustIsConfirmed'
  BY DEF TrustIsConfirmed, NoKey
<1>4. JumpsExist'
  BY DEF JumpsExist
<1> QED BY <1>1, <1>2, <1>3, <1>4

\* The invariant of the database, for every value of the constants.
THEOREM ProfilesInvariance == ProfilesSpec => []ProfilesInv
<1>1. ProfilesInit => ProfilesInv
  BY ProfilesInitInv
<1>2. ProfilesInv /\ [ProfilesNext]_profileVars => ProfilesInv'
  <2> SUFFICES ASSUME ProfilesInv, [ProfilesNext]_profileVars PROVE ProfilesInv'
    OBVIOUS
  <2>1. CASE ProfilesNext
    <3>1. PICK c \in Connections : Edit(c) \/ Trust(c)
      BY <2>1 DEF ProfilesNext
    <3>2. CASE Edit(c)
      BY <3>2, EditInv
    <3>3. CASE Trust(c)
      BY <3>3, TrustFirstInv, ReplaceInv DEF Trust
    <3> QED BY <3>1, <3>2, <3>3
  <2>2. CASE UNCHANGED profileVars
    BY <2>2, StutterInv
  <2> QED BY <2>1, <2>2
<1> QED BY <1>1, <1>2, PTL DEF ProfilesSpec

\* No sequence of edits leaves a credential that nobody owns, or a profile
\* without one of its own (_create_credential, _delete_replaced_credentials).
THEOREM CredentialsAreOwned == ProfilesSpec => []CredentialsOwned
<1>1. ProfilesInv => CredentialsOwned
  BY DEF ProfilesInv
<1> QED BY <1>1, ProfilesInvariance, PTL

\* No sequence of edits trusts a key that the user has not confirmed, or trusts
\* a replaced one again (trust_first_host_key, replace_host_key).
THEOREM TrustIsAlwaysConfirmed == ProfilesSpec => []TrustIsConfirmed
<1>1. ProfilesInv => TrustIsConfirmed
  BY DEF ProfilesInv
<1> QED BY <1>1, ProfilesInvariance, PTL

\* No sequence of edits leaves a profile with a jump that is gone, or is the
\* profile itself (_validate_proxy, the foreign key).
THEOREM JumpsAlwaysExist == ProfilesSpec => []JumpsExist
<1>1. ProfilesInv => JumpsExist
  BY DEF ProfilesInv
<1> QED BY <1>1, ProfilesInvariance, PTL

-----------------------------------------------------------------------------
(* Connections.  SshConnections extends the database with the calls that    *)
(* use it, so what is proved of profiles is the basis of what follows.      *)

CallType ==
  [pc : {"idle", "ready"} \cup Contacts, connects : BOOLEAN,
   target : Snapshots, jump : Snapshots,
   key : Keys \cup {None}, jumpKey : Keys \cup {None},
   seen : Keys \cup {None}, jumpSeen : Keys \cup {None}, tries : 1..2,
   targetOpen : BOOLEAN, jumpOpen : BOOLEAN, tunnelRefused : BOOLEAN]

\* What the snapshot of a profile stays worth, whatever is edited: its
\* connection is never given to another profile, and versions only grow, so
\* the same version means the same profile.
Frozen(p) ==
  /\ p.connection # None => p.connection \in Rows \cup retired
  /\ p.connection \in Rows =>
       /\ p.version <= profile[p.connection].version
       /\ profile[p.connection].version = p.version => p = Snapshot(p.connection)

\* What a call has read was confirmed and, where it still is current, true.
Grounded(s) ==
  /\ Frozen(s.target) /\ Frozen(s.jump)
  /\ s.key # None => WasConfirmed(s.target.connection, s.key)
  /\ s.jumpKey # None => WasConfirmed(s.jump.connection, s.jumpKey)

\* How far a call has come, and which connections it has opened.
Progressed(s) ==
  /\ s.jump.connection = s.target.jump /\ s.jump.jump = None
  /\ s.connects => s.key # None
  /\ s.tunnelRefused => s.pc = "idle"
  /\ s.targetOpen <=> s.pc = "ready"
  /\ s.jumpOpen /\ ~s.tunnelRefused => s.pc \in {"target", "inspect target", "ready"}
  /\ s.pc # "idle" => s.target.connection # None
  /\ s.pc \in {"jump", "inspect jump"} => s.target.jump # None
  /\ s.pc = "jump" => s.jumpKey # None
  /\ s.pc \in {"target", "inspect target", "ready"} =>
       /\ s.jumpOpen <=> s.target.jump # None
       /\ s.target.jump # None => s.jumpSeen = s.jumpKey /\ s.jumpKey # None
  /\ s.pc \in {"target", "ready"} => s.connects
  /\ s.pc = "ready" => s.seen = s.key

\* The inductive invariant.
ConnectionsInv ==
  /\ ProfilesInv
  /\ TypeOK
  /\ \A a \in Calls : Grounded(call[a]) /\ Progressed(call[a])

-----------------------------------------------------------------------------
(* Snapshots *)

\* A row that stays as it is has the same snapshot.
LEMMA SameSnapshot ==
  ASSUME NEW c, profile'[c] = profile[c]
  PROVE  Snapshot(c)' = Snapshot(c)
  BY DEF Snapshot

\* Edits and confirmations leave snapshots frozen.
LEMMA FrozenStays ==
  ASSUME ProfilesInv, NEW c \in Connections, Edit(c) \/ Trust(c),
         NEW p \in Snapshots, Frozen(p)
  PROVE  Frozen(p)'
<1>0. Rows \subseteq Connections /\ profile \in [Rows -> Profiles]
      /\ \A d \in Rows : profile[d].version \in Nat
  BY DEF ProfilesInv, ProfilesTypeOK, Profiles
<1>1. ASSUME NEW endpoint, NEW jump, NEW auth, NEW withPassphrase,
             Create(c, endpoint, jump, auth, withPassphrase)
      PROVE  Frozen(p)'
  <2>1. c \notin Rows \cup retired /\ retired' = retired
        /\ \E q : profile' = Stored(c, q)
    BY <1>1 DEF Create
  <2>2. Rows' = Rows \cup {c} /\ \A d \in Rows \ {c} : profile'[d] = profile[d]
    BY <2>1, StoredRow
  <2>3. p.connection # c
    BY <2>1 DEF Frozen
  <2>4. p.connection \in Rows' => p.connection \in Rows
                                /\ profile'[p.connection] = profile[p.connection]
    BY <2>2, <2>3
  <2> QED BY <2>1, <2>2, <2>4, SameSnapshot DEF Frozen
<1>2. ASSUME NEW endpoint, NEW jump, NEW auth, NEW newCredential, NEW newPassphrase,
             Update(c, endpoint, jump, auth, newCredential, newPassphrase)
      PROVE  Frozen(p)'
  <2> DEFINE q == Updated(c, endpoint, jump, auth, newCredential, newPassphrase)
  <2>1. c \in Rows /\ retired' = retired /\ profile' = Stored(c, q)
    BY <1>2 DEF Update
  <2>2. q.version = profile[c].version + 1
    BY DEF Updated
  <2> HIDE DEF q
  <2>3. Rows' = Rows /\ profile'[c] = q /\ \A d \in Rows \ {c} : profile'[d] = profile[d]
    BY <2>1, StoredRow
  <2>4. CASE p.connection = c
    <3>1. p.version \in Nat
      BY DEF Snapshots, NoProfile
    <3>2. p.version <= profile[c].version /\ profile[c].version \in Nat
      BY <2>1, <2>4, <1>0 DEF Frozen
    <3> QED BY <2>1, <2>2, <2>3, <2>4, <3>1, <3>2 DEF Frozen
  <2>5. CASE p.connection # c
    BY <2>1, <2>3, <2>5, SameSnapshot DEF Frozen
  <2> QED BY <2>4, <2>5
<1>3. CASE Delete(c)
  <2>1. Rows' = Rows \ {c} /\ retired' = retired \cup {c}
        /\ \A d \in Rows \ {c} : profile'[d] = profile[d]
    BY <1>3 DEF Delete, Rows
  <2> QED BY <2>1 DEF Frozen, Snapshot
<1>4. CASE Trust(c)
  <2>1. UNCHANGED <<profile, retired>>
    BY <1>4 DEF Trust, TrustFirst, Replace, Confirms
  <2> QED BY <2>1 DEF Frozen, Snapshot, Rows
<1> QED BY <1>1, <1>2, <1>3, <1>4 DEF Edit

\* An edit confirms nothing, and only a deletion touches the keys.
LEMMA EditKeepsKeys ==
  ASSUME NEW c \in Connections, Edit(c)
  PROVE  confirmed' = confirmed /\ (hostKey' = hostKey \/ Delete(c))
<1>1. ASSUME NEW e, NEW j, NEW a, NEW w, Create(c, e, j, a, w)
      PROVE  confirmed' = confirmed /\ hostKey' = hostKey
  BY <1>1 DEF Create
<1>2. ASSUME NEW e, NEW j, NEW a, NEW k, NEW w, Update(c, e, j, a, k, w)
      PROVE  confirmed' = confirmed /\ hostKey' = hostKey
  BY <1>2 DEF Update
<1>3. CASE Delete(c)
  BY <1>3 DEF Delete
<1> QED BY <1>1, <1>2, <1>3 DEF Edit

\* Nothing that was confirmed is forgotten.
LEMMA ConfirmedStays ==
  ASSUME NEW c \in Connections, Edit(c) \/ Trust(c)
  PROVE  confirmed \subseteq confirmed'
<1>1. CASE Edit(c)
  BY <1>1, EditKeepsKeys
<1>2. CASE Trust(c)
  <2>1. ASSUME NEW e, NEW k, Confirms(c, e, k) PROVE confirmed \subseteq confirmed'
    BY <2>1 DEF Confirms
  <2> QED BY <1>2, <2>1 DEF Trust, TrustFirst, Replace
<1> QED BY <1>1, <1>2

\* What is trusted was confirmed.
LEMMA TrustedIsConfirmed ==
  ASSUME ProfilesInv, NEW c \in Connections, hostKey[c].active # None
  PROVE  WasConfirmed(c, hostKey[c].active)
<1>1. hostKey[c].active \in hostKey[c].replaced \cup ({hostKey[c].active} \ {None})
  OBVIOUS
<1>2. PICK e \in Endpoints :
        [connection |-> c, endpoint |-> e, key |-> hostKey[c].active] \in confirmed
  BY <1>1 DEF ProfilesInv, TrustIsConfirmed
<1> QED BY <1>2 DEF WasConfirmed

\* The snapshot that is taken of a profile.
LEMMA SnapshotFrozen ==
  ASSUME ProfilesInv, NEW c \in Rows \cup {None}
  PROVE  /\ Snapshot(c) \in Snapshots /\ Frozen(Snapshot(c)) /\ Snapshot(c).connection = c
         /\ c # None => Snapshot(c).jump = profile[c].jump
         /\ c = None => Snapshot(c).jump = None
<1>1. Rows \subseteq Connections /\ \A d \in Rows : profile[d] \in Profiles
  BY DEF ProfilesInv, ProfilesTypeOK
<1>2. CASE c = None
  <2>1. Snapshot(c) = NoProfile /\ NoProfile.connection = None /\ NoProfile.jump = None
    BY <1>2 DEF Snapshot, NoProfile
  <2>2. None \notin Rows
    BY <1>1
  <2> QED BY <1>2, <2>1, <2>2 DEF Snapshots, Frozen
<1>3. CASE c \in Rows
  <2> DEFINE s == Snapshot(c)
  <2>1. profile[c] \in Profiles /\ c # None /\ c \in Connections
    BY <1>1, <1>3
  <2>2. profile[c].version \in 1..MaxVersion /\ profile[c].endpoint \in Endpoints
        /\ profile[c].jump \in Connections \cup {None}
    BY <2>1 DEF Profiles
  <2>3. s = [connection |-> c, version |-> profile[c].version,
             endpoint |-> profile[c].endpoint, jump |-> profile[c].jump]
    BY <2>1 DEF Snapshot
  <2>4. s \in Snapshots
    BY <2>1, <2>2, <2>3 DEF Snapshots
  <2>5. s.connection = c /\ s.version = profile[c].version /\ s.jump = profile[c].jump
    BY <2>3
  <2>6. Frozen(s)
    <3> HIDE DEF s
    <3>1. s = Snapshot(c)
      BY DEF s
    <3> QED BY <1>3, <2>2, <2>5, <3>1 DEF Frozen
  <2> QED BY <2>1, <2>4, <2>5, <2>6
<1> QED BY <1>2, <1>3

-----------------------------------------------------------------------------
(* Steps of calls *)

LEMMA IdleHolds ==
  ASSUME ProfilesInv
  PROVE  Idle \in CallType /\ Grounded(Idle) /\ Progressed(Idle)
<1>1. None \notin Rows
  BY DEF ProfilesInv, ProfilesTypeOK
<1>2. NoProfile \in Snapshots /\ NoProfile.connection = None /\ NoProfile.jump = None
  BY DEF Snapshots, NoProfile
<1>3. Idle \in CallType
  <2> HIDE DEF NoProfile
  <2> QED BY <1>2 DEF Idle, CallType
<1>4. Grounded(Idle)
  BY <1>1, <1>2 DEF Idle, Grounded, Frozen
<1>5. Progressed(Idle)
  BY <1>2 DEF Idle, Progressed
<1> QED BY <1>3, <1>4, <1>5

\* A step that puts one call into a state that holds keeps the invariant.
LEMMA CallStep ==
  ASSUME ConnectionsInv, NEW a \in Calls, NEW r \in CallType, Grounded(r), Progressed(r),
         call' = [call EXCEPT ![a] = r], UNCHANGED <<profileVars, server>>,
         dialogs' \subseteq [connection : Connections, endpoint : Endpoints, key : Keys,
                             trusted : Keys \cup {None}]
  PROVE  ConnectionsInv'
<1>1. ProfilesInv'
  BY StutterInv DEF ConnectionsInv
<1>2. UNCHANGED <<profile, retired, confirmed, server>>
  BY DEF profileVars
<1>3. \A b \in Calls : call'[b] = IF b = a THEN r ELSE call[b]
  BY DEF ConnectionsInv, TypeOK
<1>4. TypeOK'
  <2>1. call' \in [Calls -> CallType]
    BY DEF ConnectionsInv, TypeOK, CallType
  <2>2. ProfilesTypeOK' /\ server' \in [Endpoints -> Keys]
    BY <1>1, <1>2 DEF ConnectionsInv, TypeOK, ProfilesInv
  <2> QED BY <2>1, <2>2 DEF TypeOK, CallType
<1>5. \A b \in Calls : Grounded(call'[b]) /\ Progressed(call'[b])
  BY <1>3 DEF ConnectionsInv
<1>6. ASSUME NEW b \in Calls PROVE Grounded(call[b])'
  BY <1>2, <1>5, ZenonT(60) DEF Grounded, Frozen, Snapshot, WasConfirmed, Rows, NoProfile
<1>7. ASSUME NEW b \in Calls PROVE Progressed(call[b])'
  BY <1>5 DEF Progressed
<1> QED BY <1>1, <1>4, <1>6, <1>7 DEF ConnectionsInv

\* A call that begins has read the profiles and what is trusted for them.
LEMMA BeginInv ==
  ASSUME ConnectionsInv, NEW a \in Calls, NEW c \in Connections, NEW connect \in BOOLEAN,
         Begin(a, c, connect)
  PROVE  ConnectionsInv'
<1> DEFINE target   == Snapshot(c)
           key      == Trusted(c)
           jump     == Snapshot(target.jump)
           jumpKey  == Trusted(target.jump)
           connects == connect /\ key # None
           pc       == FirstContact(target, jumpKey, connects)
           r == [Idle EXCEPT !.pc = pc, !.connects = connects, !.target = target,
                             !.jump = jump, !.key = key, !.jumpKey = jumpKey]
<1>1. c \in Rows /\ Resolves(c) /\ OnlyCalls /\ call' = [call EXCEPT ![a] = r]
  BY DEF Begin
<1>2. ProfilesInv /\ c # None
  BY DEF ConnectionsInv
<1>3. /\ target \in Snapshots /\ Frozen(target) /\ target.connection = c
      /\ target.jump = profile[c].jump
  BY <1>1, <1>2, SnapshotFrozen
<1>4. target.jump \in Rows \cup {None}
  BY <1>1, <1>2, <1>3 DEF ProfilesInv, JumpsExist
<1>5. jump \in Snapshots /\ Frozen(jump) /\ jump.connection = target.jump /\ jump.jump = None
  BY <1>1, <1>2, <1>3, <1>4, SnapshotFrozen DEF Resolves, OneHop
<1>6. \A d \in Rows \cup {None} :
        /\ Trusted(d) \in Keys \cup {None}
        /\ Trusted(d) # None => WasConfirmed(d, Trusted(d))
  <2> SUFFICES ASSUME NEW d \in Rows, d # None
               PROVE  /\ hostKey[d].active \in Keys \cup {None}
                      /\ hostKey[d].active # None => WasConfirmed(d, hostKey[d].active)
    BY DEF Trusted
  <2>1. d \in Connections
    BY <1>2 DEF ProfilesInv, ProfilesTypeOK
  <2> QED BY <1>2, <2>1, TrustedIsConfirmed DEF ProfilesInv, ProfilesTypeOK
<1>7. /\ pc \in Contacts /\ pc # "ready"
      /\ pc = "jump" => jumpKey # None
      /\ pc \in {"jump", "inspect jump"} => target.jump # None
      /\ pc \in {"target", "inspect target"} => target.jump = None
      /\ pc = "target" => connects
  BY DEF FirstContact, InspectsFirst, Contacts
<1>8. key \in Keys \cup {None} /\ jumpKey \in Keys \cup {None}
      /\ (key # None => WasConfirmed(c, key))
      /\ (jumpKey # None => WasConfirmed(target.jump, jumpKey))
  BY <1>1, <1>4, <1>6
<1>9. connects \in BOOLEAN /\ (connects => key # None)
  OBVIOUS
<1> HIDE DEF target, key, jump, jumpKey, connects, pc
<1>10. r \in CallType
  <2>1. pc \in {"idle", "ready"} \cup Contacts /\ connects \in BOOLEAN
    BY <1>7, <1>9, Zenon
  <2>2. Idle \in CallType
    BY <1>2, IdleHolds
  <2> QED BY <1>3, <1>5, <1>8, <2>1, <2>2, ZenonT(60) DEF CallType
<1>11. Grounded(r)
  BY <1>3, <1>5, <1>8 DEF Grounded, Idle
<1>12. Progressed(r)
  BY <1>2, <1>3, <1>5, <1>7, <1>9, ZenonT(60) DEF Progressed, Contacts, Idle
<1> HIDE DEF r
<1> QED BY <1>1, <1>10, <1>11, <1>12, CallStep DEF OnlyCalls, ConnectionsInv, TypeOK

\* The dialogs, after a key was shown.
LEMMA ShowsType ==
  ASSUME TypeOK, NEW p \in Snapshots, p.connection # None, NEW key \in Keys,
         NEW trusted \in Keys \cup {None}, Shows(p, key, trusted)
  PROVE  dialogs' \subseteq [connection : Connections, endpoint : Endpoints, key : Keys,
                             trusted : Keys \cup {None}]
<1>1. p.connection \in Connections /\ p.endpoint \in Endpoints
  BY DEF Snapshots, NoProfile
<1> QED BY <1>1 DEF Shows, TypeOK

\* A call that ends, whoever is shown what.
LEMMA EndedInv ==
  ASSUME ConnectionsInv, NEW a \in Calls, Ended(a), UNCHANGED <<profileVars, server>>,
         dialogs' \subseteq [connection : Connections, endpoint : Endpoints, key : Keys,
                             trusted : Keys \cup {None}]
  PROVE  ConnectionsInv'
<1>1. ProfilesInv
  BY DEF ConnectionsInv
<1>2. Idle \in CallType /\ Grounded(Idle) /\ Progressed(Idle)
  BY <1>1, IdleHolds
<1>3. call' = [call EXCEPT ![a] = Idle]
  BY DEF Ended
<1> QED BY <1>2, <1>3, CallStep

\* A step of a call: it opens a connection, fails, tries again or ends.
LEMMA StepInv ==
  ASSUME ConnectionsInv, NEW a \in Calls, Step(a) \/ Disconnect(a)
  PROVE  ConnectionsInv'
<1> DEFINE s == call[a]
<1>1. TypeOK /\ ProfilesInv /\ s \in CallType /\ Grounded(s) /\ Progressed(s)
  BY DEF ConnectionsInv, TypeOK, CallType
<1>2. \A p \in {s.target, s.jump} :
        p \in Snapshots /\ (p.connection # None => server[p.endpoint] \in Keys)
  <2>1. s.target \in Snapshots /\ s.jump \in Snapshots
    BY <1>1 DEF CallType
  <2>2. server \in [Endpoints -> Keys]
    BY <1>1 DEF TypeOK
  <2> QED BY <2>1, <2>2 DEF Snapshots, NoProfile
<1>3. UNCHANGED dialogs => dialogs' \subseteq
        [connection : Connections, endpoint : Endpoints, key : Keys, trusted : Keys \cup {None}]
  BY <1>1 DEF TypeOK
<1>4. CASE JumpOpens(a)
  <2> DEFINE r == [s EXCEPT !.pc = IF s.connects THEN "target" ELSE "inspect target",
                            !.jumpOpen = TRUE, !.jumpSeen = server[s.jump.endpoint]]
  <2>1. /\ s.pc = "jump" /\ server[s.jump.endpoint] = s.jumpKey /\ OnlyCalls
        /\ call' = [call EXCEPT ![a] = r]
    BY <1>4 DEF JumpOpens
  <2>2. r \in CallType
    BY <1>1, <2>1, ZenonT(60) DEF CallType, Contacts
  <2>3. Grounded(r)
    BY <1>1 DEF Grounded, CallType
  <2>4. Progressed(r)
    BY <1>1, <2>1 DEF Progressed, CallType
  <2> QED BY <1>3, <2>1, <2>2, <2>3, <2>4, CallStep DEF OnlyCalls
<1>5. CASE TargetOpens(a)
  <2> DEFINE r == [s EXCEPT !.pc = "ready", !.targetOpen = TRUE,
                            !.seen = server[s.target.endpoint]]
  <2>1. /\ s.pc = "target" /\ server[s.target.endpoint] = s.key /\ OnlyCalls
        /\ call' = [call EXCEPT ![a] = r]
    BY <1>5 DEF TargetOpens, Registered
  <2>2. r \in CallType
    BY <1>1, <2>1 DEF CallType
  <2>3. Grounded(r)
    BY <1>1 DEF Grounded, CallType
  <2>4. Progressed(r)
    BY <1>1, <2>1 DEF Progressed, CallType
  <2> QED BY <1>3, <2>1, <2>2, <2>3, <2>4, CallStep DEF OnlyCalls
<1>6. CASE Mismatch(a)
  <2>1. Ended(a) /\ UNCHANGED <<profileVars, server>>
    BY <1>6 DEF Mismatch
  <2>2. CASE s.pc = "jump" /\ Mismatches(s.jump, s.jumpKey)
    <3>1. s.jump.connection # None /\ s.jumpKey \in Keys \cup {None}
      BY <1>1, <2>2 DEF Progressed, CallType
    <3> QED BY <1>1, <1>2, <2>1, <2>2, <3>1, ShowsType, EndedInv DEF Mismatches
  <2>3. CASE s.pc = "target" /\ Mismatches(s.target, s.key)
    <3>1. s.target.connection # None /\ s.key \in Keys \cup {None}
      BY <1>1, <2>3 DEF Progressed, CallType
    <3> QED BY <1>1, <1>2, <2>1, <2>3, <3>1, ShowsType, EndedInv DEF Mismatches
  <2> QED BY <1>6, <2>2, <2>3 DEF Mismatch
<1>7. CASE AuthenticationFails(a)
  BY <1>3, <1>7, EndedInv DEF AuthenticationFails, OnlyCalls
<1>8. CASE NetworkFails(a)
  <2>1. CASE s.connects /\ s.tries = 1
    <3> DEFINE r == [s EXCEPT !.tries = 2, !.jumpOpen = FALSE, !.jumpSeen = None,
                              !.pc = IF s.target.jump = None THEN "target" ELSE "jump"]
    <3>1. s.pc \in {"jump", "target"} /\ OnlyCalls /\ call' = [call EXCEPT ![a] = r]
      BY <1>8, <2>1 DEF NetworkFails, Retries
    <3>2. r \in CallType
      <4> DEFINE pc == IF s.target.jump = None THEN "target" ELSE "jump"
      <4>1. pc \in {"idle", "ready"} \cup Contacts /\ 2 \in 1..2
        BY DEF Contacts
      <4> HIDE DEF pc
      <4>2. [s EXCEPT !.tries = 2, !.jumpOpen = FALSE, !.jumpSeen = None, !.pc = pc] \in CallType
        BY <1>1, <4>1 DEF CallType
      <4> QED BY <4>2 DEF pc
    <3>3. Grounded(r)
      BY <1>1 DEF Grounded, CallType
    <3>4. Progressed(r)
      BY <1>1, <2>1, <3>1 DEF Progressed, CallType
    <3> QED BY <1>3, <3>1, <3>2, <3>3, <3>4, CallStep DEF OnlyCalls
  <2>2. CASE ~(s.connects /\ s.tries = 1)
    BY <1>3, <1>8, <2>2, EndedInv DEF NetworkFails, OnlyCalls
  <2> QED BY <2>1, <2>2
<1>9. CASE TunnelRefused(a)
  <2> DEFINE r == [Idle EXCEPT !.jumpOpen = TRUE, !.tunnelRefused = TRUE]
  <2>1. OnlyCalls /\ call' = [call EXCEPT ![a] = r]
    BY <1>9 DEF TunnelRefused
  <2>2. Idle \in CallType /\ Grounded(Idle) /\ Progressed(Idle) /\ Idle.pc = "idle"
    BY <1>1, IdleHolds DEF Idle
  <2>3. r \in CallType
    BY <2>2 DEF CallType
  <2>4. Grounded(r)
    BY <2>2 DEF Grounded, CallType
  <2>5. Progressed(r)
    BY <2>2 DEF Progressed, CallType
  <2> HIDE DEF r
  <2> QED BY <1>3, <2>1, <2>3, <2>4, <2>5, CallStep DEF OnlyCalls
<1>10. CASE Inspected(a)
  <2> DEFINE p == IF s.pc = "inspect jump" THEN s.jump ELSE s.target
  <2>1. /\ s.pc \in {"inspect target", "inspect jump"}
        /\ UNCHANGED dialogs \/ Shows(p, server[p.endpoint], Trusted(p.connection))
        /\ Ended(a) /\ UNCHANGED <<profileVars, server>>
    BY <1>10 DEF Inspected
  <2>2. p \in Snapshots /\ p.connection # None /\ server[p.endpoint] \in Keys
    BY <1>1, <1>2, <2>1 DEF Progressed
  <2> HIDE DEF p
  <2>3. Trusted(p.connection) \in Keys \cup {None}
    <3>1. p.connection \in Connections
      BY <2>2 DEF Snapshots, NoProfile
    <3> QED BY <1>1, <3>1 DEF Trusted, ProfilesInv, ProfilesTypeOK
  <2> QED BY <1>1, <1>3, <2>1, <2>2, <2>3, ShowsType, EndedInv
<1>11. CASE InspectionFails(a)
  BY <1>3, <1>11, EndedInv DEF InspectionFails, OnlyCalls
<1>12. CASE Disconnect(a)
  BY <1>3, <1>12, EndedInv DEF Disconnect, OnlyCalls, Ended
<1> QED BY <1>4, <1>5, <1>6, <1>7, <1>8, <1>9, <1>10, <1>11, <1>12 DEF Step

-----------------------------------------------------------------------------
(* Steps of the user and of the servers *)

\* An edit or a confirmation, and whatever it does to the dialogs.
LEMMA ProfilesStep ==
  ASSUME ConnectionsInv, ProfilesInv', NEW c \in Connections, Edit(c) \/ Trust(c),
         UNCHANGED <<server, call>>, dialogs' \subseteq dialogs
  PROVE  ConnectionsInv'
<1>1. ProfilesInv /\ TypeOK
  BY DEF ConnectionsInv
<1>2. TypeOK'
  BY <1>1 DEF TypeOK, ProfilesInv, Snapshots, Contacts, NoProfile
<1>3. confirmed \subseteq confirmed'
  BY ConfirmedStays
<1>4. ASSUME NEW a \in Calls
      PROVE  Grounded(call[a])' /\ Progressed(call[a])'
  <2>1. call'[a] = call[a] /\ Grounded(call[a]) /\ Progressed(call[a])
    BY DEF ConnectionsInv
  <2>2. call[a].target \in Snapshots /\ call[a].jump \in Snapshots
    BY <1>1, SMTT(60) DEF TypeOK
  <2>3. Frozen(call[a].target)' /\ Frozen(call[a].jump)'
    <3>1. ASSUME NEW p \in Snapshots, Frozen(p) PROVE Frozen(p)'
      BY <1>1, <3>1, FrozenStays
    <3>2. \A p \in Snapshots : Frozen(p) => Frozen(p)'
      BY <3>1
    <3> QED BY <2>1, <2>2, <3>2 DEF Grounded, Frozen, Snapshot, Rows, NoProfile
  <2>4. \A d, k : WasConfirmed(d, k) => WasConfirmed(d, k)'
    BY <1>3 DEF WasConfirmed
  <2>5. Grounded(call[a])'
    BY <2>1, <2>3, <2>4 DEF Grounded, WasConfirmed
  <2>6. Progressed(call[a])'
    BY <2>1 DEF Progressed
  <2> QED BY <2>5, <2>6
<1> QED BY <1>2, <1>4 DEF ConnectionsInv

\* A key in a dialog is confirmed as SshProfiles confirms keys, or not at all.
LEMMA ConfirmIsTrust ==
  ASSUME ConnectionsInv, NEW d \in dialogs, ConfirmShown(d)
  PROVE  d.connection \in Connections /\ Trust(d.connection) /\ ProfilesInv'
<1>1. /\ d.connection \in Connections /\ d.endpoint \in Endpoints /\ d.key \in Keys
      /\ d.trusted \in Keys \cup {None} /\ ProfilesInv
  BY DEF ConnectionsInv, TypeOK
<1>2. CASE d.trusted = None
  <2>1. TrustFirst(d.connection, d.endpoint, d.key)
    BY <1>2 DEF ConfirmShown
  <2> QED BY <1>1, <2>1, TrustFirstInv DEF Trust
<1>3. CASE d.trusted # None
  <2>1. Replace(d.connection, d.endpoint, d.key, d.trusted)
    BY <1>3 DEF ConfirmShown
  <2> QED BY <1>1, <1>3, <2>1, ReplaceInv DEF Trust
<1> QED BY <1>2, <1>3

\* Nothing but the dialogs, or the keys of the servers, changes.
LEMMA OutsideStep ==
  ASSUME ConnectionsInv, UNCHANGED <<profileVars, call>>, server' \in [Endpoints -> Keys],
         dialogs' \subseteq dialogs
  PROVE  ConnectionsInv'
<1>1. ProfilesInv /\ TypeOK
  BY DEF ConnectionsInv
<1>2. ProfilesInv'
  BY <1>1, StutterInv
<1>3. TypeOK'
  BY <1>1, <1>2 DEF TypeOK, ProfilesInv, Snapshots, Contacts, NoProfile
<1>4. UNCHANGED <<profile, retired, confirmed>>
  BY DEF profileVars
<1>5. ASSUME NEW a \in Calls
      PROVE  Grounded(call[a])' /\ Progressed(call[a])'
  <2>1. call'[a] = call[a] /\ Grounded(call[a]) /\ Progressed(call[a])
    BY DEF ConnectionsInv
  <2>2. Grounded(call[a])'
    BY <1>4, <2>1 DEF Grounded, Frozen, Snapshot, WasConfirmed, Rows, NoProfile
  <2>3. Progressed(call[a])'
    BY <2>1 DEF Progressed
  <2> QED BY <2>2, <2>3
<1> QED BY <1>2, <1>3, <1>5 DEF ConnectionsInv

-----------------------------------------------------------------------------
(* The theorems *)

\* Every step keeps the invariant.
LEMMA NextInv ==
  ASSUME ConnectionsInv, [Next]_vars
  PROVE  ConnectionsInv'
<1>1. ASSUME NEW a \in Calls, NEW c \in Connections, NEW connect \in BOOLEAN,
             Begin(a, c, connect)
      PROVE  ConnectionsInv'
  BY <1>1, BeginInv
<1>2. ASSUME NEW a \in Calls, Step(a) \/ Disconnect(a)
      PROVE  ConnectionsInv'
  BY <1>2, StepInv
<1>3. ASSUME NEW d \in dialogs, ConfirmShown(d)
      PROVE  ConnectionsInv'
  BY <1>3, ConfirmIsTrust, ProfilesStep DEF ConfirmShown
<1>4. ASSUME NEW d \in dialogs, Dismiss(d)
      PROVE  ConnectionsInv'
  BY <1>4, OutsideStep DEF Dismiss, ConnectionsInv, TypeOK
<1>5. CASE EditProfiles
  <2>1. PICK c \in Connections : Edit(c)
    BY <1>5 DEF EditProfiles
  <2>2. ProfilesInv'
    BY <2>1, EditInv DEF ConnectionsInv
  <2> QED BY <1>5, <2>1, <2>2, ProfilesStep DEF EditProfiles
<1>6. ASSUME NEW e \in Endpoints, ServerChanges(e)
      PROVE  ConnectionsInv'
  <2>1. server' \in [Endpoints -> Keys]
    BY <1>6 DEF ServerChanges, ConnectionsInv, TypeOK
  <2> QED BY <1>6, <2>1, OutsideStep DEF ServerChanges
<1>7. CASE UNCHANGED vars
  BY <1>7, OutsideStep DEF vars, ConnectionsInv, TypeOK
<1> QED BY <1>1, <1>2, <1>3, <1>4, <1>5, <1>6, <1>7 DEF Next, Requests

\* The invariant of the calls, for every value of the constants.
THEOREM ConnectionsInvariance == Spec => []ConnectionsInv
<1>1. Init => ConnectionsInv
  <2> SUFFICES ASSUME Init PROVE ConnectionsInv
    OBVIOUS
  <2>1. ProfilesInv
    BY ProfilesInitInv DEF Init
  <2>2. Idle \in CallType /\ Grounded(Idle) /\ Progressed(Idle)
    BY <2>1, IdleHolds
  <2>3. call \in [Calls -> CallType] /\ \A a \in Calls : call[a] = Idle
    BY <2>2 DEF Init
  <2>4. TypeOK
    BY <2>1, <2>3 DEF Init, TypeOK, CallType, ProfilesInv
  <2> QED BY <2>1, <2>2, <2>3, <2>4 DEF ConnectionsInv
<1>2. ConnectionsInv /\ [Next]_vars => ConnectionsInv'
  BY NextInv
<1> QED BY <1>1, <1>2, PTL DEF Spec

\* Profiles, calls, sessions and dialogs have their types.
THEOREM ConnectionsTyped == Spec => []TypeOK
<1>1. ConnectionsInv => TypeOK
  BY DEF ConnectionsInv
<1> QED BY <1>1, ConnectionsInvariance, PTL

\* A registered session is authenticated by keys the user confirmed, whatever
\* is edited, replaced or deleted while the call goes on (connect,
\* _connect_via_proxy, SshSessionRegistry.register).
THEOREM SessionsAreVerified == Spec => []SessionIsVerified
<1>1. ConnectionsInv => SessionIsVerified
  <2> SUFFICES ASSUME ConnectionsInv, NEW a \in Calls, call[a].pc = "ready"
               PROVE  LET s == call[a]
                      IN  /\ WasConfirmed(s.target.connection, s.seen)
                          /\ s.jump.connection = s.target.jump /\ s.jump.jump = None
                          /\ s.target.jump # None => WasConfirmed(s.jump.connection, s.jumpSeen)
                          /\ \A p \in {s.target, s.jump} :
                               p.connection \in Rows /\ profile[p.connection].version = p.version
                                 => p = Snapshot(p.connection)
    BY DEF SessionIsVerified
  <2>1. Grounded(call[a]) /\ Progressed(call[a])
    BY DEF ConnectionsInv
  <2> QED BY <2>1 DEF Grounded, Progressed, Frozen
<1> QED BY <1>1, ConnectionsInvariance, PTL

\* Connections are opened and closed with the call or the session that has
\* them, but for a tunnel that is refused (_connect_via_proxy).
THEOREM ConnectionsAreOwned == Spec => []ConnectionsOwned
<1>1. ConnectionsInv => ConnectionsOwned
  BY DEF ConnectionsInv, Progressed, ConnectionsOwned
<1> QED BY <1>1, ConnectionsInvariance, PTL

\* Trust moves only as the user was shown (trust_first_host_key,
\* replace_host_key).
THEOREM TrustAlwaysMovesAsShown == Spec => TrustMovesAsShown
<1> DEFINE Moved == \A c \in Connections :
             hostKey'[c].active \notin {hostKey[c].active, None} =>
               [connection |-> c, endpoint |-> profile[c].endpoint,
                key |-> hostKey'[c].active, trusted |-> hostKey[c].active] \in dialogs
<1>1. ConnectionsInv /\ [Next]_vars => [Moved]_vars
  <2> SUFFICES ASSUME ConnectionsInv, [Next]_vars, NEW c \in Connections,
                      hostKey'[c].active \notin {hostKey[c].active, None}
               PROVE  [connection |-> c, endpoint |-> profile[c].endpoint,
                       key |-> hostKey'[c].active, trusted |-> hostKey[c].active] \in dialogs
    OBVIOUS
  <2>1. hostKey \in [Connections -> [active : Keys \cup {None}, replaced : SUBSET Keys]]
    BY DEF ConnectionsInv, ProfilesInv, ProfilesTypeOK
  <2>2. PICK d \in dialogs : ConfirmShown(d)
    <3>1. \A b \in Connections : ~Edit(b)
      <4> SUFFICES ASSUME NEW b \in Connections, Edit(b) PROVE FALSE
        OBVIOUS
      <4>1. CASE Delete(b)
        BY <2>1, <4>1 DEF Delete, NoKey
      <4>2. CASE ~Delete(b)
        <5>1. hostKey' = hostKey
          BY <4>2, EditKeepsKeys
        <5> QED BY <5>1
      <4> QED BY <4>1, <4>2
    <3>2. ~UNCHANGED profileVars
      BY DEF profileVars
    <3> QED BY <3>1, <3>2, ZenonT(60) DEF Next, Requests, vars, Begin, Step, JumpOpens, TargetOpens, Mismatch,
               AuthenticationFails, NetworkFails, TunnelRefused, Inspected, InspectionFails,
               Disconnect, OnlyCalls, Dismiss, EditProfiles, ServerChanges
  <2>3. d \in [connection : Connections, endpoint : Endpoints, key : Keys,
               trusted : Keys \cup {None}]
    BY DEF ConnectionsInv, TypeOK
  <2>4. /\ d.endpoint = profile[d.connection].endpoint
        /\ hostKey[d.connection].active = d.trusted
        /\ \E f : hostKey' = [hostKey EXCEPT ![d.connection] = f] /\ f.active = d.key
    <3>1. CASE d.trusted = None
      BY <2>1, <2>2, <2>3, <3>1 DEF ConfirmShown, TrustFirst, Confirms
    <3>2. CASE d.trusted # None
      BY <2>1, <2>2, <2>3, <3>2 DEF ConfirmShown, Replace, Confirms
    <3> QED BY <3>1, <3>2
  <2>5. d.connection = c /\ hostKey'[c].active = d.key
    BY <2>1, <2>3, <2>4
  <2>6. d = [connection |-> c, endpoint |-> profile[c].endpoint,
             key |-> hostKey'[c].active, trusted |-> hostKey[c].active]
    BY <2>3, <2>4, <2>5
  <2> QED BY <2>6
<1> QED BY <1>1, ConnectionsInvariance, PTL DEF Spec, TrustMovesAsShown

\* What connecting does to the database is what SshProfiles allows, so all that
\* is proved of it holds here.
THEOREM ConnectionsImplementProfiles == Spec => ProfilesSpec
<1>1. Init => ProfilesInit
  BY DEF Init
<1>2. ConnectionsInv /\ [Next]_vars => [ProfilesNext]_profileVars
  <2> SUFFICES ASSUME ConnectionsInv, [Next]_vars, ~UNCHANGED profileVars
               PROVE  ProfilesNext
    OBVIOUS
  <2>1. CASE EditProfiles
    BY <2>1 DEF EditProfiles, ProfilesNext
  <2>2. CASE \E d \in dialogs : ConfirmShown(d)
    BY <2>2, ConfirmIsTrust DEF ProfilesNext
  <2> QED BY <2>1, <2>2, ZenonT(60) DEF Next, Requests, vars, Begin, Step, JumpOpens, TargetOpens, Mismatch,
             AuthenticationFails, NetworkFails, TunnelRefused, Inspected, InspectionFails,
             Disconnect, OnlyCalls, Dismiss, ServerChanges
<1> QED BY <1>1, <1>2, ConnectionsInvariance, PTL DEF Spec, ProfilesSpec

HIDE ProfilesAssumption

-----------------------------------------------------------------------------
(***************************************************************************)
(* The terminals of a session                                              *)
(***************************************************************************)

\* A terminal.
Terminal ==
  [state : {"none", "opening", "failed", "OPEN", "CLOSED"}, listed : BOOLEAN,
   next : 1..MaxOutputs + 1,
   reader : [Streams -> {"none", "reading", "putting", "done", "raised"}],
   chunk : [Streams -> 0..MaxOutputs],
   monitor : {"none", "readers", "publishing", "done"},
   channel : {"none", "running", "ended", "broken"}, child : BOOLEAN,
   close : {"none", "eof", "forced", "done"}]

\* What holds of a terminal alone.  Before it is open it has no tasks; who waits
\* with a chunk has one, and no two have the same; the monitor publishes the
\* end of a terminal that is closed, and it is closed when both are drained.
Sane(t) ==
  /\ t.listed <=> t.monitor \in {"readers", "publishing"}
  /\ t.state \in {"none", "opening", "failed"} =>
       /\ t.monitor = "none" /\ t.channel = "none"
       /\ \A s \in Streams : t.reader[s] = "none"
  /\ t.state = "CLOSED" => \A s \in Streams : t.reader[s] = "done"
  /\ t.monitor = "publishing" => t.state = "CLOSED"
  /\ \A s \in Streams : (t.chunk[s] # 0 <=> t.reader[s] = "putting") /\ t.chunk[s] < t.next
  /\ \A s, r \in Streams : s # r /\ t.chunk[s] = t.chunk[r] => t.chunk[s] = 0
  /\ t.close = "done" => t.monitor = "done"

\* What was told of a terminal that is t: it is intact, its end was only told of
\* a terminal that is closed, and a chunk that waits is behind what was told of
\* its stream.
Flow(told, p, t) ==
  /\ Intact(told, p, t)
  /\ Places(told, p, "closed") # {} => t.state = "CLOSED" /\ t.monitor = "done"
  /\ \A i \in Places(told, p, "output") :
       t.chunk[told[i].stream] # 0 => told[i].number < t.chunk[told[i].stream]

\* Everything that says whether an input was accepted.
Answers == ToSet(outbound) \cup {conn[c].replying : c \in Desktops}

\* Input n is behind, of those that were sent: what is still in the queue was
\* sent after it.
Behind(n, sent, queue) == n <= sent /\ \A i \in DOMAIN queue : n < queue[i].number

\* The inputs are processed in the order in which they were sent.
InputsInOrder ==
  /\ \A i \in DOMAIN inbound : inbound[i].number <= messages
  /\ \A i, j \in DOMAIN inbound : i < j => inbound[i].number < inbound[j].number
  /\ \A i, j \in DOMAIN written : i < j => written[i] < written[j]
  /\ \A i \in DOMAIN written : Behind(written[i], messages, inbound)
  /\ \A m \in Answers :
       m.kind = "result" =>
         Behind(m.number, messages, inbound) /\ (m.accepted <=> m.number \in ToSet(written))

\* What the exit has closed, and what it has not come to.
ExitInOrder ==
  /\ session.pc = "down" => transport = "closed"
  /\ transport # "up" => \A p \in Ptys : pty[p].channel # "running"
  /\ runtime \in {"stopped", "failed"} => session.pc = "down"
  /\ runtime \notin {"ready", "exiting"} =>
       /\ disconnect \notin {"announcing", "closing"}
       /\ \A p \in Ptys : pty[p].state # "opening"
  /\ runtime = "ptys" /\ ~failed =>
       \A p \in Listed \ remaining : pty[p].close \in {"eof", "forced"} \/ pty[p].state = "CLOSED"
  /\ runtime \in {"sessions", "stopped"} /\ ~failed => Listed = {}
  /\ runtime = "stopped" => ~failed

\* The state without its history.
TerminalsTyped ==
  /\ runtime \in {"ready", "exiting", "ptys", "sessions", "stopped", "failed"}
  /\ connected \in BOOLEAN /\ failed \in BOOLEAN
  /\ conn \in [Desktops ->
       [pc : {"new", "serving", "ending", "over"}, replying : Replies \cup {Nothing}]]
  /\ inbound \in Seq([pty : Ptys, number : 1..MaxMessages])
  /\ outbound \in Seq(Events \cup Replies) /\ Len(outbound) <= Capacity
  /\ pty \in [Ptys -> Terminal]
  /\ transport \in {"up", "broken", "closed"}
  /\ session \in [pc : {"up", "children", "down"}, channels : SUBSET Ptys]
  /\ disconnect \in {"none", "announcing", "closing", "done"}
  /\ remaining \subseteq Ptys
  /\ messages \in 0..MaxMessages
  /\ taken \in [Ptys -> Seq(Events)]
  /\ written \in Seq(1..MaxMessages)

TerminalsSane == \A p \in Ptys : Sane(pty[p])
OutputsFlow   == \A p \in Ptys : Flow(Told(p), p, pty[p])

TerminalInv == TerminalsTyped /\ TerminalsSane /\ OutputsFlow /\ InputsInOrder /\ ExitInOrder


-----------------------------------------------------------------------------
(* The operators *)

\* One terminal changes, and no other.
LEMMA OnePty ==
  ASSUME pty \in [Ptys -> Terminal], NEW p \in Ptys, NEW x \in Terminal,
         pty' = [pty EXCEPT ![p] = x]
  PROVE  /\ pty' \in [Ptys -> Terminal]
         /\ pty'[p] = x
         /\ \A q \in Ptys : q # p => pty'[q] = pty[q]
  BY SMT

\* What was told to a terminal, and every place in it, are what they should be.
LEMMA ToldTyped ==
  ASSUME TerminalsTyped, NEW p \in Ptys
  PROVE  /\ Told(p) \in Seq(Events \cup Replies)
         /\ Len(Told(p)) = Len(taken[p]) + Len(outbound)
         /\ \A i \in 1..Len(Told(p)) :
              Told(p)[i] = IF i <= Len(taken[p]) THEN taken[p][i] ELSE outbound[i - Len(taken[p])]
  BY DEF TerminalsTyped, Told

\* A message is put into the queue: it is told to every terminal at the end.
LEMMA PublishTold ==
  ASSUME TerminalsTyped, NEW m \in Events \cup Replies, Publish(m), UNCHANGED taken
  PROVE  \A p \in Ptys : Told(p)' = Append(Told(p), m)
  BY DEF TerminalsTyped, Told, Publish

\* The first of the queue is taken by a desktop.
LEMMA TakeTold ==
  ASSUME TerminalsTyped, NEW c, Take(c), NEW p \in Ptys
  PROVE  IF OfPty(Head(outbound)) /\ Head(outbound).pty = p THEN Told(p)' = Told(p)
         ELSE Told(p)' = taken[p] \o Tail(outbound)
<1>1. outbound # <<>> /\ outbound \in Seq(Events \cup Replies) /\ outbound' = Tail(outbound)
  BY DEF Take, TerminalsTyped
<1>2. taken \in [Ptys -> Seq(Events)]
  BY DEF TerminalsTyped
<1>3. CASE OfPty(Head(outbound)) /\ Head(outbound).pty = p
  <2>1. taken'[p] = Append(taken[p], Head(outbound))
    BY <1>2, <1>3 DEF Take
  <2>2. taken'[p] \o outbound' = taken[p] \o outbound
    <3> PICK a : a = taken[p]
      OBVIOUS
    <3> PICK b : b = outbound
      OBVIOUS
    <3>1. a \in Seq(Events \cup Replies) /\ b \in Seq(Events \cup Replies) /\ b # <<>>
      BY <1>1, <1>2
    <3>2. Append(a, Head(b)) \o Tail(b) = a \o b
      BY ONLY <3>1
    <3> QED BY <3>2, <2>1, <1>1
  <2> QED BY <2>2, <1>3 DEF Told
<1>4. CASE ~(OfPty(Head(outbound)) /\ Head(outbound).pty = p)
  <2>1. taken'[p] = taken[p]
    BY <1>2, <1>4 DEF Take
  <2> QED BY <2>1, <1>1, <1>4 DEF Told
<1> QED BY <1>3, <1>4

-----------------------------------------------------------------------------
(* What is told of a terminal *)

\* A message that is about a terminal.
About(m, p) == m.kind \in {"output", "closed"} /\ m.pty = p

\* The numbers told so far, and the places, of what was told.
LEMMA FlowTyped ==
  ASSUME NEW told \in Seq(Events \cup Replies), NEW p \in Ptys,
         NEW i \in Places(told, p, "output")
  PROVE  told[i].number \in 1..MaxOutputs /\ told[i].stream \in Streams /\ i \in 1..Len(told)
  BY DEF Places, Events, Outputs, Replies

\* If only messages about other terminals come or go, a terminal's are as they were:
\* f says where each of them was.
LEMMA FlowMoves ==
  ASSUME NEW told \in Seq(Events \cup Replies), NEW new \in Seq(Events \cup Replies),
         NEW p \in Ptys, NEW t \in Terminal, Flow(told, p, t),
         NEW D \in SUBSET DOMAIN new, \A i \in DOMAIN new : About(new[i], p) => i \in D,
         NEW f \in [D -> DOMAIN told],
         \A i \in D : new[i] = told[f[i]],
         \A i, j \in D : i < j => f[i] < f[j],
         \A k \in DOMAIN told : About(told[k], p) => \E i \in D : f[i] = k
  PROVE  Flow(new, p, t)
<1>d. DOMAIN f = D /\ D \subseteq Nat
  OBVIOUS
<1>0. \A i \in D : f[i] \in DOMAIN told /\ f[i] \in Nat /\ i \in Nat
  OBVIOUS
<1>1. ASSUME NEW kind \in {"output", "closed"}
      PROVE  /\ Places(new, p, kind) \subseteq D
             /\ \A i \in Places(new, p, kind) : f[i] \in Places(told, p, kind)
             /\ \A k \in Places(told, p, kind) : \E i \in Places(new, p, kind) : f[i] = k
  BY <1>d DEF Places, About
<1>2. {new[i].number : i \in Places(new, p, "output")}
        = {told[i].number : i \in Places(told, p, "output")}
  BY <1>1, <1>d
<1>3. \A i, j \in Places(new, p, "output") :
        i < j => /\ new[i].number # new[j].number
                 /\ new[i].stream = new[j].stream => new[i].number < new[j].number
  BY <1>1, <1>d DEF Flow, Intact
<1>4. \A i \in Places(new, p, "closed") :
        (\A j \in Places(new, p, "output") \cup Places(new, p, "closed") : j <= i) /\ InReader(t) = {}
  <2> TAKE i \in Places(new, p, "closed")
  <2>1. f[i] \in Places(told, p, "closed") /\ i \in D
    BY <1>1
  <2>2. /\ InReader(t) = {}
        /\ \A j \in Places(told, p, "output") \cup Places(told, p, "closed") : j <= f[i]
    BY <2>1 DEF Flow, Intact
  <2>3. ASSUME NEW j \in Places(new, p, "output") \cup Places(new, p, "closed")
        PROVE  j <= i
    <3>1. j \in D /\ f[j] <= f[i]
      BY <2>2, <1>1
    <3>2. ~(i < j)
      BY <3>1, <2>1, <1>d, <1>0
    <3> QED BY <3>2, <3>1, <2>1, <1>d
  <2> QED BY <2>2, <2>3
<1>5. Intact(new, p, t)
  BY <1>2, <1>3, <1>4 DEF Intact, Flow
<1>6. Places(new, p, "closed") # {} => t.state = "CLOSED" /\ t.monitor = "done"
  BY <1>1 DEF Flow
<1>7. \A i \in Places(new, p, "output") :
        t.chunk[new[i].stream] # 0 => new[i].number < t.chunk[new[i].stream]
  BY <1>1, <1>d, SMTT(60) DEF Flow
<1> QED BY <1>5, <1>6, <1>7 DEF Flow

\* A message about another terminal, or about none, is told.
LEMMA FlowAppendsOther ==
  ASSUME NEW told \in Seq(Events \cup Replies), NEW m \in Events \cup Replies,
         NEW p \in Ptys, NEW t \in Terminal, Flow(told, p, t), ~About(m, p)
  PROVE  Flow(Append(told, m), p, t)
<1> PICK new : new = Append(told, m)
  OBVIOUS
<1>1. new \in Seq(Events \cup Replies) /\ DOMAIN told = 1..Len(told) /\ DOMAIN new = 1..(Len(told) + 1)
  OBVIOUS
<1>2. new[Len(told) + 1] = m /\ \A i \in 1..Len(told) : new[i] = told[i]
  OBVIOUS
<1>D. PICK D : D = {i \in DOMAIN new : About(new[i], p)}
  OBVIOUS
<1>3. D \subseteq DOMAIN told
  BY <1>1, <1>2, <1>D
<1>a. D \in SUBSET DOMAIN new /\ \A i \in DOMAIN new : About(new[i], p) => i \in D
  BY <1>D
<1>4. PICK f : f \in [D -> DOMAIN told] /\ \A i \in D : f[i] = i
  <2> WITNESS [i \in D |-> i]
  <2> QED BY <1>3
<1>5. \A k \in DOMAIN told : About(told[k], p) => k \in D
  BY <1>1, <1>2, <1>D
<1>6. \A i \in D : new[i] = told[f[i]]
  BY <1>1, <1>2, <1>3, <1>4
<1>7. \A i, j \in D : i < j => f[i] < f[j]
  BY <1>4
<1>8. \A k \in DOMAIN told : About(told[k], p) => \E i \in D : f[i] = k
  BY <1>4, <1>5
<1>9. Flow(new, p, t)
  BY <1>1, <1>4, <1>6, <1>7, <1>8, <1>a, FlowMoves
<1> QED BY <1>9

\* A message about another terminal, or about none, is taken.
LEMMA FlowTakesOther ==
  ASSUME NEW a \in Seq(Events \cup Replies), NEW b \in Seq(Events \cup Replies), b # <<>>,
         NEW p \in Ptys, NEW t \in Terminal, Flow(a \o b, p, t), ~About(Head(b), p)
  PROVE  Flow(a \o Tail(b), p, t)
<1> PICK told : told = a \o b
  OBVIOUS
<1> PICK new : new = a \o Tail(b)
  OBVIOUS
<1> PICK n : n = Len(a)
  OBVIOUS
<1>0. /\ n \in Nat /\ Len(b) \in Nat \ {0}
      /\ Tail(b) \in Seq(Events \cup Replies) /\ Len(Tail(b)) = Len(b) - 1
  OBVIOUS
<1>1. /\ told \in Seq(Events \cup Replies) /\ new \in Seq(Events \cup Replies)
      /\ DOMAIN told = 1..(n + Len(b)) /\ DOMAIN new = 1..(n + Len(b) - 1)
  BY <1>0
<1>2. /\ \A i \in 1..n : told[i] = a[i] /\ new[i] = a[i]
      /\ told[n + 1] = Head(b)
  BY <1>0
<1>3. \A i \in (n + 1)..(n + Len(b) - 1) : new[i] = told[i + 1]
  <2> TAKE i \in (n + 1)..(n + Len(b) - 1)
  <2>1. new[i] = Tail(b)[i - n]
    BY <1>0
  <2>2. Tail(b)[i - n] = b[i - n + 1]
    BY <1>0
  <2>3. told[i + 1] = b[i + 1 - n]
    BY <1>0
  <2> QED BY <2>1, <2>2, <2>3, <1>0
<1>D. PICK D : D = {i \in DOMAIN new : About(new[i], p)}
  OBVIOUS
<1>d. \A i \in D : i \in Nat /\ (IF i <= n THEN i ELSE i + 1) \in DOMAIN told
  <2>1. D \subseteq 1..(n + Len(b) - 1)
    BY <1>1, <1>D
  <2> QED BY <2>1, <1>0, <1>1
<1>a. D \in SUBSET DOMAIN new /\ \A i \in DOMAIN new : About(new[i], p) => i \in D
  BY <1>D
<1>4. PICK f : /\ f \in [D -> DOMAIN told]
               /\ \A i \in D : f[i] = IF i <= n THEN i ELSE i + 1
  <2> DEFINE g == [i \in D |-> IF i <= n THEN i ELSE i + 1]
  <2>1. g \in [D -> DOMAIN told] /\ \A i \in D : g[i] = IF i <= n THEN i ELSE i + 1
    BY <1>d
  <2> HIDE DEF g
  <2> QED BY <2>1
<1>5. \A i \in D : new[i] = told[f[i]]
  <2> TAKE i \in D
  <2>1. CASE i <= n
    BY <2>1, <1>0, <1>1, <1>2, <1>4, <1>a
  <2>2. CASE i > n
    <3>1. i \in (n + 1)..(n + Len(b) - 1)
      BY <2>2, <1>0, <1>1, <1>a
    <3>2. f[i] = i + 1
      BY <2>2, <1>0, <1>d, <1>4
    <3> QED BY <3>1, <3>2, <1>3
  <2>3. i <= n \/ i > n
    BY <1>0, <1>d
  <2> QED BY ONLY <2>1, <2>2, <2>3
<1>b. p \in Ptys /\ t \in Terminal /\ Flow(told, p, t)
  OBVIOUS
<1>6. \A i, j \in D : i < j => f[i] < f[j]
  BY <1>0, <1>d, <1>4, SMTT(60)
<1>7. ASSUME NEW k \in DOMAIN told, About(told[k], p)
      PROVE  \E i \in D : f[i] = k
  <2>0. k \in Nat /\ k >= 1 /\ k <= n + Len(b)
    BY <1>0, <1>1
  <2>1. CASE k <= n
    <3>0. k \in 1..n /\ k \in DOMAIN new
      BY <2>0, <2>1, <1>0, <1>1
    <3>1. k \in D
      BY <3>0, <1>2, <1>7, <1>D
    <3> QED BY <3>1, <2>1, <1>4
  <2>2. CASE k > n
    <3>1. k # n + 1
      BY <1>2, <1>7
    <3>2. k - 1 \in (n + 1)..(n + Len(b) - 1) /\ k \in Nat
      BY <3>1, <2>2, <1>0, <1>1
    <3>3. new[k - 1] = told[k]
      BY <3>2, <1>3, <1>0, SMTT(60)
    <3>4. k - 1 \in D
      BY <3>2, <3>3, <1>0, <1>1, <1>7, <1>D, SMTT(60)
    <3>5. f[k - 1] = k - 1 + 1
      BY <3>4, <3>2, <1>0, <1>4
    <3> QED BY <3>4, <3>5, <2>0, <1>4
  <2> QED BY <2>0, <2>1, <2>2, <1>0
<1>8. Flow(new, p, t)
  BY ONLY <1>1, <1>4, <1>5, <1>6, <1>7, <1>a, <1>b, FlowMoves
<1> QED BY <1>8

\* What was told is unchanged, and so is what the readers of the terminal hold.
LEMMA FlowKept ==
  ASSUME NEW told, NEW p, NEW t, NEW x, Flow(told, p, t),
         x.chunk = t.chunk, x.next = t.next,
         t.state = "CLOSED" /\ t.monitor = "done" => x.state = "CLOSED" /\ x.monitor = "done"
  PROVE  Flow(told, p, x)
  BY DEF Flow, Intact, InReader

\* The next output of a stream is told: it is new, it is the last of its stream so
\* far, and its reader has nothing else in hand.
LEMMA FlowOutput ==
  ASSUME NEW told \in Seq(Events \cup Replies), NEW p \in Ptys,
         NEW t \in Terminal, NEW x \in Terminal, NEW s \in Streams, NEW n \in 1..MaxOutputs,
         Flow(told, p, t), t.state # "CLOSED",
         \A i \in Places(told, p, "output") :
           told[i].number # n /\ (told[i].stream = s => told[i].number < n),
         n \notin InReader(x), InReader(x) \cup {n} = InReader(t) \cup {n},
         1..(x.next - 1) = (1..(t.next - 1)) \cup {n},
         x.chunk[s] = 0, \A r \in Streams : x.chunk[r] # 0 => x.chunk[r] = t.chunk[r]
  PROVE  Flow(Append(told, Output(p, s, n)), p, x)
<1>m. PICK m : m = Output(p, s, n)
  OBVIOUS
<1>n. PICK new : new = Append(told, m)
  OBVIOUS
<1>1. /\ m \in Events \cup Replies /\ m.pty = p /\ m.kind = "output"
      /\ m.number = n /\ m.stream = s
  BY <1>m DEF Output, Events, Outputs
<1>2. /\ new[Len(told) + 1] = m
      /\ \A i \in 1..Len(told) : new[i] = told[i]
      /\ Places(told, p, "output") \subseteq 1..Len(told)
      /\ Places(new, p, "output") = Places(told, p, "output") \cup {Len(told) + 1}
      /\ Places(new, p, "closed") = Places(told, p, "closed")
  <2>1. /\ new[Len(told) + 1] = m /\ \A i \in 1..Len(told) : new[i] = told[i]
        /\ Len(told) \in Nat /\ Len(told) + 1 \notin 1..Len(told)
        /\ DOMAIN told = 1..Len(told) /\ DOMAIN new = 1..Len(told) \cup {Len(told) + 1}
    BY <1>1, <1>n
  <2> QED BY ONLY <1>1, <2>1 DEF Places
<1>3. Places(told, p, "closed") = {} /\ Len(told) \in Nat
  BY DEF Flow
<1>4. \A i \in Places(told, p, "output") :
        /\ i \in 1..Len(told) /\ new[i] = told[i]
        /\ told[i].number \in 1..MaxOutputs /\ told[i].stream \in Streams
  BY <1>2, FlowTyped
<1>5. {new[i].number : i \in Places(new, p, "output")}
        = {told[i].number : i \in Places(told, p, "output")} \cup {n}
  BY <1>1, <1>2, <1>4
<1>6. \A i, j \in Places(new, p, "output") :
        i < j => /\ new[i].number # new[j].number
                 /\ new[i].stream = new[j].stream => new[i].number < new[j].number
  <2> SUFFICES ASSUME NEW i \in Places(new, p, "output"), NEW j \in Places(new, p, "output"),
                      i < j
               PROVE  /\ new[i].number # new[j].number
                      /\ new[i].stream = new[j].stream => new[i].number < new[j].number
    OBVIOUS
  <2>1. i \in Places(told, p, "output")
    BY <1>2, <1>3, <1>4
  <2>2. CASE j = Len(told) + 1
    BY <2>1, <2>2, <1>1, <1>2, <1>4
  <2>3. CASE j \in Places(told, p, "output")
    BY <2>1, <2>3, <1>4 DEF Flow, Intact
  <2> QED BY <2>2, <2>3, <1>2
<1>7. /\ {new[i].number : i \in Places(new, p, "output")} \cup InReader(x) = 1..(x.next - 1)
      /\ {new[i].number : i \in Places(new, p, "output")} \cap InReader(x) = {}
  <2>1. PICK N : N = {told[i].number : i \in Places(told, p, "output")}
    OBVIOUS
  <2>2. N \cup InReader(t) = 1..(t.next - 1) /\ N \cap InReader(t) = {}
    BY <2>1 DEF Flow, Intact
  <2>3. (N \cup {n}) \cup InReader(x) = 1..(x.next - 1) /\ (N \cup {n}) \cap InReader(x) = {}
    BY <2>2
  <2> QED BY <2>1, <2>3, <1>5
<1>8. \A i \in Places(new, p, "output") :
        x.chunk[new[i].stream] # 0 => new[i].number < x.chunk[new[i].stream]
  <2> TAKE i \in Places(new, p, "output")
  <2>1. CASE i = Len(told) + 1
    BY <2>1, <1>1, <1>2
  <2>2. CASE i \in Places(told, p, "output")
    BY <2>2, <1>4 DEF Flow
  <2> QED BY <2>1, <2>2, <1>2
<1>9. Places(new, p, "closed") = {}
  BY <1>2, <1>3
<1>10. Intact(new, p, x)
  BY <1>6, <1>7, <1>9 DEF Intact
<1>11. Flow(new, p, x)
  BY <1>8, <1>9, <1>10 DEF Flow
<1> QED BY <1>11, <1>m, <1>n

\* A reader draws a number, and waits with its chunk.
LEMMA FlowHeld ==
  ASSUME NEW told \in Seq(Events \cup Replies), NEW p \in Ptys,
         NEW t \in Terminal, NEW x \in Terminal, NEW s \in Streams,
         Flow(told, p, t), t.state # "CLOSED", t.chunk[s] = 0,
         x.chunk = [t.chunk EXCEPT ![s] = t.next], x.next = t.next + 1
  PROVE  Flow(told, p, x)
<1>1. /\ t.next \in Nat \ {0} /\ t.chunk \in [Streams -> 0..MaxOutputs]
      /\ 1..(x.next - 1) = (1..(t.next - 1)) \cup {t.next}
  BY SMTT(60) DEF Terminal
<1>2. InReader(x) = InReader(t) \cup {t.next}
  BY <1>1 DEF InReader
<1>3. PICK N : N = {told[i].number : i \in Places(told, p, "output")}
  OBVIOUS
<1>4. N \cup InReader(t) = 1..(t.next - 1) /\ N \cap InReader(t) = {}
  BY <1>3 DEF Flow, Intact
<1>5. t.next \notin N
  BY <1>1, <1>4
<1>6. N \cup InReader(x) = 1..(x.next - 1) /\ N \cap InReader(x) = {}
  BY <1>1, <1>2, <1>4, <1>5
<1>7. Places(told, p, "closed") = {}
  BY DEF Flow
<1>8. Intact(told, p, x)
  BY <1>3, <1>6, <1>7 DEF Flow, Intact
<1>9. \A i \in Places(told, p, "output") : told[i].number < t.next /\ told[i].stream \in Streams
  <2> TAKE i \in Places(told, p, "output")
  <2>1. told[i].number \in 1..(t.next - 1)
    BY <1>3, <1>4
  <2> QED BY <2>1, <1>1, FlowTyped
<1>10. \A i \in Places(told, p, "output") :
         x.chunk[told[i].stream] # 0 => told[i].number < x.chunk[told[i].stream]
  BY <1>1, <1>9 DEF Flow
<1> QED BY <1>7, <1>8, <1>10 DEF Flow

\* The end of a terminal is told.
LEMMA FlowClosed ==
  ASSUME NEW told \in Seq(Events \cup Replies), NEW p \in Ptys,
         NEW t \in Terminal, NEW x \in Terminal,
         Flow(told, p, t), t.monitor # "done", InReader(t) = {},
         x.chunk = t.chunk, x.next = t.next, x.state = "CLOSED", x.monitor = "done"
  PROVE  Flow(Append(told, Closed(p)), p, x)
<1>m. PICK m : m = Closed(p)
  OBVIOUS
<1>n. PICK new : new = Append(told, m)
  OBVIOUS
<1>1. m \in Events \cup Replies /\ m.pty = p /\ m.kind = "closed"
  BY <1>m DEF Closed, Events
<1>2. /\ \A i \in 1..Len(told) : new[i] = told[i]
      /\ Places(told, p, "output") \subseteq 1..Len(told)
      /\ Places(new, p, "output") = Places(told, p, "output")
      /\ Places(new, p, "closed") = Places(told, p, "closed") \cup {Len(told) + 1}
  <2>1. /\ new[Len(told) + 1] = m /\ \A i \in 1..Len(told) : new[i] = told[i]
        /\ Len(told) \in Nat /\ Len(told) + 1 \notin 1..Len(told)
        /\ DOMAIN told = 1..Len(told) /\ DOMAIN new = 1..Len(told) \cup {Len(told) + 1}
    BY <1>1, <1>n
  <2> QED BY ONLY <1>1, <2>1 DEF Places
<1>3. Places(told, p, "closed") = {} /\ Len(told) \in Nat /\ InReader(x) = {}
  BY DEF Flow, InReader
<1>4. {new[i].number : i \in Places(new, p, "output")}
        = {told[i].number : i \in Places(told, p, "output")}
  BY <1>2
<1>5. Intact(new, p, x)
  BY <1>2, <1>3, <1>4, SMTT(60) DEF Flow, Intact
<1>6. Flow(new, p, x)
  BY <1>2, <1>5 DEF Flow
<1> QED BY <1>6, <1>m, <1>n

-----------------------------------------------------------------------------
(* One terminal at a time *)

\* The queue to the desktop, and what was taken from it.
QueueTyped ==
  /\ outbound \in Seq(Events \cup Replies) /\ Len(outbound) <= Capacity
  /\ taken \in [Ptys -> Seq(Events)]

\* What the invariant says of terminals and of what was told of them.
TerminalsKept == pty \in [Ptys -> Terminal] /\ TerminalsSane /\ OutputsFlow /\ QueueTyped

\* The queue stays within its bound.
LEMMA QueueSteps ==
  ASSUME TerminalInv
  PROVE  /\ UNCHANGED <<taken, outbound>> => QueueTyped'
         /\ \A m \in Events \cup Replies : Publish(m) /\ UNCHANGED taken => QueueTyped'
         /\ \A c : Take(c) => QueueTyped'
<1>1. QueueTyped
  BY DEF TerminalInv, TerminalsTyped, QueueTyped
<1>2. UNCHANGED <<taken, outbound>> => QueueTyped'
  BY <1>1 DEF QueueTyped
<1>3. ASSUME NEW m \in Events \cup Replies, Publish(m), UNCHANGED taken
      PROVE  QueueTyped'
  <2>1. Len(outbound) < Capacity /\ outbound' = Append(outbound, m) /\ Capacity \in Nat
    BY <1>3, LimitsAssumption DEF Publish, Room
  <2> QED BY <1>1, <1>3, <2>1 DEF QueueTyped
<1>4. ASSUME NEW c, Take(c)
      PROVE  QueueTyped'
  <2>1. PICK m : m = Head(outbound)
    OBVIOUS
  <2>2. outbound # <<>> /\ outbound' = Tail(outbound)
        /\ taken' = IF OfPty(m) THEN [taken EXCEPT ![m.pty] = Append(@, m)] ELSE taken
    BY <1>4, <2>1 DEF Take
  <2>3. m \in Events \cup Replies
    BY <1>1, <2>1, <2>2 DEF QueueTyped
  <2>4. OfPty(m) => m \in Events /\ m.pty \in Ptys
    BY <2>3 DEF OfPty, Events, Outputs, Replies
  <2>5. taken' \in [Ptys -> Seq(Events)]
    BY <1>1, <2>2, <2>4 DEF QueueTyped
  <2>6. outbound' \in Seq(Events \cup Replies) /\ Len(outbound') <= Capacity
    BY <1>1, <2>2, LimitsAssumption DEF QueueTyped
  <2> QED BY <2>5, <2>6 DEF QueueTyped
<1> QED BY <1>2, <1>3, <1>4

\* A terminal changes, and nothing is told.
LEMMA QuietStep ==
  ASSUME TerminalInv, NEW p \in Ptys, NEW x \in Terminal, Sane(x),
         pty' = [pty EXCEPT ![p] = x], UNCHANGED <<taken, outbound>>, Flow(Told(p), p, x)
  PROVE  TerminalsKept'
<1>1. pty \in [Ptys -> Terminal] /\ TerminalsSane /\ OutputsFlow
  BY DEF TerminalInv, TerminalsTyped
<1>2. /\ pty' \in [Ptys -> Terminal] /\ pty'[p] = x
      /\ \A q \in Ptys : q # p => pty'[q] = pty[q]
  BY <1>1, OnePty
<1>3. TerminalsSane'
  BY <1>1, <1>2 DEF TerminalsSane
<1>4. \A q \in Ptys : Told(q)' = Told(q)
  BY DEF Told
<1>5. \A q \in Ptys : Flow(Told(q)', q, pty'[q])
  BY <1>1, <1>2, <1>4 DEF OutputsFlow
<1> QED BY <1>2, <1>3, <1>5, QueueSteps DEF TerminalsKept, OutputsFlow

\* A terminal changes, and a message about it is told.
LEMMA TellingStep ==
  ASSUME TerminalInv, NEW p \in Ptys, NEW x \in Terminal, Sane(x),
         pty' = [pty EXCEPT ![p] = x], NEW m \in Events \cup Replies, m.pty = p,
         Publish(m), UNCHANGED taken, Flow(Append(Told(p), m), p, x)
  PROVE  TerminalsKept'
<1>1. pty \in [Ptys -> Terminal] /\ TerminalsSane /\ OutputsFlow /\ TerminalsTyped
  BY DEF TerminalInv, TerminalsTyped
<1>2. /\ pty' \in [Ptys -> Terminal] /\ pty'[p] = x
      /\ \A q \in Ptys : q # p => pty'[q] = pty[q]
  BY <1>1, OnePty
<1>3. TerminalsSane'
  BY <1>1, <1>2 DEF TerminalsSane
<1>4. \A q \in Ptys : Told(q)' = Append(Told(q), m)
  BY <1>1, PublishTold
<1>5. ASSUME NEW q \in Ptys PROVE Flow(Told(q)', q, pty'[q])
  <2>1. CASE q = p
    BY <2>1, <1>2, <1>4
  <2>2. CASE q # p
    <3>1. Told(q) \in Seq(Events \cup Replies) /\ pty[q] \in Terminal /\ Flow(Told(q), q, pty[q])
      BY <1>1, ToldTyped DEF OutputsFlow
    <3>2. ~About(m, q)
      BY <2>2 DEF About
    <3>3. Flow(Append(Told(q), m), q, pty[q])
      BY <3>1, <3>2, FlowAppendsOther
    <3> QED BY <3>3, <2>2, <1>2, <1>4
  <2> QED BY <2>1, <2>2
<1> QED BY <1>2, <1>3, <1>5, QueueSteps DEF TerminalsKept, OutputsFlow

\* What is told is about no terminal.
LEMMA OtherStep ==
  ASSUME TerminalInv, UNCHANGED <<pty, taken>>, NEW m \in Events \cup Replies,
         m.kind \in {"status", "result"}, Publish(m)
  PROVE  TerminalsKept'
<1>1. pty \in [Ptys -> Terminal] /\ TerminalsSane /\ OutputsFlow /\ TerminalsTyped
  BY DEF TerminalInv, TerminalsTyped
<1>2. TerminalsSane'
  BY <1>1 DEF TerminalsSane
<1>3. ASSUME NEW q \in Ptys PROVE Flow(Told(q)', q, pty[q])
  <2>1. Told(q) \in Seq(Events \cup Replies) /\ pty[q] \in Terminal /\ Flow(Told(q), q, pty[q])
    BY <1>1, ToldTyped DEF OutputsFlow
  <2>2. ~About(m, q)
    BY DEF About
  <2>3. Flow(Append(Told(q), m), q, pty[q])
    BY <2>1, <2>2, FlowAppendsOther
  <2> QED BY <2>3, <1>1, PublishTold
<1> QED BY <1>1, <1>2, <1>3, QueueSteps DEF TerminalsKept, OutputsFlow

\* A desktop takes what is first.
LEMMA TakingStep ==
  ASSUME TerminalInv, NEW c, Take(c)
  PROVE  TerminalsKept'
<1>1. pty \in [Ptys -> Terminal] /\ TerminalsSane /\ OutputsFlow /\ TerminalsTyped
  BY DEF TerminalInv, TerminalsTyped
<1>2. TerminalsSane' /\ pty' = pty
  BY <1>1 DEF TerminalsSane, Take
<1>3. ASSUME NEW q \in Ptys PROVE Flow(Told(q)', q, pty[q])
  <2>1. Flow(Told(q), q, pty[q]) /\ pty[q] \in Terminal
    BY <1>1 DEF OutputsFlow
  <2>2. CASE OfPty(Head(outbound)) /\ Head(outbound).pty = q
    BY <2>1, <2>2, <1>1, TakeTold
  <2>3. CASE ~(OfPty(Head(outbound)) /\ Head(outbound).pty = q)
    <3>1. Told(q)' = taken[q] \o Tail(outbound)
      BY <2>3, <1>1, TakeTold
    <3>2. /\ taken[q] \in Seq(Events \cup Replies)
          /\ outbound \in Seq(Events \cup Replies) /\ outbound # <<>>
      BY <1>1 DEF TerminalsTyped, Take
    <3>3. ~About(Head(outbound), q)
      BY <2>3 DEF About, OfPty
    <3>4. Flow(taken[q] \o outbound, q, pty[q])
      BY <2>1 DEF Told
    <3>5. Flow(taken[q] \o Tail(outbound), q, pty[q])
      BY <3>2, <3>3, <3>4, <2>1, FlowTakesOther
    <3> QED BY <3>1, <3>5
  <2> QED BY <2>2, <2>3
<1> QED BY <1>1, <1>2, <1>3, QueueSteps DEF TerminalsKept, OutputsFlow

\* All terminals change, but not what they have told and hold.
LEMMA EveryPtyStep ==
  ASSUME TerminalInv, UNCHANGED <<taken, outbound>>, pty' \in [Ptys -> Terminal],
         \A p \in Ptys :
           /\ Sane(pty'[p])
           /\ pty'[p].chunk = pty[p].chunk /\ pty'[p].next = pty[p].next
           /\ pty'[p].state = pty[p].state /\ pty'[p].monitor = pty[p].monitor
  PROVE  TerminalsKept'
<1>1. OutputsFlow
  BY DEF TerminalInv
<1>2. \A q \in Ptys : Told(q)' = Told(q)
  BY DEF Told
<1>3. \A q \in Ptys : Flow(Told(q), q, pty[q])
  BY <1>1 DEF OutputsFlow
<1>4. \A q \in Ptys : Flow(Told(q), q, pty'[q])
  BY <1>3, FlowKept
<1> QED BY <1>2, <1>4, QueueSteps DEF TerminalsKept, OutputsFlow, TerminalsSane

\* What holds of a terminal alone, and of what it is made of.
LEMMA PtyParts ==
  ASSUME TerminalInv, NEW p \in Ptys
  PROVE  /\ pty[p] \in Terminal /\ Sane(pty[p]) /\ Flow(Told(p), p, pty[p])
         /\ Told(p) \in Seq(Events \cup Replies)
         /\ pty \in [Ptys -> Terminal]
  BY ToldTyped DEF TerminalInv, TerminalsTyped, TerminalsSane, OutputsFlow

\* An action that tells nothing, draws no number and keeps no chunk changes one
\* terminal to x: it need only be sane, and stay at its end.
LEMMA PlainStep ==
  ASSUME TerminalInv, NEW p \in Ptys, NEW x \in Terminal, Sane(x),
         pty' = [pty EXCEPT ![p] = x], UNCHANGED <<taken, outbound>>,
         x.chunk = pty[p].chunk, x.next = pty[p].next,
         pty[p].state = "CLOSED" /\ pty[p].monitor = "done" =>
           x.state = "CLOSED" /\ x.monitor = "done"
  PROVE  TerminalsKept'
<1>1. Flow(Told(p), p, x)
  BY PtyParts, FlowKept
<1> QED BY <1>1, QuietStep

\* The request to open a terminal, and its answer.
LEMMA OpeningSteps ==
  ASSUME TerminalInv, NEW p \in Ptys, RequestOpen(p) \/ Opened(p) \/ OpenFails(p)
  PROVE  TerminalsKept'
<1>t. PICK t : t = pty[p]
  OBVIOUS
<1>1. t \in Terminal /\ Sane(t)
  BY <1>t, PtyParts
<1>2. CASE RequestOpen(p)
  <2>1. PICK x : x = [t EXCEPT !.state = "opening"]
    OBVIOUS
  <2>2. t.state = "none"
    BY <1>2, <1>t DEF RequestOpen
  <2>3. x \in Terminal /\ Sane(x) /\ x.chunk = t.chunk /\ x.next = t.next
    BY <1>1, <2>1, <2>2 DEF Terminal, Sane
  <2>4. pty' = [pty EXCEPT ![p] = x] /\ UNCHANGED <<taken, outbound>>
    BY <1>2, <1>t, <2>1 DEF RequestOpen, OnlyPty, historyVars
  <2> QED BY <1>t, <2>2, <2>3, <2>4, PlainStep
<1>3. CASE Opened(p)
  <2>1. PICK x : x = [t EXCEPT !.state = "OPEN", !.listed = TRUE, !.child = TRUE,
                               !.channel = "running", !.monitor = "readers",
                               !.reader = [s \in Streams |-> "reading"]]
    OBVIOUS
  <2>2. t.state = "opening"
    BY <1>3, <1>t DEF Opened
  <2>3. x \in Terminal /\ Sane(x) /\ x.chunk = t.chunk /\ x.next = t.next
    BY <1>1, <2>1, <2>2, ZenonT(60) DEF Terminal, Sane
  <2>4. pty' = [pty EXCEPT ![p] = x] /\ UNCHANGED <<taken, outbound>>
    BY <1>3, <1>t, <2>1 DEF Opened, OnlyPty, historyVars
  <2> QED BY <1>t, <2>2, <2>3, <2>4, PlainStep
<1>4. CASE OpenFails(p)
  <2>1. PICK x : x = [t EXCEPT !.state = "failed"]
    OBVIOUS
  <2>2. t.state = "opening"
    BY <1>4, <1>t DEF OpenFails
  <2>3. x \in Terminal /\ Sane(x) /\ x.chunk = t.chunk /\ x.next = t.next
    BY <1>1, <2>1, <2>2 DEF Terminal, Sane
  <2>4. pty' = [pty EXCEPT ![p] = x] /\ UNCHANGED <<taken, outbound>>
    BY <1>4, <1>t, <2>1 DEF OpenFails, OnlyPty, historyVars
  <2> QED BY <1>t, <2>2, <2>3, <2>4, PlainStep
<1> QED BY <1>2, <1>3, <1>4

\* The readers: a chunk is told at once, or waits, and is told when there is room.
LEMMA ReadingSteps ==
  ASSUME TerminalInv, NEW p \in Ptys, NEW s \in Streams, Read(p, s) \/ Put(p, s) \/ ReadEnds(p, s)
  PROVE  TerminalsKept'
<1>t. PICK t : t = pty[p]
  OBVIOUS
<1>a. PICK told : told = Told(p)
  OBVIOUS
<1>1. /\ t \in Terminal /\ Sane(t) /\ Flow(told, p, t)
      /\ told \in Seq(Events \cup Replies) /\ pty \in [Ptys -> Terminal]
  BY <1>t, <1>a, PtyParts
<1>2. /\ t.next \in 1..(MaxOutputs + 1) /\ t.chunk \in [Streams -> 0..MaxOutputs]
      /\ MaxOutputs \in Nat
  BY <1>1, LimitsAssumption DEF Terminal
<1>3. \A i \in Places(told, p, "output") : told[i].number \in 1..(t.next - 1) \ InReader(t)
  BY <1>1 DEF Flow, Intact
<1>4. CASE Read(p, s)
  <2>1. t.reader[s] = "reading" /\ t.next <= MaxOutputs
    BY <1>4, <1>t DEF Read
  <2>2. t.state # "CLOSED" /\ t.chunk[s] = 0 /\ \A r \in Streams : t.chunk[r] < t.next
    BY <1>1, <2>1 DEF Sane
  <2>3. CASE Publish(Output(p, s, t.next))
    <3>1. PICK x : x = [t EXCEPT !.next = t.next + 1]
      OBVIOUS
    <3>2. /\ x \in Terminal /\ Sane(x) /\ x.chunk = t.chunk /\ x.next = t.next + 1
      <4>1. x \in Terminal /\ x.chunk = t.chunk /\ x.next = t.next + 1
        <5>1. t.next + 1 \in 1..MaxOutputs + 1
          BY <1>2, <2>1
        <5>2. t \in Terminal
          BY <1>1
        <5> QED BY ONLY <5>1, <5>2, <3>1 DEF Terminal
      <4>2. /\ x.state = t.state /\ x.listed = t.listed /\ x.reader = t.reader
            /\ x.monitor = t.monitor /\ x.channel = t.channel /\ x.close = t.close
        BY <1>1, <3>1 DEF Terminal
      <4>3. \A r \in Streams : x.chunk[r] < x.next
        BY <1>2, <2>2, <4>1
      <4> QED BY <1>1, <4>1, <4>2, <4>3 DEF Sane
    <3>3. PICK m : m = Output(p, s, t.next)
      OBVIOUS
    <3>4. m \in Events \cup Replies /\ m.pty = p
      BY <1>2, <2>1, <3>3 DEF Output, Events, Outputs
    <3>5. \A i \in Places(told, p, "output") : told[i].number # t.next /\ told[i].number < t.next
      BY <1>2, <1>3
    <3>6. InReader(x) = InReader(t) /\ t.next \notin InReader(x)
      BY <1>2, <2>2, <3>2 DEF InReader
    <3>7. 1..(x.next - 1) = (1..(t.next - 1)) \cup {t.next} /\ t.next \in 1..MaxOutputs
      BY <1>2, <2>1, <3>2
    <3>8. Flow(Append(told, Output(p, s, t.next)), p, x)
      BY <1>1, <2>2, <3>2, <3>5, <3>6, <3>7, FlowOutput
    <3>9. pty' = [pty EXCEPT ![p] = x] /\ UNCHANGED taken
      BY <1>4, <1>t, <2>1, <2>2, <2>3, <3>1 DEF Read, OnlyPty, historyVars, Publish
    <3> QED BY <1>a, <2>3, <3>2, <3>3, <3>4, <3>8, <3>9, TellingStep
  <2>4. CASE /\ UNCHANGED outbound
             /\ pty' = [pty EXCEPT ![p] = [@ EXCEPT !.reader[s] = "putting",
                                                    !.chunk[s] = pty[p].next,
                                                    !.next = pty[p].next + 1]]
    <3>1. PICK x : x = [t EXCEPT !.reader = [t.reader EXCEPT ![s] = "putting"],
                                 !.chunk = [t.chunk EXCEPT ![s] = t.next], !.next = t.next + 1]
      OBVIOUS
    <3>2. /\ x \in Terminal /\ Sane(x) /\ x.chunk = [t.chunk EXCEPT ![s] = t.next]
          /\ x.next = t.next + 1
      <4>1. /\ x \in Terminal /\ x.chunk = [t.chunk EXCEPT ![s] = t.next]
            /\ x.next = t.next + 1 /\ x.reader = [t.reader EXCEPT ![s] = "putting"]
        <5>1. /\ t.next + 1 \in 1..MaxOutputs + 1
              /\ [t.chunk EXCEPT ![s] = t.next] \in [Streams -> 0..MaxOutputs]
          BY <1>2, <2>1
        <5>2. [t.reader EXCEPT ![s] = "putting"]
                \in [Streams -> {"none", "reading", "putting", "done", "raised"}]
          BY <1>1 DEF Terminal
        <5>3. t \in Terminal
          BY <1>1
        <5> QED BY ONLY <5>1, <5>2, <5>3, <3>1 DEF Terminal
      <4>2. /\ x.state = t.state /\ x.listed = t.listed
            /\ x.monitor = t.monitor /\ x.channel = t.channel /\ x.close = t.close
        BY <1>1, <3>1 DEF Terminal
      <4>3. \A r \in Streams : /\ x.chunk[r] < x.next /\ (x.chunk[r] # 0 <=> x.reader[r] = "putting")
                               /\ r # s => x.chunk[r] = t.chunk[r] /\ x.chunk[r] # t.next
        BY <1>1, <1>2, <2>2, <4>1 DEF Sane, Terminal
      <4>4. \A r, q \in Streams : r # q /\ x.chunk[r] = x.chunk[q] => x.chunk[r] = 0
        BY <1>1, <1>2, <4>1, <4>3 DEF Sane
      <4>5. x.state \notin {"none", "opening", "failed", "CLOSED"}
        BY <1>1, <2>1, <2>2, <4>2 DEF Sane
      <4>6. /\ x.listed <=> x.monitor \in {"readers", "publishing"}
            /\ x.monitor = "publishing" => x.state = "CLOSED"
            /\ x.close = "done" => x.monitor = "done"
        BY <1>1, <4>2 DEF Sane
      <4> QED BY <4>1, <4>3, <4>4, <4>5, <4>6 DEF Sane
    <3>3. Flow(told, p, x)
      BY <1>1, <2>2, <3>2, FlowHeld
    <3>4. pty' = [pty EXCEPT ![p] = x] /\ UNCHANGED <<taken, outbound>>
      <4>1. [pty[p] EXCEPT !.reader[s] = "putting", !.chunk[s] = pty[p].next,
                       !.next = pty[p].next + 1] = x
        BY <1>1, <1>t, <3>1 DEF Terminal
      <4>2. pty' = [pty EXCEPT ![p] = x]
        BY ONLY <2>4, <4>1
      <4> QED BY <1>4, <2>4, <4>1, <4>2 DEF Read, OnlyPty, historyVars
    <3> QED BY <1>a, <3>2, <3>3, <3>4, QuietStep
  <2> QED BY <1>4, <1>t, <2>3, <2>4 DEF Read
<1>5. CASE Put(p, s)
  <2>1. t.reader[s] = "putting"
    BY <1>5, <1>t DEF Put
  <2>2. PICK n : n = t.chunk[s]
    OBVIOUS
  <2>3. /\ t.state # "CLOSED" /\ n \in 1..MaxOutputs /\ n < t.next
        /\ \A r \in Streams : r # s => t.chunk[r] # n
    BY <1>1, <1>2, <2>1, <2>2 DEF Sane
  <2>4. PICK x : x = [t EXCEPT !.reader = [t.reader EXCEPT ![s] = "reading"],
                               !.chunk = [t.chunk EXCEPT ![s] = 0]]
    OBVIOUS
  <2>5. x \in Terminal /\ Sane(x) /\ x.chunk = [t.chunk EXCEPT ![s] = 0] /\ x.next = t.next
    <3>1. /\ x \in Terminal /\ x.chunk = [t.chunk EXCEPT ![s] = 0] /\ x.next = t.next
          /\ x.reader = [t.reader EXCEPT ![s] = "reading"]
      <4>1. [t.chunk EXCEPT ![s] = 0] \in [Streams -> 0..MaxOutputs]
        BY <1>2
      <4>2. [t.reader EXCEPT ![s] = "reading"]
              \in [Streams -> {"none", "reading", "putting", "done", "raised"}]
        BY <1>1 DEF Terminal
      <4>3. t \in Terminal
        BY <1>1
      <4> QED BY ONLY <4>1, <4>2, <4>3, <2>4 DEF Terminal
    <3>2. /\ x.state = t.state /\ x.listed = t.listed
          /\ x.monitor = t.monitor /\ x.channel = t.channel /\ x.close = t.close
      BY <1>1, <2>4 DEF Terminal
    <3>3. \A r \in Streams : /\ x.chunk[r] < x.next /\ (x.chunk[r] # 0 <=> x.reader[r] = "putting")
                             /\ r # s => x.chunk[r] = t.chunk[r]
      BY <1>1, <1>2, <3>1 DEF Sane, Terminal
    <3>4. \A r, q \in Streams : r # q /\ x.chunk[r] = x.chunk[q] => x.chunk[r] = 0
      BY <1>1, <1>2, <3>1, <3>3 DEF Sane
    <3>5. x.state \notin {"none", "opening", "failed", "CLOSED"}
      BY <1>1, <2>1, <2>3, <3>2 DEF Sane
    <3>6. /\ x.listed <=> x.monitor \in {"readers", "publishing"}
          /\ x.monitor = "publishing" => x.state = "CLOSED"
          /\ x.close = "done" => x.monitor = "done"
      BY <1>1, <3>2 DEF Sane
    <3> QED BY <3>1, <3>3, <3>4, <3>5, <3>6 DEF Sane
  <2>6. PICK m : m = Output(p, s, n)
    OBVIOUS
  <2>7. m \in Events \cup Replies /\ m.pty = p
    BY <2>3, <2>6 DEF Output, Events, Outputs
  <2>8. \A i \in Places(told, p, "output") :
          told[i].number # n /\ (told[i].stream = s => told[i].number < n)
    <3>1. n \in InReader(t) /\ n # 0
      BY <2>2, <2>3 DEF InReader
    <3> QED BY <3>1, <1>1, <1>3, <2>2 DEF Flow
  <2>9. n \notin InReader(x) /\ InReader(x) \cup {n} = InReader(t) \cup {n}
    BY <1>2, <2>2, <2>3, <2>5 DEF InReader
  <2>10. 1..(x.next - 1) = (1..(t.next - 1)) \cup {n}
    BY <1>2, <2>3, <2>5
  <2>11. x.chunk[s] = 0 /\ \A r \in Streams : x.chunk[r] # 0 => x.chunk[r] = t.chunk[r]
    BY <1>2, <2>5
  <2>12. Flow(Append(told, Output(p, s, n)), p, x)
    BY <1>1, <2>3, <2>5, <2>8, <2>9, <2>10, <2>11, FlowOutput
  <2>13. pty' = [pty EXCEPT ![p] = x] /\ UNCHANGED taken /\ Publish(m)
    BY <1>5, <1>t, <1>1, <2>2, <2>4, <2>6 DEF Put, OnlyPty, historyVars
  <2> QED BY <1>a, <2>5, <2>6, <2>7, <2>12, <2>13, TellingStep
<1>6. CASE ReadEnds(p, s)
  <2>1. PICK x : x = [t EXCEPT !.reader = [t.reader EXCEPT ![s] =
                        IF t.channel = "ended" THEN "done" ELSE "raised"]]
    OBVIOUS
  <2>2. t.reader[s] = "reading"
    BY <1>6, <1>t DEF ReadEnds
  <2>3. x \in Terminal /\ Sane(x) /\ x.chunk = t.chunk /\ x.next = t.next /\ t.state # "CLOSED"
    <3>1. PICK ends : ends = IF t.channel = "ended" THEN "done" ELSE "raised"
      OBVIOUS
    <3>2. PICK reader : reader = [t.reader EXCEPT ![s] = ends]
      OBVIOUS
    <3>3. /\ t.reader \in [Streams -> {"none", "reading", "putting", "done", "raised"}]
          /\ ends \in {"done", "raised"}
      BY <1>1, <3>1 DEF Terminal
    <3>4. /\ reader \in [Streams -> {"none", "reading", "putting", "done", "raised"}]
          /\ reader[s] \in {"done", "raised"}
          /\ \A q \in Streams : q # s => reader[q] = t.reader[q]
      BY <3>2, <3>3
    <3>5. x = [t EXCEPT !.reader = reader]
      BY <2>1, <3>1, <3>2
    <3>6. /\ x.reader = reader /\ x.state = t.state /\ x.listed = t.listed /\ x.next = t.next
          /\ x.chunk = t.chunk /\ x.monitor = t.monitor /\ x.channel = t.channel
          /\ x.close = t.close
      BY <1>1, <3>5 DEF Terminal
    <3>7. x \in Terminal
      BY <1>1, <3>4, <3>5 DEF Terminal
    <3>8. t.state \notin {"none", "opening", "failed", "CLOSED"}
      BY <1>1, <2>2 DEF Sane
    <3>9. Sane(x)
      BY <1>1, <2>2, <3>4, <3>6, <3>8 DEF Sane
    <3> QED BY <3>6, <3>7, <3>8, <3>9
  <2>4. pty' = [pty EXCEPT ![p] = x] /\ UNCHANGED <<taken, outbound>>
    BY <1>6, <1>t, <1>1, <2>1 DEF ReadEnds, OnlyPty, historyVars
  <2> QED BY <1>t, <2>3, <2>4, PlainStep
<1> QED BY <1>4, <1>5, <1>6

\* The monitor ends a terminal whose streams are drained, or whose reader raised.
LEMMA EndingSteps ==
  ASSUME TerminalInv, NEW p \in Ptys, Drained(p) \/ PublishClosed(p) \/ MonitorRaises(p)
  PROVE  TerminalsKept'
<1>t. PICK t : t = pty[p]
  OBVIOUS
<1>a. PICK told : told = Told(p)
  OBVIOUS
<1>1. /\ t \in Terminal /\ Sane(t) /\ Flow(told, p, t)
      /\ told \in Seq(Events \cup Replies) /\ pty \in [Ptys -> Terminal]
  BY <1>t, <1>a, PtyParts
<1>2. CASE Drained(p)
  <2>1. PICK x : x = [t EXCEPT !.state = "CLOSED", !.monitor = "publishing"]
    OBVIOUS
  <2>2. t.monitor = "readers" /\ \A s \in Streams : t.reader[s] = "done"
    BY <1>2, <1>t DEF Drained, ReadersDone
  <2>3. x \in Terminal /\ Sane(x) /\ x.chunk = t.chunk /\ x.next = t.next
    BY <1>1, <2>1, <2>2 DEF Terminal, Sane
  <2>4. pty' = [pty EXCEPT ![p] = x] /\ UNCHANGED <<taken, outbound>>
    BY <1>2, <1>t, <2>1 DEF Drained, OnlyPty, historyVars
  <2> QED BY <1>t, <2>2, <2>3, <2>4, PlainStep
<1>f. PICK x : x = [t EXCEPT !.monitor = "done", !.listed = FALSE, !.child = FALSE]
  OBVIOUS
<1>3. CASE PublishClosed(p)
  <2>1. t.monitor = "publishing"
    BY <1>3, <1>t DEF PublishClosed
  <2>2. t.state = "CLOSED" /\ InReader(t) = {}
    BY <1>1, <2>1 DEF Sane, InReader
  <2>3. /\ x \in Terminal /\ Sane(x) /\ x.chunk = t.chunk /\ x.next = t.next
        /\ x.state = "CLOSED" /\ x.monitor = "done"
    BY <1>1, <1>f, <2>1, <2>2 DEF Terminal, Sane
  <2>4. Flow(Append(told, Closed(p)), p, x)
    BY <1>1, <2>1, <2>2, <2>3, FlowClosed
  <2>5. PICK m : m = Closed(p)
    OBVIOUS
  <2>6. m \in Events \cup Replies /\ m.pty = p
    BY <2>5 DEF Closed, Events
  <2>7. pty' = [pty EXCEPT ![p] = x] /\ UNCHANGED taken /\ Publish(m)
    BY <1>3, <1>t, <1>f, <2>5 DEF PublishClosed, Forgotten, OnlyPty, historyVars
  <2> QED BY <1>a, <2>3, <2>4, <2>5, <2>6, <2>7, TellingStep
<1>4. CASE MonitorRaises(p)
  <2>1. t.monitor = "readers" /\ \E s \in Streams : t.reader[s] = "raised"
    BY <1>4, <1>t DEF MonitorRaises
  <2>2. x \in Terminal /\ Sane(x) /\ x.chunk = t.chunk /\ x.next = t.next
    <3>1. /\ x \in Terminal /\ x.chunk = t.chunk /\ x.next = t.next /\ x.state = t.state
          /\ x.listed = FALSE /\ x.monitor = "done" /\ x.reader = t.reader
          /\ x.channel = t.channel /\ x.close = t.close
      BY <1>1, <1>f DEF Terminal
    <3>2. x.state \notin {"none", "opening", "failed", "CLOSED"}
      BY <1>1, <2>1, <3>1 DEF Sane
    <3> QED BY <1>1, <3>1, <3>2 DEF Sane
  <2>3. pty' = [pty EXCEPT ![p] = x] /\ UNCHANGED <<taken, outbound>>
    BY <1>4, <1>t, <1>f DEF MonitorRaises, Forgotten, OnlyPty, historyVars
  <2> QED BY <1>t, <2>1, <2>2, <2>3, PlainStep
<1> QED BY <1>2, <1>3, <1>4

\* A terminal is told to close, and its channel ends.
LEMMA ClosingSteps ==
  ASSUME TerminalInv, NEW p \in Ptys,
         \/ RequestClose(p) \/ CloseByForce(p) \/ CloseReturns(p) \/ ChannelEnds(p)
         \/ /\ pty[p].state = "OPEN" /\ pty[p].listed
            /\ StartClose(p) /\ UNCHANGED <<taken, outbound>>
  PROVE  TerminalsKept'
<1>t. PICK t : t = pty[p]
  OBVIOUS
<1>1. t \in Terminal /\ Sane(t)
  BY <1>t, PtyParts
<1>2. CASE RequestClose(p) \/ (/\ pty[p].state = "OPEN" /\ pty[p].listed
                              /\ StartClose(p) /\ UNCHANGED <<taken, outbound>>)
  <2>1. PICK x : x = [t EXCEPT !.close = "eof"]
    OBVIOUS
  <2>2. /\ x \in Terminal /\ Sane(x) /\ x.chunk = t.chunk /\ x.next = t.next
        /\ x.state = t.state /\ x.monitor = t.monitor
    BY <1>1, <2>1 DEF Terminal, Sane
  <2>3. pty' = [pty EXCEPT ![p] = x] /\ UNCHANGED <<taken, outbound>>
    BY <1>2, <1>t, <2>1 DEF RequestClose, StartClose, OnlyPty, historyVars
  <2> QED BY <1>t, <2>2, <2>3, PlainStep
<1>3. CASE CloseByForce(p)
  <2>1. PICK x : x = [t EXCEPT !.close = "forced"]
    OBVIOUS
  <2>2. /\ x \in Terminal /\ Sane(x) /\ x.chunk = t.chunk /\ x.next = t.next
        /\ x.state = t.state /\ x.monitor = t.monitor
    BY <1>1, <2>1 DEF Terminal, Sane
  <2>3. pty' = [pty EXCEPT ![p] = x] /\ UNCHANGED <<taken, outbound>>
    BY <1>3, <1>t, <2>1 DEF CloseByForce, OnlyPty, historyVars
  <2> QED BY <1>t, <2>2, <2>3, PlainStep
<1>4. CASE CloseReturns(p)
  <2>1. PICK x : x = [t EXCEPT !.close = "done"]
    OBVIOUS
  <2>2. t.monitor = "done"
    BY <1>4, <1>t DEF CloseReturns
  <2>3. /\ x \in Terminal /\ Sane(x) /\ x.chunk = t.chunk /\ x.next = t.next
        /\ x.state = t.state /\ x.monitor = t.monitor
    BY <1>1, <2>1, <2>2 DEF Terminal, Sane
  <2>4. pty' = [pty EXCEPT ![p] = x] /\ UNCHANGED <<taken, outbound>>
    BY <1>4, <1>t, <2>1 DEF CloseReturns, OnlyPty, historyVars
  <2> QED BY <1>t, <2>3, <2>4, PlainStep
<1>5. CASE ChannelEnds(p)
  <2>1. PICK x : x = [t EXCEPT !.channel = "ended"]
    OBVIOUS
  <2>2. t.channel = "running"
    BY <1>5, <1>t DEF ChannelEnds
  <2>3. /\ x \in Terminal /\ Sane(x) /\ x.chunk = t.chunk /\ x.next = t.next
        /\ x.state = t.state /\ x.monitor = t.monitor
    BY <1>1, <2>1, <2>2 DEF Terminal, Sane
  <2>4. pty' = [pty EXCEPT ![p] = x] /\ UNCHANGED <<taken, outbound>>
    BY <1>5, <1>t, <2>1 DEF ChannelEnds, OnlyPty, historyVars
  <2> QED BY <1>t, <2>3, <2>4, PlainStep
<1> QED BY <1>2, <1>3, <1>4, <1>5

\* The connection goes: every channel that ran has ended.
LEMMA ChannelsEndStep ==
  ASSUME TerminalInv, CloseTarget \/ ConnectionBreaks
  PROVE  /\ TerminalsKept'
         /\ \A p \in Ptys : /\ pty'[p].channel # "running"
                            /\ \/ pty'[p].channel = pty[p].channel
                               \/ pty[p].channel = "running"
                            /\ pty'[p].state = pty[p].state /\ pty'[p].listed = pty[p].listed
                            /\ pty'[p].close = pty[p].close
<1>1. ASSUME NEW p \in Ptys
      PROVE  /\ pty'[p] \in Terminal /\ Sane(pty'[p])
             /\ pty'[p].chunk = pty[p].chunk /\ pty'[p].next = pty[p].next
             /\ pty'[p].state = pty[p].state /\ pty'[p].monitor = pty[p].monitor
             /\ pty'[p].listed = pty[p].listed /\ pty'[p].close = pty[p].close
             /\ pty'[p].channel # "running"
             /\ pty'[p].channel = pty[p].channel \/ pty[p].channel = "running"
  <2>t. PICK t : t = pty[p]
    OBVIOUS
  <2>x. PICK x : x = pty'[p]
    OBVIOUS
  <2>1. t \in Terminal /\ Sane(t)
    BY <2>t, PtyParts
  <2>2. \/ x = [t EXCEPT !.child = FALSE,
                         !.channel = IF t.channel = "running" THEN "ended" ELSE t.channel]
        \/ x = [t EXCEPT !.channel = IF t.channel = "running" THEN "broken" ELSE t.channel]
    BY <2>t, <2>x, <2>1 DEF CloseTarget, ConnectionBreaks
  <2>3. /\ x \in Terminal /\ x.chunk = t.chunk /\ x.next = t.next
        /\ x.state = t.state /\ x.monitor = t.monitor /\ x.listed = t.listed
        /\ x.close = t.close /\ x.reader = t.reader
        /\ x.channel = t.channel \/ t.channel = "running"
        /\ x.channel # "running"
    BY <2>1, <2>2, ZenonT(60) DEF Terminal
  <2>4. Sane(x)
    BY <2>1, <2>3 DEF Sane
  <2> QED BY <2>t, <2>x, <2>3, <2>4
<1>2. UNCHANGED <<taken, outbound>> /\ pty' \in [Ptys -> Terminal]
  BY <1>1 DEF CloseTarget, ConnectionBreaks, historyVars
<1>3. TerminalsKept'
  BY <1>1, <1>2, EveryPtyStep
<1> QED BY <1>1, <1>3

\* Neither the terminals change nor what they are told.
LEMMA StillStep ==
  ASSUME TerminalInv, UNCHANGED <<pty, taken, outbound>>
  PROVE  TerminalsKept'
<1>1. \A q \in Ptys : Told(q)' = Told(q)
  BY DEF Told
<1> QED BY <1>1, QueueSteps DEF TerminalInv, TerminalsTyped, TerminalsKept, TerminalsSane, OutputsFlow

\* What is answered, and what is said of the session, is about no terminal.
LEMMA RepliesTyped ==
  ASSUME TerminalInv
  PROVE  /\ \A c \in Desktops : /\ conn[c].replying \in Replies \cup {Nothing}
                                /\ conn[c].replying.kind \in {"result", "nothing"}
         /\ Status("CLOSING") \in Events /\ Status("DISCONNECTED") \in Events
  BY DEF TerminalInv, TerminalsTyped, Replies, Nothing, Status, Events

\* Each step keeps the terminals sane, and of what they put out nothing is lost,
\* repeated or overtaken.
LEMMA TerminalsStayKept ==
  ASSUME TerminalInv, [TerminalNext]_terminalVars
  PROVE  TerminalsKept'
<1>1. CASE UNCHANGED terminalVars
  BY <1>1, StillStep DEF terminalVars, historyVars
<1>2. ASSUME NEW c \in Desktops, Gateway(c) PROVE TerminalsKept'
  <2>1. CASE Claim(c) \/ Receive(c) \/ Process(c) \/ End(c) \/ Release(c)
    BY <2>1, StillStep DEF Claim, Receive, Process, End, Release, historyVars
  <2>2. CASE Reply(c)
    <3>1. /\ conn[c].replying # Nothing /\ Publish(conn[c].replying)
          /\ UNCHANGED <<pty, taken>>
      BY <2>2 DEF Reply, historyVars
    <3>2. PICK m : m = conn[c].replying
      OBVIOUS
    <3>3. m \in Events \cup Replies /\ m.kind \in {"status", "result"}
      BY <3>1, <3>2, RepliesTyped DEF Nothing, Replies
    <3> QED BY <3>1, <3>2, <3>3, OtherStep
  <2>3. CASE Take(c)
    BY <2>3, TakingStep
  <2> QED BY <1>2, <2>1, <2>2, <2>3 DEF Gateway
<1>3. ASSUME NEW p \in Ptys, PtyTasks(p) \/ ChannelEnds(p) PROVE TerminalsKept'
  BY <1>3, ReadingSteps, EndingSteps, ClosingSteps DEF PtyTasks
<1>4. CASE TerminalRequests
  <2>1. CASE RequestDisconnect
    BY <2>1, StillStep DEF RequestDisconnect, historyVars
  <2> QED BY <1>4, <2>1, OpeningSteps, ClosingSteps DEF TerminalRequests
<1>5. CASE Closes
  <2>1. ASSUME NEW m, m \in {Status("CLOSING"), Status("DISCONNECTED")},
               Publish(m), UNCHANGED <<pty, taken>>
        PROVE  TerminalsKept'
    <3>1. m \in Events \cup Replies /\ m.kind \in {"status", "result"}
      BY <2>1, RepliesTyped DEF Status
    <3> QED BY <2>1, <3>1, OtherStep
  <2>2. CASE Announce
    BY <2>1, <2>2 DEF Announce, historyVars
  <2>3. CASE Disconnected
    BY <2>1, <2>3 DEF Disconnected, historyVars
  <2>4. CASE CloseTarget
    BY <2>4, ChannelsEndStep
  <2>5. CASE Shutdown \/ CloseSessions \/ Stop
    BY <2>5, StillStep DEF Shutdown, CloseSessions, Stop, OnlyExit, historyVars
  <2>6. CASE CloseNext
    <3>1. UNCHANGED <<taken, outbound>>
      BY <2>6 DEF CloseNext, OnlyExit, historyVars
    <3>2. PICK p \in Ptys :
            \/ UNCHANGED pty
            \/ pty[p].state = "OPEN" /\ pty[p].listed /\ StartClose(p)
      BY <2>6 DEF CloseNext, TerminalInv, TerminalsTyped
    <3> QED BY <3>1, <3>2, StillStep, ClosingSteps
  <2> QED BY <1>5, <2>2, <2>3, <2>4, <2>5, <2>6 DEF Closes
<1>6. CASE ConnectionBreaks
  BY <1>6, ChannelsEndStep
<1>7. CASE Exit
  BY <1>7, StillStep DEF Exit, OnlyExit, historyVars
<1> QED BY <1>1, <1>2, <1>3, <1>4, <1>5, <1>6, <1>7 DEF TerminalNext

-----------------------------------------------------------------------------
(* The types *)

\* What the desktop sends, and the endpoint of a connection.
Inputs   == [pty : Ptys, number : 1..MaxMessages]
Endpoint == [pc : {"new", "serving", "ending", "over"}, replying : Replies \cup {Nothing}]

\* Each step keeps the types.
LEMMA TypesStayKept ==
  ASSUME TerminalInv, [TerminalNext]_terminalVars
  PROVE  TerminalsTyped'
<1>1. TerminalsKept'
  BY TerminalsStayKept
<1>2. TerminalsTyped
  BY DEF TerminalInv
<1>k. ASSUME UNCHANGED <<exitVars, sessionVars>>,
             connected' \in BOOLEAN, messages' \in 0..MaxMessages, written' \in Seq(1..MaxMessages),
             conn' \in [Desktops -> Endpoint],
             inbound' \in Seq(Inputs)
      PROVE  TerminalsTyped'
  BY <1>1, <1>2, <1>k DEF TerminalsTyped, TerminalsKept, QueueTyped, exitVars, sessionVars,
                                  Inputs, Endpoint
<1>3. CASE UNCHANGED terminalVars
  BY <1>1, <1>2, <1>3 DEF TerminalsTyped, TerminalsKept, QueueTyped, terminalVars, exitVars,
                         sessionVars, historyVars
<1>e. /\ conn \in [Desktops -> Endpoint] /\ inbound \in Seq(Inputs)
      /\ \A e \in Endpoint :
           /\ \A v \in {"serving", "over"} : [e EXCEPT !.pc = v] \in Endpoint
           /\ \A r \in Replies \cup {Nothing} : [e EXCEPT !.replying = r] \in Endpoint
      /\ [pc |-> "ending", replying |-> Nothing] \in Endpoint
  BY <1>2 DEF TerminalsTyped, Endpoint, Inputs
<1>4. ASSUME NEW c \in Desktops, Gateway(c) PROVE TerminalsTyped'
  <2>1. UNCHANGED <<exitVars, sessionVars>>
    BY <1>4 DEF Gateway, Claim, Receive, Process, Reply, Take, End, Release
  <2>2. CASE Claim(c) \/ Reply(c) \/ Take(c) \/ End(c) \/ Release(c)
    <3>1. connected' \in BOOLEAN /\ UNCHANGED <<messages, written>>
      BY <1>2, <2>2 DEF Claim, Reply, Take, End, Release, TerminalsTyped, historyVars
    <3>2. conn' \in [Desktops -> Endpoint]
      <4>1. conn[c] \in Endpoint
        BY <1>e
      <4>2. \/ conn' = conn
            \/ \E v \in {"serving", "over"} : conn' = [conn EXCEPT ![c] = [conn[c] EXCEPT !.pc = v]]
            \/ conn' = [conn EXCEPT ![c] = [conn[c] EXCEPT !.replying = Nothing]]
            \/ conn' = [conn EXCEPT ![c] = [pc |-> "ending", replying |-> Nothing]]
        BY <2>2, <1>e DEF Claim, Reply, Take, End, Release, EndTasks
      <4>3. \E e \in Endpoint : conn' = conn \/ conn' = [conn EXCEPT ![c] = e]
        BY <4>1, <4>2, <1>e
      <4> QED BY <4>3, <1>e
    <3>3. inbound' \in Seq(Inputs)
      <4>1. inbound' = inbound \/ inbound' = <<>>
        BY <2>2 DEF Claim, Reply, Take, End, Release
      <4>2. inbound \in Seq(Inputs) /\ <<>> \in Seq(Inputs)
        BY <1>e
      <4> QED BY ONLY <4>1, <4>2
    <3> QED BY <1>k, <2>1, <3>1, <3>2, <3>3, <1>2 DEF TerminalsTyped
  <2>3. CASE Receive(c)
    <3>1. messages' \in 1..MaxMessages
      BY <1>2, <2>3, LimitsAssumption DEF Receive, TerminalsTyped
    <3>2. PICK p \in Ptys : inbound' = Append(inbound, [pty |-> p, number |-> messages'])
      BY <2>3 DEF Receive
    <3>3. inbound' \in Seq(Inputs)
      <4>1. PICK m : m = [pty |-> p, number |-> messages']
        OBVIOUS
      <4>2. m \in Inputs
        BY <3>1, <4>1 DEF Inputs
      <4> QED BY <1>e, <3>2, <4>1, <4>2
    <3> QED BY <1>k, <1>e, <2>1, <3>1, <3>3, <1>2, <2>3, LimitsAssumption, SMTT(60) DEF TerminalsTyped, Receive
  <2>4. CASE Process(c)
    <3>1. PICK m : m = Head(inbound)
      OBVIOUS
    <3>2. inbound # <<>> /\ inbound' = Tail(inbound) /\ UNCHANGED <<connected, messages>>
      BY <2>4 DEF Process
    <3>3. m.number \in 1..MaxMessages /\ inbound' \in Seq(Inputs)
      <4>1. m \in Inputs /\ inbound' \in Seq(Inputs)
        BY <1>e, <3>1, <3>2
      <4> QED BY <4>1 DEF Inputs
    <3>4. \A a \in BOOLEAN : Result(m.number, a) \in Replies
      BY <3>3 DEF Result, Replies
    <3>5. \/ \E r \in Replies \cup {Nothing} : conn' = [conn EXCEPT ![c].replying = r]
          \/ conn' = [conn EXCEPT ![c] = [pc |-> "ending", replying |-> Nothing]]
      BY <2>4, <3>1, <3>4 DEF Process, EndTasks
    <3>6. conn' \in [Desktops -> Endpoint]
      <4>1. conn[c] \in Endpoint
        BY <1>e
      <4>2. \E e \in Endpoint : conn' = [conn EXCEPT ![c] = e]
        BY <4>1, <3>5, <1>e
      <4> QED BY <4>2, <1>e
    <3>7. written' \in Seq(1..MaxMessages)
      <4>1. PICK n : n = m.number
        OBVIOUS
      <4>2. written' = written \/ written' = Append(written, n)
        BY <2>4, <3>1, <4>1 DEF Process
      <4>3. written \in Seq(1..MaxMessages) /\ n \in 1..MaxMessages
        BY <3>3, <1>2, <4>1 DEF TerminalsTyped
      <4>4. CASE written' = Append(written, n)
        BY ONLY <4>3, <4>4
      <4> QED BY <4>2, <4>3, <4>4
    <3> QED BY <1>k, <2>1, <3>2, <3>3, <3>6, <3>7, <1>2 DEF TerminalsTyped
  <2> QED BY <1>4, <2>2, <2>3, <2>4 DEF Gateway
<1>5. ASSUME NEW p \in Ptys,
             \/ PtyTasks(p) \/ ChannelEnds(p)
             \/ RequestOpen(p) \/ Opened(p) \/ OpenFails(p) \/ RequestClose(p)
      PROVE  TerminalsTyped'
  <2>1. OnlyPty
    BY <1>5, ZenonT(60) DEF PtyTasks, Read, Put, ReadEnds, Drained, PublishClosed, MonitorRaises,
                CloseByForce, CloseReturns, ChannelEnds, RequestOpen, Opened, OpenFails, RequestClose
  <2> QED BY <1>1, <1>2, <2>1 DEF OnlyPty, TerminalsTyped, TerminalsKept, QueueTyped,
                                 exitVars, sessionVars, historyVars
<1>6. CASE RequestDisconnect \/ Announce \/ CloseTarget \/ Disconnected \/ ConnectionBreaks
  <2>1. UNCHANGED <<exitVars, connected, conn, inbound, historyVars>>
    BY <1>6 DEF RequestDisconnect, Announce, CloseTarget, Disconnected, ConnectionBreaks
  <2>2. /\ transport' \in {"up", "broken", "closed"}
        /\ session' \in [pc : {"up", "children", "down"}, channels : SUBSET Ptys]
        /\ disconnect' \in {"none", "announcing", "closing", "done"}
    <3>1. /\ transport \in {"up", "broken", "closed"}
          /\ session \in [pc : {"up", "children", "down"}, channels : SUBSET Ptys]
          /\ disconnect \in {"none", "announcing", "closing", "done"}
      BY <1>2 DEF TerminalsTyped
    <3>2. CASE RequestDisconnect \/ Disconnected \/ ConnectionBreaks
      BY <3>1, <3>2 DEF RequestDisconnect, Disconnected, ConnectionBreaks
    <3>3. CASE Announce
      BY <3>1, <3>3 DEF Announce, CloseSession
    <3>4. CASE CloseTarget
      BY <3>1, <3>4 DEF CloseTarget
    <3> QED BY <1>6, <3>2, <3>3, <3>4
  <2> QED BY <1>1, <1>2, <2>1, <2>2 DEF TerminalsTyped, TerminalsKept, QueueTyped,
                                       exitVars, historyVars
<1>7. CASE Exit \/ Shutdown \/ CloseNext \/ CloseSessions \/ Stop
  <2>1. OnlyExit
    BY <1>7 DEF Exit, Shutdown, CloseNext, CloseSessions, Stop
  <2>2. /\ runtime' \in {"ready", "exiting", "ptys", "sessions", "stopped", "failed"}
        /\ failed' \in BOOLEAN /\ remaining' \subseteq Ptys
        /\ session' \in [pc : {"up", "children", "down"}, channels : SUBSET Ptys]
    <3>1. /\ runtime \in {"ready", "exiting", "ptys", "sessions", "stopped", "failed"}
          /\ failed \in BOOLEAN /\ remaining \subseteq Ptys
          /\ session \in [pc : {"up", "children", "down"}, channels : SUBSET Ptys]
      BY <1>2 DEF TerminalsTyped
    <3>2. CASE Exit \/ Shutdown \/ Stop
      BY <3>1, <3>2 DEF Exit, Shutdown, Stop, Listed
    <3>3. CASE CloseNext
      BY <3>1, <3>3 DEF CloseNext
    <3>4. CASE CloseSessions
      BY <3>1, <3>4 DEF CloseSessions, CloseSession
    <3> QED BY <1>7, <3>2, <3>3, <3>4
  <2> QED BY <1>1, <1>2, <2>1, <2>2 DEF OnlyExit, TerminalsTyped, TerminalsKept, QueueTyped,
                                       historyVars
<1> QED BY <1>3, <1>4, <1>5, <1>6, <1>7 DEF TerminalNext, TerminalRequests, Closes

-----------------------------------------------------------------------------
(* What is answered to the inputs *)

\* The types that the inputs need.
LEMMA InputTypes ==
  ASSUME TerminalsTyped
  PROVE  /\ messages \in Nat
         /\ inbound \in Seq(Inputs) /\ \A i \in DOMAIN inbound : inbound[i].number \in Nat
         /\ written \in Seq(1..MaxMessages) /\ \A i \in DOMAIN written : written[i] \in Nat
         /\ outbound \in Seq(Events \cup Replies)
         /\ \A m \in Answers : m.kind = "result" => m.number \in Nat
<1>1. /\ messages \in 0..MaxMessages /\ inbound \in Seq(Inputs)
      /\ written \in Seq(1..MaxMessages)
      /\ outbound \in Seq(Events \cup Replies) /\ MaxMessages \in Nat
  BY LimitsAssumption DEF TerminalsTyped, Inputs
<1>2. \A i \in DOMAIN inbound : inbound[i].number \in Nat
  <2>1. \A i \in DOMAIN inbound : inbound[i] \in Inputs
    BY <1>1
  <2> QED BY <2>1 DEF Inputs
<1>3. \A m \in ToSet(outbound) : m \in Events \cup Replies
  BY <1>1 DEF ToSet
<1>4. \A c \in Desktops : conn[c].replying \in Replies \cup {Nothing}
  BY DEF TerminalsTyped
<1>5. \A m \in Events \cup Replies \cup {Nothing} : m.kind = "result" => m.number \in Nat
  BY <1>1 DEF Events, Outputs, Replies, Nothing
<1>6. \A m \in Answers : m.kind = "result" => m.number \in Nat
  BY <1>3, <1>4, <1>5 DEF Answers
<1> QED BY <1>1, <1>2, <1>6

\* No input comes or is processed, and no new answer is given.
LEMMA InputsStill ==
  ASSUME InputsInOrder, UNCHANGED <<inbound, messages, written>>,
         \A m \in Answers' : m.kind = "result" => m \in Answers
  PROVE  InputsInOrder'
  BY DEF InputsInOrder, Behind, ToSet

\* The answers of a step that leaves the connections alone.
LEMMA AnswersOfPublish ==
  ASSUME outbound \in Seq(Events \cup Replies), UNCHANGED conn,
         \/ UNCHANGED outbound
         \/ \E m \in Events : Publish(m)
  PROVE  \A a \in Answers' : a.kind = "result" => a \in Answers
<1>1. CASE UNCHANGED outbound
  BY <1>1 DEF Answers
<1>2. ASSUME NEW m \in Events, Publish(m)
      PROVE  \A a \in Answers' : a.kind = "result" => a \in Answers
  <2>1. ToSet(outbound') = ToSet(outbound) \cup {m}
    <3>1. outbound' = Append(outbound, m)
      BY <1>2 DEF Publish
    <3> QED BY <3>1 DEF ToSet
  <2>2. m.kind # "result"
    BY DEF Events, Outputs
  <2> QED BY <2>1, <2>2 DEF Answers
<1> QED BY <1>1, <1>2

\* The desktop sends an input.
LEMMA InputsReceived ==
  ASSUME TerminalInv, NEW c, Receive(c)
  PROVE  InputsInOrder'
<1>1. InputsInOrder /\ TerminalsTyped
  BY DEF TerminalInv
<1>2. PICK p \in Ptys : inbound' = Append(inbound, [pty |-> p, number |-> messages'])
  BY DEF Receive
<1>3. /\ messages' = messages + 1 /\ messages \in Nat
      /\ inbound \in Seq(Inputs) /\ \A i \in DOMAIN inbound : inbound[i].number \in Nat
      /\ written' = written /\ \A i \in DOMAIN written : written[i] \in Nat
      /\ Answers' = Answers /\ \A m \in Answers : m.kind = "result" => m.number \in Nat
  BY <1>1, InputTypes DEF Receive, Answers
<1>4. PICK n : n = Len(inbound)
  OBVIOUS
<1>5. /\ n \in Nat /\ DOMAIN inbound = 1..n /\ DOMAIN inbound' = 1..n \cup {n + 1}
      /\ \A i \in 1..n : inbound'[i] = inbound[i]
      /\ inbound'[n + 1].number = messages + 1
  BY <1>2, <1>3, <1>4
<1>6. \A k \in Nat : Behind(k, messages, inbound) => Behind(k, messages', inbound')
  BY <1>3, <1>5 DEF Behind
<1>7. \A i \in DOMAIN inbound' : inbound'[i].number <= messages'
  BY <1>1, <1>3, <1>5 DEF InputsInOrder
<1>8. \A i, j \in DOMAIN inbound' : i < j => inbound'[i].number < inbound'[j].number
  <2> SUFFICES ASSUME NEW i \in DOMAIN inbound', NEW j \in DOMAIN inbound', i < j
               PROVE  inbound'[i].number < inbound'[j].number
    OBVIOUS
  <2>1. i \in 1..n
    BY <1>5
  <2>2. inbound[i].number <= messages
    BY <1>1, <1>5, <2>1 DEF InputsInOrder
  <2>3. CASE j = n + 1
    BY <1>3, <1>5, <2>1, <2>2, <2>3
  <2>4. CASE j \in 1..n
    BY <1>1, <1>5, <2>1, <2>4 DEF InputsInOrder
  <2> QED BY <1>5, <2>3, <2>4
<1>9. /\ \A i, j \in DOMAIN written' : i < j => written'[i] < written'[j]
      /\ \A i \in DOMAIN written' : Behind(written'[i], messages', inbound')
  BY <1>1, <1>3, <1>6 DEF InputsInOrder
<1>10. \A m \in Answers' :
         m.kind = "result" =>
           Behind(m.number, messages', inbound') /\ (m.accepted <=> m.number \in ToSet(written'))
  BY <1>1, <1>3, <1>6 DEF InputsInOrder
<1> QED BY <1>7, <1>8, <1>9, <1>10 DEF InputsInOrder

\* An input is processed: it was sent after all that were written and answered, so
\* that it is written behind them and the answers stay true.
LEMMA InputsProcessed ==
  ASSUME TerminalInv, NEW c \in Desktops, Process(c)
  PROVE  InputsInOrder'
<1>1. InputsInOrder /\ TerminalsTyped
  BY DEF TerminalInv
<1>2. PICK k : k = Head(inbound).number
  OBVIOUS
<1>3. /\ inbound # <<>> /\ inbound' = Tail(inbound) /\ UNCHANGED <<messages, outbound>>
      /\ conn \in [Desktops -> Endpoint]
      /\ \/ written' = Append(written, k) /\ conn' = [conn EXCEPT ![c].replying = Result(k, TRUE)]
         \/ written' = written /\ conn' = [conn EXCEPT ![c].replying = Result(k, FALSE)]
         \/ written' = written /\ conn' = [conn EXCEPT ![c] = [pc |-> "ending", replying |-> Nothing]]
  BY <1>1, <1>2 DEF Process, EndTasks, TerminalsTyped, Endpoint
<1>4. /\ messages \in Nat /\ inbound \in Seq(Inputs)
      /\ \A i \in DOMAIN inbound : inbound[i].number \in Nat
      /\ written \in Seq(1..MaxMessages) /\ \A i \in DOMAIN written : written[i] \in Nat
      /\ \A m \in Answers : m.kind = "result" => m.number \in Nat
  BY <1>1, InputTypes
<1>5. PICK n : n = Len(inbound)
  OBVIOUS
<1>6. /\ n \in Nat \ {0} /\ DOMAIN inbound = 1..n /\ DOMAIN inbound' = 1..(n - 1)
      /\ \A i \in 1..(n - 1) : inbound'[i] = inbound[i + 1] /\ i + 1 \in 1..n
      /\ k = inbound[1].number /\ 1 \in 1..n
  BY <1>2, <1>3, <1>4, <1>5
<1>7. k \in Nat /\ k <= messages /\ \A j \in Nat : Behind(j, messages, inbound) => j < k
  BY <1>1, <1>4, <1>6 DEF InputsInOrder, Behind
<1>8. /\ Behind(k, messages', inbound')
      /\ \A j \in Nat : Behind(j, messages, inbound) => Behind(j, messages', inbound')
  <2>1. \A i \in 1..(n - 1) : k < inbound'[i].number
    BY <1>1, <1>6 DEF InputsInOrder
  <2> QED BY <1>3, <1>6, <1>7, <2>1 DEF Behind
<1>9. /\ \A i \in DOMAIN inbound' : inbound'[i].number <= messages'
      /\ \A i, j \in DOMAIN inbound' : i < j => inbound'[i].number < inbound'[j].number
  BY <1>1, <1>3, <1>6, SMTT(60) DEF InputsInOrder
<1>10. /\ ToSet(written') = ToSet(written) \/ ToSet(written') = ToSet(written) \cup {k}
       /\ \A i, j \in DOMAIN written' : i < j => written'[i] < written'[j]
       /\ \A i \in DOMAIN written' : Behind(written'[i], messages', inbound')
  <2>1. /\ \A i, j \in DOMAIN written : i < j => written[i] < written[j]
        /\ \A i \in DOMAIN written : written[i] < k /\ Behind(written[i], messages', inbound')
    BY <1>1, <1>4, <1>7, <1>8 DEF InputsInOrder
  <2>2. CASE written' = written
    BY <2>1, <2>2
  <2>3. CASE written' = Append(written, k)
    <3>1. PICK w : w = Len(written)
      OBVIOUS
    <3>2. /\ w \in Nat /\ DOMAIN written = 1..w /\ DOMAIN written' = 1..w \cup {w + 1}
          /\ \A i \in 1..w : written'[i] = written[i]
          /\ written'[w + 1] = k
      BY <1>4, <2>3, <3>1
    <3>3. ToSet(written') = ToSet(written) \cup {k}
      BY <3>2 DEF ToSet
    <3>4. \A i \in DOMAIN written' : Behind(written'[i], messages', inbound')
      BY <2>1, <3>2, <1>8
    <3>5. \A i, j \in DOMAIN written' : i < j => written'[i] < written'[j]
      BY <2>1, <3>2
    <3> QED BY <3>3, <3>4, <3>5
  <2> QED BY <1>3, <2>2, <2>3
<1>11. k \notin ToSet(written)
  <2>1. \A i \in DOMAIN written : written[i] # k
    BY <1>1, <1>4, <1>7 DEF InputsInOrder
  <2> QED BY <2>1 DEF ToSet
<1>12. ASSUME NEW m \in Answers', m.kind = "result"
       PROVE  Behind(m.number, messages', inbound') /\ (m.accepted <=> m.number \in ToSet(written'))
  <2>1. CASE m \in Answers
    <3>1. /\ m.number \in Nat /\ Behind(m.number, messages, inbound)
          /\ (m.accepted <=> m.number \in ToSet(written))
      BY <2>1, <1>1, <1>4, <1>12 DEF InputsInOrder
    <3> QED BY <3>1, <1>7, <1>8, <1>10
  <2>2. CASE m \notin Answers
    <3>1. \/ written' = Append(written, k) /\ m = Result(k, TRUE)
          \/ written' = written /\ m = Result(k, FALSE)
      <4>1. PICK d \in Desktops : m = conn'[d].replying /\ m # conn[d].replying
        BY <2>2, <1>3, <1>12 DEF Answers
      <4>2. d = c
        BY <4>1, <1>3
      <4>3. conn[c] \in Endpoint /\ Nothing.kind # "result"
        BY <1>3 DEF Nothing
      <4>4. CASE conn' = [conn EXCEPT ![c] = [pc |-> "ending", replying |-> Nothing]]
        BY <4>1, <4>2, <4>3, <4>4, <1>3, <1>12
      <4>5. \A r : conn' = [conn EXCEPT ![c].replying = r] => conn'[c].replying = r
        BY <4>3, <1>3 DEF Endpoint
      <4> QED BY <4>1, <4>2, <4>4, <4>5, <1>3
    <3>2. written' = Append(written, k) => k \in ToSet(written')
      <4>1. written \in Seq(1..MaxMessages)
        BY <1>4
      <4>2. written' = Append(written, k) =>
              Len(written) + 1 \in DOMAIN written' /\ written'[Len(written) + 1] = k
        BY ONLY <4>1
      <4> QED BY <4>2 DEF ToSet
    <3> QED BY <3>1, <3>2, <1>8, <1>11 DEF Result
  <2> QED BY <2>1, <2>2
<1> QED BY <1>9, <1>10, <1>12 DEF InputsInOrder

\* Each step keeps the inputs in order and their answers true.
LEMMA InputsStayInOrder ==
  ASSUME TerminalInv, [TerminalNext]_terminalVars
  PROVE  InputsInOrder'
<1>1. InputsInOrder /\ TerminalsTyped /\ outbound \in Seq(Events \cup Replies)
  BY DEF TerminalInv, TerminalsTyped
<1>k. ASSUME UNCHANGED <<conn, inbound, messages, written>>,
             UNCHANGED outbound \/ \E m \in Events : Publish(m)
      PROVE  InputsInOrder'
  BY <1>1, <1>k, AnswersOfPublish, InputsStill
<1>2. CASE UNCHANGED terminalVars
  BY <1>2, <1>k DEF terminalVars, historyVars
<1>3. ASSUME NEW c \in Desktops, Gateway(c) PROVE InputsInOrder'
  <2>0. conn \in [Desktops -> Endpoint]
    BY <1>1 DEF TerminalsTyped, Endpoint
  <2>1. CASE Claim(c) \/ End(c)
    <3>1. UNCHANGED <<inbound, outbound, messages, written>>
      BY <2>1 DEF Claim, End, historyVars
    <3>2. \A d \in Desktops : conn'[d].replying = conn[d].replying \/ conn'[d].replying = Nothing
      BY <2>0, <2>1 DEF Claim, End, EndTasks, Endpoint
    <3>3. \A m \in Answers' : m.kind = "result" => m \in Answers
      BY <3>1, <3>2 DEF Answers, Nothing
    <3> QED BY <1>1, <3>1, <3>3, InputsStill
  <2>2. CASE Receive(c)
    BY <2>2, InputsReceived
  <2>3. CASE Process(c)
    BY <2>3, InputsProcessed
  <2>4. CASE Reply(c)
    <3>1. /\ UNCHANGED <<inbound, messages, written>>
          /\ outbound' = Append(outbound, conn[c].replying)
          /\ \A d \in Desktops : conn'[d].replying = conn[d].replying \/ conn'[d].replying = Nothing
      BY <2>0, <2>4 DEF Reply, historyVars, Publish, Endpoint
    <3>2. ToSet(outbound') = ToSet(outbound) \cup {conn[c].replying}
      BY <1>1, <3>1 DEF ToSet
    <3>3. \A m \in Answers' : m.kind = "result" => m \in Answers
      BY <3>1, <3>2 DEF Answers, Nothing
    <3> QED BY <1>1, <3>1, <3>3, InputsStill
  <2>5. CASE Take(c)
    <3>1. /\ UNCHANGED <<conn, inbound, messages, written>>
          /\ outbound # <<>> /\ outbound' = Tail(outbound)
      BY <2>5 DEF Take
    <3>2. ToSet(outbound') \subseteq ToSet(outbound)
      BY <1>1, <3>1 DEF ToSet
    <3>3. \A m \in Answers' : m.kind = "result" => m \in Answers
      BY <3>1, <3>2 DEF Answers
    <3> QED BY <1>1, <3>1, <3>3, InputsStill
  <2>6. CASE Release(c)
    <3>1. inbound' = <<>> /\ UNCHANGED <<outbound, messages, written>>
      BY <2>6 DEF Release, historyVars
    <3>2. \A d \in Desktops : conn'[d].replying = conn[d].replying
      BY <2>0, <2>6 DEF Release, Endpoint
    <3>3. Answers' = Answers
      BY <3>1, <3>2 DEF Answers
    <3>4. \A k : Behind(k, messages, inbound) => Behind(k, messages', inbound')
      BY <3>1 DEF Behind
    <3> QED BY <1>1, <3>1, <3>3, <3>4 DEF InputsInOrder
  <2> QED BY <1>3, <2>1, <2>2, <2>3, <2>4, <2>5, <2>6 DEF Gateway
<1>4. ASSUME NEW p \in Ptys,
             \/ PtyTasks(p) \/ ChannelEnds(p)
             \/ RequestOpen(p) \/ Opened(p) \/ OpenFails(p) \/ RequestClose(p)
      PROVE  InputsInOrder'
  <2>1. UNCHANGED <<conn, inbound, messages, written>>
    BY <1>4, ZenonT(60) DEF PtyTasks, Read, Put, ReadEnds, Drained, PublishClosed, MonitorRaises,
                CloseByForce, CloseReturns, ChannelEnds, RequestOpen, Opened, OpenFails,
                RequestClose, OnlyPty, historyVars
  <2>2. ASSUME NEW s \in Streams, Read(p, s) \/ Put(p, s)
        PROVE  UNCHANGED outbound \/ \E m \in Events : Publish(m)
    <3>1. pty[p] \in Terminal /\ Sane(pty[p])
      BY PtyParts
    <3>2. PICK n : n = IF Read(p, s) THEN pty[p].next ELSE pty[p].chunk[s]
      OBVIOUS
    <3>3. UNCHANGED outbound \/ Publish(Output(p, s, n))
      BY <2>2, <3>2 DEF Read, Put
    <3>4. n \in 1..MaxOutputs
      BY <2>2, <3>1, <3>2, LimitsAssumption DEF Read, Put, Terminal, Sane
    <3>5. Output(p, s, n) \in Events
      BY <3>4 DEF Output, Events, Outputs
    <3> QED BY <3>3, <3>5
  <2>3. CASE PublishClosed(p)
    <3>1. Closed(p) \in Events
      BY DEF Closed, Events
    <3> QED BY <1>k, <2>1, <2>3, <3>1 DEF PublishClosed
  <2>4. CASE \/ \E s \in Streams : ReadEnds(p, s)
             \/ Drained(p) \/ MonitorRaises(p) \/ CloseByForce(p) \/ CloseReturns(p) \/ ChannelEnds(p)
             \/ RequestOpen(p) \/ Opened(p) \/ OpenFails(p) \/ RequestClose(p)
    <3>1. UNCHANGED outbound
      BY <2>4 DEF ReadEnds, Drained, MonitorRaises, CloseByForce, CloseReturns, ChannelEnds,
                  RequestOpen, Opened, OpenFails, RequestClose
    <3> QED BY <1>k, <2>1, <3>1
  <2> QED BY <1>4, <1>k, <2>1, <2>2, <2>3, <2>4 DEF PtyTasks
<1>5. CASE RequestDisconnect \/ Announce \/ CloseTarget \/ Disconnected \/ ConnectionBreaks
  <2>1. UNCHANGED <<conn, inbound, messages, written>>
    BY <1>5 DEF RequestDisconnect, Announce, CloseTarget, Disconnected, ConnectionBreaks, historyVars
  <2>2. UNCHANGED outbound \/ Publish(Status("CLOSING")) \/ Publish(Status("DISCONNECTED"))
    BY <1>5 DEF RequestDisconnect, Announce, CloseTarget, Disconnected, ConnectionBreaks
  <2> QED BY <1>k, <2>1, <2>2, RepliesTyped
<1>6. CASE Exit \/ Shutdown \/ CloseNext \/ CloseSessions \/ Stop
  BY <1>6, <1>k DEF Exit, Shutdown, CloseNext, CloseSessions, Stop, OnlyExit, historyVars
<1> QED BY <1>2, <1>3, <1>4, <1>5, <1>6 DEF TerminalNext, TerminalRequests, Closes

-----------------------------------------------------------------------------
(* The exit *)

\* A terminal that is t and becomes x opens nothing, and does not forget that it closes.
Fades(t, x) ==
  /\ x.channel = "running" => t.channel = "running"
  /\ x.state = "opening" => t.state = "opening"
  /\ x.listed => /\ t.listed
                 /\ t.close \in {"eof", "forced"} \/ t.state = "CLOSED" =>
                      x.close \in {"eof", "forced"} \/ x.state = "CLOSED"

\* Terminals fade, and neither the exit nor the session goes on.
LEMMA FadingStep ==
  ASSUME ExitInOrder, \A p \in Ptys : Fades(pty[p], pty'[p]),
         UNCHANGED exitVars, UNCHANGED sessionVars
  PROVE  ExitInOrder'
<1>1. UNCHANGED <<runtime, remaining, failed, transport, session, disconnect>>
  BY DEF exitVars, sessionVars
<1>2. Listed' \subseteq Listed
  BY DEF Listed, Fades
<1>3. runtime = "ptys" /\ ~failed =>
        \A p \in Listed' \ remaining : pty'[p].close \in {"eof", "forced"} \/ pty'[p].state = "CLOSED"
  BY <1>2 DEF ExitInOrder, Fades, Listed
<1>4. \A p \in Ptys : /\ pty'[p].channel = "running" => pty[p].channel = "running"
                      /\ pty'[p].state = "opening" => pty[p].state = "opening"
  BY DEF Fades
<1> QED BY <1>1, <1>2, <1>3, <1>4 DEF ExitInOrder

\* What the tasks of a terminal do, and the end of its channel, opens nothing.
LEMMA PtyTasksFade ==
  ASSUME TerminalInv, NEW p \in Ptys,
         \/ PtyTasks(p) \/ ChannelEnds(p) \/ OpenFails(p) \/ RequestClose(p)
         \/ StartClose(p)
  PROVE  \A q \in Ptys : Fades(pty[q], pty'[q])
<1>1. pty \in [Ptys -> Terminal]
  BY PtyParts
<1>2. \A t : Fades(t, t)
  BY DEF Fades
<1>k. ASSUME NEW x, pty' = [pty EXCEPT ![p] = x], Fades(pty[p], x)
      PROVE  \A q \in Ptys : Fades(pty[q], pty'[q])
  BY <1>1, <1>2, <1>k
<1>t. PICK t : t = pty[p]
  OBVIOUS
<1>3. t \in Terminal /\ Sane(t)
  BY <1>t, PtyParts
<1>4. ASSUME NEW s \in Streams, Read(p, s) \/ Put(p, s) \/ ReadEnds(p, s)
      PROVE  \A q \in Ptys : Fades(pty[q], pty'[q])
  <2>1. \A q \in Ptys : /\ pty'[q].channel = pty[q].channel /\ pty'[q].state = pty[q].state
                        /\ pty'[q].listed = pty[q].listed /\ pty'[q].close = pty[q].close
    <3>1. \A q \in Ptys : pty[q] \in Terminal
      BY <1>1
    <3>2. CASE Read(p, s)
      <4>1. PICK x : /\ pty' = [pty EXCEPT ![p] = x]
                     /\ \/ x = [pty[p] EXCEPT !.next = pty[p].next + 1]
                        \/ x = [pty[p] EXCEPT !.reader[s] = "putting", !.chunk[s] = pty[p].next,
                                              !.next = pty[p].next + 1]
        BY <3>2 DEF Read
      <4>2. /\ x.channel = pty[p].channel /\ x.state = pty[p].state
            /\ x.listed = pty[p].listed /\ x.close = pty[p].close
        BY <3>1, <4>1 DEF Terminal
      <4> QED BY <1>1, <4>1, <4>2
    <3>3. CASE Put(p, s)
      BY <1>1, <3>1, <3>3 DEF Put, Terminal
    <3>4. CASE ReadEnds(p, s)
      BY <1>1, <3>1, <3>4 DEF ReadEnds, Terminal
    <3> QED BY <1>4, <3>2, <3>3, <3>4
  <2> QED BY <2>1 DEF Fades
<1>5. CASE Drained(p)
  <2>1. PICK x : x = [t EXCEPT !.state = "CLOSED", !.monitor = "publishing"]
    OBVIOUS
  <2>2. Fades(t, x)
    BY <1>3, <2>1 DEF Fades, Terminal
  <2> QED BY <1>5, <1>k, <1>t, <2>1, <2>2 DEF Drained
<1>6. CASE PublishClosed(p) \/ MonitorRaises(p)
  <2>1. PICK x : x = [t EXCEPT !.monitor = "done", !.listed = FALSE, !.child = FALSE]
    OBVIOUS
  <2>2. Fades(t, x)
    BY <1>3, <2>1 DEF Fades, Terminal
  <2> QED BY <1>6, <1>k, <1>t, <2>1, <2>2 DEF PublishClosed, MonitorRaises, Forgotten
<1>7. CASE CloseByForce(p)
  <2>1. PICK x : x = [t EXCEPT !.close = "forced"]
    OBVIOUS
  <2>2. Fades(t, x)
    BY <1>3, <2>1 DEF Fades, Terminal
  <2>3. pty' = [pty EXCEPT ![p] = x]
    BY <1>7, <1>t, <2>1 DEF CloseByForce
  <2> QED BY <1>k, <1>t, <2>2, <2>3
<1>8. CASE CloseReturns(p)
  <2>1. PICK x : x = [t EXCEPT !.close = "done"]
    OBVIOUS
  <2>2. ~t.listed
    BY <1>8, <1>t, <1>3 DEF CloseReturns, Sane
  <2>3. Fades(t, x)
    BY <1>3, <2>1, <2>2 DEF Fades, Terminal
  <2>4. pty' = [pty EXCEPT ![p] = x]
    BY <1>8, <1>t, <2>1 DEF CloseReturns
  <2> QED BY <1>k, <1>t, <2>3, <2>4
<1>9. CASE ChannelEnds(p)
  <2>1. PICK x : x = [t EXCEPT !.channel = "ended"]
    OBVIOUS
  <2>2. Fades(t, x)
    BY <1>3, <2>1 DEF Fades, Terminal
  <2>3. pty' = [pty EXCEPT ![p] = x]
    BY <1>9, <1>t, <2>1 DEF ChannelEnds
  <2> QED BY <1>k, <1>t, <2>2, <2>3
<1>10. CASE OpenFails(p)
  <2>1. PICK x : x = [t EXCEPT !.state = "failed"]
    OBVIOUS
  <2>2. t.state = "opening"
    BY <1>10, <1>t DEF OpenFails
  <2>3. Fades(t, x)
    BY <1>3, <2>1, <2>2 DEF Fades, Terminal, Sane
  <2>4. pty' = [pty EXCEPT ![p] = x]
    BY <1>10, <1>t, <2>1 DEF OpenFails
  <2> QED BY <1>k, <1>t, <2>3, <2>4
<1>11. CASE RequestClose(p) \/ StartClose(p)
  <2>1. PICK x : x = [t EXCEPT !.close = "eof"]
    OBVIOUS
  <2>2. Fades(t, x)
    BY <1>3, <2>1 DEF Fades, Terminal
  <2>3. pty' = [pty EXCEPT ![p] = x]
    BY <1>11, <1>t, <2>1 DEF RequestClose, StartClose
  <2> QED BY <1>k, <1>t, <2>2, <2>3
<1> QED BY <1>4, <1>5, <1>6, <1>7, <1>8, <1>9, <1>10, <1>11 DEF PtyTasks

\* Terminals are closed one after the other, and one that is listed is closing or
\* closed once the exit has come to it.
LEMMA CloseNextInOrder ==
  ASSUME TerminalInv, CloseNext
  PROVE  ExitInOrder'
<1>1. ExitInOrder
  BY DEF TerminalInv
<1>2. /\ runtime = "ptys" /\ runtime' = runtime
      /\ UNCHANGED <<session, transport, disconnect>>
  BY DEF CloseNext, OnlyExit
<1>3. PICK p \in remaining :
        IF pty[p].state = "OPEN" /\ ~pty[p].listed
        THEN remaining' = {} /\ failed' = TRUE /\ UNCHANGED pty
        ELSE /\ remaining' = remaining \ {p} /\ UNCHANGED failed
             /\ IF pty[p].state = "OPEN" THEN StartClose(p) ELSE UNCHANGED pty
  BY DEF CloseNext
<1>4. p \in Ptys
  BY DEF TerminalInv, TerminalsTyped
<1>5. \A q \in Ptys : Fades(pty[q], pty'[q])
  <2>1. CASE UNCHANGED pty
    BY <2>1 DEF Fades
  <2> QED BY <2>1, <1>3, <1>4, PtyTasksFade
<1>6. \A q \in Ptys : /\ pty'[q].channel = "running" => pty[q].channel = "running"
                      /\ pty'[q].state = "opening" => pty[q].state = "opening"
  BY <1>5 DEF Fades
<1>7. ASSUME ~failed', NEW q \in Listed' \ remaining'
      PROVE  pty'[q].close \in {"eof", "forced"} \/ pty'[q].state = "CLOSED"
  <2>1. remaining' = remaining \ {p} /\ ~failed /\ q \in Listed /\ q \in Ptys
    BY <1>3, <1>5, <1>7 DEF Fades, Listed
  <2>2. CASE q # p
    BY <2>1, <2>2, <1>1, <1>2, <1>5, <1>7 DEF ExitInOrder, Fades, Listed
  <2>3. CASE q = p
    <3>1. pty[p] \in Terminal /\ Sane(pty[p]) /\ pty \in [Ptys -> Terminal]
      BY <1>4, PtyParts
    <3>2. pty[p].listed
      BY <2>1, <2>3 DEF Listed
    <3>3. pty[p].state \in {"OPEN", "CLOSED"}
      BY <3>1, <3>2 DEF Sane, Terminal
    <3>4. CASE pty[p].state = "OPEN"
      BY <3>1, <3>2, <3>4, <1>3, <1>4, <2>3 DEF StartClose, Terminal
    <3>5. CASE pty[p].state = "CLOSED"
      BY <3>5, <1>3, <1>4, <2>1, <2>3
    <3> QED BY <3>3, <3>4, <3>5
  <2> QED BY <2>2, <2>3
<1> QED BY <1>1, <1>2, <1>6, <1>7 DEF ExitInOrder

\* Each step keeps the exit in order.
LEMMA ExitStaysInOrder ==
  ASSUME TerminalInv, [TerminalNext]_terminalVars
  PROVE  ExitInOrder'
<1>1. ExitInOrder /\ pty \in [Ptys -> Terminal]
  BY PtyParts DEF TerminalInv, TerminalsTyped
<1>2. CASE UNCHANGED terminalVars \/ \E c \in Desktops : Gateway(c)
  <2>1. UNCHANGED <<exitVars, pty, sessionVars>>
    BY <1>2 DEF terminalVars, Gateway, Claim, Receive, Process, Reply, Take, End, Release
  <2>2. \A p \in Ptys : Fades(pty[p], pty'[p])
    BY <2>1 DEF Fades
  <2> QED BY <2>1, <2>2, <1>1, FadingStep
<1>3. ASSUME NEW p \in Ptys, PtyTasks(p) \/ ChannelEnds(p) \/ OpenFails(p) \/ RequestClose(p)
      PROVE  ExitInOrder'
  <2>1. UNCHANGED exitVars /\ UNCHANGED sessionVars
    BY <1>3, ZenonT(60) DEF PtyTasks, Read, Put, ReadEnds, Drained, PublishClosed, MonitorRaises,
                CloseByForce, CloseReturns, ChannelEnds, OpenFails, RequestClose, OnlyPty
  <2>2. \A q \in Ptys : Fades(pty[q], pty'[q])
    BY <1>3, PtyTasksFade
  <2> QED BY <2>1, <2>2, <1>1, FadingStep
<1>4. ASSUME NEW p \in Ptys, RequestOpen(p) \/ Opened(p)
      PROVE  ExitInOrder'
  <2>1. UNCHANGED <<runtime, remaining, failed, transport, session, disconnect>>
    BY <1>4 DEF RequestOpen, Opened, OnlyPty, exitVars, sessionVars
  <2>2. runtime \in {"ready", "exiting"}
    BY <1>1, <1>4 DEF RequestOpen, Opened, ExitInOrder
  <2>3. transport = "up" \/ \A q \in Ptys : pty'[q].channel = pty[q].channel
    BY <1>1, <1>4, SMTT(60) DEF RequestOpen, Opened, Terminal
  <2> QED BY <1>1, <2>1, <2>2, <2>3 DEF ExitInOrder
<1>5. CASE RequestDisconnect \/ Disconnected
  BY <1>1, <1>5 DEF RequestDisconnect, Disconnected, ExitInOrder, Listed, exitVars
<1>6. CASE Announce
  <2>1. UNCHANGED <<runtime, remaining, failed, transport, pty>> /\ disconnect = "announcing"
    BY <1>6 DEF Announce, exitVars
  <2>2. runtime \in {"ready", "exiting"} /\ session'.pc = "children"
    BY <1>1, <1>6, <2>1, TypesStayKept DEF Announce, CloseSession, ExitInOrder
  <2> QED BY <1>1, <2>1, <2>2 DEF ExitInOrder
<1>7. CASE CloseTarget \/ ConnectionBreaks
  <2>1. \A p \in Ptys : Fades(pty[p], pty'[p]) /\ pty'[p].channel # "running"
    BY <1>7, ChannelsEndStep DEF Fades
  <2>2. /\ UNCHANGED <<runtime, remaining, failed, disconnect>>
        /\ \/ session'.pc = "down" /\ transport' = "closed"
           \/ UNCHANGED session /\ transport = "up"
    <3>1. session \in [pc : {"up", "children", "down"}, channels : SUBSET Ptys]
      BY DEF TerminalInv, TerminalsTyped
    <3> QED BY <3>1, <1>7 DEF CloseTarget, ConnectionBreaks, exitVars
  <2>4. /\ Listed' \subseteq Listed
        /\ \A p \in Ptys : pty'[p].state = "opening" => pty[p].state = "opening"
    BY <2>1 DEF Listed, Fades
  <2>5. runtime = "ptys" /\ ~failed =>
          \A p \in Listed' \ remaining : pty'[p].close \in {"eof", "forced"} \/ pty'[p].state = "CLOSED"
    BY <1>1, <2>1, <2>4 DEF ExitInOrder, Fades, Listed
  <2> QED BY <1>1, <2>1, <2>2, <2>4, <2>5 DEF ExitInOrder
<1>8. CASE Exit
  BY <1>1, <1>8 DEF Exit, OnlyExit, ExitInOrder, Listed
<1>9. CASE Shutdown
  <2>1. /\ runtime' = "ptys" /\ remaining' = Listed
        /\ UNCHANGED <<failed, pty, session, transport, disconnect>>
    BY <1>9 DEF Shutdown, OnlyExit
  <2>2. disconnect \notin {"announcing", "closing"} /\ \A p \in Ptys : pty[p].state # "opening"
    BY <1>9 DEF Shutdown, InProgress
  <2>3. Listed' = Listed
    BY <2>1 DEF Listed
  <2> QED BY <1>1, <2>1, <2>2, <2>3 DEF ExitInOrder
<1>10. CASE CloseNext
  BY <1>10, CloseNextInOrder
<1>11. CASE CloseSessions
  <2>1. /\ runtime = "ptys" /\ runtime' = "sessions" /\ remaining = {}
        /\ \A p \in Ptys : ~Closing(p)
        /\ UNCHANGED <<remaining, failed, pty, transport, disconnect>>
        /\ session'.pc = "children" \/ session' = session
    BY <1>11 DEF CloseSessions, CloseSession, OnlyExit
  <2>2. ~failed => Listed = {}
    BY <1>1, <2>1 DEF ExitInOrder, Closing, Listed
  <2>3. Listed' = Listed
    BY <2>1 DEF Listed
  <2> QED BY <1>1, <2>1, <2>2, <2>3 DEF ExitInOrder
<1>12. CASE Stop
  <2>1. /\ runtime = "sessions" /\ runtime' = IF failed THEN "failed" ELSE "stopped"
        /\ session.pc = "down"
        /\ UNCHANGED <<remaining, failed, pty, session, transport, disconnect>>
    BY <1>12 DEF Stop, OnlyExit
  <2>2. Listed' = Listed
    BY <2>1 DEF Listed
  <2> QED BY <1>1, <2>1, <2>2 DEF ExitInOrder
<1> QED BY <1>2, <1>3, <1>4, <1>5, <1>6, <1>7, <1>8, <1>9, <1>10, <1>11, <1>12
           DEF TerminalNext, TerminalRequests, Closes

-----------------------------------------------------------------------------
(* The theorems *)

\* The initial states satisfy the invariant.
LEMMA TerminalsInitially ==
  ASSUME TerminalInit
  PROVE  TerminalInv
<1>1. NoPty \in Terminal /\ Sane(NoPty) /\ InReader(NoPty) = {} /\ NoPty.next = 1
  BY LimitsAssumption DEF NoPty, Terminal, Sane, InReader, Streams
<1>2. pty = [p \in Ptys |-> NoPty] /\ taken = [p \in Ptys |-> <<>>] /\ outbound = <<>>
      /\ inbound = <<>> /\ written = <<>> /\ messages = 0
      /\ conn = [c \in Desktops |-> Unused]
  BY DEF TerminalInit
<1>3. TerminalsTyped
  <2>1. Unused \in [pc : {"new", "serving", "ending", "over"}, replying : Replies \cup {Nothing}]
    BY DEF Unused
  <2>2. <<>> \in Seq(Inputs) /\ <<>> \in Seq(Events \cup Replies)
        /\ <<>> \in Seq(1..MaxMessages) /\ <<>> \in Seq(Events)
    OBVIOUS
  <2>3. pty \in [Ptys -> Terminal] /\ taken \in [Ptys -> Seq(Events)]
    BY <1>1, <1>2, <2>2
  <2>4. Len(outbound) <= Capacity /\ messages \in 0..MaxMessages
    BY <1>2, LimitsAssumption
  <2>5. /\ runtime = "ready" /\ remaining = {} /\ failed = FALSE /\ connected = FALSE
        /\ transport = "up" /\ session = [pc |-> "up", channels |-> {}] /\ disconnect = "none"
    BY DEF TerminalInit
  <2>6. session \in [pc : {"up", "children", "down"}, channels : SUBSET Ptys]
    BY <2>5
  <2>7. conn \in [Desktops ->
          [pc : {"new", "serving", "ending", "over"}, replying : Replies \cup {Nothing}]]
    BY <1>2, <2>1
  <2> QED BY <1>2, <2>2, <2>3, <2>4, <2>5, <2>6, <2>7 DEF TerminalsTyped, Inputs
<1>4. TerminalsSane
  BY <1>1, <1>2 DEF TerminalsSane
<1>5. ASSUME NEW p \in Ptys PROVE Flow(Told(p), p, pty[p])
  <2>1. Told(p) = <<>> /\ pty[p] = NoPty
    BY <1>2 DEF Told
  <2>2. \A kind : Places(<<>>, p, kind) = {}
    BY DEF Places
  <2>3. 1..(NoPty.next - 1) = {}
    BY <1>1
  <2> QED BY <1>1, <2>1, <2>2, <2>3 DEF Flow, Intact
<1>6. InputsInOrder
  BY <1>2 DEF InputsInOrder, Answers, ToSet, Unused, Nothing
<1>7. ExitInOrder
  BY <1>1, <1>2 DEF TerminalInit, ExitInOrder, NoPty
<1> QED BY <1>3, <1>4, <1>5, <1>6, <1>7 DEF TerminalInv, OutputsFlow

\* The invariant holds in every reachable state, for any number of connections,
\* terminals, outputs and inputs and any capacity of the queue.
THEOREM TerminalInvariance == TerminalSpec => []TerminalInv
<1>1. TerminalInv /\ [TerminalNext]_terminalVars => TerminalInv'
  <2> SUFFICES ASSUME TerminalInv, [TerminalNext]_terminalVars PROVE TerminalInv'
    OBVIOUS
  <2>1. TerminalsTyped' /\ TerminalsSane' /\ OutputsFlow'
    BY TypesStayKept, TerminalsStayKept DEF TerminalsKept
  <2> QED BY <2>1, InputsStayInOrder, ExitStaysInOrder DEF TerminalInv
<1> QED BY <1>1, TerminalsInitially, PTL DEF TerminalSpec

\* The state of the gateway, the terminals, the session and the exit is
\* well-formed, and the queue to the desktop keeps its bound, whoever publishes
\* (WEBSOCKET_QUEUE_CAPACITY).
THEOREM TerminalTypeCorrect == TerminalSpec => []TerminalTypeOK
<1>1. TerminalInv => TerminalTypeOK
  BY DEF TerminalInv, TerminalsTyped, TerminalsSane, Terminal, Sane, TerminalTypeOK
<1> QED BY <1>1, TerminalInvariance, PTL

\* No output of a terminal is lost, repeated or overtaken by the end of the
\* terminal, and no input is acknowledged that was not written, for any number of
\* desktops that come and go (_read_stream, _monitor, _send, _process, release).
THEOREM TerminalsAreTrue == TerminalSpec => []TerminalIsTrue
<1>1. TerminalInv => OutputIntact
  BY DEF TerminalInv, OutputsFlow, Flow, OutputIntact
<1>2. TerminalInv => AckIsTrue
  BY DEF TerminalInv, InputsInOrder, Answers, AckIsTrue
<1> QED BY <1>1, <1>2, TerminalInvariance, PTL DEF TerminalIsTrue

\* A process that has stopped or failed leaves no connection and no channel open,
\* and one that has stopped no terminal with its tasks running, in whatever order
\* the requests, the disconnect, the network and the exit come
\* (RuntimeResources.shutdown, PtyManager.close_all, SshSessionRegistry.close).
THEOREM NothingStaysOpen == TerminalSpec => []NothingLeftOpen
<1>1. TerminalInv => NothingLeftOpen
  BY DEF TerminalInv, ExitInOrder, NothingLeftOpen
<1> QED BY <1>1, TerminalInvariance, PTL
=============================================================================
