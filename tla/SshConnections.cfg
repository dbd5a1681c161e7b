CONSTANTS
  Connections = {t, j}
  Endpoints = {e1}
  Keys = {k1, k2}
  AuthKinds = {"private_key"}
  MaxVersion = 2
  None = None
  Calls = {a1}
  MaxDialogs = 2
SPECIFICATION Spec
INVARIANT TypeOK
INVARIANT CredentialsOwned
INVARIANT SessionIsVerified
INVARIANT ConnectionsOwned
PROPERTY TrustMovesAsShown
SYMMETRY Symmetry
CHECK_DEADLOCK FALSE
