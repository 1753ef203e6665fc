SPECIFICATION VaultSpec
CONSTANTS
  Users = {u1, u2}
  Passkeys = {}
  Admins = {u1}
  Vault = Vault
  Accounts = {u1}
  MaxLive = 2
  MaxEntries = 2
  Changes = {c1, c2}
  MaxEpochs = 2
  MaxVersions = 2
  MaxShuffles = 2
  Attested = {a1}
  Holders = {h1, h2}
  Positions = {s1, s2, s3}
  MaxClaims = 2
  MaxFetches = 1
  Ttl = 1
  Passes = {p1, p2}
  MaxTime = 2
  MaxPatches = 2
SYMMETRY Symmetry
INVARIANTS LostKeysReplaced CopiesLive StandingIsCurrent VerifiedIsFresh ToldOncePerArming
PROPERTIES SealedUnderSafeKey
CHECK_DEADLOCK FALSE
