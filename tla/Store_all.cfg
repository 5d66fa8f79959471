SPECIFICATION StoreSpec
CONSTANTS
  NoFile = NoFile
  Partial = Partial
  Windows = TRUE
  w1 = w1
  w2 = w2
  Writers = {w1, w2}
  Paths = {"hosts", "settings"}
  Contents = {"a", "b"}
  t1 = t1
  t2 = t2
  k1 = k1
  k2 = k2
  Threads = {t1, t2}
  Endpoints = {22, 2222}
  Keys = {k1, k2}
  NoKey = NoKey
  Docs = {"hosts", "tabs"}
  Values <- ThreeValues
  Norm <- ThreeNorm
  Default = "default"
  Garbled = "garbled"
  Fallback = FALSE
  MaxId = 3
  MaxItems = 3
  Scopes = {"app", "host"}
  App = "app"
  MaxSecrets = 1
  MaxKeys = 2
INVARIANT StoreTypeOK
INVARIANT OnlyAcceptedKeysKept
INVARIANT DiskIsOldOrNew
INVARIANT CleanUnlessFailed
INVARIANT HostsAreSound
INVARIANT TabIdsAreUnique
INVARIANT TabsAreSaved
INVARIANT SecretsAreKept
PROPERTY WritesAreAtomic
VIEW StoreView
SYMMETRY StoreSymmetry
