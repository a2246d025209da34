SPECIFICATION FairSpec
CONSTANTS
  Names <- MCNames
  Unnamed <- MCUnnamed
  Bodies <- MCBodies
  Unreadable <- MCUnreadable
  TypeKinds <- MCKinds
  Btfs <- MCBtfs
  Hashes <- MCHashes
  MaxBuckets <- MCMaxBuckets
INVARIANTS ChainsComplete NamedLookupExact AnonymousLookupExact
PROPERTY CallsReturn
CHECK_DEADLOCK FALSE
