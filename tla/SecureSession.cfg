SPECIFICATION Spec
CONSTANTS
  W = 2
  MaxSeq = 3
  Writers = {w1, w2}
  Readers = {r1, r2}
INVARIANTS
  TypeOK
  NonceUnique
  NeverSealedWithWipedKey
  DeliveredOnce
PROPERTIES
  RefusedOnlyIfSeenOrOld
  ImplementsOnceChannel
