CONSTANTS
  Null = Null
  Unavailable = Unavailable
  Numbers <- NumbersSmall
  Texts <- TextsSmall
  Blobs <- BlobsSmall
  MaxUiPayload = 48
  MaxPayload = 48
  MaxItems = 1
  MaxLogRows = 1
SPECIFICATION Spec
INVARIANTS TypeOK EventIntact DamageDetected WholeAnswer StableAnswered UiOnce
PROPERTIES QueryReturns Implements
