\* One rekey at both ends, with a text from either end in flight.
SPECIFICATION FairSpec
CONSTANTS
  MaxEpoch = 1
  MaxTexts = 1
  InboundCap = 1
  MaxMalformed = 2
INVARIANTS TypeOK KeyAgreement OneEpochApart HeldEpochDecrypts
PROPERTIES EpochsConverge IsRatchet
CHECK_DEADLOCK FALSE
