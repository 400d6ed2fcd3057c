CONSTANTS
  MaxEpoch = 2
  MaxRestarts = 2
  Retries = 1
SPECIFICATION FairSpec
INVARIANTS TypeOK AnsweredIsSigned ResumesWhereItWas SignedOnce
PROPERTIES ResetsEnd
CHECK_DEADLOCK FALSE
