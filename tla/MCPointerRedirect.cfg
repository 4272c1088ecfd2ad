SPECIFICATION FairSpec
CONSTANTS
  N = 3
  p1 = p1
  p2 = p2
  Page <- MCPage
  PageOf <- MCPageOf
  RacingWriter = FALSE
  MaxFaults = 2
INVARIANTS TypeOK EveryWriteIsOwned AllOrNothing ProtectionRestored
PROPERTIES ForeignBytesKept CallsWindDown CallsReturn OwnershipSpec
