SPECIFICATION FairSpec
CONSTANTS
  Pool = 2
  MboxSize = 1
  InpktMsgs = 2
  MaxTries = 4
  TopTries = 9
INVARIANTS TypeOK LockHeld PbufsAccounted OffStaysOff
PROPERTIES AddressSettled DhcpDecides
CHECK_DEADLOCK FALSE
