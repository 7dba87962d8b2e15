SPECIFICATION FairSpec
CONSTANTS
  Pool = 2
  MboxSize = 1
  InpktMsgs = 2
  MaxTries = 4
  TopTries = 9
PROPERTY DhcpGivesUp
CHECK_DEADLOCK FALSE
