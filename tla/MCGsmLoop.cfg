SPECIFICATION FairSpec
CONSTANTS
  Sms = {1, 99}
  Alarms = {"Invaiding"}
  MailSize = 1
  SemRange = 3
  Blocks = {b1}
  NULL = NULL
  MaxAir = 1
PROPERTY LoopEnds
