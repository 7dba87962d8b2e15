SPECIFICATION FairSpec
CONSTANTS
  B = 8
  Keys <- MCKeys
  Buttons <- MCButtons
  Silence = 1
  MaxPresses = 2
  MaxEvents = 1
INVARIANTS TypeOK KeyGenuine OncePerPress
PROPERTY KeyWaitEnds
