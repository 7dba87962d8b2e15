SPECIFICATION FairSpec
CONSTANTS
  Frames = {f1, f2, f3}
  NUL = NUL
  USART_REC_LEN = 4
  DONE = 8
INVARIANT UnreadReported
