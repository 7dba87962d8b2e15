SPECIFICATION Spec
CONSTANTS
  StartDays <- MCStartDays
  OpenDays <- MCOpenDays
  Digits = {0, 1, 2, 9}
  MaxTouches = 4
  Spans = {1, 19915, 86400}
  MaxSpans = 1
  Garbage = {0, 2000}
INVARIANTS TypeOK CalendarRight SetShown
CHECK_DEADLOCK FALSE
