\* Two orders of the branch, one of a relay, two shifts, five timed calls.
CONSTANTS
  Orders = {o1, o2, d1}
  Relayed = {d1}
  Counts = {0, 1}
  MaxSessions = 2
  MaxShiftCalls = 2
  MaxClock = 5
SYMMETRY Symmetry
SPECIFICATION Spec
INVARIANTS TypeOK FiledInItsTill ResolutionFits
PROPERTY ClosedBooksHold
CHECK_DEADLOCK FALSE
