CONSTANTS
  Orders = {o1, o2}
  Dishes = {d1, d2, g1}
  Printed = {d2}
  Gifts = {g1}
  None = None
  MaxSpecials = 2
SYMMETRY Symmetry
SPECIFICATION Spec
INVARIANT RefundRestores
CHECK_DEADLOCK FALSE
