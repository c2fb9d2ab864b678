SPECIFICATION Spec
CONSTANTS
  Orders = {o1}
  Size = 2
  PartialLabel = "resting"
INVARIANT SettledRowCountsFills
