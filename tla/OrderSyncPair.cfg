\* Two orders: passes that lock one row and skip another, roll back, or commit both.
SPECIFICATION Spec
CONSTANTS
  Orders = {o1, o2}
  Size = 1
  PartialLabel = "resting"
PROPERTY TracksExchange
SYMMETRY Symmetry
