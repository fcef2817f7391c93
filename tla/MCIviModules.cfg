SPECIFICATION Spec
CONSTANTS
  Clients = {c1, c2}
  Seats = {t1, t2}
  DefaultSeat = t1
  MaxEvents = 6
SYMMETRY Symmetry
INVARIANTS
  NothingFreedIsUsed
