SPECIFICATION Spec
CONSTANTS
  Surfaces = {s1, s2}
  Seats = {default, other}
  Clients = {c1}
  default = default
  other = other
  DefaultSeat = default
  Masks <- MCMasks
  Hardware <- MCHardware
  MaxTouch = 1
  MaxObjects = 3
  None = none
  Elsewhere = elsewhere
SYMMETRY Symmetry
INVARIANTS
  TypeOK
  FocusIsAccepted
  AcceptedIsKnown
PROPERTIES
  ForcedFocusStays
  KeyboardFocusIsKnown
