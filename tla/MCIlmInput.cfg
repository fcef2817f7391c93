SPECIFICATION Spec
CONSTANTS
  s1 = s1
  s2 = s2
  Surfaces = {s1, s2}
  Seats = {t1, t2}
  DefaultSeat = t1
  KeyboardSeats = {t1, t2}
  FocusLists <- MCFocusLists
  MaxCalls = 2
  MaxEvents = 2
  None = none
INVARIANTS
  AcceptanceAsAsked
  AnswersAreCurrent
  KeysFollowFocus
