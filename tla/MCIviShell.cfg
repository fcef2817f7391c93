SPECIFICATION Spec
CONSTANTS
  Surfaces = {s1, s2}
  Layers = {l1}
  Controllers = {c1, c2}
  Notifs = {n1, n2, n3}
  Ids = {i1, i2}
  NoId = none
  Absent = absent
SYMMETRY Symmetry
INVARIANTS
  TypeOK
  NotificationsSound
  SubscribersRegistered
  AnnouncedAreListed
  SurfacesOwned
PROPERTY SubscribersStayCurrent
