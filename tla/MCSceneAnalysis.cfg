SPECIFICATION ToolSpec
CONSTANTS
  Surfaces = {s1, s2}
  Layers = {l1, l2}
  d1 = d1
  Screens <- MCScreens
  SurfaceLooks <- MCSurfaceLooks
  LayerLooks <- MCLayerLooks
  none = none
  Uint = 32
  Exactness = 32
  Indefinite <- MCIndefinite
  MinDimension = 0
  MaxChanges = 1
SYMMETRY Symmetry
INVARIANTS
  CleanMeansSeen
  AbsenceWasReal
