SPECIFICATION Spec
CONSTANTS
  s1 = s1
  l1 = l1
  Clients = {c1, c2}
  Surfaces = {s1}
  Layers = {l1}
  Values = {0, 1}
  Nothing = nothing
  Changes <- MCChanges
  Orders <- MCOrders
  Params <- MCParams
  MaxCalls = 3
  MaxEvents = 2
SYMMETRY Symmetry
INVARIANTS
  TypeOK
  CommitDelivers
  ToldIsShown
PROPERTIES
  ImplementsScene
  GetErrorTells
