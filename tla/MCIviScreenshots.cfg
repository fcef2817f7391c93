SPECIFICATION Spec
CONSTANTS
  o1 = o1
  o2 = o2
  l1 = l1
  Clients = {c1}
  Outputs = {o1, o2}
  Layers = {l1}
  Modes <- MCModes
  Preferred <- MCPreferred
  Rotated = {o1}
  screen_ids <- MCScreenIds
  screen_id_offset = 0
  Orders <- MCOrders
  Sizes = {1, 2}
  Nothing = nothing
  MaxPlugs = 2
  MaxCalls = 3
INVARIANTS
  ResourcesSound
  BackgroundCovers
  ScreensKnown
  RequestsReachTheirScreen
  AnswersFindTheirShot
  ShotsAwaited
PROPERTIES
  LayersAnswered
