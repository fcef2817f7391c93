SPECIFICATION AgentSpec
CONSTANTS
  Surfaces = {s1, s2, s3}
  flower = flower
  radio = radio
  nameless = nameless
  Apps <- MCApps
  MaxId = 3
  Files <- MCFiles
  Null = null
  Absent = absent
SYMMETRY Symmetry
INVARIANTS
  TypeOK
  ReservedForTheirApps
  ElementsNameTheirSurface
PROPERTIES
  DefaultIdsAreFresh
  SectionsServe
