SPECIFICATION Spec
CONSTANTS
  Surfaces = {s1}
  Layers = {l1}
  SurfacePtrs = {sp1, sp2}
  LayerPtrs = {lp1, lp2}
  Props = {v1, v2}
  Initial = v1
  Zero = zero
  Absent = absent
  CallIn <- MCCallIn
  MaxCalls = 2
  MaxChanges = 3
  MaxDepth = 3
INVARIANT NoFreedContext
CHECK_DEADLOCK FALSE
