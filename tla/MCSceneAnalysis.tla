--------------------------- MODULE MCSceneAnalysis ---------------------------
(* The instance of SceneAnalysis that TLC checks: two surfaces and layers.   *)
EXTENDS SceneAnalysis
CONSTANTS d1
MCScreens == <<d1>>
MCRects == {Rect(0, 0, 2, 2), Rect(0, 1, 3, 1), Rect(1, 0, 1, 3)}
MCSurfaceLooks ==
    {[dst |-> r, size |-> 1, visible |-> TRUE, opacity |-> 100, frames |-> 1] : r \in MCRects}
      \cup {[dst |-> Rect(2, 1, 1, 1), size |-> 1, visible |-> TRUE, opacity |-> o, frames |-> 1] : o \in {0, 50}}
MCLayerLooks ==
    {[src |-> Rect(0, 0, 4, 4), dst |-> Rect(0, 0, 4, 4), visible |-> TRUE, opacity |-> 100],
     [src |-> Rect(1, 0, 1, 2), dst |-> Rect(1, 0, 2, 2), visible |-> TRUE, opacity |-> 100]}
MCIndefinite == -16
Symmetry == Permutations(Surfaces) \cup Permutations(Layers)
=============================================================================
