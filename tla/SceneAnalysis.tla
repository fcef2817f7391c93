---------------------------- MODULE SceneAnalysis ----------------------------
(***************************************************************************)
(* LayerManagerControl analyze surface <id>: the command line tool that    *)
(* finds out why a surface is not seen.  It captures the scene with one    *)
(* ilm_get* call after another, while other clients go on changing it, and *)
(* then looks for problems in what it has captured.                        *)
(*                                                                         *)
(* Each call answers with the scene of one moment (IlmControl is about     *)
(* that).  Rectangles are [x, y, w, h] of unsigned numbers, as in          *)
(* ilm_types.h, opacity is in percent.                                     *)
(***************************************************************************)
EXTENDS Integers, FiniteSets, SequencesExt

CONSTANTS Surfaces, Layers,
          Screens,        \* the screens, in the order of ilm_getScreenIDs
          SurfaceLooks,   \* properties of surfaces: see NoSurface
          LayerLooks,     \* properties of layers: see NoLayer
          none,
          Uint,           \* 2^32
          Exactness,      \* 2^50: four roundings of doubles change n by less than n / 2^50
          Indefinite,     \* what a conversion to int yields out of its range
          MinDimension,   \* 32
          MaxChanges      \* bound on the changes of other clients

IntMax == Uint \div 2 - 1
Rect(x, y, w, h) == [x |-> x, y |-> y, w |-> w, h |-> h]
Rects == LET u == 0 .. Uint - 1 IN [x : u, y : u, w : u, h : u]

ASSUME SceneAssumption ==
    /\ IsFiniteSet(Surfaces) /\ IsFiniteSet(Layers) /\ none \notin Layers
    /\ Screens \in Seq(ToSet(Screens))
    /\ Uint \in Nat \ {0, 1} /\ Indefinite \in Int /\ MinDimension \in Nat
    /\ Exactness \in Nat /\ Exactness >= Uint
    /\ SurfaceLooks \subseteq [dst : Rects, size : Nat, visible : BOOLEAN, opacity : 0 .. 100,
                               frames : Nat]
    /\ LayerLooks \subseteq [src : Rects, dst : Rects, visible : BOOLEAN, opacity : 0 .. 100]

\* What operator[] of a std::map makes of an object without properties.  size
\* is the smallest of the source and original dimensions.
NoSurface == [dst |-> Rect(0, 0, 0, 0), size |-> 0, visible |-> FALSE, opacity |-> 0,
              frames |-> 0]
NoLayer   == [src |-> Rect(0, 0, 0, 0), dst |-> Rect(0, 0, 0, 0), visible |-> FALSE,
              opacity |-> 0]

VARIABLES
    surface,     \* the surfaces there are, with their looks
    layer,       \* the layers there are, with their looks
    layersOn,    \* the render order of each screen
    surfacesOn,  \* and of each layer
    step,        \* the step of captureSceneData, then "analyze" and "done"
    todo,        \* objects its present loop has yet to ask for
    scene,       \* struct t_scene_data
    target,
    failed,      \* a call has failed, which the tool has printed
    report,      \* tags with the flag PROBLEM
    absent,      \* the target was absent at some time since the start
    changes      \* bounded count

world == <<surface, layer, layersOn, surfacesOn>>
toolVars == <<world, step, todo, scene, target, failed, report, absent, changes>>

Listed(order) == ToSet(order)
Orders(S) == {q \in SeqOf(S, Cardinality(S)) : IsInjective(q)}

EmptyScene ==
    [layersOn   |-> [d \in Listed(Screens) |-> <<>>],
     screenOf   |-> [l \in Layers |-> none],
     layers     |-> {},
     layer      |-> [l \in Layers |-> NoLayer],
     surfacesOn |-> [l \in Layers |-> <<>>],
     layerOf    |-> [s \in Surfaces |-> none],
     surfaces   |-> {},
     surface    |-> [s \in Surfaces |-> NoSurface]]

Start ==
    /\ step = "screens" /\ todo = Listed(Screens)
    /\ scene = EmptyScene
    /\ target \in Surfaces
    /\ failed = FALSE /\ report = {}
    /\ absent = (target \notin DOMAIN surface)
    /\ changes = 0

\* A scene in which a layer is on one screen.
ToolInit ==
    /\ \E S \in SUBSET Surfaces, L \in SUBSET Layers :
          /\ surface \in [S -> SurfaceLooks]
          /\ layer \in [L -> LayerLooks]
          /\ surfacesOn \in [L -> Orders(S)]
          /\ layersOn \in [Listed(Screens) -> Orders(L)]
    /\ \A d, e \in Listed(Screens) : d # e => Listed(layersOn[d]) \cap Listed(layersOn[e]) = {}
    /\ Start

-----------------------------------------------------------------------------
(* captureSceneData: a call that fails ends it, and the analysis goes on   *)
(* with what there is.                                                     *)

Fail == step' = "analyze" /\ failed' = TRUE /\ todo' = {} /\ UNCHANGED scene

\* The loop goes on, or the next begins.
Advance(x, next, objects) ==
    IF todo \ {x} # {} THEN todo' = todo \ {x} /\ UNCHANGED step
    ELSE todo' = objects /\ step' = next

Unseen == UNCHANGED <<world, target, report, absent, changes>>

\* Screens do not go here (IviScreens), so this call does not fail.
ilm_getLayerIDsOnScreen(d) ==
    /\ step = "screens" /\ d \in todo
    /\ scene' = [scene EXCEPT
                   !.layersOn[d] = layersOn[d],
                   !.screenOf = [l \in Layers |-> IF l \in Listed(layersOn[d]) THEN d ELSE @[l]]]
    /\ Advance(d, "layers", {})
    /\ UNCHANGED failed
    /\ Unseen

ilm_getLayerIDs ==
    /\ step = "layers"
    /\ scene' = [scene EXCEPT !.layers = DOMAIN layer]
    /\ todo' = DOMAIN layer
    /\ step' = IF layer = <<>> THEN "surfaces" ELSE "layer"
    /\ UNCHANGED failed
    /\ Unseen

ilm_getPropertiesOfLayer(l) ==
    /\ step = "layer" /\ l \in todo
    /\ IF l \notin DOMAIN layer THEN Fail
       ELSE /\ scene' = [scene EXCEPT !.layer[l] = layer[l]]
            /\ Advance(l, "order", scene.layers)
            /\ UNCHANGED failed
    /\ Unseen

ilm_getSurfaceIDsOnLayer(l) ==
    /\ step = "order" /\ l \in todo
    /\ IF l \notin DOMAIN layer THEN Fail
       ELSE /\ scene' = [scene EXCEPT
                           !.surfacesOn[l] = surfacesOn[l],
                           !.layerOf = [s \in Surfaces |->
                                          IF s \in Listed(surfacesOn[l]) THEN l ELSE @[s]]]
            /\ Advance(l, "surfaces", {})
            /\ UNCHANGED failed
    /\ Unseen

\* Mutated ilm_getSurfaceIDs: only the surfaces found on layers.
ilm_getSurfaceIDs_on_layers ==
    /\ step = "surfaces"
    /\ LET S == {s \in Surfaces : scene.layerOf[s] # none}
       IN  /\ scene' = [scene EXCEPT !.surfaces = S]
           /\ todo' = S
           /\ step' = IF S = {} THEN "analyze" ELSE "surface"
    /\ UNCHANGED failed
    /\ Unseen

ilm_getSurfaceIDs ==
    /\ step = "surfaces"
    /\ scene' = [scene EXCEPT !.surfaces = DOMAIN surface]
    /\ todo' = DOMAIN surface
    /\ step' = IF surface = <<>> THEN "analyze" ELSE "surface"
    /\ UNCHANGED failed
    /\ Unseen

ilm_getPropertiesOfSurface(s) ==
    /\ step = "surface" /\ s \in todo
    /\ IF s \notin DOMAIN surface THEN Fail
       ELSE /\ scene' = [scene EXCEPT !.surface[s] = surface[s]]
            /\ Advance(s, "analyze", {})
            /\ UNCHANGED failed
    /\ Unseen

captureSceneData ==
    \/ \E d \in Listed(Screens) : ilm_getLayerIDsOnScreen(d)
    \/ ilm_getLayerIDs
    \/ \E l \in Layers : ilm_getPropertiesOfLayer(l) \/ ilm_getSurfaceIDsOnLayer(l)
    \/ ilm_getSurfaceIDs
    \/ \E s \in Surfaces : ilm_getPropertiesOfSurface(s)

-----------------------------------------------------------------------------
(* Rectangles <<x, y, z, w>>, both corners included.                       *)

inside(A, B) == A.x >= B.x /\ A.y >= B.y /\ A.w <= B.w /\ A.z <= B.z
between(b1, a, b2) == a >= b1 /\ a <= b2

\* Mutated intersect: the second of its two cases is left out.
intersect_first(A, B) ==
    \/ /\ between(B.x, A.x, B.z) \/ between(B.x, A.z, B.z)
       /\ between(A.y, B.y, A.w) \/ between(A.y, B.w, A.w)
    \/ inside(A, B) \/ inside(B, A)

intersect(A, B) ==
    \/ /\ between(B.x, A.x, B.z) \/ between(B.x, A.z, B.z)
       /\ between(A.y, B.y, A.w) \/ between(A.y, B.w, A.w)
    \/ /\ between(B.y, A.y, B.w) \/ between(B.y, A.w, B.w)
       /\ between(A.x, B.x, A.z) \/ between(A.x, B.z, A.z)
    \/ inside(A, B) \/ inside(B, A)

\* static_cast<int> of the rounded double n / size; a scale of 1.0 is exact.
ToInts(n, size, width) ==
    LET e == IF size = width THEN 0 ELSE n
    IN  {IF i <= IntMax THEN i ELSE Indefinite :
            i \in (n * Exactness - e) \div (size * Exactness)
                  .. (n * Exactness + e) \div (size * Exactness)}

\* Less than the least int is undefined: it wraps, or max takes it for negative.
LessOne(i) == {i - 1} \cup {j \in {IntMax} : i = -IntMax - 1}
NotNegative(i) == IF i < 0 THEN 0 ELSE i
AsInt(u) == LET v == u % Uint IN IF v <= IntMax THEN v ELSE v - Uint

\* What one dimension of a surface may come to: [position, length] on a layer
\* that shows [from, size] at [to, width].  position - from is unsigned.
FirstPixels(position, from, size, to, width) ==
    IF size = 0 THEN ToInts(to, 1, 1)
    ELSE ToInts(to * size + width * ((position - from) % Uint), size, width)
LastPixels(position, length, from, size, to, width) ==
    {NotNegative(j) : j \in UNION {LessOne(i) : i \in
        IF size = 0 THEN ToInts(to, 1, 1)
        ELSE ToInts(to * size + width * (((position - from) % Uint) + length), size, width)}}

getSurfaceScreenCoordinates(s) ==
    LET p == scene.surface[s].dst
        l == scene.layer[scene.layerOf[s]]
    IN  [x : FirstPixels(p.x, l.src.x, l.src.w, l.dst.x, l.dst.w),
         y : FirstPixels(p.y, l.src.y, l.src.h, l.dst.y, l.dst.h),
         z : LastPixels(p.x, p.w, l.src.x, l.src.w, l.dst.x, l.dst.w),
         w : LastPixels(p.y, p.h, l.src.y, l.src.h, l.dst.y, l.dst.h)]

\* The coordinates of all the surfaces that were found on layers.
ScreenCoordinates ==
    LET S == {s \in Surfaces : scene.layerOf[s] # none}
    IN  {at \in [S -> UNION {getSurfaceScreenCoordinates(s) : s \in S}] :
            \A s \in S : at[s] \in getSurfaceScreenCoordinates(s)}

getSceneRenderOrder ==
    FlattenSeq([i \in DOMAIN Screens |->
        LET order == scene.layersOn[Screens[i]]
        IN  FlattenSeq([j \in DOMAIN order |-> scene.surfacesOn[order[j]]])])

-----------------------------------------------------------------------------
(* analyzeSurface: the problems it prints.                                 *)

Look == scene.surface[target]
LayerLook == scene.layer[scene.layerOf[target]]
Tag(tag, problem) == {x \in {tag} : problem}

analyzeVisibilityAndOpacity ==
    Tag("Surface Visibility", ~Look.visible) \cup Tag("Layer Visibility", ~LayerLook.visible)
      \cup Tag("Surface Opacity", Look.opacity <= 20)
      \cup Tag("Layer Opacity", LayerLook.opacity <= 20)

analyzeSurfaceDimensions ==
    Tag("Surface dimensions",
        \E n \in {Look.dst.w, Look.dst.h, Look.size} : n <= MinDimension)
analyzeLayerDimensions ==
    Tag("Layer dimensions",
        \E n \in {LayerLook.dst.w, LayerLook.dst.h, LayerLook.src.w, LayerLook.src.h} :
            n <= MinDimension)

\* The corners of the layer are unsigned sums, which tuple4 takes for ints.
analyzeSurfaceCheckInsideLayer(at) ==
    LET d == LayerLook.dst
    IN  Tag("Surface inside Layer",
            ~inside(at[target], [x |-> AsInt(d.x), y |-> AsInt(d.y),
                                 z |-> AsInt(d.x + d.w), w |-> AsInt(d.y + d.h)]))

\* Not visible, or without any opacity.
Neglected(s) ==
    LET l == scene.layer[scene.layerOf[s]]
    IN  \/ ~l.visible \/ ~scene.surface[s].visible
        \/ l.opacity * scene.surface[s].opacity = 0

Occludes(A, B) == inside(A, B) \/ intersect(A, B)

\* What comes after the first place of the target in the order.
analyzeOcclusion(at) ==
    LET order == getSceneRenderOrder
    IN  Tag("Occlusion",
            \E i, j \in DOMAIN order :
                /\ i < j /\ order[i] = target
                /\ ~Neglected(order[j]) /\ Occludes(at[target], at[order[j]]))

analyzeFrameCounter == Tag("Frame Counter", Look.frames = 0)

analyzeCheckSurfaceExists == target \in scene.surfaces
analyzeCheckRendered ==
    /\ scene.layerOf[target] # none
    /\ scene.screenOf[scene.layerOf[target]] # none

analyzeSurface ==
    /\ step = "analyze"
    /\ \E at \in ScreenCoordinates :
          report' =
            IF ~analyzeCheckSurfaceExists THEN {"Surface existance"}
            ELSE IF ~analyzeCheckRendered THEN {"Not rendered"}
            ELSE analyzeVisibilityAndOpacity \cup analyzeSurfaceDimensions
                   \cup analyzeLayerDimensions \cup analyzeSurfaceCheckInsideLayer(at)
                   \cup analyzeOcclusion(at) \cup analyzeFrameCounter
    /\ step' = "done"
    /\ UNCHANGED <<world, todo, scene, target, failed, absent, changes>>

-----------------------------------------------------------------------------
(* Other clients commit and applications come and go meanwhile.            *)

Change ==
    /\ step \notin {"analyze", "done"}
    /\ changes < MaxChanges /\ changes' = changes + 1
    /\ UNCHANGED <<step, todo, scene, target, failed, report>>
Watch == absent' = (absent \/ target \notin DOMAIN surface')

Without(f, x) == [y \in DOMAIN f \ {x} |-> f[y]]
Dropped(f, x) == [y \in DOMAIN f |-> SelectSeq(f[y], LAMBDA z : z # x)]

ChangeSurface(s) ==
    /\ Change
    /\ \/ /\ s \in DOMAIN surface
          /\ surface' = Without(surface, s)
          /\ surfacesOn' = Dropped(surfacesOn, s)
       \/ /\ \E look \in SurfaceLooks :
                surface' = [x \in DOMAIN surface \cup {s} |-> IF x = s THEN look ELSE surface[x]]
          /\ UNCHANGED surfacesOn
    /\ UNCHANGED <<layer, layersOn>>
    /\ Watch

ChangeLayer(l) ==
    /\ Change
    /\ \/ /\ l \in DOMAIN layer
          /\ layer' = Without(layer, l)
          /\ surfacesOn' = Without(surfacesOn, l)
          /\ layersOn' = Dropped(layersOn, l)
       \/ /\ \E look \in LayerLooks :
                layer' = [x \in DOMAIN layer \cup {l} |-> IF x = l THEN look ELSE layer[x]]
          /\ surfacesOn' = [x \in DOMAIN layer' |-> IF x \in DOMAIN layer THEN surfacesOn[x]
                                                    ELSE <<>>]
          /\ UNCHANGED layersOn
    /\ UNCHANGED surface
    /\ Watch

\* A commit that moves a surface or a layer takes effect at once.
ChangeOrders ==
    /\ Change
    /\ \/ /\ surfacesOn' \in [DOMAIN layer -> Orders(DOMAIN surface)]
          /\ UNCHANGED layersOn
       \/ /\ \E l \in DOMAIN layer, d \in Listed(Screens) :
                layersOn' = [Dropped(layersOn, l) EXCEPT ![d] = Append(@, l)]
          /\ UNCHANGED surfacesOn
    /\ UNCHANGED <<surface, layer>>
    /\ Watch

Exit == step = "done" /\ UNCHANGED toolVars

ToolNext ==
    \/ captureSceneData \/ analyzeSurface
    \/ \E s \in Surfaces : ChangeSurface(s)
    \/ \E l \in Layers : ChangeLayer(l)
    \/ ChangeOrders
    \/ Exit

ToolSpec == ToolInit /\ [][ToolNext]_toolVars

-----------------------------------------------------------------------------
(* A reference: which pixels of a screen show a surface, by exact          *)
(* arithmetic and without the tool's coordinates.                          *)

\* Pixel p is wholly within [position, position + length) as the layer shows it.
\* A layer with an empty source shows nothing.
Whole(p, position, length, from, size, to, width) ==
    /\ size > 0
    /\ (p - to) * size >= width * (position - from)
    /\ (p + 1 - to) * size <= width * (position + length - from)
\* A scaled layer may lose its surfaces' last column and row to the rounding:
\* of 49 columns shown as 64, the tool's 64 / 49 * 49 leaves 63.
Firm(p, position, length, from, size, to, width) ==
    /\ Whole(p, position, length, from, size, to, width)
    /\ size = width \/ Whole(p + 1, position, length, from, size, to, width)
Shows(l, s, p) ==
    LET r == surface[s].dst
        v == layer[l]
    IN  /\ Firm(p[1], r.x, r.w, v.src.x, v.src.w, v.dst.x, v.dst.w)
        /\ Firm(p[2], r.y, r.h, v.src.y, v.src.h, v.dst.y, v.dst.h)
Drawn(l, s) == layer[l].visible /\ surface[s].visible /\ layer[l].opacity * surface[s].opacity > 0
Above(d, l, s, k, t) ==
    LET at(x) == CHOOSE i \in DOMAIN layersOn[d] : layersOn[d][i] = x
        in(x) == CHOOSE i \in DOMAIN surfacesOn[k] : surfacesOn[k][i] = x
    IN  IF k = l THEN in(t) > in(s) ELSE at(k) > at(l)
Pixels == LET n == 0 .. IntMax IN n \X n

\* A surface begins where its layer's source does or after, and ends within an
\* int: elsewhere the tool's unsigned difference wraps, and its conversion to
\* an int is undefined.
InRange(position, length, from, size, to, width) ==
    /\ position >= from
    /\ size > 0 => to * size + width * (position - from + length) <= IntMax * size

\* No surface is on two layers, and all are in that range.
Ordinary ==
    /\ \A l, k \in DOMAIN layer : l # k => Listed(surfacesOn[l]) \cap Listed(surfacesOn[k]) = {}
    /\ \A l \in DOMAIN layer : \A s \in Listed(surfacesOn[l]) :
          LET r == surface[s].dst
              v == layer[l]
          IN  /\ InRange(r.x, r.w, v.src.x, v.src.w, v.dst.x, v.dst.w)
              /\ InRange(r.y, r.h, v.src.y, v.src.h, v.dst.y, v.dst.h)

\* When the tool finds no problem with a surface, and the scene stood still,
\* then the surface is drawn on a screen, no pixel that it firmly has is one
\* that another surface over it has, and none is outside of its layer but for
\* those in the column and the row that the tool's comparison with the layer
\* has in excess.
CleanMeansSeen ==
    step = "done" /\ report = {} /\ ~failed /\ changes = 0 /\ Ordinary =>
        \E d \in Listed(Screens) : \E l \in Listed(layersOn[d]) :
            /\ target \in Listed(surfacesOn[l]) /\ Drawn(l, target)
            /\ \A p \in Pixels : Shows(l, target, p) =>
                  /\ p[1] \in layer[l].dst.x .. layer[l].dst.x + layer[l].dst.w
                  /\ p[2] \in layer[l].dst.y .. layer[l].dst.y + layer[l].dst.h
                  /\ \A k \in Listed(layersOn[d]) : \A t \in Listed(surfacesOn[k]) :
                        Drawn(k, t) /\ Above(d, l, target, k, t) => ~Shows(k, t, p)

\* "There is no surface with ID" without a failed call means that there was
\* none at some time since the command was given, whatever changed meanwhile
\* and wherever the surface was.
AbsenceWasReal ==
    step = "done" /\ "Surface existance" \in report /\ ~failed => absent
=============================================================================
