--------------------------- MODULE IviSceneProofs ---------------------------
(***************************************************************************)
(* Theorems about IviScene for any clients, surfaces, layers and values:   *)
(* it implements Scene, what clients are told is what is on display,       *)
(* ilm_getError answers with the errors of the requests before it, looks   *)
(* have their types, and a commit delivers what was asked for.             *)
(***************************************************************************)
EXTENDS IviScene, SequenceTheorems, TLAPS

\* The part of the types that the steps need: cur and pend have a look for
\* every object, told has an entry for everything a client may be told, and
\* layers have no buffer.
IsScene(looks) ==
    /\ looks = [o \in Objects |-> [prop |-> looks[o].prop, order |-> looks[o].order]]
    /\ \A o \in Objects : looks[o].prop = [f \in Fields |-> looks[o].prop[f]]

ToldFields == Fields \cup {BufferSize}

Shaped ==
    /\ objects \subseteq Objects
    /\ IsScene(cur) /\ IsScene(pend)
    /\ size = [s \in Surfaces |-> size[s]]
    /\ told = [c \in Clients |-> [o \in Objects |-> [f \in ToldFields |-> told[c][o][f]]]]
    /\ \A c \in Clients : \A o \in Objects :
          o \notin Surfaces => told[c][o][BufferSize] = Nothing

IInv == Shaped /\ ToldIsShown

LEMMA BufferIsNoField == BufferSize \notin Fields
BY DEF BufferSize, Fields, Scalars, Source, Destination

-----------------------------------------------------------------------------
(* Looks.                                                                  *)

\* Another look for one object.
With(looks, o, p, q) == [looks EXCEPT ![o] = Look(p, q)]
IsWish(looks, new, o) == new = [looks EXCEPT ![o] = new[o]]

LEMMA OtherLook ==
    ASSUME NEW looks, IsScene(looks), NEW o \in Objects, NEW p, NEW q,
           p = [f \in Fields |-> p[f]]
    PROVE  IsScene(With(looks, o, p, q)) /\ IsWish(looks, With(looks, o, p, q), o)
<1> PICK new : new = [looks EXCEPT ![o] = Look(p, q)]
  OBVIOUS
<1>1. IsScene(new)
  BY DEF IsScene, Look
<1>2. new = [looks EXCEPT ![o] = new[o]]
  BY DEF IsScene, Look
<1> QED BY <1>1, <1>2 DEF With, IsWish

LEMMA DroppedIsScene ==
    ASSUME NEW looks, IsScene(looks), NEW o \in Objects,
           NEW new, new = S!Dropped(looks, o)
    PROVE  /\ IsScene(new)
           /\ \A q \in Objects \ {o} : new[q].prop = looks[q].prop
<1>1. new = [p \in Objects |-> IF p = o THEN Blank
                ELSE [prop |-> looks[p].prop, order |-> S!Without(looks[p].order, o)]]
  BY DEF S!Dropped
<1>2. \A p \in Objects : p # o => /\ new[p].prop = looks[p].prop
                                  /\ new[p] = [prop |-> new[p].prop, order |-> new[p].order]
  BY <1>1
<1>3. /\ new[o] = [prop |-> new[o].prop, order |-> new[o].order]
      /\ new[o].prop = [f \in Fields |-> new[o].prop[f]]
  BY <1>1 DEF Blank, Look
<1>4. new = [p \in Objects |-> new[p]]
  BY <1>1
<1>5. \A p \in Objects : new[p] = [prop |-> new[p].prop, order |-> new[p].order]
  BY <1>2, <1>3
<1>6. \A p \in Objects : new[p].prop = [f \in Fields |-> new[p].prop[f]]
  BY <1>2, <1>3 DEF IsScene
<1>7. new = [p \in Objects |-> [prop |-> new[p].prop, order |-> new[p].order]]
  BY <1>4, <1>5
<1> QED BY <1>2, <1>6, <1>7 DEF IsScene

LEMMA FieldsKept ==
    ASSUME NEW p, p = [f \in Fields |-> p[f]], NEW v, NEW n, NEW new,
           new = [p EXCEPT ![<<"destination", "pos">>] = v,
                           ![<<"destination", "size">>] = n,
                           ![<<"source", "pos">>] = 0,
                           ![<<"source", "size">>] = n]
    PROVE  new = [f \in Fields |-> new[f]]
OBVIOUS

LEMMA DesktopIsScene ==
    ASSUME Shaped, NEW s \in objects, NEW n,
           pend' = [pend EXCEPT ![s] = DesktopLook(s, n)]
    PROVE  IsScene(pend') /\ IsWish(pend, pend', s)
<1>1. s \in Objects /\ IsScene(pend)
  BY DEF Shaped
<1>2. pend[s].prop = [f \in Fields |-> pend[s].prop[f]]
  BY <1>1 DEF IsScene
<1>3. PICK p : p = [pend[s].prop EXCEPT
                 ![<<"destination", "pos">>] = cur[s].prop[<<"destination", "pos">>],
                 ![<<"destination", "size">>] = n,
                 ![<<"source", "pos">>] = 0,
                 ![<<"source", "size">>] = n]
  OBVIOUS
<1>4. p = [f \in Fields |-> p[f]]
  BY <1>2, <1>3, FieldsKept
<1>5. pend' = With(pend, s, p, pend[s].order)
  BY <1>3 DEF DesktopLook, With
<1>6. /\ IsScene(With(pend, s, p, pend[s].order))
      /\ IsWish(pend, With(pend, s, p, pend[s].order), s)
  BY <1>1, <1>4, OtherLook
<1> QED BY <1>5, <1>6

-----------------------------------------------------------------------------
(* The handlers of requests.                                               *)

\* What clients are told by a message about the fields F of o: the new look
\* where they are in F, what they knew before elsewhere.
Told(o, t, new, F, look, sizes) ==
    /\ new = [f \in ToldFields |-> new[f]]
    /\ o \notin Surfaces => new[BufferSize] = Nothing
    /\ \A f \in Fields : new[f] = IF f \in F THEN look[o].prop[f] ELSE t[f]
    /\ \/ new[BufferSize] = t[BufferSize]
       \/ o \in Surfaces /\ new[BufferSize] = sizes[o]
    /\ (BufferSize \in F /\ o \in Surfaces /\ sizes[o] # 0) => new[BufferSize] = sizes[o]
    /\ BufferSize \notin F => new[BufferSize] = t[BufferSize]

LEMMA ToldEntry ==
    ASSUME NEW t, t = [f \in ToldFields |-> t[f]], NEW o \in Objects, NEW F, NEW look, NEW sizes,
           o \notin Surfaces => t[BufferSize] = Nothing
    PROVE  Told(o, t, ToldOf(t, o, F, look, sizes), F, look, sizes)
<1>1. PICK new : new = ToldOf(t, o, F, look, sizes)
  OBVIOUS
<1>2. new = [f \in ToldFields |-> IF f \notin F THEN t[f]
                ELSE IF f # BufferSize THEN look[o].prop[f]
                ELSE IF o \in Surfaces /\ sizes[o] # 0 THEN sizes[o] ELSE t[f]]
  BY <1>1 DEF ToldOf
<1>3. BufferSize \in ToldFields /\ Fields \subseteq ToldFields
  BY DEF ToldFields
<1>4. Told(o, t, new, F, look, sizes)
  BY <1>2, <1>3, BufferIsNoField DEF Told
<1> QED BY <1>1, <1>4

LEMMA ToldShape ==
    ASSUME Shaped, NEW c \in Clients, NEW o \in Objects
    PROVE  /\ told[c][o] = [f \in ToldFields |-> told[c][o][f]]
           /\ o \notin Surfaces => told[c][o][BufferSize] = Nothing
BY DEF Shaped

\* A request that changes what is pending of one object is an Ask.
LEMMA PendingStep ==
    ASSUME IInv, NEW o \in objects, IsScene(pend'), IsWish(pend, pend', o),
           UNCHANGED <<objects, cur, type, size, told>>
    PROVE  S!Next /\ IInv'
<1>1. o \in Objects
  BY DEF IInv, Shaped
<1>2. S!Ask(o)
  BY DEF S!Ask, S!Wish, IsWish
<1>3. Shaped'
  BY DEF IInv, Shaped
<1>4. ToldIsShown'
  BY DEF IInv, ToldIsShown, Shown
<1> QED BY <1>1, <1>2, <1>3, <1>4 DEF S!Next, IInv

\* A refused request, a sync or a set_type changes nothing of the scene.
LEMMA OtherStep ==
    ASSUME IInv, UNCHANGED <<objects, cur, pend, size, told>>
    PROVE  IInv' /\ UNCHANGED S!vars
<1>1. Shaped'
  BY DEF IInv, Shaped, IsScene
<1>2. ToldIsShown'
  BY DEF IInv, ToldIsShown, Shown
<1> QED BY <1>1, <1>2 DEF IInv, S!vars

LEMMA SetStep ==
    ASSUME IInv, NEW c \in Clients, NEW r, r.obj \in objects, SetProperties(c, r)
    PROVE  S!Next /\ IInv'
<1>1. r.obj \in Objects /\ IsScene(pend)
  BY DEF IInv, Shaped
<1>2. Requested(r.obj, r.change) = [f \in Fields |-> Requested(r.obj, r.change)[f]]
  BY DEF Requested
<1>3. pend' = With(pend, r.obj, Requested(r.obj, r.change), pend[r.obj].order)
  BY DEF SetProperties, With
<1>4. IsScene(pend') /\ IsWish(pend, pend', r.obj)
  BY <1>1, <1>2, <1>3, OtherLook
<1>5. UNCHANGED <<objects, cur, type, size, told>>
  BY DEF SetProperties
<1> QED BY <1>4, <1>5, PendingStep

LEMMA OrderStep ==
    ASSUME IInv, NEW c \in Clients, NEW l \in objects, NEW order, SetOrder(c, l, order)
    PROVE  S!Next /\ IInv'
<1>1. l \in Objects /\ IsScene(pend)
  BY DEF IInv, Shaped
<1>2. pend[l].prop = [f \in Fields |-> pend[l].prop[f]]
  BY <1>1 DEF IsScene
<1>3. pend' = With(pend, l, pend[l].prop, order)
  BY DEF SetOrder, With
<1>4. IsScene(pend') /\ IsWish(pend, pend', l)
  BY <1>1, <1>2, <1>3, OtherLook
<1>5. UNCHANGED <<objects, cur, type, size, told>>
  BY DEF SetOrder
<1> QED BY <1>4, <1>5, PendingStep

LEMMA GetStep ==
    ASSUME IInv, NEW c \in Clients, NEW r, controller_get(c, r)
    PROVE  IInv' /\ UNCHANGED S!vars
<1>1. CASE Refuse(c, r)
  BY <1>1, OtherStep DEF Refuse, scene
<1>2. CASE /\ r.obj \in objects
           /\ told' = [told EXCEPT ![c][r.obj] =
                          ToldOf(@, r.obj, convert_protocol_enum(r.params), cur, size)]
           /\ UNCHANGED <<objects, cur, pend, type, size>>
  <2>1. r.obj \in Objects /\ Shaped
    BY <1>2 DEF IInv, Shaped
  <2> DEFINE F == convert_protocol_enum(r.params)
  <2>2. PICK new : new = ToldOf(told[c][r.obj], r.obj, F, cur, size)
    OBVIOUS
  <2> HIDE DEF F
  <2>3. told' = [told EXCEPT ![c][r.obj] = new]
    BY <1>2, <2>2 DEF F
  <2>4. Told(r.obj, told[c][r.obj], new, F, cur, size)
    BY <2>1, <2>2, ToldShape, ToldEntry
  <2>5. \A d \in Clients : \A o \in Objects :
           told'[d][o] = IF d = c /\ o = r.obj THEN new ELSE told[d][o]
    BY <2>1, <2>3 DEF Shaped
  <2>6. told' = [d \in Clients |-> [o \in Objects |-> told'[d][o]]]
    BY <2>1, <2>3 DEF Shaped
  <2>7. \A d \in Clients : \A o \in Objects : told'[d][o] = [f \in ToldFields |-> told'[d][o][f]]
    BY <2>1, <2>4, <2>5, ToldShape DEF Told
  <2>8. told' = [d \in Clients |-> [o \in Objects |-> [f \in ToldFields |-> told'[d][o][f]]]]
    BY <2>6, <2>7
  <2>9. Shaped'
    <3>1. objects' \subseteq Objects /\ IsScene(cur)' /\ IsScene(pend)'
          /\ size' = [s \in Surfaces |-> size'[s]]
      BY <1>2, <2>1 DEF Shaped, IsScene
    <3>2. ASSUME NEW d \in Clients, NEW o \in Objects, o \notin Surfaces
          PROVE  told'[d][o][BufferSize] = Nothing
      <4>1. told[d][o][BufferSize] = Nothing
        BY <2>1, <3>2 DEF Shaped
      <4>2. o = r.obj => new[BufferSize] = Nothing
        BY <2>4, <3>2 DEF Told
      <4> QED BY <2>5, <4>1, <4>2
    <3> QED BY <2>8, <3>1, <3>2 DEF Shaped
  <2>10. ToldIsShown'
    <3> SUFFICES ASSUME NEW d \in Clients, NEW o \in objects, NEW f \in ToldFields,
                        told'[d][o][f] # Nothing
                 PROVE  told'[d][o][f] = Shown(o, f)
      BY <1>2 DEF ToldIsShown, Shown, ToldFields
    <3>1. o \in Objects /\ (told[d][o][f] # Nothing => told[d][o][f] = Shown(o, f))
      BY <2>1 DEF IInv, Shaped, ToldIsShown, ToldFields
    <3>2. CASE d = c /\ o = r.obj
      <4>1. told'[d][o] = new /\ told[d][o] = told[c][r.obj]
        BY <3>1, <3>2, <2>5
      <4>2. CASE f \in Fields
        BY <4>1, <4>2, <3>1, <3>2, <2>4, BufferIsNoField DEF Told, Shown
      <4>3. CASE f = BufferSize
        BY <4>1, <4>3, <3>1, <3>2, <2>4 DEF Told, Shown
      <4> QED BY <4>2, <4>3 DEF ToldFields
    <3>3. CASE ~(d = c /\ o = r.obj)
      BY <3>1, <3>3, <2>5
    <3> QED BY <3>2, <3>3
  <2> QED BY <1>2, <2>9, <2>10 DEF IInv, S!vars
<1> QED BY <1>1, <1>2 DEF controller_get

-----------------------------------------------------------------------------
(* A report of a commit or of the new size of a surface.                   *)

IsReport(look, sizes, G) ==
    told' = [c \in Clients |-> [o \in Objects |->
               IF o \notin objects THEN told[c][o]
               ELSE ToldOf(told[c][o], o, G[o], look, sizes)]]

LEMMA ReportShape ==
    ASSUME Shaped, NEW look, NEW sizes, NEW G, IsReport(look, sizes, G)
    PROVE  /\ told' = [c \in Clients |-> [o \in Objects |-> [f \in ToldFields |-> told'[c][o][f]]]]
           /\ \A c \in Clients, o \in Objects :
                 o \notin Surfaces => told'[c][o][BufferSize] = Nothing
           /\ \A c \in Clients, o \in objects :
                 Told(o, told[c][o], told'[c][o], G[o], look, sizes)
<1>1. /\ told' = [c \in Clients |-> [o \in Objects |-> told'[c][o]]]
      /\ \A c \in Clients, o \in Objects :
            told'[c][o] = IF o \notin objects THEN told[c][o]
                          ELSE ToldOf(told[c][o], o, G[o], look, sizes)
  BY DEF IsReport
<1>2. \A c \in Clients, o \in Objects :
        /\ told'[c][o] = [f \in ToldFields |-> told'[c][o][f]]
        /\ o \notin Surfaces => told'[c][o][BufferSize] = Nothing
        /\ o \in objects => Told(o, told[c][o], told'[c][o], G[o], look, sizes)
  <2> SUFFICES ASSUME NEW c \in Clients, NEW o \in Objects
               PROVE  /\ told'[c][o] = [f \in ToldFields |-> told'[c][o][f]]
                      /\ o \notin Surfaces => told'[c][o][BufferSize] = Nothing
                      /\ o \in objects => Told(o, told[c][o], told'[c][o], G[o], look, sizes)
    OBVIOUS
  <2>1. CASE o \in objects
    <3>1. Told(o, told[c][o], ToldOf(told[c][o], o, G[o], look, sizes), G[o], look, sizes)
      BY ToldShape, ToldEntry
    <3>2. Told(o, told[c][o], told'[c][o], G[o], look, sizes)
      BY <1>1, <2>1, <3>1
    <3> QED BY <3>2 DEF Told
  <2>2. CASE o \notin objects
    BY <1>1, <2>2, ToldShape
  <2> QED BY <2>1, <2>2
<1>3. told' = [c \in Clients |-> [o \in Objects |-> [f \in ToldFields |-> told'[c][o][f]]]]
  BY <1>1, <1>2
<1> QED BY <1>2, <1>3 DEF Shaped

\* A report names every field that changes, and tells the size that changes.
LEMMA ReportStep ==
    ASSUME IInv, NEW G, IsReport(cur', size', G),
           objects' = objects, IsScene(cur'), IsScene(pend'),
           size' = [s \in Surfaces |-> size'[s]],
           \A o \in objects : \A f \in Fields :
              f \in G[o] \/ cur'[o].prop[f] = cur[o].prop[f],
           \A o \in objects : o \in Surfaces =>
              size'[o] = size[o] \/ (BufferSize \in G[o] /\ size'[o] # 0)
    PROVE  IInv'
<1>1. Shaped
  BY DEF IInv
<1>2. Shaped'
  BY <1>1, ReportShape DEF Shaped
<1>3. ToldIsShown'
  <2> SUFFICES ASSUME NEW c \in Clients, NEW o \in objects, NEW f \in ToldFields,
                      told'[c][o][f] # Nothing
               PROVE  told'[c][o][f] = Shown(o, f)'
    BY DEF ToldIsShown, ToldFields
  <2>1. Told(o, told[c][o], told'[c][o], G[o], cur', size')
    BY <1>1, ReportShape
  <2>2. /\ told[c][o][f] # Nothing => told[c][o][f] = Shown(o, f)
        /\ o \notin Surfaces => told'[c][o][BufferSize] = Nothing
    BY <1>1, <2>1 DEF IInv, ToldIsShown, ToldFields, Told
  <2>3. CASE f \in Fields
    BY <2>1, <2>2, <2>3, BufferIsNoField DEF Told, Shown
  <2>4. CASE f = BufferSize
    BY <2>1, <2>2, <2>4 DEF Told, Shown
  <2> QED BY <2>3, <2>4 DEF ToldFields
<1> QED BY <1>2, <1>3 DEF IInv

LEMMA CommitStep ==
    ASSUME IInv, NEW c \in Clients, NEW r, controller_commit_changes(c, r)
    PROVE  S!Next /\ IInv'
<1> DEFINE G == [o \in Objects |-> Changed(pend, o)]
<1>1. /\ cur' = pend /\ objects' = objects /\ pend' = pend /\ size' = size
      /\ Shaped
  BY DEF controller_commit_changes, IInv
<1>2. S!Show
  BY <1>1 DEF S!Show
<1>3. IsReport(cur', size', G)
  BY <1>1 DEF controller_commit_changes, Report, IsReport
<1>4. \A o \in objects : \A f \in Fields : f \in G[o] \/ cur'[o].prop[f] = cur[o].prop[f]
  BY <1>1 DEF Changed, Shaped
<1>5. IsScene(cur') /\ IsScene(pend') /\ size' = [s \in Surfaces |-> size'[s]]
  BY <1>1 DEF Shaped
<1> HIDE DEF G
<1>6. IInv'
  BY <1>1, <1>3, <1>4, <1>5, ReportStep
<1> QED BY <1>2, <1>6 DEF S!Next

LEMMA ConfigureStep ==
    ASSUME IInv, NEW s \in Surfaces, NEW n, surface_event_configure(s, n)
    PROVE  (S!Next \/ UNCHANGED S!vars) /\ IInv'
<1>1. /\ s \in objects /\ n # 0 /\ objects' = objects
      /\ size' = [size EXCEPT ![s] = n]
      /\ Shaped
  BY DEF surface_event_configure, IInv
<1>2. /\ size' = [q \in Surfaces |-> size'[q]]
      /\ \A q \in Surfaces : size'[q] = IF q = s THEN n ELSE size[q]
  BY <1>1 DEF Shaped
<1>3. CASE type[s] = "desktop"
  <2> DEFINE G == [o \in Objects |-> Changed(pend', o) \cup (IF o = s THEN {BufferSize} ELSE {})]
  <2>1. /\ pend' = [pend EXCEPT ![s] = DesktopLook(s, n)]
        /\ cur' = pend'
    BY <1>3 DEF surface_event_configure
  <2>2. IsScene(pend') /\ IsWish(pend, pend', s)
    BY <1>1, <2>1, DesktopIsScene
  <2>3. S!AskAndShow(s)
    BY <1>1, <2>1, <2>2 DEF S!AskAndShow, S!Wish, IsWish
  <2>4. IsReport(cur', size', G)
    BY <1>3, <2>1 DEF surface_event_configure, Report, IsReport
  <2>5. /\ \A o \in objects : \A f \in Fields : f \in G[o] \/ cur'[o].prop[f] = cur[o].prop[f]
        /\ BufferSize \in G[s]
    BY <1>1, <2>1 DEF Changed, Shaped
  <2> HIDE DEF G
  <2>6. IInv'
    BY <1>1, <1>2, <2>1, <2>2, <2>4, <2>5, ReportStep
  <2>7. s \in Objects
    BY <1>1 DEF Shaped
  <2> QED BY <2>3, <2>6, <2>7 DEF S!Next
<1>4. CASE type[s] # "desktop"
  <2> DEFINE G == [o \in Objects |-> IF o = s THEN {BufferSize} ELSE {}]
  <2>1. UNCHANGED <<cur, pend>>
    BY <1>4 DEF surface_event_configure
  <2>2. IsReport(cur', size', G)
    BY <1>4, <2>1 DEF surface_event_configure, Report, IsReport
  <2>3. BufferSize \in G[s]
    BY <1>1 DEF Shaped
  <2>4. IsScene(cur') /\ IsScene(pend')
    BY <1>1, <2>1 DEF Shaped
  <2> HIDE DEF G
  <2>5. IInv'
    BY <1>1, <1>2, <2>1, <2>2, <2>3, <2>4, ReportStep
  <2> QED BY <1>1, <2>1, <2>5 DEF S!vars
<1> QED BY <1>3, <1>4

-----------------------------------------------------------------------------
(* Objects come and go.                                                    *)

\* Nobody was told anything of an object that is new or gone.
LEMMA RenewStep ==
    ASSUME IInv, NEW o \in Objects, Renewed(o),
           IsScene(cur'), IsScene(pend'), size' = [s \in Surfaces |-> size'[s]],
           objects' \subseteq objects \cup {o},
           \A q \in Objects \ {o} : cur'[q].prop = cur[q].prop,
           \A s \in Surfaces \ {o} : size'[s] = size[s]
    PROVE  IInv'
<1>1. Shaped /\ o \in Objects
  BY DEF IInv
<1>2. \A f \in ToldFields : NothingTold[f] = Nothing
  BY DEF NothingTold, ToldFields
<1>3. NothingTold = [f \in ToldFields |-> NothingTold[f]]
  BY DEF NothingTold, ToldFields
<1>4. told' = [c \in Clients |-> [told[c] EXCEPT ![o] = NothingTold]]
  BY DEF Renewed
<1>5. \A c \in Clients, q \in Objects :
        told'[c][q] = IF q = o THEN NothingTold ELSE told[c][q]
  BY <1>1, <1>4 DEF Shaped
<1>6. told' = [c \in Clients |-> [q \in Objects |-> told'[c][q]]]
  BY <1>1, <1>4 DEF Shaped
<1>7. \A c \in Clients, q \in Objects :
        told'[c][q] = [f \in ToldFields |-> told'[c][q][f]]
  BY <1>1, <1>3, <1>5, ToldShape
<1>8. told' = [c \in Clients |-> [q \in Objects |-> [f \in ToldFields |-> told'[c][q][f]]]]
  BY <1>6, <1>7
<1>9. \A c \in Clients, q \in Objects :
        q \notin Surfaces => told'[c][q][BufferSize] = Nothing
  <2>1. NothingTold[BufferSize] = Nothing
    BY <1>2 DEF ToldFields
  <2>2. \A c \in Clients, q \in Objects :
          q \notin Surfaces => told[c][q][BufferSize] = Nothing
    BY <1>1, ToldShape
  <2> QED BY <1>5, <2>1, <2>2
<1>10. Shaped'
  BY <1>1, <1>8, <1>9 DEF Shaped
<1>11. ToldIsShown'
  <2> SUFFICES ASSUME NEW c \in Clients, NEW q \in objects', NEW f \in ToldFields,
                      told'[c][q][f] # Nothing
               PROVE  told'[c][q][f] = Shown(q, f)'
    BY DEF ToldIsShown, ToldFields
  <2>1. q \in Objects \ {o} /\ q \in objects
    BY <1>1, <1>2, <1>5 DEF Shaped
  <2>2. told'[c][q][f] = Shown(q, f)
    BY <1>5, <2>1 DEF IInv, ToldIsShown, ToldFields
  <2>3. CASE f \in Fields
    BY <2>1, <2>2, <2>3, BufferIsNoField DEF Shown
  <2>4. CASE f = BufferSize
    BY <1>9, <2>1, <2>2, <2>4 DEF Shown
  <2> QED BY <2>3, <2>4 DEF ToldFields
<1> QED BY <1>10, <1>11 DEF IInv

LEMMA CreateStep ==
    ASSUME IInv, NEW o \in Objects, create_object(o)
    PROVE  S!Next /\ IInv'
<1>1. S!Come(o) /\ Renewed(o) /\ size' = size /\ Shaped
  BY DEF create_object, IInv
<1>2. cur' = cur /\ pend' = pend /\ objects' = objects \cup {o}
  BY <1>1 DEF S!Come
<1>3. IsScene(cur') /\ IsScene(pend') /\ size' = [s \in Surfaces |-> size'[s]]
  BY <1>1, <1>2 DEF Shaped
<1>4. IInv'
  BY <1>1, <1>2, <1>3, RenewStep
<1> QED BY <1>1, <1>4 DEF S!Next

LEMMA RemoveStep ==
    ASSUME IInv, NEW o \in Objects, remove_object(o)
    PROVE  S!Next /\ IInv'
<1>1. /\ S!Go(o) /\ Renewed(o) /\ Shaped
      /\ size' = IF o \in Surfaces THEN [size EXCEPT ![o] = 0] ELSE size
  BY DEF remove_object, IInv
<1>2. /\ objects' \subseteq objects
      /\ cur' = S!Dropped(cur, o) /\ pend' = S!Dropped(pend, o)
  BY <1>1 DEF S!Go
<1>3. /\ IsScene(cur') /\ IsScene(pend')
      /\ \A q \in Objects \ {o} : cur'[q].prop = cur[q].prop
  BY <1>1, <1>2, DroppedIsScene DEF Shaped
<1>4. /\ size' = [s \in Surfaces |-> size'[s]]
      /\ \A s \in Surfaces \ {o} : size'[s] = size[s]
  BY <1>1 DEF Shaped
<1>5. IInv'
  BY <1>1, <1>2, <1>3, <1>4, RenewStep
<1> QED BY <1>1, <1>5 DEF S!Next

-----------------------------------------------------------------------------
(* Every step.                                                             *)

LEMMA RequestStep ==
    ASSUME IInv, NEW c \in Clients, HandleRequest(c)
    PROVE  (S!Next \/ UNCHANGED S!vars) /\ IInv'
<1>1. PICK r : \/ controller_set_surface(c, r)
               \/ controller_set_layer(c, r)
               \/ controller_layer_clear(c, r)
               \/ controller_layer_add_surface(c, r)
               \/ controller_layer_remove_surface(c, r)
               \/ controller_set_surface_type(c, r)
               \/ controller_get(c, r)
               \/ controller_commit_changes(c, r)
               \/ sync(c, r)
  BY DEF HandleRequest
<1>2. CASE UNCHANGED scene
  BY <1>2, OtherStep DEF scene
<1>3. CASE r.obj \in objects /\ SetProperties(c, r)
  BY <1>3, SetStep
<1>4. CASE \E order : r.obj \in objects /\ SetOrder(c, r.obj, order)
  BY <1>4, OrderStep
<1>5. CASE controller_set_surface_type(c, r)
  BY <1>5, OtherStep DEF controller_set_surface_type, Refuse, scene
<1>6. CASE controller_get(c, r)
  BY <1>6, GetStep
<1>7. CASE controller_commit_changes(c, r)
  BY <1>7, CommitStep
<1>8. \/ UNCHANGED scene
      \/ r.obj \in objects /\ SetProperties(c, r)
      \/ \E order : r.obj \in objects /\ SetOrder(c, r.obj, order)
      \/ controller_set_surface_type(c, r)
      \/ controller_get(c, r)
      \/ controller_commit_changes(c, r)
  <2>1. controller_set_surface(c, r) => UNCHANGED scene \/ (r.obj \in objects /\ SetProperties(c, r))
    BY DEF controller_set_surface, Refuse
  <2>2. controller_set_layer(c, r) => UNCHANGED scene \/ (r.obj \in objects /\ SetProperties(c, r))
    BY DEF controller_set_layer, Refuse
  <2>3. controller_layer_clear(c, r) =>
          UNCHANGED scene \/ \E order : r.obj \in objects /\ SetOrder(c, r.obj, order)
    BY DEF controller_layer_clear, Refuse
  <2>4. controller_layer_add_surface(c, r) =>
          UNCHANGED scene \/ \E order : r.obj \in objects /\ SetOrder(c, r.obj, order)
    BY DEF controller_layer_add_surface, Refuse
  <2>5. controller_layer_remove_surface(c, r) =>
          UNCHANGED scene \/ \E order : r.obj \in objects /\ SetOrder(c, r.obj, order)
    BY DEF controller_layer_remove_surface, Refuse
  <2>6. sync(c, r) => UNCHANGED scene
    BY DEF sync
  <2> QED BY <1>1, <2>1, <2>2, <2>3, <2>4, <2>5, <2>6
<1> QED BY <1>2, <1>3, <1>4, <1>5, <1>6, <1>7, <1>8

LEMMA ClientStep ==
    ASSUME IInv, NEW c \in Clients, CallLibrary(c) \/ Dispatch(c)
    PROVE  UNCHANGED S!vars /\ IInv'
<1>1. UNCHANGED scene
  BY DEF CallLibrary, Dispatch, ilm_surfaceSetScalar, ilm_surfaceSetSourceRectangle,
         ilm_surfaceSetDestinationRectangle, ilm_layerSetVisibility, ilm_layerSetOpacity,
         ilm_layerSetRectangle, ilm_layerSetRenderOrder, ilm_layerAddRemoveSurface,
         ilm_surfaceSetType, ilm_get, ilm_commitChanges, ilm_getError, Setter, Roundtrip, Send
<1> QED BY <1>1, OtherStep DEF scene

LEMMA Initially == Init => S!Init /\ IInv
<1> SUFFICES ASSUME Init PROVE S!Init /\ IInv
  OBVIOUS
<1>1. S!Init
  BY DEF Init, S!Init
<1>2. \A f \in ToldFields : NothingTold[f] = Nothing
  BY DEF NothingTold, ToldFields
<1>3. IsScene(cur) /\ IsScene(pend)
  BY DEF Init, IsScene, Blank, Look
<1>4. \A c \in Clients, o \in Objects : told[c][o] = NothingTold
  BY DEF Init
<1>5. told = [c \in Clients |-> [o \in Objects |-> [f \in ToldFields |-> told[c][o][f]]]]
  BY DEF Init, NothingTold, ToldFields
<1>6. Shaped
  BY <1>2, <1>3, <1>4, <1>5 DEF Init, Shaped, ToldFields
<1>7. ToldIsShown
  BY <1>2, <1>4 DEF Init, ToldIsShown, ToldFields
<1> QED BY <1>1, <1>6, <1>7 DEF IInv

LEMMA EveryStep == IInv /\ [Next]_vars => IInv' /\ [S!Next]_(S!vars)
<1> SUFFICES ASSUME IInv, [Next]_vars PROVE IInv' /\ [S!Next]_(S!vars)
  OBVIOUS
<1>1. CASE \E c \in Clients : CallLibrary(c) \/ Dispatch(c)
  BY <1>1, ClientStep
<1>2. CASE \E c \in Clients : HandleRequest(c)
  BY <1>2, RequestStep
<1>3. CASE \E o \in Objects : create_object(o) \/ remove_object(o)
  BY <1>3, CreateStep, RemoveStep
<1>4. CASE \E s \in Surfaces, n \in Values : surface_event_configure(s, n)
  BY <1>4, ConfigureStep
<1>5. CASE Finished \/ UNCHANGED vars
  BY <1>5, OtherStep DEF Finished, vars, scene
<1> QED BY <1>1, <1>2, <1>3, <1>4, <1>5 DEF Next

\* IviScene implements Scene: no request but a commit changes what is on
\* display, and a commit shows everything that is pending.
THEOREM SceneImplemented == Spec => ImplementsScene
<1>1. Init => S!Init /\ IInv
  BY Initially
<1>2. IInv /\ [Next]_vars => IInv' /\ [S!Next]_(S!vars)
  BY EveryStep
<1> QED BY <1>1, <1>2, PTL DEF Spec, S!Spec, ImplementsScene

\* What a client was told of an object is on display (event masks of
\* send_surface_prop, send_layer_prop, convert_protocol_enum).
THEOREM ToldIsShownAlways == Spec => []ToldIsShown
<1>1. Init => IInv
  BY Initially
<1>2. IInv /\ [Next]_vars => IInv'
  BY EveryStep
<1>3. IInv => ToldIsShown
  BY DEF IInv
<1> QED BY <1>1, <1>2, <1>3, PTL DEF Spec

-----------------------------------------------------------------------------
(* Errors.                                                                 *)

Requests ==
    [op : {"set"}, obj : Objects, change : FieldValues]
      \cup [op : {"clear"}, obj : Layers]
      \cup [op : {"add", "remove"}, obj : Layers, surf : Surfaces]
      \cup [op : {"type"}, obj : Surfaces, type : {"restricted", "desktop"}]
      \cup [op : {"get"}, obj : Objects, params : Params]
      \cup [op : {"sync", "commit"}]
Answers == {"done", "not_found"}
Codes == {"success", "not_found"}

ConnTypes ==
    /\ wire = [c \in Clients |-> wire[c]] /\ inbox = [c \in Clients |-> inbox[c]]
    /\ call = [c \in Clients |-> call[c]]
    /\ flag \in [Clients -> Codes] /\ refused \in [Clients -> Codes]
    /\ \A c \in Clients : wire[c] \in Seq(Requests) /\ inbox[c] \in Seq(Answers)

\* Where the sync of a client is: on its way as the last request, answered by
\* the last event, or nowhere.
NoSync(w) == \A i \in 1 .. Len(w) : w[i].op # "sync"
NoDone(b) == \A i \in 1 .. Len(b) : b[i] # "done"
SyncLast(w) == /\ Len(w) > 0 /\ w[Len(w)].op = "sync"
               /\ \A i \in 1 .. Len(w) : i < Len(w) => w[i].op # "sync"
DoneLast(b) == /\ Len(b) > 0 /\ b[Len(b)] = "done"
               /\ \A i \in 1 .. Len(b) : i < Len(b) => b[i] # "done"
HasError(b) == \E i \in 1 .. Len(b) : b[i] = "not_found"

\* A client waits for one sync, or for none.
Await(w, b, waits) ==
    IF waits THEN (SyncLast(w) /\ NoDone(b)) \/ (w = <<>> /\ DoneLast(b))
             ELSE NoSync(w) /\ NoDone(b)

\* An error is known to the library, on its way to it, or there is none.
ErrorKnown(c) == refused[c] = "not_found" <=> flag[c] = "not_found" \/ HasError(inbox[c])

\* The invariant of errors: with a sync that is the last of its connection, no
\* event is behind the one that lets a call return.
EInv ==
    /\ ConnTypes
    /\ \A c \in Clients : Await(wire[c], inbox[c], call[c] # "none") /\ ErrorKnown(c)

connection == <<wire, inbox, call, flag, refused>>

LEMMA ConnUnchanged == ASSUME EInv, UNCHANGED connection PROVE EInv'
BY DEF EInv, ConnTypes, ErrorKnown, connection

\* Sequences that get longer at the end and shorter at the front.
LEMMA SentPlain ==
    ASSUME NEW w \in Seq(Requests), NEW q \in Seq(Requests), NoSync(w), NoSync(q)
    PROVE  w \o q \in Seq(Requests) /\ NoSync(w \o q)
<1>1. /\ w \o q \in Seq(Requests) /\ Len(w \o q) = Len(w) + Len(q)
      /\ \A i \in 1 .. Len(w) + Len(q) :
            (w \o q)[i] = IF i <= Len(w) THEN w[i] ELSE q[i - Len(w)]
  BY ConcatProperties
<1>2. Len(w) \in Nat /\ Len(q) \in Nat
  OBVIOUS
<1> QED BY <1>1, <1>2 DEF NoSync

LEMMA SentSync ==
    ASSUME NEW w \in Seq(Requests), NEW q \in Seq(Requests), NoSync(w), SyncLast(q)
    PROVE  w \o q \in Seq(Requests) /\ SyncLast(w \o q)
<1>1. /\ w \o q \in Seq(Requests) /\ Len(w \o q) = Len(w) + Len(q)
      /\ \A i \in 1 .. Len(w) + Len(q) :
            (w \o q)[i] = IF i <= Len(w) THEN w[i] ELSE q[i - Len(w)]
  BY ConcatProperties
<1>2. Len(w) \in Nat /\ Len(q) \in Nat
  OBVIOUS
<1>3. Len(w \o q) > 0 /\ (w \o q)[Len(w \o q)].op = "sync"
  BY <1>1, <1>2 DEF SyncLast
<1>4. ASSUME NEW i \in 1 .. Len(w \o q), i < Len(w \o q) PROVE (w \o q)[i].op # "sync"
  <2>1. CASE i <= Len(w)
    BY <1>1, <1>2, <1>4, <2>1 DEF NoSync
  <2>2. CASE i > Len(w)
    <3>1. /\ i - Len(w) \in 1 .. Len(q) /\ i - Len(w) < Len(q)
          /\ (w \o q)[i] = q[i - Len(w)]
      BY <1>1, <1>2, <1>4, <2>2
    <3> QED BY <3>1 DEF SyncLast
  <2> QED BY <1>1, <1>2, <2>1, <2>2
<1> QED BY <1>1, <1>3, <1>4 DEF SyncLast

LEMMA OnlyOne == ASSUME NEW n \in Nat \ {0}, ~(1 < n) PROVE n = 1
OBVIOUS

LEMMA WireTail ==
    ASSUME NEW w \in Seq(Requests), w # <<>>
    PROVE  /\ Tail(w) \in Seq(Requests)
           /\ NoSync(w) => Head(w).op # "sync" /\ NoSync(Tail(w))
           /\ SyncLast(w) => IF Head(w).op = "sync" THEN Tail(w) = <<>>
                             ELSE SyncLast(Tail(w))
<1>1. /\ Tail(w) \in Seq(Requests) /\ Len(Tail(w)) = Len(w) - 1
      /\ \A i \in 1 .. Len(w) - 1 : Tail(w)[i] = w[i + 1]
  BY HeadTailProperties
<1>2. Len(w) \in Nat \ {0} /\ Head(w) = w[1]
  OBVIOUS
<1>3. NoSync(w) => Head(w).op # "sync" /\ NoSync(Tail(w))
  BY <1>1, <1>2 DEF NoSync
<1>4. ASSUME SyncLast(w), Head(w).op = "sync" PROVE Tail(w) = <<>>
  <2>1. 1 \in 1 .. Len(w) /\ w[1].op = "sync"
    BY <1>2, <1>4
  <2>2. ~(1 < Len(w))
    BY <1>4, <2>1 DEF SyncLast
  <2>3. Len(w) = 1
    <3>1. Len(w) \in Nat \ {0}
      BY <1>2
    <3> QED BY <3>1, <2>2, OnlyOne, Zenon
  <2>4. Len(Tail(w)) = 0 /\ Len(Tail(w)) \notin Nat \ {0}
    BY <1>1, <2>3
  <2> QED BY <1>1, <2>4, EmptySeq, Zenon
<1>5. ASSUME SyncLast(w), Head(w).op # "sync" PROVE SyncLast(Tail(w))
  <2>1. Len(w) > 1
    BY <1>2, <1>5 DEF SyncLast
  <2> QED BY <1>1, <1>2, <1>5, <2>1 DEF SyncLast
<1> QED BY <1>1, <1>3, <1>4, <1>5

LEMMA InboxAppend ==
    ASSUME NEW b \in Seq(Answers), NEW x \in Answers
    PROVE  /\ Append(b, x) \in Seq(Answers)
           /\ NoDone(b) => IF x = "done" THEN DoneLast(Append(b, x)) ELSE NoDone(Append(b, x))
           /\ HasError(Append(b, x)) <=> x = "not_found" \/ HasError(b)
<1>1. /\ Append(b, x) \in Seq(Answers) /\ Len(Append(b, x)) = Len(b) + 1
      /\ \A i \in 1 .. Len(b) : Append(b, x)[i] = b[i]
      /\ Append(b, x)[Len(b) + 1] = x
  BY AppendProperties
<1>2. Len(b) \in Nat
  OBVIOUS
<1>3. NoDone(b) => IF x = "done" THEN DoneLast(Append(b, x)) ELSE NoDone(Append(b, x))
  BY <1>1, <1>2 DEF NoDone, DoneLast
<1>4. HasError(Append(b, x)) <=> x = "not_found" \/ HasError(b)
  BY <1>1, <1>2 DEF HasError
<1> QED BY <1>1, <1>3, <1>4

LEMMA InboxTail ==
    ASSUME NEW b \in Seq(Answers), b # <<>>
    PROVE  /\ Tail(b) \in Seq(Answers) /\ Head(b) \in Answers
           /\ NoDone(b) => Head(b) # "done" /\ NoDone(Tail(b))
           /\ DoneLast(b) => IF Head(b) = "done" THEN Tail(b) = <<>> ELSE DoneLast(Tail(b))
           /\ HasError(b) <=> Head(b) = "not_found" \/ HasError(Tail(b))
<1>1. /\ Tail(b) \in Seq(Answers) /\ Len(Tail(b)) = Len(b) - 1 /\ Head(b) \in Answers
      /\ \A i \in 1 .. Len(b) - 1 : Tail(b)[i] = b[i + 1]
  BY HeadTailProperties
<1>2. Len(b) \in Nat \ {0} /\ Head(b) = b[1]
  OBVIOUS
<1>3. NoDone(b) => Head(b) # "done" /\ NoDone(Tail(b))
  BY <1>1, <1>2 DEF NoDone
<1>4. ASSUME DoneLast(b), Head(b) = "done" PROVE Tail(b) = <<>>
  <2>1. 1 \in 1 .. Len(b) /\ b[1] = "done"
    BY <1>2, <1>4
  <2>2. ~(1 < Len(b))
    BY <1>4, <2>1 DEF DoneLast
  <2>3. Len(b) = 1
    <3>1. Len(b) \in Nat \ {0}
      BY <1>2
    <3> QED BY <3>1, <2>2, OnlyOne, Zenon
  <2>4. Len(Tail(b)) = 0 /\ Len(Tail(b)) \notin Nat \ {0}
    BY <1>1, <2>3
  <2> QED BY <1>1, <2>4, EmptySeq, Zenon
<1>5. ASSUME DoneLast(b), Head(b) # "done" PROVE DoneLast(Tail(b))
  <2>1. Len(b) > 1
    BY <1>2, <1>5 DEF DoneLast
  <2> QED BY <1>1, <1>2, <1>5, <2>1 DEF DoneLast
<1>6. HasError(b) <=> Head(b) = "not_found" \/ HasError(Tail(b))
  <2>1. \A i \in 1 .. Len(b) : i = 1 \/ (i - 1 \in 1 .. Len(b) - 1 /\ b[i] = Tail(b)[i - 1])
    BY <1>1, <1>2
  <2>2. \A i \in 1 .. Len(b) - 1 : i + 1 \in 1 .. Len(b) /\ b[i + 1] = Tail(b)[i]
    BY <1>1, <1>2
  <2>3. 1 \in 1 .. Len(b)
    BY <1>2
  <2>4. ASSUME NEW i \in 1 .. Len(b), b[i] = "not_found"
        PROVE  Head(b) = "not_found" \/ HasError(Tail(b))
    BY <1>1, <1>2, <2>1, <2>4 DEF HasError
  <2>5. ASSUME NEW i \in 1 .. Len(b) - 1, Tail(b)[i] = "not_found" PROVE HasError(b)
    BY <2>2, <2>5 DEF HasError
  <2>6. Head(b) = "not_found" => HasError(b)
    BY <1>2, <2>3 DEF HasError
  <2> QED BY <1>1, <2>4, <2>5, <2>6 DEF HasError
<1> QED BY <1>1, <1>3, <1>4, <1>5, <1>6

\* A call that does not wait.
LEMMA SendStep ==
    ASSUME EInv, NEW c \in Clients, NEW q \in Seq(Requests), NoSync(q),
           Send(c, q), UNCHANGED call
    PROVE  EInv'
<1>1. NoSync(wire[c]) /\ NoDone(inbox[c]) /\ wire[c] \in Seq(Requests)
  BY DEF EInv, ConnTypes, Await, Send
<1>2. /\ wire' = [wire EXCEPT ![c] = wire[c] \o q] /\ UNCHANGED <<inbox, flag, refused>>
      /\ call[c] = "none"
  BY DEF Send
<1>3. wire[c] \o q \in Seq(Requests) /\ NoSync(wire[c] \o q)
  BY <1>1, SentPlain
<1>4. wire' = [d \in Clients |-> wire'[d]] /\ wire'[c] = wire[c] \o q
      /\ \A d \in Clients : d # c => wire'[d] = wire[d]
  BY <1>2 DEF EInv, ConnTypes
<1>5. ConnTypes'
  BY <1>2, <1>3, <1>4 DEF EInv, ConnTypes
<1>6. ASSUME NEW d \in Clients PROVE Await(wire'[d], inbox'[d], call'[d] # "none") /\ ErrorKnown(d)'
  <2>1. ErrorKnown(d)'
    BY <1>2 DEF EInv, ErrorKnown
  <2>2. CASE d = c
    BY <1>1, <1>2, <1>3, <1>4, <2>1, <2>2 DEF Await
  <2>3. CASE d # c
    BY <1>2, <1>4, <2>1, <2>3 DEF EInv
  <2> QED BY <2>2, <2>3
<1> QED BY <1>5, <1>6 DEF EInv

\* A call that waits.
LEMMA WaitStep ==
    ASSUME EInv, NEW c \in Clients, NEW q \in Seq(Requests), NoSync(q),
           NEW name, name # "none", Roundtrip(c, name, q)
    PROVE  EInv'
<1> DEFINE s == q \o <<[op |-> "sync"]>>
<1>1. NoSync(wire[c]) /\ NoDone(inbox[c]) /\ wire[c] \in Seq(Requests)
  BY DEF EInv, ConnTypes, Await, Roundtrip, Send
<1>2. /\ wire' = [wire EXCEPT ![c] = wire[c] \o s] /\ UNCHANGED <<inbox, flag, refused>>
      /\ call' = [call EXCEPT ![c] = name]
  BY DEF Send, Roundtrip
<1>3. s \in Seq(Requests) /\ SyncLast(s)
  <2>1. [op |-> "sync"] \in Requests
    BY DEF Requests
  <2>2. s = Append(q, [op |-> "sync"])
    BY <2>1, AppendIsConcat
  <2>3. /\ s \in Seq(Requests) /\ Len(s) = Len(q) + 1
        /\ \A i \in 1 .. Len(q) : s[i] = q[i]
        /\ s[Len(q) + 1] = [op |-> "sync"]
    BY <2>1, <2>2, AppendProperties
  <2>4. Len(q) \in Nat
    OBVIOUS
  <2> QED BY <2>3, <2>4 DEF NoSync, SyncLast
<1> HIDE DEF s
<1>4. wire[c] \o s \in Seq(Requests) /\ SyncLast(wire[c] \o s)
  BY <1>1, <1>3, SentSync
<1>5. /\ wire' = [d \in Clients |-> wire'[d]] /\ wire'[c] = wire[c] \o s
      /\ call' = [d \in Clients |-> call'[d]] /\ call'[c] = name
      /\ \A d \in Clients : d # c => wire'[d] = wire[d] /\ call'[d] = call[d]
  BY <1>2 DEF EInv, ConnTypes
<1>6. ConnTypes'
  BY <1>2, <1>4, <1>5 DEF EInv, ConnTypes
<1>7. ASSUME NEW d \in Clients PROVE Await(wire'[d], inbox'[d], call'[d] # "none") /\ ErrorKnown(d)'
  <2>1. ErrorKnown(d)'
    BY <1>2 DEF EInv, ErrorKnown
  <2>2. CASE d = c
    BY <1>1, <1>2, <1>4, <1>5, <2>1, <2>2 DEF Await
  <2>3. CASE d # c
    BY <1>2, <1>5, <2>1, <2>3 DEF EInv
  <2> QED BY <2>2, <2>3
<1> QED BY <1>6, <1>7 DEF EInv

\* The requests of the library are well-formed, and only waiting calls sync.
LEMMA SetterStep ==
    ASSUME EInv, NEW c \in Clients, NEW Objs, NEW Names, Setter(c, Objs, Names)
    PROVE  EInv'
<1>1. PICK a \in Changes : /\ Send(c, <<[op |-> "set", obj |-> a.obj, change |-> a.change]>>)
                           /\ UNCHANGED call
  BY DEF Setter
<1>2. PICK r : r = [op |-> "set", obj |-> a.obj, change |-> a.change]
  OBVIOUS
<1>3. r \in Requests /\ r.op # "sync"
  BY <1>2, SceneAssumption DEF Requests
<1>4. <<r>> \in Seq(Requests) /\ NoSync(<<r>>)
  BY <1>3 DEF NoSync
<1> QED BY <1>1, <1>2, <1>4, SendStep

LEMMA OrderSent ==
    ASSUME EInv, NEW c \in Clients, ilm_layerSetRenderOrder(c)
    PROVE  EInv'
<1>1. PICK l \in Layers, q \in Orders :
        Send(c, <<[op |-> "clear", obj |-> l]>> \o
                   [i \in DOMAIN q |-> [op |-> "add", obj |-> l, surf |-> q[i]]])
        /\ UNCHANGED call
  BY DEF ilm_layerSetRenderOrder
<1>2. PICK a : a = [i \in DOMAIN q |-> [op |-> "add", obj |-> l, surf |-> q[i]]]
  OBVIOUS
<1>3. PICK r : r = [op |-> "clear", obj |-> l]
  OBVIOUS
<1>4. r \in Requests /\ r.op # "sync"
  BY <1>3 DEF Requests
<1>5. <<r>> \in Seq(Requests) /\ NoSync(<<r>>)
  BY <1>4 DEF NoSync
<1>6. a \in Seq(Requests) /\ NoSync(a)
  <2>1. q \in Seq(Surfaces)
    BY SceneAssumption
  <2>2. /\ Len(q) \in Nat /\ DOMAIN q = 1 .. Len(q)
        /\ \A i \in 1 .. Len(q) : q[i] \in Surfaces
    BY <2>1
  <2>3. \A i \in 1 .. Len(q) : a[i] \in Requests /\ a[i].op # "sync"
    BY <1>2, <2>2 DEF Requests
  <2>4. a \in [1 .. Len(q) -> Requests]
    BY <1>2, <2>2, <2>3
  <2>5. a \in Seq(Requests) /\ Len(a) = Len(q)
    BY <2>2, <2>4
  <2> QED BY <2>3, <2>5 DEF NoSync
<1>7. <<r>> \o a \in Seq(Requests) /\ NoSync(<<r>> \o a)
  BY <1>5, <1>6, SentPlain
<1> QED BY <1>1, <1>2, <1>3, <1>7, SendStep

LEMMA LibraryStep ==
    ASSUME EInv, NEW c \in Clients, CallLibrary(c)
    PROVE  EInv'
<1>1. CASE \/ ilm_surfaceSetScalar(c) \/ ilm_surfaceSetSourceRectangle(c)
           \/ ilm_surfaceSetDestinationRectangle(c) \/ ilm_layerSetVisibility(c)
           \/ ilm_layerSetOpacity(c) \/ ilm_layerSetRectangle(c)
  BY <1>1, SetterStep
     DEF ilm_surfaceSetScalar, ilm_surfaceSetSourceRectangle,
         ilm_surfaceSetDestinationRectangle, ilm_layerSetVisibility, ilm_layerSetOpacity,
         ilm_layerSetRectangle
<1>2. CASE ilm_layerSetRenderOrder(c)
  BY <1>2, OrderSent
<1>3. CASE ilm_layerAddRemoveSurface(c)
  <2>1. PICK l \in Layers, s \in Surfaces, op \in {"add", "remove"} :
          Send(c, <<[op |-> op, obj |-> l, surf |-> s]>>) /\ UNCHANGED call
    BY <1>3 DEF ilm_layerAddRemoveSurface
  <2>2. PICK r : r = [op |-> op, obj |-> l, surf |-> s]
    OBVIOUS
  <2>3. r \in Requests /\ r.op # "sync"
    BY <2>2 DEF Requests
  <2>4. <<r>> \in Seq(Requests) /\ NoSync(<<r>>)
    BY <2>3 DEF NoSync
  <2> QED BY <2>1, <2>2, <2>4, SendStep
<1>4. CASE ilm_surfaceSetType(c)
  <2>1. PICK s \in Surfaces, t \in {"restricted", "desktop"} :
          Send(c, <<[op |-> "type", obj |-> s, type |-> t]>>) /\ UNCHANGED call
    BY <1>4 DEF ilm_surfaceSetType
  <2>2. PICK r : r = [op |-> "type", obj |-> s, type |-> t]
    OBVIOUS
  <2>3. r \in Requests /\ r.op # "sync"
    BY <2>2 DEF Requests
  <2>4. <<r>> \in Seq(Requests) /\ NoSync(<<r>>)
    BY <2>3 DEF NoSync
  <2> QED BY <2>1, <2>2, <2>4, SendStep
<1>5. CASE ilm_get(c)
  <2>1. PICK o \in Objects, params \in Params :
          Roundtrip(c, "get", <<[op |-> "get", obj |-> o, params |-> params]>>)
    BY <1>5 DEF ilm_get
  <2>2. PICK r : r = [op |-> "get", obj |-> o, params |-> params]
    OBVIOUS
  <2>3. r \in Requests /\ r.op # "sync"
    BY <2>2 DEF Requests
  <2>4. <<r>> \in Seq(Requests) /\ NoSync(<<r>>)
    BY <2>3 DEF NoSync
  <2> QED BY <2>1, <2>2, <2>4, WaitStep
<1>6. CASE ilm_commitChanges(c)
  <2>1. [op |-> "commit"] \in Requests
    BY DEF Requests
  <2>2. <<[op |-> "commit"]>> \in Seq(Requests) /\ NoSync(<<[op |-> "commit"]>>)
    BY <2>1 DEF NoSync
  <2> QED BY <1>6, <2>2, WaitStep DEF ilm_commitChanges
<1>7. CASE ilm_getError(c)
  <2>1. <<>> \in Seq(Requests) /\ NoSync(<<>>)
    BY DEF NoSync
  <2> QED BY <1>7, <2>1, WaitStep DEF ilm_getError
<1> QED BY <1>1, <1>2, <1>3, <1>4, <1>5, <1>6, <1>7 DEF CallLibrary

\* What handling a request does to the connection.
LEMMA HandledConn ==
    ASSUME NEW c \in Clients, HandleRequest(c)
    PROVE  /\ wire[c] # <<>> /\ wire' = [wire EXCEPT ![c] = Tail(wire[c])]
           /\ UNCHANGED <<call, flag>>
           /\ \/ /\ Head(wire[c]).op = "sync" /\ UNCHANGED refused
                 /\ inbox' = [inbox EXCEPT ![c] = Append(inbox[c], "done")]
              \/ Head(wire[c]).op # "sync" /\ UNCHANGED <<inbox, refused>>
              \/ /\ Head(wire[c]).op # "sync"
                 /\ inbox' = [inbox EXCEPT ![c] = Append(inbox[c], "not_found")]
                 /\ refused' = [refused EXCEPT ![c] = IF refused[c] = "success"
                                                     THEN "not_found" ELSE refused[c]]
<1> DEFINE r == Head(wire[c])
           Served == UNCHANGED <<inbox, refused>>
<1>1. /\ wire[c] # <<>> /\ wire' = [wire EXCEPT ![c] = Tail(wire[c])]
      /\ UNCHANGED <<call, flag>>
      /\ \/ controller_set_surface(c, r) \/ controller_set_layer(c, r)
         \/ controller_layer_clear(c, r) \/ controller_layer_add_surface(c, r)
         \/ controller_layer_remove_surface(c, r) \/ controller_set_surface_type(c, r)
         \/ controller_get(c, r) \/ controller_commit_changes(c, r) \/ sync(c, r)
  BY DEF HandleRequest
<1> HIDE DEF r
<1>2. controller_set_surface(c, r) \/ controller_set_layer(c, r)
        => r.op # "sync" /\ (Served \/ Refuse(c, r))
  BY DEF controller_set_surface, controller_set_layer, SetProperties
<1>3. controller_layer_clear(c, r) \/ controller_layer_add_surface(c, r)
        \/ controller_layer_remove_surface(c, r)
        => r.op # "sync" /\ (Served \/ Refuse(c, r))
  BY DEF controller_layer_clear, controller_layer_add_surface,
         controller_layer_remove_surface, SetOrder
<1>4. controller_set_surface_type(c, r) \/ controller_get(c, r)
        => r.op # "sync" /\ (Served \/ Refuse(c, r))
  BY DEF controller_set_surface_type, controller_get
<1>5. controller_commit_changes(c, r) => r.op # "sync" /\ Served
  BY DEF controller_commit_changes
<1>6. sync(c, r) => /\ r.op = "sync" /\ UNCHANGED refused
                    /\ inbox' = [inbox EXCEPT ![c] = Append(inbox[c], "done")]
  BY DEF sync
<1>7. Refuse(c, r) => /\ inbox' = [inbox EXCEPT ![c] = Append(inbox[c], "not_found")]
                      /\ refused' = [refused EXCEPT ![c] = IF refused[c] = "success"
                                                     THEN "not_found" ELSE refused[c]]
  BY DEF Refuse
<1> QED BY <1>1, <1>2, <1>3, <1>4, <1>5, <1>6, <1>7 DEF r

LEMMA HandleStep ==
    ASSUME EInv, NEW c \in Clients, HandleRequest(c)
    PROVE  EInv'
<1> DEFINE w == wire[c]
           b == inbox[c]
<1>1. /\ w # <<>> /\ w \in Seq(Requests) /\ b \in Seq(Answers)
      /\ Await(w, b, call[c] # "none") /\ ErrorKnown(c)
      /\ refused[c] \in Codes /\ flag[c] \in Codes
  BY HandledConn DEF EInv, ConnTypes
<1>2. /\ wire' = [d \in Clients |-> wire'[d]] /\ wire'[c] = Tail(w)
      /\ \A d \in Clients : d # c => wire'[d] = wire[d]
      /\ UNCHANGED <<call, flag>>
  BY HandledConn DEF EInv, ConnTypes
<1>3. PICK x : x = IF Head(w).op = "sync" THEN "done" ELSE "not_found"
  OBVIOUS
<1>4. /\ inbox' = [d \in Clients |-> inbox'[d]]
      /\ \A d \in Clients : d # c => inbox'[d] = inbox[d] /\ refused'[d] = refused[d]
      /\ \/ inbox'[c] = b /\ refused'[c] = refused[c] /\ Head(w).op # "sync"
         \/ inbox'[c] = Append(b, x) /\ refused'[c] = IF x = "not_found" THEN "not_found"
                                                      ELSE refused[c]
      /\ refused' \in [Clients -> Codes]
  BY <1>1, <1>3, HandledConn DEF EInv, ConnTypes, Codes
<1>5. x \in Answers
  BY <1>3 DEF Answers
<1>6. /\ Append(b, x) \in Seq(Answers)
      /\ NoDone(b) => IF x = "done" THEN DoneLast(Append(b, x)) ELSE NoDone(Append(b, x))
      /\ HasError(Append(b, x)) <=> x = "not_found" \/ HasError(b)
  BY <1>1, <1>5, InboxAppend
<1>7. /\ Tail(w) \in Seq(Requests)
      /\ NoSync(w) => Head(w).op # "sync" /\ NoSync(Tail(w))
      /\ SyncLast(w) => IF Head(w).op = "sync" THEN Tail(w) = <<>> ELSE SyncLast(Tail(w))
  BY <1>1, WireTail
<1> HIDE DEF w, b
<1>8. ConnTypes'
  <2>1. ASSUME NEW d \in Clients PROVE wire'[d] \in Seq(Requests) /\ inbox'[d] \in Seq(Answers)
    <3>1. CASE d = c
      BY <1>1, <1>2, <1>4, <1>6, <1>7, <3>1
    <3>2. CASE d # c
      BY <1>2, <1>4, <3>2 DEF EInv, ConnTypes
    <3> QED BY <3>1, <3>2
  <2> QED BY <1>2, <1>4, <2>1 DEF EInv, ConnTypes
<1>9. Await(wire'[c], inbox'[c], call'[c] # "none")
  <2>1. CASE Head(w).op = "sync"
    BY <1>1, <1>2, <1>3, <1>4, <1>6, <1>7, <2>1 DEF Await
  <2>2. CASE Head(w).op # "sync"
    BY <1>1, <1>2, <1>3, <1>4, <1>6, <1>7, <2>2 DEF Await
  <2> QED BY <2>1, <2>2
<1>10. ErrorKnown(c)'
  BY <1>1, <1>2, <1>4, <1>6 DEF ErrorKnown, b
<1>11. ASSUME NEW d \in Clients, d # c
       PROVE  Await(wire'[d], inbox'[d], call'[d] # "none") /\ ErrorKnown(d)'
  BY <1>2, <1>4, <1>11 DEF EInv, ErrorKnown
<1> QED BY <1>8, <1>9, <1>10, <1>11 DEF EInv

\* A call returns when the events before its done event have been dispatched,
\* and there is none after it.
LEMMA DispatchStep ==
    ASSUME EInv, NEW c \in Clients, Dispatch(c)
    PROVE  /\ EInv'
           /\ \A d \in Clients : refused[d] # "success" /\ refused'[d] = "success"
                                   => flag[d] = refused[d]
<1> DEFINE w == wire[c]
           b == inbox[c]
<1>1. /\ b # <<>> /\ w \in Seq(Requests) /\ b \in Seq(Answers)
      /\ Await(w, b, call[c] # "none") /\ ErrorKnown(c)
      /\ refused[c] \in Codes /\ flag[c] \in Codes
  BY DEF EInv, ConnTypes, Dispatch
<1>2. /\ inbox' = [d \in Clients |-> inbox'[d]] /\ inbox'[c] = Tail(b) /\ UNCHANGED wire
      /\ \A d \in Clients : d # c => inbox'[d] = inbox[d]
  BY DEF EInv, ConnTypes, Dispatch
<1>3. /\ Tail(b) \in Seq(Answers) /\ Head(b) \in Answers
      /\ NoDone(b) => Head(b) # "done" /\ NoDone(Tail(b))
      /\ DoneLast(b) => IF Head(b) = "done" THEN Tail(b) = <<>> ELSE DoneLast(Tail(b))
      /\ HasError(b) <=> Head(b) = "not_found" \/ HasError(Tail(b))
  BY <1>1, InboxTail
<1>4. /\ call' = [d \in Clients |-> call'[d]]
      /\ \A d \in Clients : d # c => /\ call'[d] = call[d] /\ flag'[d] = flag[d]
                                     /\ refused'[d] = refused[d]
      /\ IF Head(b) = "done"
         THEN /\ call'[c] = "none"
              /\ IF call[c] = "getError" THEN flag'[c] = "success" /\ refused'[c] = "success"
                 ELSE flag'[c] = flag[c] /\ refused'[c] = refused[c]
         ELSE /\ call'[c] = call[c] /\ refused'[c] = refused[c]
              /\ flag'[c] = IF flag[c] = "success" THEN Head(b) ELSE flag[c]
      /\ flag' \in [Clients -> Codes] /\ refused' \in [Clients -> Codes]
  BY <1>3 DEF EInv, ConnTypes, Dispatch, Done, wm_listener_error, Codes, Answers
<1>5. NoSync(<<>>) /\ NoDone(<<>>) /\ ~HasError(<<>>)
  BY DEF NoSync, NoDone, HasError
<1>6. SyncLast(w) => w # <<>>
  BY DEF SyncLast
<1> HIDE DEF w, b
<1>7. ConnTypes'
  <2>1. ASSUME NEW d \in Clients PROVE wire'[d] \in Seq(Requests) /\ inbox'[d] \in Seq(Answers)
    <3>1. CASE d = c
      BY <1>1, <1>2, <1>3, <3>1 DEF w
    <3>2. CASE d # c
      BY <1>2, <3>2 DEF EInv, ConnTypes
    <3> QED BY <3>1, <3>2
  <2> QED BY <1>2, <1>4, <2>1 DEF EInv, ConnTypes
<1> DEFINE Right == /\ Await(wire'[c], inbox'[c], call'[c] # "none") /\ ErrorKnown(c)'
                    /\ refused[c] # "success" /\ refused'[c] = "success" => flag[c] = refused[c]
<1>8. ASSUME Head(b) = "done" PROVE Right
  <2>1. call[c] # "none" /\ w = <<>> /\ Tail(b) = <<>>
    BY <1>1, <1>3, <1>8 DEF Await
  <2>2. Await(wire'[c], inbox'[c], call'[c] # "none")
    BY <1>2, <1>4, <1>5, <1>8, <2>1 DEF Await, w
  <2>3. refused[c] = "not_found" <=> flag[c] = "not_found"
    BY <1>1, <1>3, <1>5, <1>8, <2>1 DEF ErrorKnown, b
  <2>4. ErrorKnown(c)'
    BY <1>2, <1>4, <1>5, <1>8, <2>1, <2>3 DEF ErrorKnown
  <2>5. flag[c] = refused[c]
    BY <1>1, <2>3 DEF Codes
  <2> QED BY <2>2, <2>4, <2>5
<1>9. ASSUME Head(b) # "done" PROVE Right
  <2>1. Head(b) = "not_found"
    BY <1>3, <1>9 DEF Answers
  <2>2. Await(wire'[c], inbox'[c], call'[c] # "none")
    BY <1>1, <1>2, <1>3, <1>4, <1>9 DEF Await, w
  <2>3. refused[c] = "not_found"
    BY <1>1, <1>3, <2>1 DEF ErrorKnown, b
  <2>4. flag'[c] = "not_found" /\ refused'[c] = "not_found"
    BY <1>1, <1>4, <1>9, <2>1, <2>3 DEF Codes
  <2>5. ErrorKnown(c)'
    BY <2>4 DEF ErrorKnown
  <2> QED BY <2>2, <2>4, <2>5
<1>10. ASSUME NEW d \in Clients, d # c
       PROVE  Await(wire'[d], inbox'[d], call'[d] # "none") /\ ErrorKnown(d)'
  BY <1>2, <1>4, <1>10 DEF EInv, ErrorKnown
<1>11. Right
  BY <1>8, <1>9
<1> QED BY <1>4, <1>7, <1>10, <1>11 DEF EInv

LEMMA ErrorStep ==
    EInv /\ [Next]_vars
      => EInv' /\ \A c \in Clients : refused[c] # "success" /\ refused'[c] = "success"
                                       => flag[c] = refused[c]
<1> DEFINE Answered == \A c \in Clients : refused[c] # "success" /\ refused'[c] = "success"
                                        => flag[c] = refused[c]
<1> SUFFICES ASSUME EInv, [Next]_vars PROVE EInv' /\ Answered
  OBVIOUS
<1>1. ASSUME NEW c \in Clients, CallLibrary(c) PROVE EInv' /\ Answered
  <2>1. UNCHANGED refused
    BY <1>1 DEF CallLibrary, ilm_surfaceSetScalar, ilm_surfaceSetSourceRectangle,
         ilm_surfaceSetDestinationRectangle, ilm_layerSetVisibility, ilm_layerSetOpacity,
         ilm_layerSetRectangle, ilm_layerSetRenderOrder, ilm_layerAddRemoveSurface,
         ilm_surfaceSetType, ilm_get, ilm_commitChanges, ilm_getError, Setter, Roundtrip, Send
  <2> QED BY <1>1, <2>1, LibraryStep
<1>2. ASSUME NEW c \in Clients, HandleRequest(c) PROVE EInv' /\ Answered
  <2>1. \A d \in Clients : refused[d] # "success" => refused'[d] = refused[d]
    BY <1>2, HandledConn DEF EInv, ConnTypes
  <2> QED BY <1>2, <2>1, HandleStep
<1>3. ASSUME NEW c \in Clients, Dispatch(c) PROVE EInv' /\ Answered
  BY <1>3, DispatchStep
<1>4. ASSUME NEW o \in Objects, create_object(o) \/ remove_object(o) PROVE EInv' /\ Answered
  <2>1. UNCHANGED connection
    BY <1>4 DEF create_object, remove_object, Renewed, conn, connection
  <2> QED BY <2>1, ConnUnchanged DEF connection
<1>5. ASSUME NEW s \in Surfaces, NEW n \in Values, surface_event_configure(s, n)
      PROVE  EInv' /\ Answered
  <2>1. UNCHANGED connection
    BY <1>5 DEF surface_event_configure, conn, connection
  <2> QED BY <2>1, ConnUnchanged DEF connection
<1>6. CASE Finished \/ UNCHANGED vars
  <2>1. UNCHANGED connection
    BY <1>6 DEF Finished, vars, conn, hist, connection
  <2> QED BY <2>1, ConnUnchanged DEF connection
<1> QED BY <1>1, <1>2, <1>3, <1>4, <1>5, <1>6 DEF Next

LEMMA ErrorInit == Init => EInv
<1> SUFFICES ASSUME Init PROVE EInv
  OBVIOUS
<1>1. ConnTypes
  BY DEF Init, ConnTypes, Codes
<1>2. \A c \in Clients : wire[c] = <<>> /\ inbox[c] = <<>> /\ call[c] = "none"
  BY DEF Init
<1>3. \A c \in Clients : Await(wire[c], inbox[c], call[c] # "none")
  BY <1>2 DEF Await, NoSync, NoDone
<1>4. \A c \in Clients : ErrorKnown(c)
  BY <1>2 DEF Init, ErrorKnown, HasError
<1> QED BY <1>1, <1>3, <1>4 DEF EInv

\* ilm_getError answers with the first error the compositor sent since the
\* last one, for requests sent before the call: the events before the answer
\* to its sync are dispatched, and none is left behind it.
THEOREM GetErrorAlwaysTells == Spec => GetErrorTells
<1>1. Init => EInv
  BY ErrorInit
<1>2. EInv /\ [Next]_vars => EInv' /\ [\A c \in Clients :
          refused[c] # "success" /\ refused'[c] = "success" => flag[c] = refused[c]]_vars
  BY ErrorStep
<1> QED BY <1>1, <1>2, PTL DEF Spec, GetErrorTells

-----------------------------------------------------------------------------
(* What a client asked for: where it is until a commit.                    *)

\* A request that sets a field of o, or changes the render order of l.
Sets(r, o, f) == r.op = "set" /\ r.obj = o /\ f \in DOMAIN r.change
Stacks(r, l) == r.op \in {"clear", "add", "remove"} /\ r.obj = l
IsClear(r, l) == r.op = "clear" /\ r.obj = l
IsAdd(r, l, s) == r.op = "add" /\ r.obj = l /\ r.surf = s

\* The value v of a field is on its way in w, or is what is pending, p.
Unset(w, o, f, from) == \A i \in 1 .. Len(w) : i >= from => ~Sets(w[i], o, f)
SetAt(w, o, f, v, i) == Sets(w[i], o, f) /\ w[i].change[f] = v /\ Unset(w, o, f, i + 1)
FieldOnItsWay(w, o, f, v, p) ==
    \/ Unset(w, o, f, 1) /\ p = v
    \/ \E i \in 1 .. Len(w) : SetAt(w, o, f, v, i)

\* The order q is on its way as a whole, or its first k surfaces are what is
\* pending and the others are next.
Unstacked(w, l, from) == \A i \in 1 .. Len(w) : i >= from => ~Stacks(w[i], l)
Added(w, l, q, k, p) ==
    /\ Len(q) - k <= Len(w)
    /\ p = SubSeq(q, 1, k)
    /\ \A i \in 1 .. Len(q) : i > k => IsAdd(w[i - k], l, q[i])
    /\ Unstacked(w, l, Len(q) - k + 1)
Whole(w, l, q, j) ==
    /\ j + Len(q) <= Len(w)
    /\ IsClear(w[j], l)
    /\ \A i \in 1 .. Len(q) : IsAdd(w[j + i], l, q[i])
    /\ Unstacked(w, l, j + Len(q) + 1)
OrderOnItsWay(w, l, q, p) ==
    \/ \E k \in 0 .. Len(q) : Added(w, l, q, k, p)
    \/ \E j \in 1 .. Len(w) : Whole(w, l, q, j)

\* Requests that are sent behind those on their way.
LEMMA SentAfter ==
    ASSUME NEW w \in Seq(Requests), NEW q \in Seq(Requests)
    PROVE  /\ w \o q \in Seq(Requests) /\ Len(w \o q) = Len(w) + Len(q)
           /\ Len(w) \in Nat /\ Len(q) \in Nat
           /\ \A i \in 1 .. Len(w) : (w \o q)[i] = w[i]
           /\ \A i \in 1 .. Len(q) : (w \o q)[Len(w) + i] = q[i]
           /\ \A i \in 1 .. Len(w \o q) :
                 i \in 1 .. Len(w) \/ (i - Len(w) \in 1 .. Len(q) /\ (w \o q)[i] = q[i - Len(w)])
<1>1. /\ w \o q \in Seq(Requests) /\ Len(w \o q) = Len(w) + Len(q)
      /\ \A i \in 1 .. Len(w) + Len(q) :
            (w \o q)[i] = IF i <= Len(w) THEN w[i] ELSE q[i - Len(w)]
  BY ConcatProperties
<1>2. Len(w) \in Nat /\ Len(q) \in Nat
  OBVIOUS
<1>3. \A i \in 1 .. Len(w) : (w \o q)[i] = w[i]
  BY <1>1, <1>2
<1>4. \A i \in 1 .. Len(q) : (w \o q)[Len(w) + i] = q[i]
  <2> SUFFICES ASSUME NEW i \in 1 .. Len(q) PROVE (w \o q)[Len(w) + i] = q[i]
    OBVIOUS
  <2>1. /\ Len(w) + i \in 1 .. Len(w) + Len(q) /\ ~(Len(w) + i <= Len(w))
        /\ Len(w) + i - Len(w) = i
    BY <1>2
  <2> QED BY <1>1, <2>1
<1>5. \A i \in 1 .. Len(w \o q) :
        i \in 1 .. Len(w) \/ (i - Len(w) \in 1 .. Len(q) /\ (w \o q)[i] = q[i - Len(w)])
  BY <1>1, <1>2
<1> QED BY <1>1, <1>2, <1>3, <1>4, <1>5

LEMMA HandledFirst ==
    ASSUME NEW w \in Seq(Requests), w # <<>>
    PROVE  /\ Tail(w) \in Seq(Requests) /\ Len(w) \in Nat \ {0} /\ Len(Tail(w)) = Len(w) - 1
           /\ Head(w) = w[1] /\ Head(w) \in Requests
           /\ \A i \in 1 .. Len(Tail(w)) : Tail(w)[i] = w[i + 1]
BY HeadTailProperties

LEMMA FieldSentOther ==
    ASSUME NEW w \in Seq(Requests), NEW q \in Seq(Requests), NEW o, NEW f, NEW v, NEW p,
           FieldOnItsWay(w, o, f, v, p), \A i \in 1 .. Len(q) : ~Sets(q[i], o, f)
    PROVE  FieldOnItsWay(w \o q, o, f, v, p)
<1>1. ASSUME NEW k \in Nat \ {0}, Unset(w, o, f, k) PROVE Unset(w \o q, o, f, k)
  BY <1>1, SentAfter DEF Unset
<1>2. CASE Unset(w, o, f, 1) /\ p = v
  BY <1>1, <1>2 DEF FieldOnItsWay
<1>3. ASSUME NEW i \in 1 .. Len(w), SetAt(w, o, f, v, i) PROVE FieldOnItsWay(w \o q, o, f, v, p)
  <2>1. i \in 1 .. Len(w \o q) /\ (w \o q)[i] = w[i] /\ i + 1 \in Nat \ {0}
    BY SentAfter
  <2>2. SetAt(w \o q, o, f, v, i)
    BY <1>1, <1>3, <2>1 DEF SetAt
  <2> QED BY <2>1, <2>2 DEF FieldOnItsWay
<1> QED BY <1>2, <1>3 DEF FieldOnItsWay

LEMMA FieldSent ==
    ASSUME NEW w \in Seq(Requests), NEW r \in Requests, NEW o, NEW f, NEW p, Sets(r, o, f)
    PROVE  FieldOnItsWay(w \o <<r>>, o, f, r.change[f], p)
<1> DEFINE n == Len(w) + 1
<1>1. /\ <<r>> \in Seq(Requests) /\ Len(<<r>>) = 1 /\ <<r>>[1] = r
  OBVIOUS
<1>2. /\ Len(w \o <<r>>) = n /\ n \in 1 .. Len(w \o <<r>>) /\ (w \o <<r>>)[n] = r
  BY <1>1, SentAfter
<1>3. Unset(w \o <<r>>, o, f, n + 1)
  BY <1>2 DEF Unset
<1>4. SetAt(w \o <<r>>, o, f, r.change[f], n)
  BY <1>2, <1>3 DEF SetAt
<1> QED BY <1>2, <1>4 DEF FieldOnItsWay

\* The first request is handled: p becomes p2.
LEMMA FieldHandled ==
    ASSUME NEW w \in Seq(Requests), w # <<>>, NEW o, NEW f, NEW v, NEW p, NEW p2,
           FieldOnItsWay(w, o, f, v, p),
           ~Sets(Head(w), o, f) => p2 = p,
           Sets(Head(w), o, f) /\ Head(w).change[f] = v => p2 = v
    PROVE  FieldOnItsWay(Tail(w), o, f, v, p2)
<1>1. \A k \in Nat \ {0} : Unset(w, o, f, k + 1) => Unset(Tail(w), o, f, k)
  BY HandledFirst DEF Unset
<1>2. CASE Unset(w, o, f, 1) /\ p = v
  <2>1. ~Sets(Head(w), o, f) /\ Unset(w, o, f, 1 + 1)
    BY <1>2, HandledFirst DEF Unset
  <2> QED BY <1>1, <1>2, <2>1 DEF FieldOnItsWay
<1>3. ASSUME NEW i \in 1 .. Len(w), SetAt(w, o, f, v, i) PROVE FieldOnItsWay(Tail(w), o, f, v, p2)
  <2>1. CASE i = 1
    BY <1>1, <1>3, <2>1, HandledFirst DEF SetAt, FieldOnItsWay
  <2>2. CASE i # 1
    <3>1. /\ i - 1 \in 1 .. Len(Tail(w)) /\ Tail(w)[i - 1] = w[i] /\ i \in Nat \ {0}
          /\ i - 1 + 1 = i
      BY <2>2, HandledFirst
    <3>2. SetAt(Tail(w), o, f, v, i - 1)
      BY <1>1, <1>3, <3>1 DEF SetAt
    <3> QED BY <3>1, <3>2 DEF FieldOnItsWay
  <2> QED BY <2>1, <2>2
<1> QED BY <1>2, <1>3 DEF FieldOnItsWay

LEMMA OrderSentOther ==
    ASSUME NEW w \in Seq(Requests), NEW x \in Seq(Requests), NEW l, NEW q \in Seq(Surfaces), NEW p,
           OrderOnItsWay(w, l, q, p), \A i \in 1 .. Len(x) : ~Stacks(x[i], l)
    PROVE  OrderOnItsWay(w \o x, l, q, p)
<1>1. ASSUME NEW k \in Nat \ {0}, Unstacked(w, l, k) PROVE Unstacked(w \o x, l, k)
  BY <1>1, SentAfter DEF Unstacked
<1>2. Len(q) \in Nat
  OBVIOUS
<1>3. ASSUME NEW k \in 0 .. Len(q), Added(w, l, q, k, p) PROVE OrderOnItsWay(w \o x, l, q, p)
  <2>1. Len(q) - k <= Len(w \o x) /\ Len(q) - k + 1 \in Nat \ {0}
    BY <1>2, <1>3, SentAfter DEF Added
  <2>2. \A i \in 1 .. Len(q) : i > k => (w \o x)[i - k] = w[i - k]
    <3> SUFFICES ASSUME NEW i \in 1 .. Len(q), i > k PROVE (w \o x)[i - k] = w[i - k]
      OBVIOUS
    <3>1. i - k \in 1 .. Len(w)
      BY <1>2, <1>3, SentAfter DEF Added
    <3> QED BY <3>1, SentAfter
  <2>3. Added(w \o x, l, q, k, p)
    BY <1>1, <1>3, <2>1, <2>2 DEF Added
  <2> QED BY <2>3 DEF OrderOnItsWay
<1>4. ASSUME NEW j \in 1 .. Len(w), Whole(w, l, q, j) PROVE OrderOnItsWay(w \o x, l, q, p)
  <2>1. /\ j + Len(q) <= Len(w \o x) /\ j + Len(q) + 1 \in Nat \ {0}
        /\ j \in 1 .. Len(w \o x) /\ (w \o x)[j] = w[j]
    BY <1>2, <1>4, SentAfter DEF Whole
  <2>2. \A i \in 1 .. Len(q) : (w \o x)[j + i] = w[j + i]
    <3> SUFFICES ASSUME NEW i \in 1 .. Len(q) PROVE (w \o x)[j + i] = w[j + i]
      OBVIOUS
    <3>1. j + i \in 1 .. Len(w)
      BY <1>2, <1>4, SentAfter DEF Whole
    <3> QED BY <3>1, SentAfter
  <2>3. Whole(w \o x, l, q, j)
    BY <1>1, <1>4, <2>1, <2>2 DEF Whole
  <2> QED BY <2>1, <2>3 DEF OrderOnItsWay
<1> QED BY <1>3, <1>4 DEF OrderOnItsWay

LEMMA OrderSentWhole ==
    ASSUME NEW w \in Seq(Requests), NEW x \in Seq(Requests), NEW l, NEW q \in Seq(Surfaces), NEW p,
           Len(x) = Len(q) + 1, IsClear(x[1], l),
           \A i \in 1 .. Len(q) : IsAdd(x[i + 1], l, q[i])
    PROVE  OrderOnItsWay(w \o x, l, q, p)
<1> DEFINE j == Len(w) + 1
<1>1. Len(q) \in Nat /\ Len(w) \in Nat
  OBVIOUS
<1>2. /\ j \in 1 .. Len(w \o x) /\ j + Len(q) <= Len(w \o x)
      /\ 1 \in 1 .. Len(x) /\ (w \o x)[j] = x[1]
  BY <1>1, SentAfter
<1>3. \A i \in 1 .. Len(q) : (w \o x)[j + i] = x[i + 1]
  <2> SUFFICES ASSUME NEW i \in 1 .. Len(q) PROVE (w \o x)[j + i] = x[i + 1]
    OBVIOUS
  <2>1. i + 1 \in 1 .. Len(x) /\ j + i = Len(w) + (i + 1)
    BY <1>1
  <2> QED BY <2>1, SentAfter
<1>4. Unstacked(w \o x, l, j + Len(q) + 1)
  BY <1>1, SentAfter DEF Unstacked
<1>5. Whole(w \o x, l, q, j)
  BY <1>2, <1>3, <1>4 DEF Whole
<1> QED BY <1>2, <1>5 DEF OrderOnItsWay

-----------------------------------------------------------------------------
(* Orders without a surface.                                               *)

Without(p, s) == S!Without(p, s)

LEMMA WithoutOther ==
    ASSUME NEW p, NEW s, \A i \in 1 .. Len(p) : p[i] # s
    PROVE  Without(p, s) = p
BY DEF Without, S!Without, S!RemoveFirst

LEMMA WithoutAt ==
    ASSUME NEW p \in Seq(Surfaces), Distinct(p), NEW i \in 1 .. Len(p)
    PROVE  Without(p, p[i]) = SubSeq(p, 1, i - 1) \o SubSeq(p, i + 1, Len(p))
<1>1. {k \in 1 .. Len(p) : p[k] = p[i]} = {i}
  BY DEF Distinct
<1>2. S!Min({i}) = i
  BY DEF S!Min
<1>3. S!SelectInSeq(p, LAMBDA v : v = p[i]) = i
  BY <1>1, <1>2 DEF S!SelectInSeq
<1> QED BY <1>3 DEF Without, S!Without, S!RemoveFirst, S!RemoveAt

\* An order of distinct surfaces stays one without a surface, and with it at
\* the end.
LEMMA WithoutProperties ==
    ASSUME NEW p \in Seq(Surfaces), Distinct(p), NEW s
    PROVE  /\ Without(p, s) \in Seq(Surfaces) /\ Distinct(Without(p, s))
           /\ \A k \in 1 .. Len(Without(p, s)) : Without(p, s)[k] # s
<1>1. CASE \A i \in 1 .. Len(p) : p[i] # s
  BY <1>1, WithoutOther
<1>2. ASSUME NEW i \in 1 .. Len(p), p[i] = s
      PROVE  /\ Without(p, s) \in Seq(Surfaces) /\ Distinct(Without(p, s))
             /\ \A k \in 1 .. Len(Without(p, s)) : Without(p, s)[k] # s
  <2>1. PICK a : a = SubSeq(p, 1, i - 1)
    OBVIOUS
  <2>2. PICK b : b = SubSeq(p, i + 1, Len(p))
    OBVIOUS
  <2>3. Len(p) \in Nat /\ \A k \in 1 .. Len(p) : p[k] \in Surfaces
    OBVIOUS
  <2>4. /\ a \in Seq(Surfaces) /\ Len(a) = i - 1
        /\ \A k \in 1 .. i - 1 : a[k] = p[k]
    <3>1. \A k \in 1 .. i - 1 : p[k] \in Surfaces
      BY <2>3
    <3>2. 1 \in Int /\ i - 1 \in Int
      OBVIOUS
    <3>3. /\ a \in Seq(Surfaces)
          /\ Len(a) = IF 1 <= i - 1 THEN i - 1 - 1 + 1 ELSE 0
          /\ \A k \in 1 .. i - 1 - 1 + 1 : a[k] = p[1 + k - 1]
      BY <2>1, <3>1, <3>2, SubSeqProperties
    <3> QED BY <3>3
  <2>5. /\ b \in Seq(Surfaces) /\ Len(b) = Len(p) - i
        /\ \A k \in 1 .. Len(p) - i : b[k] = p[k + i]
    <3>1. \A k \in i + 1 .. Len(p) : p[k] \in Surfaces
      BY <2>3
    <3>2. i + 1 \in Int /\ Len(p) \in Int
      BY <2>3
    <3>3. /\ b \in Seq(Surfaces)
          /\ Len(b) = IF i + 1 <= Len(p) THEN Len(p) - (i + 1) + 1 ELSE 0
          /\ \A k \in 1 .. Len(p) - (i + 1) + 1 : b[k] = p[i + 1 + k - 1]
      BY <2>2, <3>1, <3>2, SubSeqProperties
    <3> QED BY <2>3, <3>3
  <2>6. PICK n : n = a \o b
    OBVIOUS
  <2>7. Without(p, s) = n
    BY <1>2, <2>1, <2>2, <2>6, WithoutAt
  <2>8. /\ n \in Seq(Surfaces) /\ Len(n) = Len(a) + Len(b)
        /\ \A k \in 1 .. Len(a) + Len(b) : n[k] = IF k <= Len(a) THEN a[k] ELSE b[k - Len(a)]
    BY <2>4, <2>5, <2>6, ConcatProperties
  <2>9. Len(n) = Len(p) - 1 /\ \A k \in 1 .. Len(p) - 1 : n[k] = IF k < i THEN p[k] ELSE p[k + 1]
    <3>1. Len(a) + Len(b) = Len(p) - 1
      BY <2>3, <2>4, <2>5
    <3> SUFFICES ASSUME NEW k \in 1 .. Len(p) - 1 PROVE n[k] = IF k < i THEN p[k] ELSE p[k + 1]
      BY <2>8, <3>1
    <3>2. CASE k < i
      <4>1. k \in 1 .. i - 1 /\ k <= Len(a) /\ k \in 1 .. Len(a) + Len(b)
        BY <2>3, <2>4, <3>1, <3>2
      <4> QED BY <2>4, <2>8, <3>2, <4>1
    <3>3. CASE ~(k < i)
      <4>1. /\ k - Len(a) \in 1 .. Len(p) - i /\ ~(k <= Len(a)) /\ k \in 1 .. Len(a) + Len(b)
            /\ k - Len(a) + i = k + 1
        BY <2>3, <2>4, <3>1, <3>3
      <4>2. n[k] = b[k - Len(a)]
        BY <2>8, <4>1
      <4> QED BY <2>5, <3>3, <4>1, <4>2
    <3> QED BY <3>2, <3>3
  <2>10. \A k \in 1 .. Len(n) : n[k] # s
    BY <1>2, <2>3, <2>9 DEF Distinct
  <2>11. Distinct(n)
    <3>1. DOMAIN n = 1 .. Len(p) - 1 /\ DOMAIN p = 1 .. Len(p)
      BY <2>8, <2>9
    <3>2. ASSUME NEW k \in 1 .. Len(p) - 1, NEW m \in 1 .. Len(p) - 1, n[k] = n[m] PROVE k = m
      <4>1. PICK x : x = IF k < i THEN k ELSE k + 1
        OBVIOUS
      <4>2. PICK y : y = IF m < i THEN m ELSE m + 1
        OBVIOUS
      <4>3. x \in 1 .. Len(p) /\ y \in 1 .. Len(p) /\ n[k] = p[x] /\ n[m] = p[y]
        BY <2>3, <2>9, <4>1, <4>2
      <4>4. x = y
        BY <3>1, <3>2, <4>3 DEF Distinct
      <4> QED BY <4>1, <4>2, <4>4
    <3> QED BY <3>1, <3>2 DEF Distinct
  <2> QED BY <2>7, <2>8, <2>10, <2>11
<1> QED BY <1>1, <1>2

LEMMA AppendDistinct ==
    ASSUME NEW p \in Seq(Surfaces), Distinct(p), NEW s \in Surfaces,
           \A k \in 1 .. Len(p) : p[k] # s
    PROVE  Append(p, s) \in Seq(Surfaces) /\ Distinct(Append(p, s))
<1>1. /\ Append(p, s) \in Seq(Surfaces) /\ Len(Append(p, s)) = Len(p) + 1
      /\ \A i \in 1 .. Len(p) : Append(p, s)[i] = p[i]
      /\ Append(p, s)[Len(p) + 1] = s
  BY AppendProperties
<1>2. PICK n : n = Append(p, s)
  OBVIOUS
<1>3. Len(p) \in Nat /\ DOMAIN p = 1 .. Len(p) /\ DOMAIN n = 1 .. Len(p) + 1
  BY <1>1, <1>2
<1>4. Distinct(n)
  BY <1>1, <1>2, <1>3 DEF Distinct
<1> QED BY <1>1, <1>2, <1>4

-----------------------------------------------------------------------------
(* Requests of a render order are handled.                                 *)

\* One more surface of a distinct order is added.
LEMMA NextAdded ==
    ASSUME NEW q \in Seq(Surfaces), Distinct(q), NEW k \in 0 .. Len(q), k < Len(q)
    PROVE  Append(Without(SubSeq(q, 1, k), q[k + 1]), q[k + 1]) = SubSeq(q, 1, k + 1)
<1>1. Len(q) \in Nat /\ DOMAIN q = 1 .. Len(q) /\ \A i \in 1 .. Len(q) : q[i] \in Surfaces
  OBVIOUS
<1>2. PICK p : p = SubSeq(q, 1, k)
  OBVIOUS
<1>3. /\ p \in Seq(Surfaces) /\ Len(p) = k
      /\ \A i \in 1 .. k : p[i] = q[i]
  <2>1. \A i \in 1 .. k : q[i] \in Surfaces
    BY <1>1
  <2>2. 1 \in Int /\ k \in Int
    OBVIOUS
  <2>3. /\ p \in Seq(Surfaces) /\ Len(p) = IF 1 <= k THEN k - 1 + 1 ELSE 0
        /\ \A i \in 1 .. k - 1 + 1 : p[i] = q[1 + i - 1]
    BY <1>2, <2>1, <2>2, SubSeqProperties
  <2> QED BY <2>3
<1>4. \A i \in 1 .. Len(p) : p[i] # q[k + 1]
  BY <1>1, <1>3 DEF Distinct
<1>5. Without(p, q[k + 1]) = p
  BY <1>4, WithoutOther
<1>6. q[k + 1] \in Surfaces /\ k + 1 \in 1 .. Len(q)
  BY <1>1
<1>7. Append(p, q[k + 1]) = p \o <<q[k + 1]>>
  BY <1>3, <1>6, AppendIsConcat
<1>8. SubSeq(q, 1, k + 1) = SubSeq(q, 1, k + 1 - 1) \o <<q[k + 1]>>
  <2>1. 1 \in 1 .. Len(q) /\ k + 1 \in 1 .. Len(q)
    BY <1>1
  <2> QED BY <2>1, SubSeqRecursiveSecond
<1>9. k + 1 - 1 = k
  OBVIOUS
<1> QED BY <1>2, <1>5, <1>7, <1>8, <1>9

\* The first request is handled: p becomes p2.
LEMMA OrderHandled ==
    ASSUME NEW w \in Seq(Requests), w # <<>>, NEW l, NEW q \in Seq(Surfaces), Distinct(q),
           NEW p, NEW p2, OrderOnItsWay(w, l, q, p),
           ~Stacks(Head(w), l) => p2 = p,
           IsClear(Head(w), l) => p2 = <<>>,
           Head(w).op = "add" /\ Head(w).obj = l
             => p2 = Append(Without(p, Head(w).surf), Head(w).surf)
    PROVE  OrderOnItsWay(Tail(w), l, q, p2)
<1>1. \A k \in Nat \ {0} : Unstacked(w, l, k + 1) => Unstacked(Tail(w), l, k)
  BY HandledFirst DEF Unstacked
<1>2. Len(q) \in Nat
  OBVIOUS
<1>3. ASSUME NEW k \in 0 .. Len(q), Added(w, l, q, k, p) PROVE OrderOnItsWay(Tail(w), l, q, p2)
  <2>1. CASE k = Len(q)
    <3>1. ~Stacks(Head(w), l) /\ Unstacked(w, l, 1 + 1)
      BY <1>2, <1>3, <2>1, HandledFirst DEF Added, Unstacked
    <3>2. Unstacked(Tail(w), l, 1) /\ p2 = SubSeq(q, 1, k)
      BY <1>1, <1>3, <3>1 DEF Added
    <3>3. Added(Tail(w), l, q, k, p2)
      BY <1>2, <2>1, <3>2, HandledFirst DEF Added
    <3> QED BY <3>3 DEF OrderOnItsWay
  <2>2. CASE k < Len(q)
    <3>1. k + 1 \in 0 .. Len(q) /\ k + 1 \in 1 .. Len(q) /\ k + 1 > k /\ k + 1 - k = 1
      BY <1>2, <2>2
    <3>2. IsAdd(Head(w), l, q[k + 1])
      BY <1>3, <3>1, HandledFirst DEF Added
    <3>3. p2 = SubSeq(q, 1, k + 1)
      BY <1>3, <2>2, <3>2, NextAdded DEF IsAdd, Added
    <3>4. \A i \in 1 .. Len(q) : i > k + 1 => IsAdd(Tail(w)[i - (k + 1)], l, q[i])
      <4> SUFFICES ASSUME NEW i \in 1 .. Len(q), i > k + 1
                   PROVE  IsAdd(Tail(w)[i - (k + 1)], l, q[i])
        OBVIOUS
      <4>1. /\ i > k /\ i - (k + 1) \in 1 .. Len(Tail(w)) /\ i - (k + 1) + 1 = i - k
        BY <1>2, <1>3, HandledFirst DEF Added
      <4>2. Tail(w)[i - (k + 1)] = w[i - k]
        BY <4>1, HandledFirst
      <4> QED BY <1>3, <4>1, <4>2 DEF Added
    <3>5. Len(q) - (k + 1) <= Len(Tail(w))
      BY <1>2, <1>3, HandledFirst DEF Added
    <3>6. Unstacked(Tail(w), l, Len(q) - (k + 1) + 1)
      <4>1. Len(q) - k \in Nat \ {0} /\ Len(q) - (k + 1) + 1 = Len(q) - k
        BY <1>2, <2>2
      <4> QED BY <1>1, <1>3, <4>1 DEF Added
    <3>7. Added(Tail(w), l, q, k + 1, p2)
      BY <3>3, <3>4, <3>5, <3>6 DEF Added
    <3> QED BY <3>1, <3>7 DEF OrderOnItsWay
  <2> QED BY <1>2, <2>1, <2>2
<1>4. ASSUME NEW j \in 1 .. Len(w), Whole(w, l, q, j) PROVE OrderOnItsWay(Tail(w), l, q, p2)
  <2>1. CASE j = 1
    <3>1. IsClear(Head(w), l)
      BY <1>4, <2>1, HandledFirst DEF Whole
    <3>2. p2 = SubSeq(q, 1, 0)
      BY <3>1, SubSeqEmpty
    <3>3. \A i \in 1 .. Len(q) : IsAdd(Tail(w)[i - 0], l, q[i])
      <4> SUFFICES ASSUME NEW i \in 1 .. Len(q) PROVE IsAdd(Tail(w)[i - 0], l, q[i])
        OBVIOUS
      <4>1. i - 0 = i /\ i \in 1 .. Len(Tail(w)) /\ 1 + i = i + 1
        BY <1>2, <1>4, <2>1, HandledFirst DEF Whole
      <4> QED BY <1>4, <2>1, <4>1, HandledFirst DEF Whole
    <3>4. Len(q) - 0 <= Len(Tail(w))
      BY <1>2, <1>4, <2>1, HandledFirst DEF Whole
    <3>5. Unstacked(Tail(w), l, Len(q) - 0 + 1)
      <4>1. Len(q) - 0 + 1 \in Nat \ {0} /\ 1 + Len(q) + 1 = Len(q) - 0 + 1 + 1
        BY <1>2
      <4> QED BY <1>1, <1>4, <2>1, <4>1 DEF Whole
    <3>6. Added(Tail(w), l, q, 0, p2) /\ 0 \in 0 .. Len(q)
      BY <1>2, <3>2, <3>3, <3>4, <3>5 DEF Added
    <3> QED BY <3>6 DEF OrderOnItsWay
  <2>2. CASE j # 1
    <3>1. /\ j - 1 \in 1 .. Len(Tail(w)) /\ j - 1 + Len(q) <= Len(Tail(w))
          /\ Tail(w)[j - 1] = w[j]
      BY <1>2, <1>4, <2>2, HandledFirst DEF Whole
    <3>2. \A i \in 1 .. Len(q) : IsAdd(Tail(w)[j - 1 + i], l, q[i])
      <4> SUFFICES ASSUME NEW i \in 1 .. Len(q) PROVE IsAdd(Tail(w)[j - 1 + i], l, q[i])
        OBVIOUS
      <4>1. j - 1 + i \in 1 .. Len(Tail(w)) /\ j - 1 + i + 1 = j + i
        BY <1>2, <1>4, <3>1, HandledFirst DEF Whole
      <4>2. Tail(w)[j - 1 + i] = w[j + i]
        BY <4>1, HandledFirst
      <4> QED BY <1>4, <4>2 DEF Whole
    <3>3. Unstacked(Tail(w), l, j - 1 + Len(q) + 1)
      <4>1. j - 1 + Len(q) + 1 \in Nat \ {0} /\ j - 1 + Len(q) + 1 + 1 = j + Len(q) + 1
        BY <1>2
      <4> QED BY <1>1, <1>4, <4>1 DEF Whole
    <3>4. Whole(Tail(w), l, q, j - 1)
      BY <1>4, <3>1, <3>2, <3>3 DEF Whole
    <3> QED BY <3>1, <3>4 DEF OrderOnItsWay
  <2> QED BY <2>1, <2>2
<1> QED BY <1>3, <1>4 DEF OrderOnItsWay

-----------------------------------------------------------------------------
(* Types.                                                                  *)

Stacked == {q \in Seq(Surfaces) : Distinct(q)}
ToldTypes == [ToldFields -> Values \cup {Nothing}]

SceneTypes ==
    /\ objects \subseteq Objects
    /\ cur \in [Objects -> Looks] /\ pend \in [Objects -> Looks]
    /\ type \in [Surfaces -> {"restricted", "desktop"}]
    /\ size \in [Surfaces -> Values]
    /\ told \in [Clients -> [Objects -> ToldTypes]]
Calls == {"none", "get", "commit", "getError"}
TInv == EInv /\ SceneTypes /\ call \in [Clients -> Calls]

LEMMA LookTypes ==
    /\ \A p \in [Fields -> Values], q \in Stacked : Look(p, q) \in Looks
    /\ \A k \in Looks : /\ k.prop \in [Fields -> Values] /\ k.order \in Stacked
                        /\ k = Look(k.prop, k.order)
BY DEF Look, Looks, Stacked

LEMMA BlankTypes == Blank \in Looks
<1>1. <<>> \in Stacked
  BY DEF Stacked, Distinct
<1>2. [f \in Fields |-> 0] \in [Fields -> Values]
  BY SceneAssumption
<1> QED BY <1>1, <1>2, LookTypes DEF Blank

LEMMA ChangeTypes ==
    ASSUME NEW ch \in FieldValues
    PROVE  /\ DOMAIN ch \subseteq Fields
           /\ \A f \in DOMAIN ch : ch[f] # Keep => ch[f] \in Values
<1>1. CASE ch \in UNION {[{f} -> Values] : f \in Scalars}
  <2>1. PICK f \in Scalars : ch \in [{f} -> Values]
    BY <1>1
  <2> QED BY <2>1 DEF Fields
<1>2. CASE ch \in [Source -> Values \cup {Keep}]
  BY <1>2 DEF Fields
<1>3. CASE ch \in [Destination -> Values \cup {Keep}]
  BY <1>3 DEF Fields
<1> QED BY <1>1, <1>2, <1>3 DEF FieldValues

LEMMA TypeOther ==
    ASSUME SceneTypes, UNCHANGED scene
    PROVE  SceneTypes'
BY DEF SceneTypes, scene

LEMMA RequestedTypes ==
    ASSUME SceneTypes, NEW o \in Objects, NEW ch \in FieldValues
    PROVE  Requested(o, ch) \in [Fields -> Values]
<1>1. /\ cur[o].prop \in [Fields -> Values] /\ pend[o].prop \in [Fields -> Values]
  BY LookTypes DEF SceneTypes
<1>2. ASSUME NEW f \in Fields PROVE Requested(o, ch)[f] \in Values
  BY <1>1, <1>2, ChangeTypes DEF Requested
<1>3. Requested(o, ch) = [f \in Fields |-> Requested(o, ch)[f]]
  BY DEF Requested
<1> QED BY <1>2, <1>3

LEMMA SetTypes ==
    ASSUME SceneTypes, NEW c, NEW r, r.obj \in objects, r.change \in FieldValues,
           SetProperties(c, r)
    PROVE  SceneTypes'
<1>1. r.obj \in Objects /\ pend[r.obj].order \in Stacked
  BY LookTypes DEF SceneTypes
<1>2. PICK k : k = Look(Requested(r.obj, r.change), pend[r.obj].order)
  OBVIOUS
<1>3. k \in Looks
  BY <1>1, <1>2, RequestedTypes, LookTypes
<1>4. pend' = [pend EXCEPT ![r.obj] = k]
  BY <1>2 DEF SetProperties
<1> QED BY <1>3, <1>4 DEF SceneTypes, SetProperties

LEMMA OrderTypes ==
    ASSUME SceneTypes, NEW c, NEW l \in objects, NEW order \in Stacked, SetOrder(c, l, order)
    PROVE  SceneTypes'
<1>1. l \in Objects /\ pend[l].prop \in [Fields -> Values]
  BY LookTypes DEF SceneTypes
<1>2. PICK k : k = Look(pend[l].prop, order)
  OBVIOUS
<1>3. k \in Looks
  BY <1>1, <1>2, LookTypes
<1>4. pend' = [pend EXCEPT ![l] = k]
  BY <1>2 DEF SetOrder
<1> QED BY <1>3, <1>4 DEF SceneTypes, SetOrder

LEMMA ToldOfTypes ==
    ASSUME NEW t \in ToldTypes, NEW o \in Objects, NEW F, NEW look \in [Objects -> Looks],
           NEW sizes \in [Surfaces -> Values]
    PROVE  ToldOf(t, o, F, look, sizes) \in ToldTypes
<1>1. PICK new : new = ToldOf(t, o, F, look, sizes)
  OBVIOUS
<1>2. /\ DOMAIN t = ToldFields
      /\ \A f \in ToldFields : t[f] \in Values \cup {Nothing}
  BY DEF ToldTypes
<1>3. new = [f \in ToldFields |-> IF f \notin F THEN t[f]
                ELSE IF f # BufferSize THEN look[o].prop[f]
                ELSE IF o \in Surfaces /\ sizes[o] # 0 THEN sizes[o] ELSE t[f]]
  BY <1>1, <1>2 DEF ToldOf
<1>4. look[o].prop \in [Fields -> Values]
  BY LookTypes
<1>5. \A f \in ToldFields : f # BufferSize => look[o].prop[f] \in Values
  BY <1>4 DEF ToldFields
<1>6. \A f \in ToldFields : new[f] \in Values \cup {Nothing}
  BY <1>2, <1>3, <1>5
<1> QED BY <1>1, <1>3, <1>6 DEF ToldTypes

LEMMA ReportTypes ==
    ASSUME SceneTypes, NEW look \in [Objects -> Looks], NEW sizes \in [Surfaces -> Values],
           NEW G, IsReport(look, sizes, G)
    PROVE  told' \in [Clients -> [Objects -> ToldTypes]]
<1>1. \A c \in Clients, o \in Objects : told[c][o] \in ToldTypes
  BY DEF SceneTypes
<1>2. \A c \in Clients, o \in Objects : ToldOf(told[c][o], o, G[o], look, sizes) \in ToldTypes
  BY <1>1, ToldOfTypes
<1> QED BY <1>1, <1>2 DEF IsReport

LEMMA RequestTypes ==
    ASSUME NEW r \in Requests
    PROVE  /\ r.op = "set" => r.obj \in Objects /\ r.change \in FieldValues
           /\ r.op \in {"clear", "add", "remove"} => r.obj \in Layers
           /\ r.op \in {"add", "remove"} => r.surf \in Surfaces
           /\ r.op = "type" => r.obj \in Surfaces /\ r.type \in {"restricted", "desktop"}
           /\ r.op = "get" => r.obj \in Objects
BY DEF Requests

LEMMA HandledTypes ==
    ASSUME TInv, NEW c \in Clients, HandleRequest(c)
    PROVE  SceneTypes'
<1>1. PICK r : r = Head(wire[c])
  OBVIOUS
<1>2. r \in Requests /\ SceneTypes
  BY <1>1, HandledFirst DEF TInv, EInv, ConnTypes, HandleRequest
<1>3. \/ controller_set_surface(c, r) \/ controller_set_layer(c, r)
      \/ controller_layer_clear(c, r) \/ controller_layer_add_surface(c, r)
      \/ controller_layer_remove_surface(c, r) \/ controller_set_surface_type(c, r)
      \/ controller_get(c, r) \/ controller_commit_changes(c, r) \/ sync(c, r)
  BY <1>1 DEF HandleRequest
<1>4. CASE UNCHANGED scene
  BY <1>2, <1>4, TypeOther
<1>5. CASE r.op = "set" /\ r.obj \in objects /\ SetProperties(c, r)
  BY <1>2, <1>5, SetTypes, RequestTypes
<1>6. CASE \E order \in Stacked : r.obj \in objects /\ SetOrder(c, r.obj, order)
  BY <1>2, <1>6, OrderTypes
<1>7. CASE /\ r.op = "type" /\ type' = [type EXCEPT ![r.obj] = r.type]
           /\ UNCHANGED <<objects, cur, pend, size, told>>
  BY <1>2, <1>7, RequestTypes DEF SceneTypes
<1>8. CASE controller_get(c, r)
  <2>1. CASE Refuse(c, r)
    BY <1>4, <2>1 DEF Refuse
  <2>2. CASE /\ r.obj \in objects
             /\ told' = [told EXCEPT ![c][r.obj] =
                            ToldOf(@, r.obj, convert_protocol_enum(r.params), cur, size)]
             /\ UNCHANGED <<objects, cur, pend, type, size>>
    <3>1. r.obj \in Objects /\ told[c][r.obj] \in ToldTypes
      BY <1>2, <2>2 DEF SceneTypes
    <3>2. PICK n : n = ToldOf(told[c][r.obj], r.obj, convert_protocol_enum(r.params), cur, size)
      OBVIOUS
    <3>3. n \in ToldTypes
      BY <1>2, <3>1, <3>2, ToldOfTypes DEF SceneTypes
    <3>4. told' = [told EXCEPT ![c][r.obj] = n]
      BY <2>2, <3>2
    <3> QED BY <1>2, <2>2, <3>1, <3>3, <3>4 DEF SceneTypes
  <2> QED BY <1>8, <2>1, <2>2 DEF controller_get
<1>9. CASE controller_commit_changes(c, r)
  <2> DEFINE G == [o \in Objects |-> Changed(pend, o)]
  <2>1. IsReport(pend, size, G)
    BY <1>2, <1>9 DEF controller_commit_changes, Report, IsReport, SceneTypes
  <2> HIDE DEF G
  <2> QED BY <1>2, <1>9, <2>1, ReportTypes DEF SceneTypes, controller_commit_changes
<1>10. \/ controller_set_surface(c, r) \/ controller_set_layer(c, r)
       => UNCHANGED scene \/ (r.op = "set" /\ r.obj \in objects /\ SetProperties(c, r))
  BY DEF controller_set_surface, controller_set_layer, Refuse
<1>11. controller_layer_clear(c, r)
       => UNCHANGED scene \/ \E order \in Stacked : r.obj \in objects /\ SetOrder(c, r.obj, order)
  <2>1. <<>> \in Stacked
    BY DEF Stacked, Distinct
  <2> QED BY <2>1 DEF controller_layer_clear, Refuse
<1>12. controller_layer_add_surface(c, r) \/ controller_layer_remove_surface(c, r)
       => UNCHANGED scene \/ \E order \in Stacked : r.obj \in objects /\ SetOrder(c, r.obj, order)
  <2> SUFFICES ASSUME controller_layer_add_surface(c, r) \/ controller_layer_remove_surface(c, r),
                      r.obj \in objects, r.op \in {"add", "remove"}
               PROVE  \/ UNCHANGED scene
                      \/ \E order \in Stacked : SetOrder(c, r.obj, order)
    BY DEF controller_layer_add_surface, controller_layer_remove_surface, Refuse
  <2>1. r.surf \in Surfaces /\ pend[r.obj].order \in Stacked
    BY <1>2, RequestTypes, LookTypes DEF SceneTypes
  <2>2. PICK p : p = Without(pend[r.obj].order, r.surf)
    OBVIOUS
  <2>3. p \in Stacked /\ Append(p, r.surf) \in Stacked
    <3>1. p \in Seq(Surfaces) /\ Distinct(p) /\ \A k \in 1 .. Len(p) : p[k] # r.surf
      BY <2>1, <2>2, WithoutProperties DEF Stacked
    <3>2. Append(p, r.surf) \in Seq(Surfaces) /\ Distinct(Append(p, r.surf))
      BY <2>1, <3>1, AppendDistinct
    <3> QED BY <3>1, <3>2 DEF Stacked
  <2> QED BY <2>2, <2>3 DEF controller_layer_add_surface, controller_layer_remove_surface,
                            Refuse, Without
<1>13. controller_set_surface_type(c, r)
       => \/ UNCHANGED scene
          \/ /\ r.op = "type" /\ type' = [type EXCEPT ![r.obj] = r.type]
             /\ UNCHANGED <<objects, cur, pend, size, told>>
  BY DEF controller_set_surface_type, Refuse
<1>14. sync(c, r) => UNCHANGED scene
  BY DEF sync
<1> QED BY <1>3, <1>4, <1>5, <1>6, <1>7, <1>8, <1>9, <1>10, <1>11, <1>12, <1>13, <1>14

LEMMA NothingToldTypes == NothingTold \in ToldTypes
BY DEF NothingTold, ToldTypes, ToldFields

LEMMA RenewedTypes ==
    ASSUME SceneTypes, NEW o \in Objects, Renewed(o)
    PROVE  told' \in [Clients -> [Objects -> ToldTypes]]
BY NothingToldTypes DEF SceneTypes, Renewed

LEMMA DroppedTypes ==
    ASSUME NEW looks \in [Objects -> Looks], NEW o \in Objects
    PROVE  S!Dropped(looks, o) \in [Objects -> Looks]
<1> SUFFICES ASSUME NEW p \in Objects
             PROVE  (IF p = o THEN Blank
                     ELSE [prop |-> looks[p].prop, order |-> S!Without(looks[p].order, o)]) \in Looks
  BY DEF S!Dropped
<1>1. looks[p].prop \in [Fields -> Values] /\ looks[p].order \in Stacked
  BY LookTypes
<1>2. Without(looks[p].order, o) \in Stacked
  BY <1>1, WithoutProperties DEF Stacked
<1>3. Look(looks[p].prop, Without(looks[p].order, o)) \in Looks
  BY <1>1, <1>2, LookTypes
<1> QED BY <1>3, BlankTypes DEF Look, Without

LEMMA ComeAndGoTypes ==
    ASSUME SceneTypes, NEW o \in Objects, create_object(o) \/ remove_object(o)
    PROVE  SceneTypes'
<1>1. told' \in [Clients -> [Objects -> ToldTypes]]
  BY RenewedTypes DEF create_object, remove_object
<1>2. CASE create_object(o)
  BY <1>1, <1>2 DEF SceneTypes, create_object, S!Come
<1>3. CASE remove_object(o)
  <2>1. cur' \in [Objects -> Looks] /\ pend' \in [Objects -> Looks] /\ objects' \subseteq Objects
    BY <1>3, DroppedTypes DEF remove_object, S!Go, SceneTypes
  <2>2. type' \in [Surfaces -> {"restricted", "desktop"}] /\ size' \in [Surfaces -> Values]
    BY <1>3, SceneAssumption DEF remove_object, SceneTypes
  <2> QED BY <1>1, <2>1, <2>2 DEF SceneTypes
<1> QED BY <1>2, <1>3

LEMMA ConfigureTypes ==
    ASSUME SceneTypes, NEW s \in Surfaces, NEW n \in Values, surface_event_configure(s, n)
    PROVE  SceneTypes'
<1>1. /\ size' = [size EXCEPT ![s] = n] /\ size' \in [Surfaces -> Values]
      /\ UNCHANGED <<objects, type>> /\ s \in Objects
  BY DEF surface_event_configure, SceneTypes
<1>2. CASE type[s] = "desktop"
  <2>1. /\ pend' = [pend EXCEPT ![s] = DesktopLook(s, n)] /\ cur' = pend'
    BY <1>2 DEF surface_event_configure
  <2>2. /\ cur[s].prop \in [Fields -> Values] /\ pend[s].prop \in [Fields -> Values]
        /\ pend[s].order \in Stacked /\ 0 \in Values
    BY <1>1, LookTypes, SceneAssumption DEF SceneTypes
  <2>3. PICK p : p = [pend[s].prop EXCEPT
                   ![<<"destination", "pos">>] = cur[s].prop[<<"destination", "pos">>],
                   ![<<"destination", "size">>] = n,
                   ![<<"source", "pos">>] = 0,
                   ![<<"source", "size">>] = n]
    OBVIOUS
  <2>4. <<"destination", "pos">> \in Fields
    BY DEF Fields, Destination
  <2>5. p \in [Fields -> Values]
    BY <2>2, <2>3, <2>4
  <2>6. DesktopLook(s, n) \in Looks
    BY <2>2, <2>3, <2>5, LookTypes DEF DesktopLook
  <2>7. pend' \in [Objects -> Looks] /\ cur' \in [Objects -> Looks]
    BY <2>1, <2>6 DEF SceneTypes
  <2> DEFINE G == [o \in Objects |-> Changed(pend', o) \cup (IF o = s THEN {BufferSize} ELSE {})]
  <2>8. IsReport(pend', size', G)
    BY <1>2, <2>1 DEF surface_event_configure, Report, IsReport, SceneTypes
  <2> HIDE DEF G
  <2>9. told' \in [Clients -> [Objects -> ToldTypes]]
    BY <1>1, <2>7, <2>8, ReportTypes
  <2> QED BY <1>1, <2>7, <2>9 DEF SceneTypes
<1>3. CASE type[s] # "desktop"
  <2> DEFINE G == [o \in Objects |-> IF o = s THEN {BufferSize} ELSE {}]
  <2>1. IsReport(cur, size', G)
    BY <1>3 DEF surface_event_configure, Report, IsReport, SceneTypes
  <2> HIDE DEF G
  <2>2. told' \in [Clients -> [Objects -> ToldTypes]]
    BY <1>1, <2>1, ReportTypes DEF SceneTypes
  <2> QED BY <1>1, <1>3, <2>2 DEF SceneTypes, surface_event_configure
<1> QED BY <1>2, <1>3

LEMMA CallTypes ==
    ASSUME call \in [Clients -> Calls], [Next]_vars
    PROVE  call' \in [Clients -> Calls]
<1>1. ASSUME NEW c \in Clients, CallLibrary(c) PROVE call' \in [Clients -> Calls]
  BY <1>1 DEF CallLibrary, ilm_surfaceSetScalar, ilm_surfaceSetSourceRectangle,
         ilm_surfaceSetDestinationRectangle, ilm_layerSetVisibility, ilm_layerSetOpacity,
         ilm_layerSetRectangle, ilm_layerSetRenderOrder, ilm_layerAddRemoveSurface,
         ilm_surfaceSetType, ilm_get, ilm_commitChanges, ilm_getError, Setter, Roundtrip, Calls
<1>2. ASSUME NEW c \in Clients, HandleRequest(c) PROVE UNCHANGED call
  BY <1>2 DEF HandleRequest
<1>3. ASSUME NEW c \in Clients, Dispatch(c) PROVE call' \in [Clients -> Calls]
  BY <1>3 DEF Dispatch, Done, wm_listener_error, Calls
<1>4. ASSUME NEW o \in Objects, create_object(o) \/ remove_object(o) PROVE UNCHANGED call
  BY <1>4 DEF create_object, remove_object, Renewed, conn
<1>5. ASSUME NEW s \in Surfaces, NEW n \in Values, surface_event_configure(s, n)
      PROVE  UNCHANGED call
  BY <1>5 DEF surface_event_configure, conn
<1>6. CASE Finished \/ UNCHANGED vars
  BY <1>6 DEF Finished, vars, conn
<1> QED BY <1>1, <1>2, <1>3, <1>4, <1>5, <1>6 DEF Next

LEMMA LibraryScene == ASSUME NEW c \in Clients, CallLibrary(c) PROVE UNCHANGED scene
BY DEF CallLibrary, ilm_surfaceSetScalar, ilm_surfaceSetSourceRectangle,
       ilm_surfaceSetDestinationRectangle, ilm_layerSetVisibility, ilm_layerSetOpacity,
       ilm_layerSetRectangle, ilm_layerSetRenderOrder, ilm_layerAddRemoveSurface,
       ilm_surfaceSetType, ilm_get, ilm_commitChanges, ilm_getError, Setter, Roundtrip, Send

LEMMA TypeInit == Init => TInv
<1> SUFFICES ASSUME Init PROVE TInv
  OBVIOUS
<1>1. SceneTypes
  BY BlankTypes, NothingToldTypes, SceneAssumption DEF Init, SceneTypes
<1>2. call \in [Clients -> Calls]
  BY DEF Init, Calls
<1> QED BY <1>1, <1>2, ErrorInit DEF TInv

LEMMA TypeStep == TInv /\ [Next]_vars => TInv'
<1> SUFFICES ASSUME TInv, [Next]_vars PROVE TInv'
  OBVIOUS
<1>1. EInv' /\ call' \in [Clients -> Calls]
  BY ErrorStep, CallTypes DEF TInv
<1>2. ASSUME NEW c \in Clients, CallLibrary(c) PROVE SceneTypes'
  BY <1>2, LibraryScene, TypeOther DEF TInv
<1>3. ASSUME NEW c \in Clients, HandleRequest(c) PROVE SceneTypes'
  BY <1>3, HandledTypes
<1>4. ASSUME NEW c \in Clients, Dispatch(c) PROVE SceneTypes'
  BY <1>4, TypeOther DEF Dispatch, TInv
<1>5. ASSUME NEW o \in Objects, create_object(o) \/ remove_object(o) PROVE SceneTypes'
  BY <1>5, ComeAndGoTypes DEF TInv
<1>6. ASSUME NEW s \in Surfaces, NEW n \in Values, surface_event_configure(s, n) PROVE SceneTypes'
  BY <1>6, ConfigureTypes DEF TInv
<1>7. ASSUME Finished \/ UNCHANGED vars PROVE SceneTypes'
  <2>1. UNCHANGED scene
    BY <1>7 DEF Finished, vars, scene
  <2> QED BY <2>1, TypeOther DEF TInv
<1>8. SceneTypes'
  BY ONLY <1>2, <1>3, <1>4, <1>5, <1>6, <1>7, [Next]_vars DEF Next
<1> QED BY <1>1, <1>8 DEF TInv

\* Every look, pending or on display, has a value of its type in every field
\* and a surface on a layer once, whoever asked for it; answers and calls are
\* those the library knows.
THEOREM SceneTypesAlways == Spec => []TypeOK
<1>1. TInv => TypeOK
  <2> SUFFICES ASSUME TInv PROVE TypeOK
    OBVIOUS
  <2>1. told \in [Clients -> [Objects -> [Fields \cup {BufferSize} -> Values \cup {Nothing}]]]
    BY DEF TInv, SceneTypes, ToldTypes, ToldFields
  <2>2. \A c \in Clients :
          /\ inbox[c] \in Seq({"done", "not_found"})
          /\ call[c] \in {"none", "get", "commit", "getError"}
          /\ {flag[c], refused[c]} \subseteq {"success", "not_found"}
    BY DEF TInv, EInv, ConnTypes, Answers, Codes, Calls
  <2> QED BY <2>1, <2>2 DEF TypeOK, TInv, SceneTypes
<1> QED BY <1>1, TypeInit, TypeStep, PTL DEF Spec

-----------------------------------------------------------------------------
(* A commit delivers.                                                      *)

\* A surface is asked for once on a layer; one that is asked for twice is
\* shown once.
DistinctOrders == \A q \in Orders : Distinct(q)

WishFields == Fields \cup {RenderOrder}
WishShape ==
    /\ wish = [c \in Clients |-> [o \in Objects |-> [f \in WishFields |-> wish[c][o][f]]]]
    /\ settled = [c \in Clients |-> settled[c]]

\* What a client asked for, W, is on its way in w or is what is pending, P.
Outstanding(w, W, P) ==
    \A o \in Objects :
        /\ \A f \in Fields : W[o][f] # Nothing =>
              W[o][f] # Keep /\ FieldOnItsWay(w, o, f, W[o][f], P[o].prop[f])
        /\ W[o][RenderOrder] # Nothing =>
              W[o][RenderOrder] \in Orders /\ OrderOnItsWay(w, o, W[o][RenderOrder], P[o].order)

\* What a client asked for is on display, C.
Shows(W, C) ==
    \A o \in Objects :
        /\ \A f \in Fields : W[o][f] \in {Nothing, C[o].prop[f]}
        /\ W[o][RenderOrder] \in {Nothing, C[o].order}

\* Behind the commit of a call there is its sync only.
Plain(w) == \A i \in 1 .. Len(w) : w[i].op \in {"type", "sync"}
CommitAhead(w) == Len(w) > 1 /\ w[Len(w) - 1].op = "commit"
Committed(s, k, w) == s \/ (k = "commit" /\ ~CommitAhead(w))
Delivers(s, k, w, W, C) ==
    /\ s => k = "none"
    /\ Committed(s, k, w) => Plain(w) /\ Shows(W, C)

DeliveryInv ==
    /\ WishShape
    /\ \A c \in Clients : /\ Outstanding(wire[c], wish[c], pend)
                          /\ Delivers(settled[c], call[c], wire[c], wish[c], cur)
DInv == TInv /\ DeliveryInv

\* Of what was asked for something is forgotten, and the rest looks the same.
Less(W2, W, P2, P) ==
    \A o \in Objects :
        /\ \A f \in Fields : \/ W2[o][f] = Nothing
                             \/ W2[o][f] = W[o][f] /\ P2[o].prop[f] = P[o].prop[f]
        /\ \/ W2[o][RenderOrder] = Nothing
           \/ W2[o][RenderOrder] = W[o][RenderOrder] /\ P2[o].order = P[o].order

LEMMA LessOutstanding ==
    ASSUME NEW w, NEW W, NEW P, NEW W2, NEW P2, Outstanding(w, W, P), Less(W2, W, P2, P)
    PROVE  Outstanding(w, W2, P2)
BY DEF Outstanding, Less

LEMMA LessShows ==
    ASSUME NEW W, NEW C, NEW W2, NEW C2, Shows(W, C), Less(W2, W, C2, C)
    PROVE  Shows(W2, C2)
BY DEF Shows, Less

\* Nothing of it is on its way any more.
LEMMA PlainShows ==
    ASSUME NEW w \in Seq(Requests), Plain(w), NEW W, NEW P, Outstanding(w, W, P)
    PROVE  Shows(W, P)
<1> SUFFICES ASSUME NEW o \in Objects
             PROVE  /\ \A f \in Fields : W[o][f] \in {Nothing, P[o].prop[f]}
                    /\ W[o][RenderOrder] \in {Nothing, P[o].order}
  BY DEF Shows
<1>1. ASSUME NEW f \in Fields, W[o][f] # Nothing PROVE W[o][f] = P[o].prop[f]
  BY <1>1 DEF Outstanding, FieldOnItsWay, SetAt, Sets, Plain
<1>2. ASSUME W[o][RenderOrder] # Nothing PROVE W[o][RenderOrder] = P[o].order
  <2>1. PICK q : q = W[o][RenderOrder]
    OBVIOUS
  <2>2. q \in Seq(Surfaces) /\ OrderOnItsWay(w, o, q, P[o].order)
    BY <1>2, <2>1, SceneAssumption DEF Outstanding
  <2>3. Len(q) \in Nat /\ Len(w) \in Nat
    BY <2>2
  <2>4. ASSUME NEW k \in 0 .. Len(q), Added(w, o, q, k, P[o].order) PROVE q = P[o].order
    <3>1. CASE k = Len(q)
      BY <2>2, <2>4, <3>1, SubSeqFull DEF Added
    <3>2. CASE k < Len(q)
      <4>1. k + 1 \in 1 .. Len(q) /\ k + 1 > k /\ k + 1 - k = 1 /\ 1 \in 1 .. Len(w)
        BY <2>3, <2>4, <3>2 DEF Added
      <4>2. w[1].op = "add" /\ w[1].op \in {"type", "sync"}
        BY <2>4, <4>1 DEF Added, IsAdd, Plain
      <4> QED BY <4>2
    <3> QED BY <2>3, <3>1, <3>2
  <2>5. ASSUME NEW j \in 1 .. Len(w), Whole(w, o, q, j) PROVE q = P[o].order
    BY <2>5 DEF Whole, IsClear, Plain
  <2> QED BY <2>1, <2>2, <2>4, <2>5 DEF OrderOnItsWay
<1> QED BY <1>1, <1>2

\* The first request r of a client is handled.
Handled(r, W2, W, P2, P) ==
    \A o \in Objects :
        /\ \A f \in Fields :
             \/ W2[o][f] = Nothing
             \/ /\ W2[o][f] = W[o][f]
                /\ ~Sets(r, o, f) => P2[o].prop[f] = P[o].prop[f]
                /\ Sets(r, o, f) /\ r.change[f] # Keep => P2[o].prop[f] = r.change[f]
        /\ \/ W2[o][RenderOrder] = Nothing
           \/ /\ W2[o][RenderOrder] = W[o][RenderOrder]
              /\ ~Stacks(r, o) => P2[o].order = P[o].order
              /\ IsClear(r, o) => P2[o].order = <<>>
              /\ r.op = "add" /\ r.obj = o
                   => P2[o].order = Append(Without(P[o].order, r.surf), r.surf)

LEMMA HandledOutstanding ==
    ASSUME DistinctOrders, NEW w \in Seq(Requests), w # <<>>, NEW W, NEW P, NEW W2, NEW P2,
           Outstanding(w, W, P), Handled(Head(w), W2, W, P2, P)
    PROVE  Outstanding(Tail(w), W2, P2)
<1>1. PICK r : r = Head(w)
  OBVIOUS
<1> SUFFICES ASSUME NEW o \in Objects
    PROVE /\ \A f \in Fields : W2[o][f] # Nothing =>
                W2[o][f] # Keep /\ FieldOnItsWay(Tail(w), o, f, W2[o][f], P2[o].prop[f])
          /\ W2[o][RenderOrder] # Nothing =>
                /\ W2[o][RenderOrder] \in Orders
                /\ OrderOnItsWay(Tail(w), o, W2[o][RenderOrder], P2[o].order)
  BY DEF Outstanding
<1>2. ASSUME NEW f \in Fields, W2[o][f] # Nothing
      PROVE  W2[o][f] # Keep /\ FieldOnItsWay(Tail(w), o, f, W2[o][f], P2[o].prop[f])
  <2>1. PICK v, p, p2 : v = W[o][f] /\ p = P[o].prop[f] /\ p2 = P2[o].prop[f]
    OBVIOUS
  <2>2. /\ W2[o][f] = v /\ v # Keep /\ FieldOnItsWay(w, o, f, v, p)
        /\ ~Sets(r, o, f) => p2 = p
        /\ Sets(r, o, f) /\ r.change[f] # Keep => p2 = r.change[f]
    BY <1>1, <1>2, <2>1 DEF Outstanding, Handled
  <2>3. FieldOnItsWay(Tail(w), o, f, v, p2)
    BY <1>1, <2>2, FieldHandled
  <2> QED BY <2>1, <2>2, <2>3
<1>3. ASSUME W2[o][RenderOrder] # Nothing
      PROVE  /\ W2[o][RenderOrder] \in Orders
             /\ OrderOnItsWay(Tail(w), o, W2[o][RenderOrder], P2[o].order)
  <2>1. PICK q, p, p2 : q = W[o][RenderOrder] /\ p = P[o].order /\ p2 = P2[o].order
    OBVIOUS
  <2>2. /\ W2[o][RenderOrder] = q /\ q \in Orders /\ OrderOnItsWay(w, o, q, p)
        /\ ~Stacks(r, o) => p2 = p
        /\ IsClear(r, o) => p2 = <<>>
        /\ r.op = "add" /\ r.obj = o => p2 = Append(Without(p, r.surf), r.surf)
    BY <1>1, <1>3, <2>1 DEF Outstanding, Handled
  <2>3. q \in Seq(Surfaces) /\ Distinct(q)
    BY <2>2, SceneAssumption DEF DistinctOrders
  <2>4. OrderOnItsWay(Tail(w), o, q, p2)
    BY <1>1, <2>2, <2>3, OrderHandled
  <2> QED BY <2>1, <2>2, <2>4
<1> QED BY <1>2, <1>3

LEMMA WishDomains ==
    ASSUME WishShape, NEW c \in Clients, NEW o \in Objects
    PROVE  /\ wish[c] = [p \in Objects |-> wish[c][p]]
           /\ wish[c][o] = [f \in WishFields |-> wish[c][o][f]]
           /\ DOMAIN wish[c][o] = WishFields
BY DEF WishShape

LEMMA AskedFields ==
    /\ RenderOrder \notin Fields /\ RenderOrder \in WishFields /\ Fields \subseteq WishFields
    /\ \A f \in WishFields : NothingAsked[f] = Nothing
    /\ NothingAsked = [f \in WishFields |-> NothingAsked[f]]
BY DEF RenderOrder, Fields, Scalars, Source, Destination, WishFields, NothingAsked

\* Others no longer see to what a client overwrites.
LEMMA Overwritten ==
    ASSUME DeliveryInv, NEW o \in Objects, NEW F, NEW writers, Overwrite(o, F, writers)
    PROVE  /\ wish' = [c \in Clients |-> [p \in Objects |-> [f \in WishFields |-> wish'[c][p][f]]]]
           /\ \A c \in Clients, p \in Objects, f \in WishFields :
                 wish'[c][p][f] = IF c \notin writers /\ p = o /\ f \in F THEN Nothing
                                  ELSE wish[c][p][f]
<1>1. WishShape
  BY DEF DeliveryInv
<1>2. wish' = [d \in Clients |-> IF d \in writers THEN wish[d]
              ELSE [wish[d] EXCEPT ![o] = [f \in DOMAIN wish[d][o] |->
                                             IF f \in F THEN Nothing ELSE wish[d][o][f]]]]
  BY DEF Overwrite
<1>3. ASSUME NEW c \in Clients
      PROVE  /\ wish'[c] = [p \in Objects |-> [f \in WishFields |-> wish'[c][p][f]]]
             /\ \A p \in Objects, f \in WishFields :
                 wish'[c][p][f] = IF c \notin writers /\ p = o /\ f \in F THEN Nothing
                                  ELSE wish[c][p][f]
  <2>1. CASE c \in writers
    BY <1>1, <1>2, <2>1 DEF WishShape
  <2>2. CASE c \notin writers
    <3>1. wish'[c] = [wish[c] EXCEPT ![o] = [f \in WishFields |->
                                             IF f \in F THEN Nothing ELSE wish[c][o][f]]]
      BY <1>1, <1>2, <2>2, WishDomains
    <3>2. PICK W : W = wish[c]
      OBVIOUS
    <3>3. W = [p \in Objects |-> [f \in WishFields |-> W[p][f]]]
      BY <1>1, <3>2 DEF WishShape
    <3>4. \A p \in Objects : wish'[c][p] =
              IF p = o THEN [f \in WishFields |-> IF f \in F THEN Nothing ELSE W[o][f]]
              ELSE [f \in WishFields |-> W[p][f]]
      BY <3>1, <3>2, <3>3
    <3>5. wish'[c] = [p \in Objects |-> wish'[c][p]]
      BY <3>1, <3>2, <3>3
    <3>6. ASSUME NEW p \in Objects
          PROVE  wish'[c][p] = [f \in WishFields |-> wish'[c][p][f]]
      <4>1. CASE p = o
        <5>1. PICK g : g = [f \in WishFields |-> IF f \in F THEN Nothing ELSE W[o][f]]
          OBVIOUS
        <5>2. g = [f \in WishFields |-> g[f]]
          BY <5>1
        <5> QED BY <3>4, <4>1, <5>1, <5>2
      <4>2. CASE p # o
        BY <3>4, <4>2
      <4> QED BY <4>1, <4>2
    <3>7. wish'[c] = [p \in Objects |-> [f \in WishFields |-> wish'[c][p][f]]]
      BY <3>5, <3>6
    <3>8. \A p \in Objects, f \in WishFields :
            wish'[c][p][f] = IF p = o /\ f \in F THEN Nothing ELSE W[p][f]
      <4> SUFFICES ASSUME NEW p \in Objects, NEW f \in WishFields
          PROVE wish'[c][p][f] = IF p = o /\ f \in F THEN Nothing ELSE W[p][f]
        OBVIOUS
      <4>1. CASE p = o
        BY <3>4, <4>1
      <4>2. CASE p # o
        BY <3>4, <4>2
      <4> QED BY <4>1, <4>2
    <3> QED BY <2>2, <3>2, <3>7, <3>8
  <2> QED BY <2>1, <2>2
<1>4. wish' = [c \in Clients |-> wish'[c]]
  BY <1>2
<1>5. wish' = [c \in Clients |-> [p \in Objects |-> [f \in WishFields |-> wish'[c][p][f]]]]
  BY <1>3, <1>4
<1> QED BY <1>3, <1>5

\* What handling its first request does to what a client asked for, and to the
\* wishes of the others.
Effect(c, r) ==
    /\ WishShape'
    /\ \A d \in Clients \ {c} : Less(wish'[d], wish[d], pend', pend)
    /\ Handled(r, wish'[c], wish[c], pend', pend)
    /\ \A d \in Clients : Less(wish'[d], wish[d], cur, cur)
    /\ \/ r.op = "commit" /\ cur' = pend'
       \/ r.op # "commit" /\ cur' = cur

LEMMA NothingEffect ==
    ASSUME DInv, NEW c \in Clients, NEW r, UNCHANGED <<cur, pend, wish, settled>>,
           r.op \notin {"set", "clear", "add", "remove", "commit"}
    PROVE  Effect(c, r)
<1>1. \A d \in Clients : Less(wish'[d], wish[d], pend', pend) /\ Less(wish'[d], wish[d], cur, cur)
  BY DEF Less
<1>2. Handled(r, wish'[c], wish[c], pend', pend)
  BY DEF Handled, Sets, Stacks, IsClear
<1>3. WishShape'
  BY DEF DInv, DeliveryInv, WishShape
<1> QED BY <1>1, <1>2, <1>3 DEF Effect

LEMMA RefuseEffect ==
    ASSUME DInv, NEW c \in Clients, NEW r \in Requests, UNCHANGED settled, Refuse(c, r),
           r.op # "commit"
    PROVE  Effect(c, r)
<1>1. UNCHANGED <<cur, pend>> /\ WishShape
  BY DEF Refuse, scene, DInv, DeliveryInv
<1>2. CASE r.op \in {"set", "clear", "add", "remove"}
  <2>1. r.obj \in Objects /\ wish' = [wish EXCEPT ![c][r.obj] = NothingAsked]
    BY <1>2, RequestTypes DEF Refuse, Objects
  <2>2. /\ wish' = [d \in Clients |-> [o \in Objects |-> wish'[d][o]]]
        /\ \A d \in Clients, o \in Objects :
              wish'[d][o] = IF d = c /\ o = r.obj THEN NothingAsked ELSE wish[d][o]
    BY <1>1, <2>1 DEF WishShape
  <2>3. ASSUME NEW d \in Clients, NEW o \in Objects
        PROVE  wish'[d][o] = [f \in WishFields |-> wish'[d][o][f]]
    <3>1. CASE d = c /\ o = r.obj
      BY <2>2, <3>1, AskedFields
    <3>2. CASE ~(d = c /\ o = r.obj)
      <4>1. wish'[d][o] = wish[d][o]
        BY <2>2, <3>2
      <4>2. wish[d][o] = [f \in WishFields |-> wish[d][o][f]]
        BY <1>1, WishDomains
      <4> QED BY <4>1, <4>2
    <3> QED BY <3>1, <3>2
  <2>4. WishShape'
    <3>1. wish' = [d \in Clients |-> [o \in Objects |-> [f \in WishFields |-> wish'[d][o][f]]]]
      BY <2>2, <2>3
    <3> QED BY <1>1, <3>1 DEF WishShape
  <2>5. \A d \in Clients, o \in Objects, f \in WishFields :
           wish'[d][o][f] = IF d = c /\ o = r.obj THEN Nothing ELSE wish[d][o][f]
    BY <2>2, AskedFields
  <2>6. \A d \in Clients : /\ Less(wish'[d], wish[d], pend', pend)
                           /\ Less(wish'[d], wish[d], cur, cur)
    BY <1>1, <2>5, AskedFields DEF Less
  <2>7. Handled(r, wish'[c], wish[c], pend', pend)
    <3> SUFFICES ASSUME NEW o \in Objects
        PROVE \/ \A f \in WishFields : wish'[c][o][f] = Nothing
              \/ /\ \A f \in WishFields : wish'[c][o][f] = wish[c][o][f]
                 /\ ~Stacks(r, o) /\ ~IsClear(r, o) /\ ~(r.op = "add" /\ r.obj = o)
                 /\ \A f \in WishFields : ~Sets(r, o, f)
      BY <1>1, AskedFields DEF Handled
    <3> QED BY <2>5 DEF Sets, Stacks, IsClear
  <2> QED BY <1>1, <1>2, <2>4, <2>6, <2>7 DEF Effect
<1>3. CASE r.op \notin {"set", "clear", "add", "remove"}
  <2>1. wish' = wish
    BY <1>3 DEF Refuse
  <2> QED BY <1>1, <1>3, <2>1, NothingEffect
<1> QED BY <1>2, <1>3

LEMMA SetEffect ==
    ASSUME DInv, NEW c \in Clients, NEW r \in Requests, r.op = "set", r.obj \in objects,
           SetProperties(c, r), UNCHANGED settled
    PROVE  Effect(c, r)
<1>1. /\ r.obj \in Objects /\ r.change \in FieldValues /\ IsScene(pend) /\ DeliveryInv
      /\ pend \in [Objects -> Looks]
  <2>1. IsScene(pend)
    BY LookTypes DEF DInv, TInv, SceneTypes, IsScene, Look
  <2> QED BY <2>1, RequestTypes DEF DInv, TInv, SceneTypes
<1>2. PICK o, F, ch, p : o = r.obj /\ ch = r.change /\ F = DOMAIN ch /\ p = Requested(o, ch)
  OBVIOUS
<1>3. F \subseteq Fields
  BY <1>1, <1>2, ChangeTypes
<1>4. \A f \in Fields : /\ f \notin F => p[f] = pend[o].prop[f]
                        /\ f \in F /\ ch[f] # Keep => p[f] = ch[f]
  BY <1>2 DEF Requested
<1>5. pend' = [pend EXCEPT ![o] = Look(p, pend[o].order)] /\ cur' = cur
  BY <1>2 DEF SetProperties
<1>6. \A q \in Objects : /\ pend'[q].order = pend[q].order
                         /\ q # o => pend'[q] = pend[q]
                         /\ q = o => pend'[q].prop = p
  BY <1>1, <1>2, <1>5 DEF Look
<1>7. Overwrite(o, F, {c})
  BY <1>2 DEF SetProperties
<1>8. /\ wish' = [d \in Clients |-> [q \in Objects |-> [f \in WishFields |-> wish'[d][q][f]]]]
      /\ \A d \in Clients, q \in Objects, f \in WishFields :
            wish'[d][q][f] = IF d \notin {c} /\ q = o /\ f \in F THEN Nothing ELSE wish[d][q][f]
  BY <1>1, <1>2, <1>7, Overwritten
<1>9. WishShape'
  BY <1>1, <1>8 DEF WishShape, DeliveryInv
<1>10. \A d \in Clients : Less(wish'[d], wish[d], cur, cur)
  BY <1>8, AskedFields DEF Less
<1>11. \A d \in Clients \ {c} : Less(wish'[d], wish[d], pend', pend)
  BY <1>4, <1>6, <1>8, AskedFields DEF Less
<1>12. Handled(r, wish'[c], wish[c], pend', pend)
  <2> SUFFICES ASSUME NEW q \in Objects
      PROVE /\ \A f \in Fields :
                  /\ wish'[c][q][f] = wish[c][q][f]
                  /\ ~Sets(r, q, f) => pend'[q].prop[f] = pend[q].prop[f]
                  /\ Sets(r, q, f) /\ r.change[f] # Keep => pend'[q].prop[f] = r.change[f]
            /\ wish'[c][q][RenderOrder] = wish[c][q][RenderOrder]
            /\ pend'[q].order = pend[q].order /\ ~IsClear(r, q) /\ r.op # "add"
    BY DEF Handled
  <2> QED BY <1>2, <1>4, <1>6, <1>8, AskedFields DEF Sets, IsClear
<1> QED BY <1>5, <1>9, <1>10, <1>11, <1>12 DEF Effect

LEMMA OrderEffect ==
    ASSUME DInv, NEW c \in Clients, NEW r \in Requests, r.op \in {"clear", "add", "remove"},
           r.obj \in objects, NEW order, SetOrder(c, r.obj, order), UNCHANGED settled,
           r.op = "clear" => order = <<>>,
           r.op = "add" => order = Append(Without(pend[r.obj].order, r.surf), r.surf)
    PROVE  Effect(c, r)
<1>1. r.obj \in Objects /\ pend \in [Objects -> Looks] /\ DeliveryInv
  BY DEF DInv, TInv, SceneTypes
<1>2. PICK l : l = r.obj
  OBVIOUS
<1>3. pend' = [pend EXCEPT ![l] = Look(pend[l].prop, order)] /\ cur' = cur
  BY <1>2 DEF SetOrder
<1>4. \A q \in Objects : /\ pend'[q].prop = pend[q].prop
                         /\ q # l => pend'[q] = pend[q]
                         /\ q = l => pend'[q].order = order
  BY <1>1, <1>2, <1>3 DEF Look
<1>5. /\ wish' = [d \in Clients |-> [q \in Objects |-> [f \in WishFields |-> wish'[d][q][f]]]]
      /\ \A d \in Clients, q \in Objects, f \in WishFields :
            wish'[d][q][f] = IF d \notin {c} /\ q = l /\ f \in {RenderOrder} THEN Nothing
                             ELSE wish[d][q][f]
  BY <1>1, <1>2, Overwritten DEF SetOrder
<1>6. WishShape'
  BY <1>1, <1>5 DEF WishShape, DeliveryInv
<1>7. \A d \in Clients : Less(wish'[d], wish[d], cur, cur)
  BY <1>5, AskedFields DEF Less
<1>8. \A d \in Clients \ {c} : Less(wish'[d], wish[d], pend', pend)
  BY <1>4, <1>5, AskedFields DEF Less
<1>9. Handled(r, wish'[c], wish[c], pend', pend)
  <2> SUFFICES ASSUME NEW q \in Objects
      PROVE /\ \A f \in Fields : /\ wish'[c][q][f] = wish[c][q][f] /\ ~Sets(r, q, f)
                                 /\ pend'[q].prop[f] = pend[q].prop[f]
            /\ wish'[c][q][RenderOrder] = wish[c][q][RenderOrder]
            /\ ~Stacks(r, q) => pend'[q].order = pend[q].order
            /\ IsClear(r, q) => pend'[q].order = <<>>
            /\ r.op = "add" /\ r.obj = q
                 => pend'[q].order = Append(Without(pend[q].order, r.surf), r.surf)
    BY DEF Handled
  <2>1. \A f \in WishFields : wish'[c][q][f] = wish[c][q][f]
    BY <1>5
  <2>2. \A f \in Fields : ~Sets(r, q, f)
    BY DEF Sets
  <2>3. CASE q = l
    BY <1>2, <1>4, <2>1, <2>2, <2>3, AskedFields DEF Stacks, IsClear
  <2>4. CASE q # l
    BY <1>2, <1>4, <2>1, <2>2, <2>4, AskedFields DEF Stacks, IsClear
  <2> QED BY <2>3, <2>4
<1> QED BY <1>3, <1>6, <1>7, <1>8, <1>9 DEF Effect

LEMMA HandledWishes ==
    ASSUME DInv, NEW c \in Clients, HandleRequest(c)
    PROVE  Effect(c, Head(wire[c]))
<1>1. PICK r : r = Head(wire[c])
  OBVIOUS
<1>2. r \in Requests /\ UNCHANGED settled /\ DeliveryInv
  BY <1>1, HandledFirst DEF DInv, TInv, EInv, ConnTypes, HandleRequest
<1>3. \/ controller_set_surface(c, r) \/ controller_set_layer(c, r)
      \/ controller_layer_clear(c, r) \/ controller_layer_add_surface(c, r)
      \/ controller_layer_remove_surface(c, r) \/ controller_set_surface_type(c, r)
      \/ controller_get(c, r) \/ controller_commit_changes(c, r) \/ sync(c, r)
  BY <1>1 DEF HandleRequest
<1>4. CASE Refuse(c, r) /\ r.op # "commit"
  BY <1>1, <1>2, <1>4, RefuseEffect
<1>5. CASE r.op = "set" /\ r.obj \in objects /\ SetProperties(c, r)
  BY <1>1, <1>2, <1>5, SetEffect
<1>6. ASSUME r.op \in {"clear", "add", "remove"}, r.obj \in objects, NEW order,
             SetOrder(c, r.obj, order), r.op = "clear" => order = <<>>,
             r.op = "add" => order = Append(Without(pend[r.obj].order, r.surf), r.surf)
      PROVE  Effect(c, r)
  BY <1>2, <1>6, OrderEffect
<1>7. CASE controller_set_surface(c, r) \/ controller_set_layer(c, r)
  BY <1>4, <1>5, <1>7 DEF controller_set_surface, controller_set_layer
<1>8. CASE controller_layer_clear(c, r)
  BY <1>1, <1>4, <1>6, <1>8 DEF controller_layer_clear
<1>9. CASE controller_layer_add_surface(c, r)
  <2>1. CASE {r.obj, r.surf} \subseteq objects
    <3>1. PICK order : order = Append(Without(pend[r.obj].order, r.surf), r.surf)
      OBVIOUS
    <3>2. SetOrder(c, r.obj, order) /\ r.op = "add" /\ r.obj \in objects
      BY <1>9, <2>1, <3>1 DEF controller_layer_add_surface, Without
    <3> QED BY <1>1, <1>6, <3>1, <3>2
  <2>2. CASE ~({r.obj, r.surf} \subseteq objects)
    BY <1>4, <1>9, <2>2 DEF controller_layer_add_surface
  <2> QED BY <2>1, <2>2
<1>10. CASE controller_layer_remove_surface(c, r)
  <2>1. CASE {r.obj, r.surf} \subseteq objects
    <3>1. /\ SetOrder(c, r.obj, S!Without(pend[r.obj].order, r.surf))
          /\ r.op = "remove" /\ r.obj \in objects
      BY <1>10, <2>1 DEF controller_layer_remove_surface
    <3> QED BY <1>1, <1>6, <3>1
  <2>2. CASE ~({r.obj, r.surf} \subseteq objects)
    BY <1>4, <1>10, <2>2 DEF controller_layer_remove_surface
  <2> QED BY <2>1, <2>2
<1>11. CASE controller_set_surface_type(c, r) \/ controller_get(c, r) \/ sync(c, r)
  <2>1. \/ Refuse(c, r)
        \/ UNCHANGED <<cur, pend, wish>>
    BY <1>11 DEF controller_set_surface_type, controller_get, sync, scene
  <2>2. r.op \in {"type", "get", "sync"}
    BY <1>11 DEF controller_set_surface_type, controller_get, sync
  <2> QED BY <1>1, <1>2, <1>4, <2>1, <2>2, NothingEffect
<1>12. CASE controller_commit_changes(c, r)
  <2>1. r.op = "commit" /\ cur' = pend' /\ UNCHANGED <<pend, wish>>
    BY <1>12 DEF controller_commit_changes
  <2>2. \A d \in Clients : /\ Less(wish'[d], wish[d], pend', pend)
                           /\ Less(wish'[d], wish[d], cur, cur)
    BY <2>1 DEF Less
  <2>3. Handled(r, wish'[c], wish[c], pend', pend)
    BY <2>1 DEF Handled, Sets, Stacks, IsClear
  <2>4. WishShape'
    BY <1>2, <2>1 DEF DeliveryInv, WishShape
  <2> QED BY <1>1, <2>1, <2>2, <2>3, <2>4 DEF Effect
<1> QED BY <1>3, <1>7, <1>8, <1>9, <1>10, <1>11, <1>12

-----------------------------------------------------------------------------
(* Every step keeps what was asked for on its way until it is shown.       *)

LEMMA HandledDelivers ==
    ASSUME NEW w \in Seq(Requests), w # <<>>, NEW s, NEW k, NEW W, NEW C, NEW W2, NEW C2, NEW P2,
           Delivers(s, k, w, W, C), Less(W2, W, C, C), Outstanding(Tail(w), W2, P2),
           \/ Head(w).op = "commit" /\ C2 = P2
           \/ Head(w).op # "commit" /\ C2 = C,
           k = "commit" => SyncLast(w)
    PROVE  Delivers(s, k, Tail(w), W2, C2)
<1>1. /\ Tail(w) \in Seq(Requests) /\ Len(w) \in Nat \ {0} /\ Len(Tail(w)) = Len(w) - 1
      /\ Head(w) = w[1] /\ \A i \in 1 .. Len(Tail(w)) : Tail(w)[i] = w[i + 1]
  BY HandledFirst
<1> SUFFICES ASSUME Committed(s, k, Tail(w)) PROVE Plain(Tail(w)) /\ Shows(W2, C2)
  BY DEF Delivers
<1>2. CASE Committed(s, k, w)
  <2>1. Plain(w) /\ Shows(W, C)
    BY <1>2 DEF Delivers
  <2>2. Head(w).op \in {"type", "sync"} /\ Plain(Tail(w))
    BY <1>1, <2>1 DEF Plain
  <2> QED BY <2>1, <2>2, LessShows
<1>3. CASE ~Committed(s, k, w)
  <2>1. CommitAhead(w) /\ ~CommitAhead(Tail(w)) /\ SyncLast(w)
    BY <1>3 DEF Committed
  <2>2. Len(w) = 2
    <3>1. CASE Len(w) > 2
      <4>1. /\ Len(Tail(w)) > 1 /\ Len(Tail(w)) - 1 \in 1 .. Len(Tail(w))
            /\ Len(Tail(w)) - 1 + 1 = Len(w) - 1
        BY <1>1, <3>1
      <4>2. Tail(w)[Len(Tail(w)) - 1] = w[Len(w) - 1]
        BY <1>1, <4>1
      <4> QED BY <2>1, <4>1, <4>2 DEF CommitAhead
    <3> QED BY <1>1, <2>1, <3>1 DEF CommitAhead
  <2>3. Head(w).op = "commit" /\ C2 = P2
    BY <1>1, <2>1, <2>2 DEF CommitAhead
  <2>4. Plain(Tail(w))
    <3>1. \A i \in 1 .. Len(Tail(w)) : i + 1 = Len(w)
      <4>1. Len(Tail(w)) = 1
        BY <1>1, <2>2
      <4>2. \A i \in 1 .. 1 : i + 1 = 2
        OBVIOUS
      <4> QED BY ONLY <2>2, <4>1, <4>2, Zenon
    <3>2. \A i \in 1 .. Len(Tail(w)) : Tail(w)[i] = w[Len(w)]
      BY <1>1, <3>1
    <3> QED BY <2>1, <3>2 DEF SyncLast, Plain
  <2>5. Shows(W2, C2)
    BY <1>1, <2>3, <2>4, PlainShows
  <2> QED BY <2>4, <2>5
<1> QED BY <1>2, <1>3

\* What is on its way for a client is not what changes.
LEMMA OtherDelivers ==
    ASSUME NEW w \in Seq(Requests), NEW s, NEW k, NEW W, NEW C, NEW W2, NEW C2, NEW P2,
           Delivers(s, k, w, W, C), Outstanding(w, W2, P2),
           C2 = P2 \/ Less(W2, W, C2, C)
    PROVE  Delivers(s, k, w, W2, C2)
BY PlainShows, LessShows DEF Delivers

LEMMA DeliveryHandled ==
    ASSUME DistinctOrders, DInv, NEW c \in Clients, HandleRequest(c)
    PROVE  DeliveryInv'
<1>1. PICK r : r = Head(wire[c])
  OBVIOUS
<1>2. Effect(c, r)
  BY <1>1, HandledWishes
<1>3. /\ wire[c] # <<>> /\ wire' = [wire EXCEPT ![c] = Tail(wire[c])]
      /\ UNCHANGED <<call, settled>>
  BY DEF HandleRequest
<1>4. /\ \A d \in Clients : /\ wire[d] \in Seq(Requests)
                            /\ Await(wire[d], inbox[d], call[d] # "none")
                            /\ Outstanding(wire[d], wish[d], pend)
                            /\ Delivers(settled[d], call[d], wire[d], wish[d], cur)
      /\ wire = [d \in Clients |-> wire[d]]
  BY DEF DInv, TInv, EInv, ConnTypes, DeliveryInv
<1>5. wire'[c] = Tail(wire[c]) /\ \A d \in Clients \ {c} : wire'[d] = wire[d]
  BY <1>3, <1>4
<1>6. Outstanding(wire'[c], wish'[c], pend')
  BY <1>1, <1>2, <1>3, <1>4, <1>5, HandledOutstanding DEF Effect
<1>7. Delivers(settled'[c], call'[c], wire'[c], wish'[c], cur')
  <2>1. call[c] = "commit" => SyncLast(wire[c])
    BY <1>3, <1>4 DEF Await
  <2>2. PICK w, W, W2, P2, C, C2 : /\ w = wire[c] /\ W = wish[c] /\ W2 = wish'[c]
                                   /\ P2 = pend' /\ C = cur /\ C2 = cur'
    OBVIOUS
  <2>3. /\ w \in Seq(Requests) /\ w # <<>>
        /\ Delivers(settled[c], call[c], w, W, C) /\ Less(W2, W, C, C)
        /\ Outstanding(Tail(w), W2, P2)
        /\ \/ Head(w).op = "commit" /\ C2 = P2
           \/ Head(w).op # "commit" /\ C2 = C
    BY <1>1, <1>2, <1>3, <1>4, <1>5, <1>6, <2>2 DEF Effect
  <2>4. Delivers(settled[c], call[c], Tail(w), W2, C2)
    BY <2>1, <2>2, <2>3, HandledDelivers
  <2> QED BY <1>3, <1>5, <2>2, <2>4
<1>8. ASSUME NEW d \in Clients, d # c
      PROVE  /\ Outstanding(wire'[d], wish'[d], pend')
             /\ Delivers(settled'[d], call'[d], wire'[d], wish'[d], cur')
  <2>1. PICK w, W, W2, P, P2, C, C2 : /\ w = wire[d] /\ W = wish[d] /\ W2 = wish'[d]
                                      /\ P = pend /\ P2 = pend' /\ C = cur /\ C2 = cur'
    OBVIOUS
  <2>2. /\ w \in Seq(Requests) /\ Outstanding(w, W, P) /\ Delivers(settled[d], call[d], w, W, C)
        /\ Less(W2, W, P2, P) /\ Less(W2, W, C, C) /\ (C2 = P2 \/ C2 = C)
    BY <1>2, <1>4, <1>8, <2>1 DEF Effect
  <2>3. Outstanding(w, W2, P2)
    BY <2>2, LessOutstanding
  <2>4. Delivers(settled[d], call[d], w, W2, C2)
    BY <2>2, <2>3, OtherDelivers
  <2> QED BY <1>3, <1>5, <1>8, <2>1, <2>3, <2>4
<1> QED BY <1>2, <1>6, <1>7, <1>8 DEF DeliveryInv, Effect

\* A client sends x.
LEMMA SentOutstanding ==
    ASSUME NEW w \in Seq(Requests), NEW x \in Seq(Requests), NEW W, NEW W2, NEW P,
           Outstanding(w, W, P),
           \A o \in Objects, f \in Fields :
              \/ W2[o][f] = Nothing
              \/ W2[o][f] = W[o][f] /\ \A i \in 1 .. Len(x) : ~Sets(x[i], o, f)
              \/ W2[o][f] # Keep /\ FieldOnItsWay(w \o x, o, f, W2[o][f], P[o].prop[f]),
           \A o \in Objects :
              \/ W2[o][RenderOrder] = Nothing
              \/ W2[o][RenderOrder] = W[o][RenderOrder] /\ \A i \in 1 .. Len(x) : ~Stacks(x[i], o)
              \/ /\ W2[o][RenderOrder] \in Orders
                 /\ OrderOnItsWay(w \o x, o, W2[o][RenderOrder], P[o].order)
    PROVE  Outstanding(w \o x, W2, P)
<1>1. ASSUME NEW o \in Objects, NEW f \in Fields, W2[o][f] # Nothing
      PROVE  W2[o][f] # Keep /\ FieldOnItsWay(w \o x, o, f, W2[o][f], P[o].prop[f])
  <2>1. CASE W2[o][f] = W[o][f] /\ \A i \in 1 .. Len(x) : ~Sets(x[i], o, f)
    <3>1. W[o][f] # Keep /\ FieldOnItsWay(w, o, f, W[o][f], P[o].prop[f])
      BY <1>1, <2>1 DEF Outstanding
    <3> QED BY <2>1, <3>1, FieldSentOther
  <2> QED BY <1>1, <2>1
<1>2. ASSUME NEW o \in Objects, W2[o][RenderOrder] # Nothing
      PROVE  /\ W2[o][RenderOrder] \in Orders
             /\ OrderOnItsWay(w \o x, o, W2[o][RenderOrder], P[o].order)
  <2>1. CASE W2[o][RenderOrder] = W[o][RenderOrder] /\ \A i \in 1 .. Len(x) : ~Stacks(x[i], o)
    <3>1. PICK q : q = W[o][RenderOrder]
      OBVIOUS
    <3>2. q \in Orders /\ q \in Seq(Surfaces) /\ OrderOnItsWay(w, o, q, P[o].order)
      BY <1>2, <2>1, <3>1, SceneAssumption DEF Outstanding
    <3> QED BY <2>1, <3>1, <3>2, OrderSentOther
  <2> QED BY <1>2, <2>1
<1> QED BY <1>1, <1>2 DEF Outstanding

\* What the requests x that c sends do to the wishes of c.
Sent(c, x) ==
    /\ x \in Seq(Requests)
    /\ wire' = [wire EXCEPT ![c] = wire[c] \o x]
    /\ wish' = [d \in Clients |-> [o \in Objects |-> [f \in WishFields |-> wish'[d][o][f]]]]
    /\ \A d \in Clients \ {c} : wish'[d] = wish[d]
    /\ Outstanding(wire[c] \o x, wish'[c], pend)
    /\ settled' = [d \in Clients |-> settled'[d]]
    /\ \A d \in Clients \ {c} : settled'[d] = settled[d] /\ call'[d] = call[d]
    /\ UNCHANGED scene

LEMMA DeliverySent ==
    ASSUME DInv, NEW c \in Clients, NEW x, Sent(c, x),
           Delivers(settled'[c], call'[c], wire[c] \o x, wish'[c], cur)
    PROVE  DeliveryInv'
<1>1. /\ wire'[c] = wire[c] \o x /\ \A d \in Clients \ {c} : wire'[d] = wire[d]
      /\ UNCHANGED <<cur, pend>>
  BY DEF DInv, TInv, EInv, ConnTypes, Sent, scene
<1>2. ASSUME NEW d \in Clients
      PROVE  /\ Outstanding(wire'[d], wish'[d], pend')
             /\ Delivers(settled'[d], call'[d], wire'[d], wish'[d], cur')
  <2>1. CASE d = c
    BY <1>1, <2>1 DEF Sent
  <2>2. CASE d # c
    BY <1>1, <2>2 DEF Sent, DInv, DeliveryInv
  <2> QED BY <2>1, <2>2
<1> QED BY <1>2 DEF DeliveryInv, WishShape, Sent

\* A call that is not ilm_commitChanges promises nothing yet.
LEMMA NothingPromised ==
    ASSUME NEW w, NEW W, NEW C, NEW k, k # "commit"
    PROVE  Delivers(FALSE, k, w, W, C)
BY DEF Delivers, Committed

LEMMA DeliverySetter ==
    ASSUME DInv, NEW c \in Clients, NEW Objs, NEW Names, Setter(c, Objs, Names)
    PROVE  DeliveryInv'
<1>1. PICK a \in Changes :
        /\ Send(c, <<[op |-> "set", obj |-> a.obj, change |-> a.change]>>)
        /\ Remember(c, a.obj, a.change)
        /\ settled' = [settled EXCEPT ![c] = FALSE] /\ UNCHANGED call
  BY DEF Setter
<1>2. PICK o, ch, r : /\ o = a.obj /\ ch = a.change
                      /\ r = [op |-> "set", obj |-> o, change |-> ch]
  OBVIOUS
<1>3. o \in Objects /\ ch \in FieldValues /\ r \in Requests
  BY <1>2, SceneAssumption DEF Requests
<1>4. DOMAIN ch \subseteq Fields /\ \A f \in DOMAIN ch : ch[f] # Keep => ch[f] \in Values
  BY <1>3, ChangeTypes
<1>5. /\ WishShape /\ settled' = [settled EXCEPT ![c] = FALSE] /\ call[c] = "none"
      /\ wire' = [wire EXCEPT ![c] = wire[c] \o <<r>>] /\ UNCHANGED <<scene, call>>
      /\ wire[c] \in Seq(Requests) /\ Outstanding(wire[c], wish[c], pend)
  BY <1>1, <1>2 DEF Send, DInv, DeliveryInv, TInv, EInv, ConnTypes
<1>6. PICK g : g = [f \in WishFields |-> IF f \notin DOMAIN ch THEN wish[c][o][f]
                                         ELSE IF ch[f] = Keep THEN Nothing ELSE ch[f]]
  OBVIOUS
<1>7. g = [f \in WishFields |-> g[f]] /\ wish' = [wish EXCEPT ![c][o] = g]
  BY <1>1, <1>2, <1>3, <1>5, <1>6, WishDomains DEF Remember
<1>8. /\ wish' = [d \in Clients |-> [p \in Objects |-> wish'[d][p]]]
      /\ \A d \in Clients \ {c} : wish'[d] = wish[d]
      /\ wish'[c][o] = g /\ \A p \in Objects \ {o} : wish'[c][p] = wish[c][p]
  BY <1>3, <1>5, <1>7 DEF WishShape
<1>9. ASSUME NEW d \in Clients, NEW p \in Objects
      PROVE  wish'[d][p] = [f \in WishFields |-> wish'[d][p][f]]
  <2>1. CASE d = c /\ p = o
    BY <1>7, <1>8, <2>1
  <2>2. CASE ~(d = c /\ p = o)
    <3>1. wish'[d][p] = wish[d][p]
      BY <1>8, <2>2
    <3>2. wish[d][p] = [f \in WishFields |-> wish[d][p][f]]
      BY <1>5, WishDomains
    <3> QED BY <3>1, <3>2
  <2> QED BY <2>1, <2>2
<1>10. wish' = [d \in Clients |-> [p \in Objects |-> [f \in WishFields |-> wish'[d][p][f]]]]
  BY <1>8, <1>9
<1>11. /\ <<r>> \in Seq(Requests) /\ Len(<<r>>) = 1 /\ <<r>>[1] = r
       /\ \A i \in 1 .. Len(<<r>>) : <<r>>[i] = r
  BY <1>3
<1>12. ASSUME NEW p \in Objects, NEW f \in Fields
       PROVE  \/ wish'[c][p][f] = Nothing
              \/ wish'[c][p][f] = wish[c][p][f] /\ \A i \in 1 .. Len(<<r>>) : ~Sets(<<r>>[i], p, f)
              \/ /\ wish'[c][p][f] # Keep
                 /\ FieldOnItsWay(wire[c] \o <<r>>, p, f, wish'[c][p][f], pend[p].prop[f])
  <2>1. CASE p # o \/ f \notin DOMAIN ch
    <3>1. ~Sets(r, p, f)
      BY <1>2, <2>1 DEF Sets
    <3>2. wish'[c][p][f] = wish[c][p][f]
      BY <1>6, <1>8, <2>1, AskedFields
    <3> QED BY <1>11, <3>1, <3>2
  <2>2. CASE p = o /\ f \in DOMAIN ch /\ ch[f] = Keep
    BY <1>6, <1>8, <2>2, AskedFields
  <2>3. CASE p = o /\ f \in DOMAIN ch /\ ch[f] # Keep
    <3>1. wish'[c][p][f] = ch[f] /\ Sets(r, p, f) /\ r.change[f] = ch[f]
      BY <1>2, <1>6, <1>8, <2>3, AskedFields DEF Sets
    <3>2. FieldOnItsWay(wire[c] \o <<r>>, p, f, r.change[f], pend[p].prop[f])
      BY <1>3, <1>5, <3>1, FieldSent
    <3> QED BY <2>3, <3>1, <3>2
  <2> QED BY <2>1, <2>2, <2>3
<1>13. ASSUME NEW p \in Objects
       PROVE  /\ wish'[c][p][RenderOrder] = wish[c][p][RenderOrder]
              /\ \A i \in 1 .. Len(<<r>>) : ~Stacks(<<r>>[i], p)
  <2>1. ~Stacks(r, p)
    BY <1>2 DEF Stacks
  <2>2. wish'[c][p][RenderOrder] = wish[c][p][RenderOrder]
    BY <1>4, <1>6, <1>8, AskedFields
  <2> QED BY <1>11, <2>1, <2>2
<1>14. Outstanding(wire[c] \o <<r>>, wish'[c], pend)
  <2>1. PICK w, x, W, W2, P : /\ w = wire[c] /\ x = <<r>> /\ W = wish[c] /\ W2 = wish'[c]
                              /\ P = pend
    OBVIOUS
  <2>2. Outstanding(w \o x, W2, P)
    BY <1>5, <1>11, <1>12, <1>13, <2>1, SentOutstanding
  <2> QED BY <2>1, <2>2
<1>15. Sent(c, <<r>>)
  BY <1>5, <1>8, <1>10, <1>11, <1>14 DEF Sent, WishShape
<1>16. settled'[c] = FALSE /\ call'[c] # "commit"
  BY <1>5 DEF WishShape
<1> QED BY <1>15, <1>16, NothingPromised, DeliverySent

\* A call that changes what c asked for of the order of l to v, or nothing.
LEMMA DeliveryOrder ==
    ASSUME DInv, NEW c \in Clients, NEW l \in Layers, NEW v, NEW x \in Seq(Requests),
           Send(c, x), UNCHANGED call, settled' = [settled EXCEPT ![c] = FALSE],
           wish' = [wish EXCEPT ![c][l][RenderOrder] = v],
           \A i \in 1 .. Len(x) : x[i].op \in {"clear", "add", "remove"} /\ x[i].obj = l,
           v = Nothing \/ (v \in Orders /\ OrderOnItsWay(wire[c] \o x, l, v, pend[l].order))
    PROVE  DeliveryInv'
<1>1. /\ WishShape /\ call[c] = "none" /\ l \in Objects /\ c \in Clients /\ x \in Seq(Requests)
      /\ wire' = [wire EXCEPT ![c] = wire[c] \o x] /\ UNCHANGED <<scene, call>>
      /\ wire[c] \in Seq(Requests) /\ Outstanding(wire[c], wish[c], pend)
  BY DEF Send, DInv, DeliveryInv, TInv, EInv, ConnTypes, Objects
<1>2. PICK g : g = [wish[c][l] EXCEPT ![RenderOrder] = v]
  OBVIOUS
<1>3. /\ g = [f \in WishFields |-> g[f]] /\ g[RenderOrder] = v
      /\ \A f \in Fields : g[f] = wish[c][l][f]
      /\ wish' = [wish EXCEPT ![c][l] = g]
  BY <1>1, <1>2, WishDomains, AskedFields
<1>4. /\ wish' = [d \in Clients |-> [p \in Objects |-> wish'[d][p]]]
      /\ \A d \in Clients \ {c} : wish'[d] = wish[d]
      /\ wish'[c][l] = g /\ \A p \in Objects \ {l} : wish'[c][p] = wish[c][p]
  <2>1. wish = [d \in Clients |-> [p \in Objects |-> wish[d][p]]]
    BY <1>1 DEF WishShape
  <2> QED BY ONLY <1>1, <1>3, <2>1
<1>5. ASSUME NEW d \in Clients, NEW p \in Objects
      PROVE  wish'[d][p] = [f \in WishFields |-> wish'[d][p][f]]
  <2>1. CASE d = c /\ p = l
    BY <1>3, <1>4, <2>1
  <2>2. CASE ~(d = c /\ p = l)
    <3>1. wish'[d][p] = wish[d][p]
      BY <1>4, <2>2
    <3>2. wish[d][p] = [f \in WishFields |-> wish[d][p][f]]
      BY <1>1, WishDomains
    <3> QED BY <3>1, <3>2
  <2> QED BY <2>1, <2>2
<1>6. wish' = [d \in Clients |-> [p \in Objects |-> [f \in WishFields |-> wish'[d][p][f]]]]
  BY ONLY <1>4, <1>5
<1>7. ASSUME NEW p \in Objects, NEW f \in Fields
      PROVE  wish'[c][p][f] = wish[c][p][f] /\ \A i \in 1 .. Len(x) : ~Sets(x[i], p, f)
  <2>1. \A i \in 1 .. Len(x) : ~Sets(x[i], p, f)
    BY DEF Sets
  <2> QED BY <1>3, <1>4, <2>1
<1>8. ASSUME NEW p \in Objects
      PROVE  \/ wish'[c][p][RenderOrder] = Nothing
             \/ /\ wish'[c][p][RenderOrder] = wish[c][p][RenderOrder]
                /\ \A i \in 1 .. Len(x) : ~Stacks(x[i], p)
             \/ /\ wish'[c][p][RenderOrder] \in Orders
                /\ OrderOnItsWay(wire[c] \o x, p, wish'[c][p][RenderOrder], pend[p].order)
  <2>1. CASE p = l
    BY <1>3, <1>4, <2>1
  <2>2. CASE p # l
    <3>1. \A i \in 1 .. Len(x) : ~Stacks(x[i], p)
      BY <2>2 DEF Stacks
    <3> QED BY <1>4, <2>2, <3>1
  <2> QED BY <2>1, <2>2
<1>9. Outstanding(wire[c] \o x, wish'[c], pend)
  <2>1. PICK w, W, W2, P : w = wire[c] /\ W = wish[c] /\ W2 = wish'[c] /\ P = pend
    OBVIOUS
  <2>2. Outstanding(w \o x, W2, P)
    BY ONLY <1>1, <1>7, <1>8, <2>1, SentOutstanding
  <2> QED BY <2>1, <2>2
<1>10. Sent(c, x)
  BY <1>1, <1>4, <1>6, <1>9 DEF Sent, WishShape
<1>11. settled'[c] = FALSE /\ call'[c] # "commit"
  BY <1>1 DEF WishShape
<1> QED BY <1>10, <1>11, NothingPromised, DeliverySent

LEMMA DeliveryRenderOrder ==
    ASSUME DInv, NEW c \in Clients, ilm_layerSetRenderOrder(c)
    PROVE  DeliveryInv'
<1>1. PICK l \in Layers, q \in Orders :
        /\ Send(c, <<[op |-> "clear", obj |-> l]>> \o
                   [i \in DOMAIN q |-> [op |-> "add", obj |-> l, surf |-> q[i]]])
        /\ wish' = [wish EXCEPT ![c][l][RenderOrder] = q]
        /\ settled' = [settled EXCEPT ![c] = FALSE] /\ UNCHANGED call
  BY DEF ilm_layerSetRenderOrder
<1>2. PICK a : a = [i \in DOMAIN q |-> [op |-> "add", obj |-> l, surf |-> q[i]]]
  OBVIOUS
<1>3. PICK r : r = [op |-> "clear", obj |-> l]
  OBVIOUS
<1>4. q \in Seq(Surfaces) /\ Len(q) \in Nat /\ DOMAIN q = 1 .. Len(q)
      /\ \A i \in 1 .. Len(q) : q[i] \in Surfaces
  <2>1. q \in Seq(Surfaces)
    BY SceneAssumption
  <2> QED BY <2>1
<1>5. r \in Requests /\ <<r>> \in Seq(Requests) /\ Len(<<r>>) = 1 /\ <<r>>[1] = r
  BY <1>3 DEF Requests
<1>6. \A i \in 1 .. Len(q) : a[i] \in Requests /\ IsAdd(a[i], l, q[i])
  BY <1>2, <1>4 DEF Requests, IsAdd
<1>7. a \in Seq(Requests) /\ Len(a) = Len(q)
  <2>1. a \in [1 .. Len(q) -> Requests]
    BY <1>2, <1>4, <1>6
  <2> QED BY <1>4, <2>1
<1>8. PICK x : x = <<r>> \o a
  OBVIOUS
<1>9. /\ x \in Seq(Requests) /\ Len(x) = Len(q) + 1 /\ x[1] = r
      /\ \A i \in 1 .. Len(q) : x[i + 1] = a[i]
      /\ \A i \in 1 .. Len(x) : x[i] = r \/ (i - 1 \in 1 .. Len(a) /\ x[i] = a[i - 1])
  <2>1. /\ x \in Seq(Requests) /\ Len(x) = 1 + Len(a)
        /\ \A i \in 1 .. 1 : x[i] = <<r>>[i]
        /\ \A i \in 1 .. Len(a) : x[1 + i] = a[i]
        /\ \A i \in 1 .. Len(x) : i \in 1 .. 1 \/ (i - 1 \in 1 .. Len(a) /\ x[i] = a[i - 1])
    BY <1>5, <1>7, <1>8, SentAfter
  <2>2. x[1] = r
    BY <1>5, <2>1
  <2>3. \A i \in 1 .. Len(q) : x[i + 1] = a[i]
    <3> SUFFICES ASSUME NEW i \in 1 .. Len(q) PROVE x[i + 1] = a[i]
      OBVIOUS
    <3>1. 1 + i = i + 1 /\ i \in 1 .. Len(a)
      BY <1>4, <1>7
    <3> QED BY <2>1, <3>1
  <2> QED BY <1>4, <1>7, <2>1, <2>2, <2>3
<1>10. \A i \in 1 .. Len(x) : x[i].op \in {"clear", "add", "remove"} /\ x[i].obj = l
  <2>1. r.op = "clear" /\ r.obj = l
    BY <1>3
  <2>2. \A i \in 1 .. Len(a) : a[i].op = "add" /\ a[i].obj = l
    BY <1>6, <1>7 DEF IsAdd
  <2> QED BY <1>9, <2>1, <2>2
<1>11. IsClear(x[1], l) /\ \A i \in 1 .. Len(q) : IsAdd(x[i + 1], l, q[i])
  BY <1>3, <1>6, <1>9 DEF IsClear
<1>12. OrderOnItsWay(wire[c] \o x, l, q, pend[l].order)
  <2>1. wire[c] \in Seq(Requests)
    BY DEF DInv, TInv, EInv, ConnTypes
  <2> QED BY <1>4, <1>9, <1>11, <2>1, OrderSentWhole
<1>13. Send(c, x)
  BY <1>1, <1>2, <1>3, <1>8
<1> QED BY <1>1, <1>9, <1>10, <1>12, <1>13, DeliveryOrder

LEMMA DeliveryAddRemove ==
    ASSUME DInv, NEW c \in Clients, ilm_layerAddRemoveSurface(c)
    PROVE  DeliveryInv'
<1>1. PICK l \in Layers, s \in Surfaces, op \in {"add", "remove"} :
        /\ Send(c, <<[op |-> op, obj |-> l, surf |-> s]>>)
        /\ wish' = [wish EXCEPT ![c][l][RenderOrder] = Nothing]
        /\ settled' = [settled EXCEPT ![c] = FALSE] /\ UNCHANGED call
  BY DEF ilm_layerAddRemoveSurface
<1>2. PICK r : r = [op |-> op, obj |-> l, surf |-> s]
  OBVIOUS
<1>3. r \in Requests /\ r.op \in {"clear", "add", "remove"} /\ r.obj = l
  BY <1>2 DEF Requests
<1>4. <<r>> \in Seq(Requests) /\ \A i \in 1 .. Len(<<r>>) : <<r>>[i] = r
  BY <1>3
<1> QED BY <1>1, <1>2, <1>3, <1>4, DeliveryOrder

\* A call that changes no wish: a request, or one and a sync.
LEMMA DeliveryKept ==
    ASSUME DInv, NEW c \in Clients, NEW x \in Seq(Requests), Send(c, x), UNCHANGED wish,
           settled' = [d \in Clients |-> settled'[d]],
           \A d \in Clients \ {c} : settled'[d] = settled[d] /\ call'[d] = call[d],
           \A i \in 1 .. Len(x) : x[i].op \in {"type", "get", "commit", "sync"},
           Delivers(settled'[c], call'[c], wire[c] \o x, wish[c], cur)
    PROVE  DeliveryInv'
<1>1. /\ WishShape /\ wire' = [wire EXCEPT ![c] = wire[c] \o x] /\ UNCHANGED scene
      /\ wire[c] \in Seq(Requests) /\ Outstanding(wire[c], wish[c], pend) /\ x \in Seq(Requests)
  BY DEF Send, DInv, DeliveryInv, TInv, EInv, ConnTypes
<1>2. /\ \A i \in 1 .. Len(x), o \in Objects, f \in Fields : ~Sets(x[i], o, f)
      /\ \A i \in 1 .. Len(x), o \in Objects : ~Stacks(x[i], o)
  BY DEF Sets, Stacks
<1>3. Outstanding(wire[c] \o x, wish[c], pend)
  <2>1. PICK w, W, P : w = wire[c] /\ W = wish[c] /\ P = pend
    OBVIOUS
  <2>2. Outstanding(w \o x, W, P)
    BY ONLY <1>1, <1>2, <2>1, SentOutstanding
  <2> QED BY <2>1, <2>2
<1>4. wish' = [d \in Clients |-> [o \in Objects |-> [f \in WishFields |-> wish'[d][o][f]]]]
  BY <1>1 DEF WishShape
<1>5. Sent(c, x)
  BY <1>1, <1>3, <1>4 DEF Sent
<1> QED BY <1>5, DeliverySent

LEMMA DeliveryType ==
    ASSUME DInv, NEW c \in Clients, ilm_surfaceSetType(c)
    PROVE  DeliveryInv'
<1>1. PICK s \in Surfaces, t \in {"restricted", "desktop"} :
        Send(c, <<[op |-> "type", obj |-> s, type |-> t]>>) /\ UNCHANGED <<wish, settled, call>>
  BY DEF ilm_surfaceSetType
<1>2. PICK r : r = [op |-> "type", obj |-> s, type |-> t]
  OBVIOUS
<1>3. PICK x : x = <<r>>
  OBVIOUS
<1>4. r \in Requests /\ r.op = "type"
  BY <1>2 DEF Requests
<1>5. x \in Seq(Requests) /\ \A i \in 1 .. Len(x) : x[i].op = "type"
  BY <1>3, <1>4
<1>6. /\ Delivers(settled[c], call[c], wire[c], wish[c], cur) /\ call[c] = "none"
      /\ wire[c] \in Seq(Requests) /\ WishShape
  BY <1>1 DEF Send, DInv, DeliveryInv, TInv, EInv, ConnTypes
<1>7. Delivers(settled[c], call[c], wire[c] \o x, wish[c], cur)
  <2> SUFFICES ASSUME settled[c]
               PROVE  Plain(wire[c] \o x) /\ Shows(wish[c], cur)
    BY <1>6 DEF Delivers, Committed
  <2>1. Plain(wire[c]) /\ Shows(wish[c], cur)
    BY <1>6 DEF Delivers, Committed
  <2>2. Plain(wire[c] \o x)
    BY <1>5, <1>6, <2>1, SentAfter DEF Plain
  <2> QED BY <2>1, <2>2
<1>8. UNCHANGED <<settled, call>> /\ settled = [d \in Clients |-> settled[d]]
  BY <1>1, <1>6 DEF WishShape
<1> QED BY <1>1, <1>2, <1>3, <1>5, <1>7, <1>8, DeliveryKept

\* The commit is sent, and its sync behind it.
LEMMA CommitSent ==
    ASSUME NEW w \in Seq(Requests), NEW x \in Seq(Requests), Len(x) = 2, x[1].op = "commit"
    PROVE  CommitAhead(w \o x)
<1>1. /\ Len(w \o x) = Len(w) + 2 /\ Len(w) \in Nat
      /\ (w \o x)[Len(w) + 1] = x[1]
  <2>1. Len(w \o x) = Len(w) + Len(x) /\ \A i \in 1 .. Len(x) : (w \o x)[Len(w) + i] = x[i]
    BY SentAfter
  <2>2. 1 \in 1 .. Len(x) /\ Len(w) \in Nat
    OBVIOUS
  <2> QED BY <2>1, <2>2
<1>2. Len(w \o x) > 1 /\ Len(w \o x) - 1 = Len(w) + 1
  BY <1>1
<1>3. (w \o x)[Len(w \o x) - 1] = x[1]
  BY <1>1, <1>2
<1> QED BY <1>2, <1>3 DEF CommitAhead

LEMMA DeliveryWaits ==
    ASSUME DInv, NEW c \in Clients, ilm_get(c) \/ ilm_commitChanges(c) \/ ilm_getError(c)
    PROVE  DeliveryInv'
<1>1. PICK name, q : /\ Roundtrip(c, name, q) /\ q \in Seq(Requests)
                     /\ \A i \in 1 .. Len(q) : q[i].op \in {"get", "commit"}
                     /\ name = "commit" => Len(q) = 1 /\ q[1].op = "commit"
                     /\ name # "none"
  <2>1. CASE ilm_get(c)
    <3>1. PICK o \in Objects, params \in Params :
            Roundtrip(c, "get", <<[op |-> "get", obj |-> o, params |-> params]>>)
      BY <2>1 DEF ilm_get
    <3>2. PICK r : r = [op |-> "get", obj |-> o, params |-> params]
      OBVIOUS
    <3>3. r \in Requests /\ r.op = "get"
      BY <3>2 DEF Requests
    <3>4. <<r>> \in Seq(Requests) /\ \A i \in 1 .. Len(<<r>>) : <<r>>[i].op \in {"get", "commit"}
      BY <3>3
    <3> QED BY <3>1, <3>2, <3>4
  <2>2. CASE ilm_commitChanges(c)
    <3>1. PICK r : r = [op |-> "commit"]
      OBVIOUS
    <3>2. r \in Requests /\ r.op = "commit"
      BY <3>1 DEF Requests
    <3>3. /\ <<r>> \in Seq(Requests) /\ \A i \in 1 .. Len(<<r>>) : <<r>>[i].op \in {"get", "commit"}
          /\ Len(<<r>>) = 1 /\ <<r>>[1].op = "commit"
      BY <3>2
    <3> QED BY <2>2, <3>1, <3>3 DEF ilm_commitChanges
  <2>3. CASE ilm_getError(c)
    <3>1. <<>> \in Seq(Requests) /\ \A i \in 1 .. Len(<<>>) : <<>>[i].op \in {"get", "commit"}
      OBVIOUS
    <3> QED BY <2>3, <3>1 DEF ilm_getError
  <2> QED BY <2>1, <2>2, <2>3
<1>2. PICK z : z = [op |-> "sync"]
  OBVIOUS
<1>3. PICK x : x = q \o <<z>>
  OBVIOUS
<1>4. z \in Requests /\ <<z>> \in Seq(Requests) /\ Len(<<z>>) = 1 /\ <<z>>[1] = z
  BY <1>2 DEF Requests
<1>5. /\ x \in Seq(Requests) /\ Len(x) = Len(q) + 1
      /\ \A i \in 1 .. Len(q) : x[i] = q[i]
      /\ \A i \in 1 .. Len(x) : x[i].op \in {"type", "get", "commit", "sync"}
  <2>1. /\ x \in Seq(Requests) /\ Len(x) = Len(q) + 1
        /\ \A i \in 1 .. Len(q) : x[i] = q[i]
        /\ \A i \in 1 .. Len(x) :
              i \in 1 .. Len(q) \/ (i - Len(q) \in 1 .. Len(<<z>>) /\ x[i] = <<z>>[i - Len(q)])
    BY <1>1, <1>3, <1>4, SentAfter
  <2>2. \A k \in 1 .. Len(<<z>>) : <<z>>[k].op = "sync"
    BY <1>2, <1>4
  <2> QED BY <1>1, <2>1, <2>2
<1>6. /\ Send(c, x) /\ UNCHANGED wish /\ WishShape /\ wire[c] \in Seq(Requests)
      /\ call' = [call EXCEPT ![c] = name] /\ settled' = [settled EXCEPT ![c] = FALSE]
      /\ call = [d \in Clients |-> call[d]]
  BY <1>1, <1>2, <1>3 DEF Roundtrip, DInv, DeliveryInv, TInv, EInv, ConnTypes
<1>7. /\ settled' = [d \in Clients |-> settled'[d]]
      /\ \A d \in Clients \ {c} : settled'[d] = settled[d] /\ call'[d] = call[d]
      /\ settled'[c] = FALSE /\ call'[c] = name
  BY <1>6 DEF WishShape
<1>8. Delivers(FALSE, name, wire[c] \o x, wish[c], cur)
  <2>1. CASE name = "commit"
    <3>1. Len(x) = 2 /\ x[1].op = "commit"
      <4>1. Len(q) = 1 /\ 1 \in 1 .. Len(q) /\ q[1].op = "commit"
        BY <1>1, <2>1
      <4> QED BY <1>5, <4>1
    <3>2. CommitAhead(wire[c] \o x)
      BY <1>5, <1>6, <3>1, CommitSent
    <3> QED BY <3>2 DEF Delivers, Committed
  <2>2. CASE name # "commit"
    BY <2>2, NothingPromised
  <2> QED BY <2>1, <2>2
<1> QED BY <1>5, <1>6, <1>7, <1>8, DeliveryKept

LEMMA DeliveryCalled ==
    ASSUME DInv, NEW c \in Clients, CallLibrary(c)
    PROVE  DeliveryInv'
<1>1. CASE \/ ilm_surfaceSetScalar(c) \/ ilm_surfaceSetSourceRectangle(c)
           \/ ilm_surfaceSetDestinationRectangle(c) \/ ilm_layerSetVisibility(c)
           \/ ilm_layerSetOpacity(c) \/ ilm_layerSetRectangle(c)
  BY <1>1, DeliverySetter
     DEF ilm_surfaceSetScalar, ilm_surfaceSetSourceRectangle,
         ilm_surfaceSetDestinationRectangle, ilm_layerSetVisibility, ilm_layerSetOpacity,
         ilm_layerSetRectangle
<1> QED BY <1>1, DeliveryRenderOrder, DeliveryAddRemove, DeliveryType, DeliveryWaits
        DEF CallLibrary

\* A commit returns when its sync is answered, behind the commit.
LEMMA DeliveryDispatched ==
    ASSUME DInv, NEW c \in Clients, Dispatch(c)
    PROVE  DeliveryInv'
<1>1. /\ UNCHANGED <<scene, wire, wish>> /\ WishShape /\ DeliveryInv
      /\ call = [d \in Clients |-> call[d]]
      /\ Await(wire[c], inbox[c], call[c] # "none")
  BY DEF Dispatch, DInv, DeliveryInv, TInv, EInv, ConnTypes
<1>2. CASE UNCHANGED <<call, settled>>
  BY <1>1, <1>2 DEF DeliveryInv, WishShape, scene
<1>3. CASE Head(inbox[c]) = "done" /\ Done(c)
  <2>1. /\ call' = [call EXCEPT ![c] = "none"] /\ settled' = [settled EXCEPT ![c] = call[c] = "commit"]
    BY <1>3 DEF Done
  <2>2. /\ call'[c] = "none" /\ settled'[c] = (call[c] = "commit")
        /\ settled' = [d \in Clients |-> settled'[d]]
        /\ \A d \in Clients \ {c} : call'[d] = call[d] /\ settled'[d] = settled[d]
    BY <1>1, <2>1 DEF WishShape
  <2>3. Delivers(settled'[c], call'[c], wire[c], wish[c], cur)
    <3> SUFFICES ASSUME call[c] = "commit" PROVE Plain(wire[c]) /\ Shows(wish[c], cur)
      BY <2>2 DEF Delivers, Committed
    <3>1. wire[c] = <<>>
      <4>1. inbox[c] \in Seq(Answers) /\ inbox[c] # <<>>
        BY DEF Dispatch, DInv, TInv, EInv, ConnTypes
      <4>2. ~NoDone(inbox[c])
        BY <1>3, <4>1, InboxTail
      <4> QED BY <1>1, <4>2 DEF Await
    <3>2. ~CommitAhead(wire[c])
      BY <3>1 DEF CommitAhead
    <3> QED BY <1>1, <3>2 DEF DeliveryInv, Delivers, Committed
  <2>4. ASSUME NEW d \in Clients
        PROVE  /\ Outstanding(wire'[d], wish'[d], pend')
               /\ Delivers(settled'[d], call'[d], wire'[d], wish'[d], cur')
    <3>1. CASE d = c
      BY <1>1, <2>3, <3>1 DEF DeliveryInv, scene
    <3>2. CASE d # c
      BY <1>1, <2>2, <3>2 DEF DeliveryInv, scene
    <3> QED BY <3>1, <3>2
  <2>5. WishShape'
    BY <1>1, <2>2 DEF WishShape
  <2> QED BY <2>4, <2>5 DEF DeliveryInv
<1>4. wm_listener_error(c) => UNCHANGED <<call, settled>>
  BY DEF wm_listener_error
<1>5. Done(c) => Head(inbox[c]) = "done"
  BY DEF Done
<1> QED BY <1>2, <1>3, <1>4, <1>5 DEF Dispatch

\* Nothing is sent or handled; something of what was asked for is forgotten.
LEMMA DeliveryLess ==
    ASSUME DInv, UNCHANGED <<wire, call, settled>>,
           wish' = [c \in Clients |-> [o \in Objects |-> [f \in WishFields |-> wish'[c][o][f]]]],
           \A c \in Clients : Less(wish'[c], wish[c], pend', pend),
           cur' = pend' \/ \A c \in Clients : Less(wish'[c], wish[c], cur', cur)
    PROVE  DeliveryInv'
<1>1. ASSUME NEW c \in Clients
      PROVE  /\ Outstanding(wire'[c], wish'[c], pend')
             /\ Delivers(settled'[c], call'[c], wire'[c], wish'[c], cur')
  <2>1. PICK w, W, W2, P, P2, C, C2 : /\ w = wire[c] /\ W = wish[c] /\ W2 = wish'[c]
                                      /\ P = pend /\ P2 = pend' /\ C = cur /\ C2 = cur'
    OBVIOUS
  <2>2. /\ w \in Seq(Requests) /\ Outstanding(w, W, P) /\ Delivers(settled[c], call[c], w, W, C)
        /\ Less(W2, W, P2, P) /\ (C2 = P2 \/ Less(W2, W, C2, C))
    BY <2>1 DEF DInv, DeliveryInv, TInv, EInv, ConnTypes
  <2>3. Outstanding(w, W2, P2)
    BY <2>2, LessOutstanding
  <2>4. Delivers(settled[c], call[c], w, W2, C2)
    BY <2>2, <2>3, OtherDelivers
  <2> QED BY <2>1, <2>3, <2>4
<1>2. WishShape'
  BY DEF DInv, DeliveryInv, WishShape
<1> QED BY <1>1, <1>2 DEF DeliveryInv

LEMMA DeliveryCreate ==
    ASSUME DInv, NEW o \in Objects, create_object(o)
    PROVE  DeliveryInv'
<1>1. /\ wish' = [c \in Clients |-> [wish[c] EXCEPT ![o] = NothingAsked]]
      /\ UNCHANGED <<cur, pend, wire, call, settled>> /\ WishShape
  BY DEF create_object, S!Come, Renewed, conn, DInv, DeliveryInv
<1>2. ASSUME NEW c \in Clients
      PROVE  /\ wish'[c] = [p \in Objects |-> wish'[c][p]]
             /\ wish'[c][o] = NothingAsked /\ \A p \in Objects \ {o} : wish'[c][p] = wish[c][p]
  <2>1. wish'[c] = [wish[c] EXCEPT ![o] = NothingAsked]
    BY <1>1
  <2>2. PICK W : W = wish[c]
    OBVIOUS
  <2>3. W = [p \in Objects |-> W[p]]
    BY <1>1, <2>2, WishDomains
  <2> QED BY <2>1, <2>2, <2>3
<1>3. ASSUME NEW c \in Clients, NEW p \in Objects
      PROVE  /\ wish'[c][p] = [f \in WishFields |-> wish'[c][p][f]]
             /\ \A f \in WishFields : wish'[c][p][f] \in {Nothing, wish[c][p][f]}
  <2>1. CASE p = o
    BY <1>2, <2>1, AskedFields
  <2>2. CASE p # o
    <3>1. wish'[c][p] = wish[c][p]
      BY <1>2, <2>2
    <3>2. wish[c][p] = [f \in WishFields |-> wish[c][p][f]]
      BY <1>1, WishDomains
    <3> QED BY <3>1, <3>2
  <2> QED BY <2>1, <2>2
<1>4. wish' = [c \in Clients |-> [p \in Objects |-> [f \in WishFields |-> wish'[c][p][f]]]]
  <2>1. wish' = [c \in Clients |-> wish'[c]]
    BY <1>1
  <2>2. \A c \in Clients : wish'[c] = [p \in Objects |-> [f \in WishFields |-> wish'[c][p][f]]]
    BY <1>2, <1>3
  <2> QED BY ONLY <2>1, <2>2
<1>5. \A c \in Clients : /\ Less(wish'[c], wish[c], pend', pend)
                         /\ Less(wish'[c], wish[c], cur', cur)
  BY <1>1, <1>3, AskedFields DEF Less
<1> QED BY <1>1, <1>4, <1>5, DeliveryLess

LEMMA DeliveryRemove ==
    ASSUME DInv, NEW o \in Objects, remove_object(o)
    PROVE  DeliveryInv'
<1>1. /\ wish' = [c \in Clients |-> [p \in Objects |->
                  IF p = o THEN NothingAsked ELSE [wish[c][p] EXCEPT ![RenderOrder] = Nothing]]]
      /\ UNCHANGED <<wire, call, settled>> /\ WishShape
      /\ cur' = S!Dropped(cur, o) /\ pend' = S!Dropped(pend, o)
  BY DEF remove_object, S!Go, Renewed, conn, DInv, DeliveryInv
<1>2. ASSUME NEW c \in Clients, NEW p \in Objects
      PROVE  /\ wish'[c][p] = [f \in WishFields |-> wish'[c][p][f]]
             /\ wish'[c][p][RenderOrder] = Nothing
             /\ \A f \in Fields : /\ p = o => wish'[c][p][f] = Nothing
                                  /\ p # o => wish'[c][p][f] = wish[c][p][f]
  <2>1. CASE p = o
    <3>1. wish'[c][p] = NothingAsked
      BY <1>1, <2>1
    <3> QED BY <2>1, <3>1, AskedFields
  <2>2. CASE p # o
    <3>1. PICK g : g = wish[c][p]
      OBVIOUS
    <3>2. g = [f \in WishFields |-> g[f]]
      BY <1>1, <3>1, WishDomains
    <3>3. wish'[c][p] = [g EXCEPT ![RenderOrder] = Nothing]
      BY <1>1, <2>2, <3>1
    <3> QED BY <2>2, <3>1, <3>2, <3>3, AskedFields
  <2> QED BY <2>1, <2>2
<1>3. wish' = [c \in Clients |-> [p \in Objects |-> [f \in WishFields |-> wish'[c][p][f]]]]
  <2>1. wish' = [c \in Clients |-> [p \in Objects |-> wish'[c][p]]]
    BY <1>1
  <2> QED BY ONLY <1>2, <2>1
<1>4. \A p \in Objects \ {o} : pend'[p].prop = pend[p].prop /\ cur'[p].prop = cur[p].prop
  BY <1>1 DEF S!Dropped
<1>5. \A c \in Clients : /\ Less(wish'[c], wish[c], pend', pend)
                         /\ Less(wish'[c], wish[c], cur', cur)
  <2> SUFFICES ASSUME NEW c \in Clients, NEW p \in Objects
      PROVE /\ \A f \in Fields : \/ wish'[c][p][f] = Nothing
                                 \/ /\ wish'[c][p][f] = wish[c][p][f]
                                    /\ pend'[p].prop[f] = pend[p].prop[f]
                                    /\ cur'[p].prop[f] = cur[p].prop[f]
            /\ wish'[c][p][RenderOrder] = Nothing
    BY DEF Less
  <2>1. CASE p = o
    BY <1>2, <2>1
  <2>2. CASE p # o
    BY <1>2, <1>4, <2>2
  <2> QED BY <2>1, <2>2
<1> QED BY <1>1, <1>3, <1>5, DeliveryLess

LEMMA DeliveryConfigure ==
    ASSUME DInv, NEW s \in Surfaces, NEW n \in Values, surface_event_configure(s, n)
    PROVE  DeliveryInv'
<1>1. UNCHANGED <<wire, call, settled>> /\ WishShape /\ DeliveryInv /\ s \in Objects
      /\ pend \in [Objects -> Looks]
  BY DEF surface_event_configure, conn, DInv, DeliveryInv, TInv, SceneTypes, Objects
<1>2. CASE type[s] = "desktop"
  <2>1. /\ pend' = [pend EXCEPT ![s] = DesktopLook(s, n)] /\ cur' = pend'
        /\ Overwrite(s, Source \cup Destination, {})
    BY <1>2 DEF surface_event_configure
  <2>2. PICK F : F = Source \cup Destination
    OBVIOUS
  <2>3. /\ wish' = [c \in Clients |-> [p \in Objects |-> [f \in WishFields |-> wish'[c][p][f]]]]
        /\ \A c \in Clients, p \in Objects, f \in WishFields :
              wish'[c][p][f] = IF p = s /\ f \in F THEN Nothing ELSE wish[c][p][f]
    BY <1>1, <2>1, <2>2, Overwritten
  <2>4. pend[s].prop \in [Fields -> Values]
    BY <1>1, LookTypes
  <2>5. \A f \in Fields \ F : DesktopLook(s, n).prop[f] = pend[s].prop[f]
    <3>1. PICK q : q = pend[s].prop
      OBVIOUS
    <3>2. {<<"destination", "pos">>, <<"destination", "size">>,
           <<"source", "pos">>, <<"source", "size">>} \subseteq F
      BY <2>2 DEF Source, Destination
    <3>3. PICK a : a = cur[s].prop[<<"destination", "pos">>]
      OBVIOUS
    <3>4. DesktopLook(s, n).prop = [q EXCEPT ![<<"destination", "pos">>] = a,
                                             ![<<"destination", "size">>] = n,
                                             ![<<"source", "pos">>] = 0,
                                             ![<<"source", "size">>] = n]
      BY <3>1, <3>3 DEF DesktopLook, Look
    <3>5. q \in [Fields -> Values]
      BY <2>4, <3>1
    <3> QED BY <3>1, <3>2, <3>4, <3>5
  <2>6. \A p \in Objects : /\ p # s => pend'[p] = pend[p]
                           /\ pend'[p].order = pend[p].order
                           /\ \A f \in Fields \ F : pend'[s].prop[f] = pend[s].prop[f]
    BY <1>1, <2>1, <2>5 DEF DesktopLook, Look
  <2>7. \A c \in Clients : Less(wish'[c], wish[c], pend', pend)
    <3> SUFFICES ASSUME NEW c \in Clients, NEW p \in Objects
        PROVE /\ \A f \in Fields : \/ wish'[c][p][f] = Nothing
                                   \/ /\ wish'[c][p][f] = wish[c][p][f]
                                      /\ pend'[p].prop[f] = pend[p].prop[f]
              /\ wish'[c][p][RenderOrder] = wish[c][p][RenderOrder]
              /\ pend'[p].order = pend[p].order
      BY DEF Less
    <3>1. RenderOrder \notin F
      BY <2>2, AskedFields DEF Fields
    <3> QED BY <2>3, <2>6, <3>1, AskedFields
  <2> QED BY <1>1, <2>1, <2>3, <2>7, DeliveryLess
<1>3. CASE type[s] # "desktop"
  BY <1>1, <1>3 DEF surface_event_configure, DeliveryInv, WishShape
<1> QED BY <1>2, <1>3

LEMMA DeliveryInit == Init => DInv
<1> SUFFICES ASSUME Init PROVE DInv
  OBVIOUS
<1>1. TInv
  BY TypeInit
<1>2. /\ wish = [c \in Clients |-> [o \in Objects |-> NothingAsked]]
      /\ \A c \in Clients : settled[c] = FALSE /\ call[c] = "none"
      /\ settled = [c \in Clients |-> settled[c]]
  BY DEF Init
<1>3. WishShape
  <2>1. \A c \in Clients, o \in Objects : wish[c][o] = [f \in WishFields |-> wish[c][o][f]]
    BY <1>2, AskedFields
  <2>2. wish = [c \in Clients |-> [o \in Objects |-> wish[c][o]]]
    BY <1>2
  <2>3. wish = [c \in Clients |-> [o \in Objects |-> [f \in WishFields |-> wish[c][o][f]]]]
    BY ONLY <2>1, <2>2
  <2> QED BY <1>2, <2>3 DEF WishShape
<1>4. \A c \in Clients : Outstanding(wire[c], wish[c], pend)
  BY <1>2, AskedFields DEF Outstanding
<1>5. \A c \in Clients : Delivers(settled[c], call[c], wire[c], wish[c], cur)
  BY <1>2, NothingPromised
<1> QED BY <1>1, <1>3, <1>4, <1>5 DEF DInv, DeliveryInv

LEMMA DeliveryStep ==
    ASSUME DistinctOrders, DInv, [Next]_vars
    PROVE  DInv'
<1>1. TInv'
  BY TypeStep DEF DInv
<1>2. ASSUME NEW c \in Clients, CallLibrary(c) PROVE DeliveryInv'
  BY <1>2, DeliveryCalled
<1>3. ASSUME NEW c \in Clients, HandleRequest(c) PROVE DeliveryInv'
  BY <1>3, DeliveryHandled
<1>4. ASSUME NEW c \in Clients, Dispatch(c) PROVE DeliveryInv'
  BY <1>4, DeliveryDispatched
<1>5. ASSUME NEW o \in Objects, create_object(o) \/ remove_object(o) PROVE DeliveryInv'
  BY <1>5, DeliveryCreate, DeliveryRemove
<1>6. ASSUME NEW s \in Surfaces, NEW n \in Values, surface_event_configure(s, n)
      PROVE  DeliveryInv'
  BY <1>6, DeliveryConfigure
<1>7. ASSUME Finished \/ UNCHANGED vars PROVE DeliveryInv'
  <2>1. UNCHANGED <<scene, conn, hist>>
    BY <1>7 DEF Finished, vars
  <2> QED BY <2>1 DEF DInv, DeliveryInv, WishShape, scene, conn, hist
<1>8. DeliveryInv'
  BY ONLY <1>2, <1>3, <1>4, <1>5, <1>6, <1>7, [Next]_vars DEF Next
<1> QED BY <1>1, <1>8 DEF DInv

\* When ilm_commitChanges has returned, what the client asked for before is on
\* display: its requests are handled in their order, the commit behind them
\* shows what they left pending, and only then its sync is answered.
THEOREM CommitAlwaysDelivers ==
    ASSUME DistinctOrders
    PROVE  Spec => []CommitDelivers
<1>1. ASSUME DInv PROVE CommitDelivers
  BY <1>1 DEF DInv, DeliveryInv, Delivers, Committed, Shows, CommitDelivers
<1>2. DInv /\ [Next]_vars => DInv'
  BY DeliveryStep
<1> QED BY <1>1, <1>2, DeliveryInit, PTL DEF Spec
=============================================================================
