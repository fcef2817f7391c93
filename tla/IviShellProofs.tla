--------------------------- MODULE IviShellProofs ---------------------------
(***************************************************************************)
(* Theorems about IviShell for any sets of surfaces, layers, controllers,  *)
(* notifications and ids.                                                  *)
(***************************************************************************)
EXTENDS IviShell, TLAPS

USE DEF Objects

-----------------------------------------------------------------------------
(* The variables have their types.                                         *)

LEMMA UnlinkType ==
    ASSUME TypeOK, NEW N, N \subseteq Notifs, Unlink(N)
    PROVE  /\ surface_notifications' \in [Controllers -> SUBSET Notifs]
           /\ layer_notifications' \in [Controllers -> SUBSET Notifs]
           /\ notification_list' \in [Objects -> SUBSET Notifs]
           /\ resource' \in [Notifs -> Controllers \cup {Absent}]
BY DEF TypeOK, Unlink

LEMMA SyncRemoveType ==
    ASSUME TypeOK, NEW c \in Controllers, NEW o \in Objects, SyncRemove(c, o)
    PROVE  /\ surface_notifications' \in [Controllers -> SUBSET Notifs]
           /\ layer_notifications' \in [Controllers -> SUBSET Notifs]
           /\ notification_list' \in [Objects -> SUBSET Notifs]
           /\ resource' \in [Notifs -> Controllers \cup {Absent}]
<1>1. CASE UNCHANGED notis
  BY <1>1 DEF TypeOK, notis
<1>2. CASE \E n \in notification_list[o] : Unlink({n})
  <2> PICK n \in notification_list[o] : Unlink({n})
    BY <1>2
  <2>1. {n} \subseteq Notifs
    BY DEF TypeOK
  <2> QED BY <2>1, UnlinkType
<1> QED BY <1>1, <1>2 DEF SyncRemove

LEMMA TypeInit == Init => TypeOK
BY DEF Init, TypeOK

LEMMA SentType ==
    ASSUME TypeOK, NEW P \in SUBSET Objects, PropsSent(P)
    PROVE  stale' \in [Controllers -> SUBSET Objects]
BY DEF TypeOK, PropsSent

LEMMA CrashType == ASSUME TypeOK, NEW s \in Surfaces, CrashFor(s) PROVE TypeOK'
BY DEF TypeOK, CrashFor, shell, config, notis, told

LEMMA TypeSurfaceStep ==
    ASSUME TypeOK, NEW s \in Surfaces, SurfaceStep(s)
    PROVE  TypeOK'
<1>1. CASE surface_event_create(s)
  <2> PICK id \in Ids \cup {NoId} :
        surface_id' = [surface_id EXCEPT ![s] = id] /\ create_surface(s, id)
    BY <1>1 DEF surface_event_create
  <2>1. surface_id' \in [Surfaces -> Ids \cup {NoId, Absent}]
    BY DEF TypeOK
  <2>2. /\ ivisurfs' \subseteq Surfaces /\ list_surface' \subseteq Surfaces
        /\ bkgnd_surface' \in Surfaces \cup {Absent} /\ shared' \in BOOLEAN
    BY DEF TypeOK, create_surface
  <2>3. /\ known_surfaces' \in [Controllers -> SUBSET (Ids \cup {NoId})]
        /\ stale' \in [Controllers -> SUBSET Objects]
    BY DEF TypeOK, create_surface, TellSurface, PropsSent
  <2> QED BY <1>1, <2>1, <2>2, <2>3 DEF TypeOK, surface_event_create, notis, config
<1>2. CASE surface_event_remove(s) /\ ~CrashFor(s)
  <2> USE <1>2 DEF surface_event_remove, config
  <2>1. /\ surface_id' \in [Surfaces -> Ids \cup {NoId, Absent}]
        /\ list_layer' = list_layer /\ list_controller' = list_controller
        /\ known_layers' = known_layers
    BY DEF TypeOK
  <2>2. /\ stale' \in [Controllers -> SUBSET Objects]
        /\ wants' \in [Controllers -> SUBSET Objects]
    BY DEF TypeOK, Forget
  <2>3. CASE s \in list_surface
    <3>1. remove_ivi_surface(s)
      BY <2>3
    <3>2. known_surfaces' \in [Controllers -> SUBSET (Ids \cup {NoId})]
      BY <3>1 DEF TypeOK, remove_ivi_surface, TellSurface
    <3>3. notification_list[s] \subseteq Notifs /\ Unlink(notification_list[s])
      BY <3>1 DEF TypeOK, remove_ivi_surface
    <3> QED BY <3>1, <3>2, <3>3, <2>1, <2>2, UnlinkType DEF TypeOK, remove_ivi_surface
  <2>4. CASE IsBackground(s)
    <3>1. remove_bkgnd_surface /\ bkgnd_surface # Absent
      BY <2>4 DEF IsBackground
    <3>2. notification_list[bkgnd_surface] \subseteq Notifs
      BY <3>1 DEF TypeOK
    <3>3. Unlink(notification_list[bkgnd_surface])
      BY <3>1 DEF remove_bkgnd_surface
    <3> QED BY <3>1, <3>2, <3>3, <2>1, <2>2, UnlinkType
              DEF TypeOK, remove_bkgnd_surface
  <2>5. CASE s \notin list_surface /\ ~IsBackground(s)
    BY <2>5, <2>1, <2>2 DEF TypeOK, notis
  <2> QED BY <2>3, <2>4, <2>5 DEF IsBackground
<1>3. CASE surface_event_configure(s) /\ surface_id[s] # bkgnd_surface_id
  <2>1. stale' \in [Controllers -> SUBSET Objects]
    <3>1. CASE UNCHANGED stale
      BY <3>1 DEF TypeOK
    <3>2. ASSUME NEW P \in SUBSET (list_surface \cup list_layer), PropsSent({s} \cup P)
          PROVE  stale' \in [Controllers -> SUBSET Objects]
      BY <3>2, SentType DEF TypeOK
    <3> QED BY <1>3, <3>1, <3>2 DEF surface_event_configure
  <2> QED BY <1>3, <2>1 DEF TypeOK, surface_event_configure, shell, config, notis
<1>4. CASE CrashFor(s)
  BY <1>4, CrashType
<1>5. CASE /\ surface_event_configure(s) /\ surface_id[s] = bkgnd_surface_id
           /\ ~CrashFor(s)
  BY <1>5 DEF TypeOK, surface_event_configure, BackgroundConfigured, vars, shell,
              config, notis, told
<1> QED BY <1>1, <1>2, <1>3, <1>4, <1>5 DEF SurfaceStep

LEMMA TypeControllerStep ==
    ASSUME TypeOK, SurfacesOwned, NEW c \in Controllers, ControllerStep(c)
    PROVE  TypeOK'
<1>1. CASE bind_ivi_controller(c)
  <2>1. {surface_id[s] : s \in list_surface} \subseteq Ids \cup {NoId}
    BY DEF TypeOK, SurfacesOwned, Live
  <2> QED BY <1>1, <2>1 DEF TypeOK, bind_ivi_controller, shell, config
<1>2. CASE unbind_resource_controller(c)
  <2>1. layer_notifications[c] \cup surface_notifications[c] \subseteq Notifs
    BY DEF TypeOK
  <2> QED BY <1>2, <2>1, UnlinkType DEF TypeOK, unbind_resource_controller, shell, config
<1>3. ASSUME NEW s \in Surfaces, NEW add \in BOOLEAN, controller_surface_sync(c, s, add)
      PROVE  TypeOK'
  <2>1. CASE s \notin list_surface
    BY <1>3, <2>1, CrashType DEF controller_surface_sync, OnIviSurface
  <2>2. CASE s \in list_surface /\ add
    BY <1>3, <2>2 DEF TypeOK, controller_surface_sync, OnIviSurface, SyncAddSurface,
                      shell, config
  <2>3. CASE s \in list_surface /\ ~add
    BY <1>3, <2>3, SyncRemoveType
       DEF TypeOK, controller_surface_sync, OnIviSurface, shell, config
  <2> QED BY <2>1, <2>2, <2>3
<1>4. ASSUME NEW s \in Surfaces,
             controller_surface_get(c, s) \/ controller_set_surface_type(c, s)
      PROVE  TypeOK'
  <2>1. CASE s \in list_surface
    BY <1>4, <2>1 DEF TypeOK, controller_surface_get, controller_set_surface_type,
                      OnIviSurface, shell, config, notis
  <2>2. CASE s \notin list_surface
    BY <1>4, <2>2, CrashType
       DEF controller_surface_get, controller_set_surface_type, OnIviSurface
  <2> QED BY <2>1, <2>2
<1>5. ASSUME NEW l \in Layers, NEW add \in BOOLEAN, controller_layer_sync(c, l, add)
      PROVE  TypeOK'
  <2>1. CASE add
    BY <1>5, <2>1 DEF TypeOK, controller_layer_sync, SyncAddLayer, shell, config, told
  <2>2. CASE ~add
    BY <1>5, <2>2, SyncRemoveType DEF TypeOK, controller_layer_sync, shell, config, told
  <2> QED BY <2>1, <2>2
<1>6. ASSUME NEW l \in Layers, controller_layer_get(c, l)
      PROVE  TypeOK'
  BY <1>6 DEF TypeOK, controller_layer_get, shell, config, notis
<1>7. ASSUME NEW l \in Layers, controller_create_layout_layer(c, l)
      PROVE  TypeOK'
  BY <1>7 DEF TypeOK, controller_create_layout_layer, TellLayer, PropsSent, shell, config, notis
<1>8. ASSUME NEW l \in Layers, controller_destroy_layout_layer(c, l)
      PROVE  TypeOK'
  <2>1. notification_list[l] \subseteq Notifs
    BY DEF TypeOK
  <2> QED BY <1>8, <2>1, UnlinkType
        DEF TypeOK, controller_destroy_layout_layer, TellLayer, Forget, shell, config
<1>9. CASE controller_commit_changes(c)
  <2>1. PICK P \in SUBSET (list_surface \cup list_layer) : PropsSent(P)
    BY <1>9 DEF controller_commit_changes
  <2>2. stale' \in [Controllers -> SUBSET Objects]
    BY <2>1, SentType DEF TypeOK
  <2> QED BY <1>9, <2>2 DEF TypeOK, controller_commit_changes, notis, shell, config
<1> QED BY <1>1, <1>2, <1>3, <1>4, <1>5, <1>6, <1>7, <1>8, <1>9 DEF ControllerStep

LEMMA TypeStutter == TypeOK /\ UNCHANGED vars => TypeOK'
BY DEF TypeOK, vars, shell, config, notis, told

LEMMA TypeNext == TypeOK /\ SurfacesOwned /\ [Next]_vars => TypeOK'
BY TypeSurfaceStep, TypeControllerStep, TypeStutter DEF Next, Running, Crashed

-----------------------------------------------------------------------------
(* The struct ivisurface of each layout surface.                           *)

\* No two live surfaces share an id.
IdsUnique ==
    \A s, t \in Surfaces :
        surface_id[s] = surface_id[t] /\ surface_id[s] \in Ids => s = t

LEMMA OwnedInit == Init => SurfacesOwned
BY IdAssumption DEF Init, SurfacesOwned, Live, SurfacesWithId

LEMMA OwnedStutter == SurfacesOwned /\ UNCHANGED <<shell, fault>> => SurfacesOwned'
BY DEF SurfacesOwned, Live, SurfacesWithId, shell, config

LEMMA IdsUniqueInit == Init => IdsUnique
BY IdAssumption DEF Init, IdsUnique

\* No request changes what the shell keeps of the surfaces.
LEMMA ControllerLeavesShell ==
    ASSUME NEW c \in Controllers, ControllerStep(c)
    PROVE  /\ UNCHANGED shell
           /\ \/ UNCHANGED fault
              \/ \E s \in Live \ list_surface : CrashFor(s)
BY DEF ControllerStep, bind_ivi_controller, unbind_resource_controller,
   controller_surface_sync, controller_surface_get, controller_set_surface_type,
   OnIviSurface, CrashFor, controller_layer_sync, controller_layer_get,
   controller_create_layout_layer, controller_destroy_layout_layer,
   controller_commit_changes

LEMMA IdsUniqueNext == TypeOK /\ IdsUnique /\ [Next]_vars => IdsUnique'
<1> SUFFICES ASSUME TypeOK, IdsUnique, [Next]_vars PROVE IdsUnique'
  OBVIOUS
<1>1. CASE UNCHANGED surface_id
  BY <1>1 DEF IdsUnique
<1>2. ASSUME NEW s \in Surfaces, surface_event_create(s) PROVE IdsUnique'
  <2> PICK id \in Ids \cup {NoId} :
        /\ id # NoId => SurfacesWithId(id) = {}
        /\ surface_id' = [surface_id EXCEPT ![s] = id]
    BY <1>2 DEF surface_event_create
  <2> QED BY IdAssumption DEF IdsUnique, SurfacesWithId, TypeOK
<1>3. ASSUME NEW s \in Surfaces, surface_event_remove(s) PROVE IdsUnique'
  <2>1. surface_id' = surface_id \/ surface_id' = [surface_id EXCEPT ![s] = Absent]
    BY <1>3 DEF surface_event_remove, CrashFor, shell
  <2> QED BY <2>1, IdAssumption DEF IdsUnique, TypeOK
<1>4. ASSUME NEW s \in Surfaces, surface_event_configure(s) PROVE UNCHANGED surface_id
  BY <1>4 DEF surface_event_configure, BackgroundConfigured, CrashFor, vars, shell
<1>5. ASSUME NEW c \in Controllers, ControllerStep(c) PROVE UNCHANGED surface_id
  BY <1>5, ControllerLeavesShell DEF shell
<1> QED BY <1>1, <1>2, <1>3, <1>4, <1>5 DEF Next, Running, Crashed, SurfaceStep, vars, shell

\* A crash for a live surface with the background's id, the only one if there
\* never were two.
LEMMA CrashOwned ==
    ASSUME TypeOK, SurfacesOwned, NEW s \in Live, surface_id[s] = bkgnd_surface_id,
           CrashFor(s)
    PROVE  SurfacesOwned'
<1>1. s \in SurfacesWithId(bkgnd_surface_id) /\ s # Absent
  BY IdAssumption DEF Live, SurfacesWithId
<1>2. ~shared => s = bkgnd_surface
  BY <1>1 DEF SurfacesOwned
<1> QED BY <1>1, <1>2 DEF CrashFor, SurfacesOwned, Live, SurfacesWithId, shell, config

LEMMA OwnedCreate ==
    ASSUME TypeOK, SurfacesOwned, fault = Absent, NEW s \in Surfaces,
           surface_event_create(s)
    PROVE  SurfacesOwned'
<1> USE DEF SurfacesOwned, Live, SurfacesWithId
<1> PICK id \in Ids \cup {NoId} :
      /\ id # NoId => SurfacesWithId(id) = {}
      /\ surface_id' = [surface_id EXCEPT ![s] = id]
      /\ create_surface(s, id)
  BY DEF surface_event_create
<1>1. /\ Live' = Live \cup {s} /\ s \notin Live /\ s # Absent
      /\ bkgnd_view' = bkgnd_view /\ fault' = Absent
      /\ bkgnd_surface_id' = bkgnd_surface_id
      /\ surface_id'[s] = id
      /\ \A t \in Surfaces \ {s} : surface_id'[t] = surface_id[t]
  BY IdAssumption DEF surface_event_create, TypeOK, config
<1>2. bkgnd_surface \in Live \cup {Absent} /\ bkgnd_view \in Live \cup {Absent}
  BY IdAssumption DEF TypeOK
<1>3. CASE id # bkgnd_surface_id
  <2>1. /\ list_surface' = list_surface \cup {s} /\ shared' = shared
        /\ bkgnd_surface' = bkgnd_surface /\ ivisurfs' = ivisurfs \cup {s}
    BY <1>3 DEF create_surface, TypeOK
  <2>2. SurfacesWithId(bkgnd_surface_id)' = SurfacesWithId(bkgnd_surface_id)
    BY <1>1, <1>3, IdAssumption DEF TypeOK
  <2>3. list_surface' = {t \in Live' : surface_id'[t] # bkgnd_surface_id'}
    BY <1>1, <1>3, <2>1 DEF TypeOK
  <2>4. \A t \in {bkgnd_surface', bkgnd_view', fault'} \ {Absent} :
            surface_id'[t] = bkgnd_surface_id'
    BY <1>1, <1>2, <2>1
  <2> QED BY <1>1, <2>1, <2>2, <2>3, <2>4
<1>4. CASE id = bkgnd_surface_id
  <2>1. /\ list_surface' = list_surface
        /\ bkgnd_surface' = s /\ ivisurfs' = ivisurfs \cup {s}
        /\ ~shared' => ~shared /\ SurfacesWithId(bkgnd_surface_id) = {}
    BY <1>4 DEF create_surface
  <2>2. SurfacesWithId(bkgnd_surface_id) = {} =>
            SurfacesWithId(bkgnd_surface_id)' = {s}
    BY <1>1, <1>4, IdAssumption DEF TypeOK
  <2>3. list_surface' = {t \in Live' : surface_id'[t] # bkgnd_surface_id'}
    BY <1>1, <1>4, <2>1 DEF TypeOK
  <2>4. \A t \in {bkgnd_surface', bkgnd_view', fault'} \ {Absent} :
            surface_id'[t] = bkgnd_surface_id'
    BY <1>1, <1>2, <1>4, <2>1
  <2>5. ~shared' => bkgnd_view = Absent
    BY <1>2, <2>1
  <2> QED BY <1>1, <2>1, <2>2, <2>3, <2>4, <2>5
<1> QED BY <1>3, <1>4

LEMMA OwnedRemove ==
    ASSUME TypeOK, SurfacesOwned, fault = Absent, NEW s \in Surfaces,
           surface_event_remove(s)
    PROVE  SurfacesOwned'
<1>1. CASE CrashFor(s) /\ IsBackground(s)
  <2>1. s \in Live /\ surface_id[s] = bkgnd_surface_id
    BY <1>1 DEF surface_event_remove, IsBackground
  <2> QED BY <1>1, <2>1, CrashOwned
<1> USE DEF SurfacesOwned, Live, SurfacesWithId
<1>2. CASE ~(IsBackground(s) /\ bkgnd_surface = Absent)
  <2>1. /\ s \in Live /\ Live' = Live \ {s} /\ s # Absent
        /\ \A t \in Surfaces \ {s} : surface_id'[t] = surface_id[t]
        /\ surface_id'[s] = Absent
        /\ UNCHANGED <<bkgnd_surface_id, shared, fault>>
    BY <1>2, IdAssumption DEF surface_event_remove, TypeOK, config
  <2>2. bkgnd_surface \in Live \cup {Absent} /\ bkgnd_view \in Live \cup {Absent}
    BY IdAssumption DEF TypeOK
  <2>3. CASE s \in list_surface
    <3>1. /\ list_surface' = list_surface \ {s} /\ ivisurfs' = ivisurfs \ {s}
          /\ UNCHANGED <<bkgnd_surface, bkgnd_view>>
      BY <1>2, <2>3 DEF surface_event_remove, remove_ivi_surface
    <3>2. s # bkgnd_surface /\ s # bkgnd_view
      BY <2>1, <2>3
    <3>3. SurfacesWithId(bkgnd_surface_id)' = SurfacesWithId(bkgnd_surface_id)
      BY <2>1, <2>3, IdAssumption DEF TypeOK
    <3>4. list_surface' = {t \in Live' : surface_id'[t] # bkgnd_surface_id'}
      BY <2>1, <2>3, <3>1
    <3>5. \A t \in {bkgnd_surface', bkgnd_view', fault'} \ {Absent} :
              surface_id'[t] = bkgnd_surface_id'
      BY <2>1, <2>2, <3>1, <3>2
    <3> QED BY <2>1, <3>1, <3>2, <3>3, <3>4, <3>5
  <2>4. CASE s \notin list_surface
    <3>1. surface_id[s] = bkgnd_surface_id /\ IsBackground(s) /\ bkgnd_surface # Absent
      BY <1>2, <2>1, <2>4 DEF IsBackground
    <3>2. /\ bkgnd_view' = Absent /\ bkgnd_surface' = Absent
          /\ ivisurfs' = ivisurfs \ {bkgnd_surface}
          /\ UNCHANGED list_surface
      BY <1>2, <2>4, <3>1 DEF surface_event_remove, remove_bkgnd_surface
    <3>3. bkgnd_surface \notin list_surface
      BY <3>1
    <3>4. ~shared => s = bkgnd_surface /\ SurfacesWithId(bkgnd_surface_id)' = {}
      BY <2>1, <3>1, IdAssumption DEF TypeOK
    <3>5. list_surface' = {t \in Live' : surface_id'[t] # bkgnd_surface_id'}
      BY <2>1, <2>4, <3>1, <3>2
    <3> QED BY <2>1, <3>2, <3>3, <3>4, <3>5
  <2> QED BY <2>3, <2>4
<1> QED BY <1>1, <1>2 DEF surface_event_remove

LEMMA OwnedConfigure ==
    ASSUME TypeOK, SurfacesOwned, NEW s \in Surfaces, surface_event_configure(s)
    PROVE  SurfacesOwned'
<1>0. s \in Live
  BY DEF surface_event_configure
<1>1. CASE UNCHANGED <<shell, fault>>
  BY <1>1, OwnedStutter
<1>2. CASE CrashFor(s) /\ surface_id[s] = bkgnd_surface_id
  BY <1>0, <1>2, CrashOwned
<1>3. CASE /\ surface_id[s] = bkgnd_surface_id /\ bkgnd_view' = s /\ bkgnd_view = Absent
           /\ UNCHANGED <<config, surface_id, ivisurfs, list_surface, bkgnd_surface,
                          shared, fault>>
  <2>1. s \in SurfacesWithId(bkgnd_surface_id)
    BY <1>3 DEF SurfacesWithId
  <2> QED BY <1>3, <2>1 DEF SurfacesOwned, Live, SurfacesWithId, config
<1> QED BY <1>1, <1>2, <1>3
        DEF surface_event_configure, BackgroundConfigured, vars

LEMMA OwnedNext == TypeOK /\ SurfacesOwned /\ [Next]_vars => SurfacesOwned'
<1> SUFFICES ASSUME TypeOK, SurfacesOwned, [Next]_vars PROVE SurfacesOwned'
  OBVIOUS
<1>1. ASSUME NEW c \in Controllers, ControllerStep(c) PROVE SurfacesOwned'
  <2>1. CASE UNCHANGED fault
    BY <1>1, <2>1, ControllerLeavesShell, OwnedStutter
  <2>2. ASSUME NEW s \in Live \ list_surface, CrashFor(s) PROVE SurfacesOwned'
    <3>1. s \in Live /\ surface_id[s] = bkgnd_surface_id
      BY DEF SurfacesOwned
    <3> QED BY <2>2, <3>1, CrashOwned
  <2> QED BY <1>1, <2>1, <2>2, ControllerLeavesShell
<1>2. CASE UNCHANGED vars
  BY <1>2, OwnedStutter DEF vars
<1> QED BY <1>1, <1>2, OwnedCreate, OwnedRemove, OwnedConfigure
        DEF Next, Running, Crashed, SurfaceStep

LEMMA TypedAndOwned == Spec => [](TypeOK /\ SurfacesOwned)
BY TypeInit, TypeNext, OwnedInit, OwnedNext, PTL DEF Spec

\* Every variable keeps its type: no handler stores a pointer of another kind.
\* (That an announced id is one needs that only live surfaces are listed.)
THEOREM TypeCorrect == Spec => []TypeOK
BY TypedAndOwned, PTL

\* The shell lists every live layout surface with another id than the
\* background's and owns its struct ivisurface, and no request or signal handler
\* dereferences a missing one for it; what it keeps of the background is right
\* as long as no two surfaces had its id.
THEOREM SurfacesOwnedAlways == Spec => []SurfacesOwned
BY TypedAndOwned, PTL

-----------------------------------------------------------------------------
(* The two lists of every notification.                                    *)

USE DEF Registered

\* Removing both links of a set of notifications and freeing them keeps the
\* lists in agreement, and takes nothing away from the others.
LEMMA UnlinkSound ==
    ASSUME TypeOK, NotificationsSound, NEW N, N \subseteq Notifs, Unlink(N)
    PROVE  /\ ControllerListsSound'
           /\ \A o \in Objects : notification_list'[o] = notification_list[o] \ N
           /\ \A n \in Notifs \ N : resource'[n] = resource[n]
           /\ \A n \in N : resource'[n] = Absent
<1> USE DEF TypeOK, Unlink
<1>1. /\ \A o \in Objects : notification_list'[o] = notification_list[o] \ N
      /\ \A n \in Notifs \ N : resource'[n] = resource[n]
      /\ \A n \in N : resource'[n] = Absent
      /\ \A c \in Controllers : surface_notifications'[c] = surface_notifications[c] \ N
      /\ \A c \in Controllers : layer_notifications'[c] = layer_notifications[c] \ N
  OBVIOUS
<1>2. ASSUME NEW c \in Controllers, NEW n \in Notifs
      PROVE  /\ n \in surface_notifications'[c] <=>
                  resource'[n] = c /\ \E s \in Surfaces : n \in notification_list'[s]
             /\ n \in layer_notifications'[c] <=>
                  resource'[n] = c /\ \E l \in Layers : n \in notification_list'[l]
  BY <1>1, IdAssumption DEF NotificationsSound, ControllerListsSound
<1>3. ASSUME NEW n \in Notifs, resource'[n] # Absent
      PROVE  \E o \in Objects : n \in notification_list'[o]
  BY <1>1, <1>3 DEF NotificationsSound, ControllerListsSound
<1> QED BY <1>1, <1>2, <1>3 DEF ControllerListsSound

LEMMA SoundInit == Init => NotificationsSound
BY IdAssumption
   DEF Init, NotificationsSound, ObjectListsSound, ControllerListsSound

\* Unlinking is sound while the objects and controllers that leave the registry
\* have no notification left.
LEMMA UnlinkKeepsSound ==
    ASSUME TypeOK, NotificationsSound, NEW N, N \subseteq Notifs, Unlink(N),
           \A n \in Notifs \ N : resource[n] \in list_controller =>
                                     resource[n] \in list_controller',
           \A o \in Objects : o \in list_surface \cup list_layer /\ notification_list[o] \ N # {}
                                  => o \in list_surface' \cup list_layer'
    PROVE  NotificationsSound'
<1>1. ControllerListsSound'
  BY UnlinkSound
<1>2. ASSUME NEW o \in Objects, NEW n \in notification_list'[o]
      PROVE  /\ resource'[n] \in list_controller'
             /\ o \in list_surface' \cup list_layer'
             /\ \A p \in Objects : n \in notification_list'[p] => p = o
  <2>1. n \in notification_list[o] /\ n \in Notifs \ N
    BY UnlinkSound DEF TypeOK
  <2>2. /\ resource[n] \in list_controller
        /\ o \in list_surface \cup list_layer
        /\ \A p \in Objects : n \in notification_list[p] => p = o
    BY <2>1 DEF NotificationsSound, ObjectListsSound
  <2> QED BY <2>1, <2>2, UnlinkSound
<1> QED BY <1>1, <1>2 DEF NotificationsSound, ObjectListsSound

\* A free address is in no list.
LEMMA FreeIsUnlinked ==
    ASSUME TypeOK, NotificationsSound, NEW n \in Notifs, resource[n] = Absent
    PROVE  /\ \A o \in Objects : n \notin notification_list[o]
           /\ \A c \in Controllers : n \notin surface_notifications[c]
           /\ \A c \in Controllers : n \notin layer_notifications[c]
BY IdAssumption DEF TypeOK, NotificationsSound, ObjectListsSound, ControllerListsSound

LEMMA SyncAddSurfaceSound ==
    ASSUME TypeOK, NotificationsSound, NEW c \in list_controller, NEW s \in list_surface,
           SyncAddSurface(c, s), UNCHANGED <<list_surface, list_layer, list_controller>>
    PROVE  NotificationsSound'
<1> PICK n \in Notifs :
        /\ resource[n] = Absent
        /\ resource' = [resource EXCEPT ![n] = c]
        /\ surface_notifications' = [surface_notifications EXCEPT ![c] = @ \cup {n}]
        /\ notification_list' = [notification_list EXCEPT ![s] = @ \cup {n}]
        /\ UNCHANGED layer_notifications
  BY DEF SyncAddSurface
<1> USE DEF TypeOK
<1>1. /\ c \in Controllers /\ s \in Objects /\ s \in Surfaces /\ c # Absent
      /\ s \notin Layers
  BY IdAssumption, ObjectAssumption
<1>2. ObjectListsSound'
  BY <1>1, FreeIsUnlinked DEF NotificationsSound, ObjectListsSound
<1>3. ASSUME NEW d \in Controllers, NEW m \in Notifs
      PROVE  /\ m \in surface_notifications'[d] <=>
                  resource'[m] = d /\ \E t \in Surfaces : m \in notification_list'[t]
             /\ m \in layer_notifications'[d] <=>
                  resource'[m] = d /\ \E l \in Layers : m \in notification_list'[l]
  <2>1. CASE m = n
    BY <1>1, <2>1, FreeIsUnlinked
  <2>2. CASE m # n
    <3>1. /\ resource'[m] = resource[m]
          /\ \A o \in Objects : m \in notification_list'[o] <=> m \in notification_list[o]
          /\ m \in surface_notifications'[d] <=> m \in surface_notifications[d]
          /\ layer_notifications' = layer_notifications
      BY <2>2, <1>1
    <3> QED BY <3>1 DEF NotificationsSound, ControllerListsSound
  <2> QED BY <2>1, <2>2
<1>4. ASSUME NEW m \in Notifs, resource'[m] # Absent
      PROVE  \E o \in Objects : m \in notification_list'[o]
  BY <1>1, <1>4 DEF NotificationsSound, ControllerListsSound
<1> QED BY <1>2, <1>3, <1>4 DEF NotificationsSound, ControllerListsSound

LEMMA SyncAddLayerSound ==
    ASSUME TypeOK, NotificationsSound, NEW c \in list_controller, NEW l \in list_layer,
           SyncAddLayer(c, l), UNCHANGED <<list_surface, list_layer, list_controller>>
    PROVE  NotificationsSound'
<1> PICK n \in Notifs :
        /\ resource[n] = Absent
        /\ resource' = [resource EXCEPT ![n] = c]
        /\ layer_notifications' = [layer_notifications EXCEPT ![c] = @ \cup {n}]
        /\ notification_list' = [notification_list EXCEPT ![l] = @ \cup {n}]
        /\ UNCHANGED surface_notifications
  BY DEF SyncAddLayer
<1> USE DEF TypeOK
<1>1. /\ c \in Controllers /\ l \in Objects /\ l \in Layers /\ c # Absent
      /\ l \notin Surfaces
  BY IdAssumption, ObjectAssumption
<1>2. ObjectListsSound'
  BY <1>1, FreeIsUnlinked DEF NotificationsSound, ObjectListsSound
<1>3. ASSUME NEW d \in Controllers, NEW m \in Notifs
      PROVE  /\ m \in surface_notifications'[d] <=>
                  resource'[m] = d /\ \E t \in Surfaces : m \in notification_list'[t]
             /\ m \in layer_notifications'[d] <=>
                  resource'[m] = d /\ \E k \in Layers : m \in notification_list'[k]
  <2>1. CASE m = n
    BY <1>1, <2>1, FreeIsUnlinked
  <2>2. CASE m # n
    <3>1. /\ resource'[m] = resource[m]
          /\ \A o \in Objects : m \in notification_list'[o] <=> m \in notification_list[o]
          /\ m \in layer_notifications'[d] <=> m \in layer_notifications[d]
          /\ surface_notifications' = surface_notifications
      BY <2>2, <1>1
    <3> QED BY <3>1 DEF NotificationsSound, ControllerListsSound
  <2> QED BY <2>1, <2>2
<1>4. ASSUME NEW m \in Notifs, resource'[m] # Absent
      PROVE  \E o \in Objects : m \in notification_list'[o]
  BY <1>1, <1>4 DEF NotificationsSound, ControllerListsSound
<1> QED BY <1>2, <1>3, <1>4 DEF NotificationsSound, ControllerListsSound

LEMMA SyncRemoveSound ==
    ASSUME TypeOK, NotificationsSound, NEW c \in Controllers, NEW o \in Objects,
           SyncRemove(c, o), UNCHANGED <<list_surface, list_layer, list_controller>>
    PROVE  NotificationsSound'
<1>1. CASE UNCHANGED notis
  BY <1>1 DEF notis, NotificationsSound, ObjectListsSound, ControllerListsSound
<1>2. CASE \E n \in notification_list[o] : Unlink({n})
  <2> PICK n \in notification_list[o] : Unlink({n})
    BY <1>2
  <2>1. {n} \subseteq Notifs
    BY DEF TypeOK
  <2> QED BY <2>1, UnlinkKeepsSound
<1> QED BY <1>1, <1>2 DEF SyncRemove

\* The registry only grows and the notifications do not change.
LEMMA GrowKeepsSound ==
    ASSUME NotificationsSound, UNCHANGED notis, list_surface \subseteq list_surface',
           list_layer \subseteq list_layer', list_controller \subseteq list_controller'
    PROVE  NotificationsSound'
BY DEF notis, NotificationsSound, ObjectListsSound, ControllerListsSound

LEMMA SoundSurfaceStep ==
    ASSUME TypeOK, SurfacesOwned, NotificationsSound, NEW s \in Surfaces, SurfaceStep(s)
    PROVE  NotificationsSound'
<1>1. CASE surface_event_create(s)
  BY <1>1, GrowKeepsSound DEF surface_event_create, create_surface
<1>0. CASE CrashFor(s)
  BY <1>0, GrowKeepsSound DEF CrashFor, shell
<1>2. CASE surface_event_remove(s) /\ ~CrashFor(s)
  <2>0. list_layer' = list_layer /\ list_controller' = list_controller
    BY <1>2 DEF surface_event_remove
  <2>1. CASE s \in list_surface
    <3>1. Unlink(notification_list[s]) /\ list_surface' = list_surface \ {s}
      BY <1>2, <2>1 DEF surface_event_remove, remove_ivi_surface
    <3>2. notification_list[s] \subseteq Notifs
      BY DEF TypeOK
    <3>3. s \notin list_layer
      BY ObjectAssumption DEF TypeOK
    <3> QED BY <3>1, <3>2, <2>0, UnlinkKeepsSound
  <2>2. CASE IsBackground(s)
    <3>1. bkgnd_surface \in Surfaces
      BY <1>2, <2>2 DEF surface_event_remove, TypeOK
    <3>2. Unlink(notification_list[bkgnd_surface]) /\ list_surface' = list_surface
      BY <1>2, <2>2, <3>1
         DEF surface_event_remove, remove_bkgnd_surface, IsBackground
    <3>3. notification_list[bkgnd_surface] \subseteq Notifs
      BY <3>1 DEF TypeOK
    <3> QED BY <3>2, <3>3, <2>0, UnlinkKeepsSound
  <2>3. CASE s \notin list_surface /\ ~IsBackground(s)
    BY <1>2, <2>0, <2>3, GrowKeepsSound DEF surface_event_remove
  <2> QED BY <2>1, <2>2, <2>3 DEF IsBackground
<1>3. CASE surface_event_configure(s)
  BY <1>0, <1>3, GrowKeepsSound
     DEF surface_event_configure, BackgroundConfigured, vars, shell
<1> QED BY <1>0, <1>1, <1>2, <1>3 DEF SurfaceStep

LEMMA SoundControllerStep ==
    ASSUME TypeOK, NotificationsSound, NEW c \in Controllers, ControllerStep(c)
    PROVE  NotificationsSound'
<1>1. CASE bind_ivi_controller(c)
  <2>1. surface_notifications[c] = {} /\ layer_notifications[c] = {}
    BY <1>1 DEF bind_ivi_controller, TypeOK, NotificationsSound, ObjectListsSound,
                ControllerListsSound
  <2>2. UNCHANGED notis
    BY <1>1, <2>1 DEF bind_ivi_controller, TypeOK, notis
  <2> QED BY <1>1, <2>2, GrowKeepsSound DEF bind_ivi_controller, shell
<1>2. CASE unbind_resource_controller(c)
  <2> DEFINE N == layer_notifications[c] \cup surface_notifications[c]
  <2>1. N \subseteq Notifs /\ Unlink(N)
    BY <1>2 DEF TypeOK, unbind_resource_controller
  <2>2. ASSUME NEW n \in Notifs \ N PROVE resource[n] # c
    BY <2>2, IdAssumption DEF NotificationsSound, ControllerListsSound, TypeOK
  <2> HIDE DEF N
  <2>3. /\ list_surface' = list_surface /\ list_layer' = list_layer
        /\ list_controller' = list_controller \ {c}
    BY <1>2 DEF unbind_resource_controller, shell
  <2> QED BY <2>1, <2>2, <2>3, UnlinkKeepsSound
<1>3. ASSUME NEW s \in Surfaces, NEW add \in BOOLEAN, controller_surface_sync(c, s, add)
      PROVE  NotificationsSound'
  <2> USE <1>3 DEF controller_surface_sync, OnIviSurface
  <2>1. UNCHANGED <<list_surface, list_layer, list_controller>> /\ c \in list_controller
    BY DEF shell, CrashFor
  <2>2. CASE s \notin list_surface
    BY <2>1, <2>2, GrowKeepsSound DEF CrashFor
  <2>3. CASE s \in list_surface /\ add
    BY <2>1, <2>3, SyncAddSurfaceSound
  <2>4. CASE s \in list_surface /\ ~add
    BY <2>1, <2>4, SyncRemoveSound
  <2> QED BY <2>2, <2>3, <2>4
<1>4. ASSUME NEW l \in Layers, NEW add \in BOOLEAN, controller_layer_sync(c, l, add)
      PROVE  NotificationsSound'
  <2> USE <1>4 DEF controller_layer_sync
  <2>1. UNCHANGED <<list_surface, list_layer, list_controller>> /\ c \in list_controller
    BY DEF shell
  <2>2. CASE add
    BY <2>1, <2>2, SyncAddLayerSound
  <2>3. CASE ~add
    BY <2>1, <2>3, SyncRemoveSound
  <2> QED BY <2>2, <2>3
<1>5. ASSUME NEW s \in Surfaces,
             controller_surface_get(c, s) \/ controller_set_surface_type(c, s)
      PROVE  NotificationsSound'
  BY <1>5, GrowKeepsSound DEF controller_surface_get, controller_set_surface_type,
                              OnIviSurface, CrashFor, shell
<1>6. ASSUME NEW l \in Layers,
             controller_layer_get(c, l) \/ controller_create_layout_layer(c, l)
      PROVE  NotificationsSound'
  BY <1>6, GrowKeepsSound DEF controller_layer_get, controller_create_layout_layer, shell
<1>7. ASSUME NEW l \in Layers, controller_destroy_layout_layer(c, l)
      PROVE  NotificationsSound'
  <2>1. /\ Unlink(notification_list[l]) /\ list_layer' = list_layer \ {l}
        /\ list_surface' = list_surface /\ list_controller' = list_controller
    BY <1>7 DEF controller_destroy_layout_layer, shell
  <2>2. notification_list[l] \subseteq Notifs
    BY DEF TypeOK
  <2> QED BY <2>1, <2>2, UnlinkKeepsSound
<1>8. CASE controller_commit_changes(c)
  BY <1>8, GrowKeepsSound DEF controller_commit_changes, shell
<1> QED BY <1>1, <1>2, <1>3, <1>4, <1>5, <1>6, <1>7, <1>8 DEF ControllerStep

LEMMA SoundNext ==
    TypeOK /\ SurfacesOwned /\ NotificationsSound /\ [Next]_vars => NotificationsSound'
<1>1. ASSUME NotificationsSound, UNCHANGED vars PROVE NotificationsSound'
  BY <1>1, GrowKeepsSound DEF vars, shell
<1> QED BY <1>1, SoundSurfaceStep, SoundControllerStep DEF Next, Running, Crashed

\* The double bookkeeping of struct notification survives every interleaving of
\* binds, disconnections, syncs and removals.
THEOREM NotificationsSoundAlways == Spec => []NotificationsSound
BY TypedAndOwned, SoundInit, SoundNext, PTL DEF Spec

-----------------------------------------------------------------------------
(* What the clients asked for and what they are told.                      *)

LEMMA SubscribersInit == Init => SubscribersRegistered
BY DEF Init, SubscribersRegistered

\* What a controller wants it wants of a registered object, and it is bound.
LEMMA WantsAreListed ==
    ASSUME TypeOK, NotificationsSound, SubscribersRegistered,
           NEW c \in Controllers, NEW o \in wants[c]
    PROVE  c \in list_controller /\ o \in Objects /\ o \in list_surface \cup list_layer
BY DEF TypeOK, NotificationsSound, ObjectListsSound, SubscribersRegistered

\* A step that takes no notification of another controller or object away keeps
\* the subscriptions that remain wanted.
LEMMA UnlinkKeepsSubscribers ==
    ASSUME TypeOK, NotificationsSound, SubscribersRegistered,
           NEW N, N \subseteq Notifs, Unlink(N),
           \A c \in Controllers : wants'[c] \subseteq wants[c],
           \A c \in Controllers : \A o \in wants'[c] :
               \A n \in notification_list[o] \cap N : resource[n] # c
    PROVE  SubscribersRegistered'
<1> SUFFICES ASSUME NEW c \in Controllers, NEW o \in wants'[c]
             PROVE  Registered(c, o)'
  BY DEF SubscribersRegistered
<1>1. o \in Objects /\ o \in wants[c]
  BY DEF TypeOK
<1>2. PICK n \in notification_list[o] : resource[n] = c
  BY <1>1 DEF SubscribersRegistered
<1>3. n \in Notifs /\ n \notin N
  BY <1>1, <1>2 DEF TypeOK
<1> QED BY <1>1, <1>2, <1>3, UnlinkSound

\* Links and notifications stay, and nothing new is wanted.
LEMMA KeepSubscribers ==
    ASSUME SubscribersRegistered, UNCHANGED <<notification_list, resource>>,
           \A c \in Controllers : wants'[c] \subseteq wants[c]
    PROVE  SubscribersRegistered'
BY DEF SubscribersRegistered

\* Adding a notification for the pair that is now wanted.
LEMMA AddKeepsSubscribers ==
    ASSUME TypeOK, NotificationsSound, SubscribersRegistered,
           NEW c \in Controllers, NEW o \in Objects, NEW n \in Notifs,
           resource[n] = Absent, resource' = [resource EXCEPT ![n] = c],
           notification_list' = [notification_list EXCEPT ![o] = @ \cup {n}],
           wants' = [wants EXCEPT ![c] = @ \cup {o}]
    PROVE  SubscribersRegistered'
<1> SUFFICES ASSUME NEW d \in Controllers, NEW p \in wants'[d]
             PROVE  Registered(d, p)'
  BY DEF SubscribersRegistered
<1>1. CASE d = c /\ p = o
  BY <1>1 DEF TypeOK
<1>2. CASE ~(d = c /\ p = o)
  <2>1. p \in wants[d] /\ p \in Objects
    BY <1>2 DEF TypeOK
  <2>2. PICK m \in notification_list[p] : resource[m] = d
    BY <2>1 DEF SubscribersRegistered
  <2>3. m # n /\ m \in Notifs
    BY <2>1, <2>2, IdAssumption DEF TypeOK
  <2> QED BY <2>1, <2>2, <2>3 DEF TypeOK
<1> QED BY <1>1, <1>2

LEMMA SyncRemoveKeepsSubscribers ==
    ASSUME TypeOK, NotificationsSound, SubscribersRegistered,
           NEW c \in Controllers, NEW o \in Objects, SyncRemove(c, o),
           wants' = [wants EXCEPT ![c] = @ \ {o}]
    PROVE  SubscribersRegistered'
<1>0. \A d \in Controllers : wants'[d] \subseteq wants[d]
  BY DEF TypeOK
<1>1. CASE Registered(c, o)
  <2> PICK n \in notification_list[o] : resource[n] = c /\ Unlink({n})
    BY <1>1 DEF SyncRemove
  <2>1. {n} \subseteq Notifs
    BY DEF TypeOK
  <2>2. ASSUME NEW d \in Controllers, NEW p \in wants'[d],
               NEW m \in notification_list[p] \cap {n}
        PROVE  resource[m] # d
    <3>1. p \in Objects /\ n \in notification_list[p] /\ p = o
      BY <1>0 DEF TypeOK, NotificationsSound, ObjectListsSound
    <3>2. d # c
      BY <3>1 DEF TypeOK
    <3> QED BY <3>2
  <2> QED BY <1>0, <2>1, <2>2, UnlinkKeepsSubscribers
<1>2. CASE ~Registered(c, o)
  BY <1>0, <1>2, KeepSubscribers DEF SyncRemove, notis
<1> QED BY <1>1, <1>2

LEMMA SubscribersSurfaceStep ==
    ASSUME TypeOK, SurfacesOwned, NotificationsSound, SubscribersRegistered,
           NEW s \in Surfaces, SurfaceStep(s)
    PROVE  SubscribersRegistered'
<1>1. CASE surface_event_create(s) \/ surface_event_configure(s) \/ CrashFor(s)
  BY <1>1, KeepSubscribers DEF surface_event_create, surface_event_configure,
                               BackgroundConfigured, CrashFor, notis, vars
<1>2. CASE surface_event_remove(s) /\ ~CrashFor(s)
  <2>0. wants' = [c \in Controllers |-> wants[c] \ {s}]
    BY <1>2 DEF surface_event_remove, Forget
  <2>1. CASE s \in list_surface
    <3>1. Unlink(notification_list[s]) /\ notification_list[s] \subseteq Notifs
      BY <1>2, <2>1 DEF TypeOK, surface_event_remove, remove_ivi_surface
    <3>2. ASSUME NEW c \in Controllers, NEW o \in wants'[c],
                 NEW n \in notification_list[o] \cap notification_list[s]
          PROVE  FALSE
      BY <2>0, <3>2 DEF TypeOK, NotificationsSound, ObjectListsSound
    <3> QED BY <2>0, <3>1, <3>2, UnlinkKeepsSubscribers
  <2>2. CASE s \notin list_surface
    <3>1. IsBackground(s) /\ bkgnd_surface \in Surfaces \ list_surface
      BY <1>2, <2>2
         DEF surface_event_remove, SurfacesOwned, Live, IsBackground, TypeOK
    <3>2. /\ Unlink(notification_list[bkgnd_surface])
          /\ notification_list[bkgnd_surface] \subseteq Notifs
      BY <1>2, <2>2, <3>1 DEF TypeOK, surface_event_remove, remove_bkgnd_surface
    <3>3. notification_list[bkgnd_surface] = {}
      BY <3>1, ObjectAssumption DEF TypeOK, NotificationsSound, ObjectListsSound
    <3>4. \A c \in Controllers : wants'[c] \subseteq wants[c]
      BY <2>0
    <3> QED BY <3>2, <3>3, <3>4, UnlinkKeepsSubscribers
  <2> QED BY <2>1, <2>2
<1> QED BY <1>1, <1>2 DEF SurfaceStep

LEMMA SubscribersControllerStep ==
    ASSUME TypeOK, NotificationsSound, SubscribersRegistered,
           NEW c \in Controllers, ControllerStep(c)
    PROVE  SubscribersRegistered'
<1>1. CASE bind_ivi_controller(c)
  BY <1>1, KeepSubscribers DEF bind_ivi_controller
<1>2. CASE unbind_resource_controller(c)
  <2> DEFINE N == layer_notifications[c] \cup surface_notifications[c]
  <2>1. N \subseteq Notifs /\ Unlink(N) /\ wants' = [wants EXCEPT ![c] = {}]
    BY <1>2 DEF TypeOK, unbind_resource_controller
  <2>2. \A n \in N : resource[n] = c
    BY DEF NotificationsSound, ControllerListsSound, TypeOK
  <2> HIDE DEF N
  <2>3. \A d \in Controllers : wants'[d] \subseteq wants[d] /\ (d = c => wants'[d] = {})
    BY <2>1 DEF TypeOK
  <2> QED BY <2>1, <2>2, <2>3, UnlinkKeepsSubscribers
<1>3. ASSUME NEW s \in Surfaces, NEW add \in BOOLEAN, controller_surface_sync(c, s, add)
      PROVE  SubscribersRegistered'
  <2> USE <1>3 DEF controller_surface_sync, OnIviSurface
  <2>1. CASE s \notin list_surface
    BY <2>1, KeepSubscribers DEF CrashFor, notis
  <2>2. CASE s \in list_surface /\ add
    BY <2>2, AddKeepsSubscribers DEF SyncAddSurface
  <2>3. CASE s \in list_surface /\ ~add
    BY <2>3, SyncRemoveKeepsSubscribers
  <2> QED BY <2>1, <2>2, <2>3
<1>4. ASSUME NEW l \in Layers, NEW add \in BOOLEAN, controller_layer_sync(c, l, add)
      PROVE  SubscribersRegistered'
  <2> USE <1>4 DEF controller_layer_sync
  <2>1. CASE add
    BY <2>1, AddKeepsSubscribers DEF SyncAddLayer
  <2>2. CASE ~add
    BY <2>2, SyncRemoveKeepsSubscribers
  <2> QED BY <2>1, <2>2
<1>5. ASSUME NEW s \in Surfaces,
             controller_surface_get(c, s) \/ controller_set_surface_type(c, s)
      PROVE  SubscribersRegistered'
  BY <1>5, KeepSubscribers DEF controller_surface_get, controller_set_surface_type,
                               OnIviSurface, CrashFor, notis
<1>6. ASSUME NEW l \in Layers,
             controller_layer_get(c, l) \/ controller_create_layout_layer(c, l)
      PROVE  SubscribersRegistered'
  BY <1>6, KeepSubscribers
     DEF controller_layer_get, controller_create_layout_layer, notis
<1>7. ASSUME NEW l \in Layers, controller_destroy_layout_layer(c, l)
      PROVE  SubscribersRegistered'
  <2>1. /\ Unlink(notification_list[l]) /\ notification_list[l] \subseteq Notifs
        /\ wants' = [d \in Controllers |-> wants[d] \ {l}]
    BY <1>7 DEF TypeOK, controller_destroy_layout_layer, Forget
  <2>2. ASSUME NEW d \in Controllers, NEW o \in wants'[d],
               NEW n \in notification_list[o] \cap notification_list[l]
        PROVE  FALSE
    BY <2>1, <2>2 DEF TypeOK, NotificationsSound, ObjectListsSound
  <2> QED BY <2>1, <2>2, UnlinkKeepsSubscribers
<1>8. CASE controller_commit_changes(c)
  BY <1>8, KeepSubscribers DEF controller_commit_changes, notis
<1> QED BY <1>1, <1>2, <1>3, <1>4, <1>5, <1>6, <1>7, <1>8 DEF ControllerStep

LEMMA SubscribersNext ==
    TypeOK /\ SurfacesOwned /\ NotificationsSound /\ SubscribersRegistered /\ [Next]_vars
        => SubscribersRegistered'
<1>1. ASSUME SubscribersRegistered, UNCHANGED vars PROVE SubscribersRegistered'
  BY <1>1, KeepSubscribers DEF vars, notis
<1> QED BY <1>1, SubscribersSurfaceStep, SubscribersControllerStep DEF Next, Running, Crashed

\* A controller whose last sync request for a live object was SYNC_ADD has a
\* notification there, whatever the other controllers and objects did.
THEOREM SubscribersRegisteredAlways == Spec => []SubscribersRegistered
<1>1. Spec => []NotificationsSound
  BY NotificationsSoundAlways
<1> QED BY <1>1, TypedAndOwned, SubscribersInit, SubscribersNext, PTL DEF Spec

\* One step makes no object stale for a controller that wants it.
LEMMA CurrentStep ==
    TypeOK /\ SurfacesOwned /\ NotificationsSound /\ SubscribersRegistered /\ [Next]_vars
        => \A c \in Controllers : (stale'[c] \ stale[c]) \cap wants[c] = {}
<1> SUFFICES ASSUME TypeOK, SurfacesOwned, NotificationsSound, SubscribersRegistered,
                    [Next]_vars, NEW c \in Controllers, NEW o \in wants[c],
                    o \in stale'[c], o \notin stale[c]
             PROVE  FALSE
  OBVIOUS
<1>1. c \in list_controller /\ Registered(c, o)
  BY WantsAreListed DEF SubscribersRegistered
<1>2. ASSUME NEW P, PropsSent(P) PROVE FALSE
  BY <1>1, <1>2 DEF PropsSent
<1>3. ASSUME NEW s \in Surfaces, SurfaceStep(s) PROVE FALSE
  <2>1. CASE surface_event_create(s)
    <3>1. PICK id \in Ids \cup {NoId} : create_surface(s, id)
      BY <2>1 DEF surface_event_create
    <3> QED BY <1>2, <3>1 DEF create_surface
  <2>2. CASE surface_event_remove(s)
    BY <2>2 DEF surface_event_remove, Forget, CrashFor, told
  <2>3. CASE surface_event_configure(s)
    BY <1>2, <2>3
       DEF surface_event_configure, BackgroundConfigured, CrashFor, vars, told
  <2> QED BY <1>3, <2>1, <2>2, <2>3 DEF SurfaceStep
<1>4. ASSUME NEW d \in Controllers, ControllerStep(d) PROVE FALSE
  <2>1. CASE bind_ivi_controller(d)
    BY <1>1, <2>1 DEF bind_ivi_controller, TypeOK
  <2>2. CASE unbind_resource_controller(d)
    BY <2>2 DEF unbind_resource_controller, TypeOK
  <2>3. ASSUME NEW l \in Layers, controller_create_layout_layer(d, l) PROVE FALSE
    BY <1>2, <2>3 DEF controller_create_layout_layer
  <2>4. ASSUME NEW s \in Surfaces, NEW add \in BOOLEAN,
               \/ controller_surface_sync(d, s, add) \/ controller_surface_get(d, s)
               \/ controller_set_surface_type(d, s)
        PROVE  FALSE
    BY <2>4 DEF controller_surface_sync, controller_surface_get,
                controller_set_surface_type, OnIviSurface, CrashFor, told, TypeOK
  <2>5. ASSUME NEW l \in Layers, NEW add \in BOOLEAN,
               \/ controller_layer_sync(d, l, add) \/ controller_layer_get(d, l)
               \/ controller_destroy_layout_layer(d, l)
        PROVE  FALSE
    <3>1. CASE controller_layer_sync(d, l, add)
      BY <3>1 DEF controller_layer_sync, told
    <3>2. CASE controller_layer_get(d, l)
      BY <3>2 DEF controller_layer_get, TypeOK
    <3>3. CASE controller_destroy_layout_layer(d, l)
      BY <3>3 DEF controller_destroy_layout_layer, Forget
    <3> QED BY <2>5, <3>1, <3>2, <3>3
  <2>6. CASE controller_commit_changes(d)
    BY <1>2, <2>6 DEF controller_commit_changes
  <2> QED BY <1>4, <2>1, <2>2, <2>3, <2>4, <2>5, <2>6 DEF ControllerStep
<1>5. CASE UNCHANGED vars
  BY <1>5 DEF vars, told
<1> QED BY <1>3, <1>4, <1>5 DEF Next, Running, Crashed

\* A change of an object reaches every controller that asked to be kept in
\* sync with it.
THEOREM SubscribersStayCurrentAlways == Spec => SubscribersStayCurrent
<1>1. Spec => []SubscribersRegistered
  BY SubscribersRegisteredAlways
<1>2. Spec => []NotificationsSound
  BY NotificationsSoundAlways
<1> QED BY <1>1, <1>2, TypedAndOwned, CurrentStep, PTL DEF Spec, SubscribersStayCurrent

-----------------------------------------------------------------------------
(* What the clients are told.                                              *)

LEMMA AnnouncedInit == Init => AnnouncedAreListed
BY DEF Init, AnnouncedAreListed

LEMMA AnnouncedNext ==
    TypeOK /\ SurfacesOwned /\ IdsUnique /\ AnnouncedAreListed /\ [Next]_vars
        => AnnouncedAreListed'
<1> SUFFICES ASSUME TypeOK, SurfacesOwned, IdsUnique, AnnouncedAreListed, [Next]_vars
             PROVE  AnnouncedAreListed'
  OBVIOUS
<1>1. CASE /\ UNCHANGED <<known_surfaces, list_surface, surface_id, known_layers>>
           /\ UNCHANGED <<list_layer, list_controller>>
  BY <1>1 DEF AnnouncedAreListed
<1>2. ASSUME NEW s \in Surfaces, surface_event_create(s) PROVE AnnouncedAreListed'
  <2> PICK id \in Ids \cup {NoId} :
        /\ surface_id' = [surface_id EXCEPT ![s] = id] /\ create_surface(s, id)
    BY <1>2 DEF surface_event_create
  <2>0. /\ UNCHANGED <<list_layer, list_controller, known_layers>>
        /\ s \notin list_surface
        /\ surface_id'[s] = id /\ \A t \in Surfaces \ {s} : surface_id'[t] = surface_id[t]
    BY <1>2 DEF surface_event_create, SurfacesOwned, TypeOK
  <2>1. CASE id # bkgnd_surface_id
    <3>1. /\ list_surface' = list_surface \cup {s}
          /\ \A c \in list_controller : known_surfaces'[c] = known_surfaces[c] \cup {id}
      BY <2>1 DEF create_surface, TellSurface, TypeOK
    <3>2. {surface_id'[t] : t \in list_surface'} = {surface_id[t] : t \in list_surface} \cup {id}
      BY <2>0, <3>1 DEF TypeOK
    <3> QED BY <2>0, <3>1, <3>2 DEF AnnouncedAreListed
  <2>2. CASE id = bkgnd_surface_id
    <3>1. UNCHANGED <<list_surface, known_surfaces>>
      BY <2>2 DEF create_surface
    <3>2. {surface_id'[t] : t \in list_surface'} = {surface_id[t] : t \in list_surface}
      BY <2>0, <3>1 DEF TypeOK
    <3> QED BY <2>0, <3>1, <3>2 DEF AnnouncedAreListed
  <2> QED BY <2>1, <2>2
<1>0. ASSUME NEW s \in Surfaces, CrashFor(s) PROVE AnnouncedAreListed'
  BY <1>0, <1>1 DEF CrashFor, shell, told
<1>3. ASSUME NEW s \in Surfaces, surface_event_remove(s), ~CrashFor(s)
      PROVE  AnnouncedAreListed'
  <2>0. /\ UNCHANGED <<list_layer, list_controller, known_layers>>
        /\ \A t \in Surfaces \ {s} : surface_id'[t] = surface_id[t]
    BY <1>3 DEF surface_event_remove, TypeOK
  <2>1. CASE s \in list_surface
    <3>1. /\ list_surface' = list_surface \ {s}
          /\ \A c \in list_controller :
                known_surfaces'[c] = known_surfaces[c] \ {surface_id[s]}
      BY <1>3, <2>1 DEF surface_event_remove, remove_ivi_surface, TellSurface, TypeOK
    <3>2. {surface_id'[t] : t \in list_surface'} = {surface_id[t] : t \in list_surface \ {s}}
      BY <2>0, <3>1 DEF TypeOK
    <3>3. \A t \in list_surface \ {s} :
              surface_id[t] # NoId => surface_id[t] \in Ids /\ surface_id[t] # surface_id[s]
      BY <2>1 DEF IdsUnique, SurfacesOwned, Live, TypeOK
    <3>4. {surface_id[t] : t \in list_surface \ {s}} \ {NoId}
             = ({surface_id[t] : t \in list_surface} \ {NoId}) \ {surface_id[s]}
      BY <2>1, <3>3
    <3> QED BY <2>0, <3>1, <3>2, <3>4 DEF AnnouncedAreListed
  <2>2. CASE s \notin list_surface
    <3>1. UNCHANGED <<list_surface, known_surfaces>>
      BY <1>3, <2>2 DEF surface_event_remove, remove_bkgnd_surface
    <3>2. {surface_id'[t] : t \in list_surface'} = {surface_id[t] : t \in list_surface}
      BY <2>0, <2>2, <3>1 DEF TypeOK
    <3> QED BY <2>0, <3>1, <3>2 DEF AnnouncedAreListed
  <2> QED BY <2>1, <2>2
<1>4. ASSUME NEW s \in Surfaces, surface_event_configure(s) PROVE AnnouncedAreListed'
  BY <1>0, <1>1, <1>4
     DEF surface_event_configure, BackgroundConfigured, vars, shell, told
<1>6. ASSUME NEW c \in Controllers, ControllerStep(c) PROVE AnnouncedAreListed'
  <2>1. CASE bind_ivi_controller(c)
    BY <2>1 DEF bind_ivi_controller, AnnouncedAreListed, TypeOK, shell
  <2>2. CASE unbind_resource_controller(c)
    BY <2>2 DEF unbind_resource_controller, AnnouncedAreListed, TypeOK, shell
  <2>3. ASSUME NEW l \in Layers, NEW created \in BOOLEAN, TellLayer(l, created),
               list_layer' = IF created THEN list_layer \cup {l} ELSE list_layer \ {l},
               UNCHANGED <<surface_id, list_surface, list_controller, known_surfaces>>
        PROVE  AnnouncedAreListed'
    <3>1. ASSUME NEW d \in list_controller PROVE known_layers'[d] = list_layer'
      BY <2>3 DEF TellLayer, AnnouncedAreListed, TypeOK
    <3> QED BY <2>3, <3>1 DEF AnnouncedAreListed
  <2>6. ASSUME NEW l \in Layers,
               \/ controller_create_layout_layer(c, l)
               \/ controller_destroy_layout_layer(c, l)
        PROVE  AnnouncedAreListed'
    BY <2>3, <2>6 DEF controller_create_layout_layer, controller_destroy_layout_layer,
                shell
  <2>4. ASSUME NEW s \in Surfaces, NEW add \in BOOLEAN,
               \/ controller_surface_sync(c, s, add) \/ controller_surface_get(c, s)
               \/ controller_set_surface_type(c, s)
        PROVE  AnnouncedAreListed'
    BY <1>0, <1>1, <2>4 DEF controller_surface_sync, controller_surface_get,
                            controller_set_surface_type, OnIviSurface, shell
  <2>5. ASSUME NEW l \in Layers, NEW add \in BOOLEAN,
               controller_layer_sync(c, l, add) \/ controller_layer_get(c, l)
        PROVE  AnnouncedAreListed'
    BY <1>1, <2>5 DEF controller_layer_sync, controller_layer_get, told, shell
  <2>7. CASE controller_commit_changes(c)
    BY <1>1, <2>7 DEF controller_commit_changes, shell
  <2> QED BY <1>6, <2>1, <2>2, <2>4, <2>5, <2>6, <2>7 DEF ControllerStep
<1>7. CASE UNCHANGED vars
  BY <1>1, <1>7 DEF vars, shell, told
<1> QED BY <1>0, <1>2, <1>3, <1>4, <1>6, <1>7 DEF Next, Running, Crashed, SurfaceStep

\* What a controller has been told of since it bound is what the shell lists.
THEOREM AnnouncedAreListedAlways == Spec => []AnnouncedAreListed
BY TypedAndOwned, IdsUniqueInit, IdsUniqueNext, AnnouncedInit, AnnouncedNext, PTL DEF Spec
=============================================================================
