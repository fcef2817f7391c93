------------------------------ MODULE IviShell ------------------------------
(***************************************************************************)
(* The registry of the ivi-controller module of the compositor             *)
(* (weston-ivi-shell/src/ivi-controller.c): the ivi surfaces and layers it *)
(* keeps for the layout engine, the controllers (ivi_wm resources) bound   *)
(* by clients, and the notifications that tie the two together.            *)
(*                                                                         *)
(* The compositor is single threaded: a request handler or a signal        *)
(* handler runs to its end, so each is one action.  The hazard is not      *)
(* in one handler but in the order of many: a notification is linked into  *)
(* two lists of two owners with independent lifetimes, and each of the     *)
(* four handlers that free one has to leave both lists sound.              *)
(***************************************************************************)
EXTENDS FiniteSets

CONSTANTS Surfaces,     \* layout surfaces (struct ivi_layout_surface)
          Layers,       \* layout layers, identified by their id
          Controllers,  \* ivi_wm resources, one per successful bind
          Notifs,       \* addresses calloc() may return for a notification
          Ids,          \* surface ids
          NoId,         \* IVI_INVALID_ID, which is -1 as an int32_t
          Absent        \* no such layout surface, no such pointer

ASSUME IdAssumption ==
    /\ NoId \notin Ids
    /\ Absent \notin Ids \cup {NoId} \cup Surfaces \cup Controllers

ASSUME ObjectAssumption == Surfaces \cap Layers = {}

VARIABLES
    bkgnd_surface_id,      \* shell->bkgnd_surface_id; NoId unless weston.ini sets it
    bkgnd_layer,           \* shell->bkgnd_layer was initialised: there is an ivi client
    surface_id,            \* id of each live layout surface, else Absent
    ivisurfs,              \* surfaces that own an allocated struct ivisurface
    list_surface,          \* shell->list_surface
    bkgnd_surface,         \* shell->bkgnd_surface
    bkgnd_view,            \* the surface shell->bkgnd_view shows
    list_layer,            \* shell->list_layer
    list_controller,       \* shell->list_controller
    surface_notifications, \* ctrl->surface_notifications (link)
    layer_notifications,   \* ctrl->layer_notifications (link)
    notification_list,     \* notification_list of a surface or layer (layout_link)
    resource,              \* noti->resource; Absent: the address is free
    fault,                 \* the surface whose handler dereferenced a NULL pointer
    shared,                \* two live surfaces had the background's id at one time
    known_surfaces,        \* surface ids a controller was told of and not told destroyed
    known_layers,          \* layer ids, likewise
    stale,                 \* objects whose last change a controller was not told
    wants                  \* objects whose last sync request of a controller was SYNC_ADD

config == <<bkgnd_surface_id, bkgnd_layer>>
shell  == <<config, surface_id, ivisurfs, list_surface, bkgnd_surface, bkgnd_view, shared>>
notis  == <<surface_notifications, layer_notifications, notification_list, resource>>
told   == <<known_surfaces, known_layers, stale>>
vars   == <<shell, list_layer, list_controller, notis, fault, told, wants>>

Objects == Surfaces \cup Layers

\* The surfaces the layout engine keeps, and the one it finds under an id.
Live == {s \in Surfaces : surface_id[s] # Absent}
SurfacesWithId(id) == {s \in Surfaces : surface_id[s] = id}

\* A controller is told of changes of o when one of o's notifications is its own.
Registered(c, o) == \E n \in notification_list[o] : resource[n] = c

Init ==
    /\ bkgnd_surface_id \in Ids \cup {NoId}
    /\ bkgnd_layer \in BOOLEAN
    /\ surface_id = [s \in Surfaces |-> Absent]
    /\ ivisurfs = {}
    /\ list_surface = {}
    /\ bkgnd_surface = Absent
    /\ bkgnd_view = Absent
    /\ list_layer = {}
    /\ list_controller = {}
    /\ surface_notifications = [c \in Controllers |-> {}]
    /\ layer_notifications = [c \in Controllers |-> {}]
    /\ notification_list = [o \in Objects |-> {}]
    /\ resource = [n \in Notifs |-> Absent]
    /\ fault = Absent
    /\ shared = FALSE
    /\ known_surfaces = [c \in Controllers |-> {}]
    /\ known_layers = [c \in Controllers |-> {}]
    /\ stale = [c \in Controllers |-> {}]
    /\ wants = [c \in Controllers |-> {}]

-----------------------------------------------------------------------------
(* Notifications.                                                          *)

\* wl_list_remove of both links and free, for every notification of a set.
Unlink(N) ==
    /\ surface_notifications' = [c \in Controllers |-> surface_notifications[c] \ N]
    /\ layer_notifications' = [c \in Controllers |-> layer_notifications[c] \ N]
    /\ notification_list' = [o \in Objects |-> notification_list[o] \ N]
    /\ resource' = [n \in Notifs |-> IF n \in N THEN Absent ELSE resource[n]]

\* Mutated SyncAddSurface: noti->resource set to the wrong owner.
SyncAddSurfaceSwapped(c, s) ==
    \E n \in Notifs :
        /\ resource[n] = Absent
        /\ resource' = [resource EXCEPT ![n] = s]
        /\ surface_notifications' = [surface_notifications EXCEPT ![c] = @ \cup {n}]
        /\ notification_list' = [notification_list EXCEPT ![s] = @ \cup {n}]
        /\ UNCHANGED layer_notifications

\* IVI_WM_SYNC_ADD: a new notification whatever the controller has already.
\* When calloc fails (no address is free) the client gets a fatal no-memory
\* error and nothing else changes.
SyncAddSurface(c, s) ==
    \E n \in Notifs :
        /\ resource[n] = Absent
        /\ resource' = [resource EXCEPT ![n] = c]
        /\ surface_notifications' = [surface_notifications EXCEPT ![c] = @ \cup {n}]
        /\ notification_list' = [notification_list EXCEPT ![s] = @ \cup {n}]
        /\ UNCHANGED layer_notifications

SyncAddLayer(c, l) ==
    \E n \in Notifs :
        /\ resource[n] = Absent
        /\ resource' = [resource EXCEPT ![n] = c]
        /\ layer_notifications' = [layer_notifications EXCEPT ![c] = @ \cup {n}]
        /\ notification_list' = [notification_list EXCEPT ![l] = @ \cup {n}]
        /\ UNCHANGED surface_notifications

\* Mutated SyncRemove: the resource of the notification is not compared.
SyncRemoveAny(c, o) ==
    IF notification_list[o] # {}
    THEN \E n \in notification_list[o] : Unlink({n})
    ELSE UNCHANGED notis

\* IVI_WM_SYNC_REMOVE: the first notification of the object that is the
\* controller's, and no other.
SyncRemove(c, o) ==
    IF Registered(c, o)
    THEN \E n \in notification_list[o] : resource[n] = c /\ Unlink({n})
    ELSE UNCHANGED notis

-----------------------------------------------------------------------------
(* Signals of the layout engine.                                           *)

\* ivi_wm_send_surface_created / _destroyed to every bound controller.
TellSurface(id, created) ==
    known_surfaces' = [c \in Controllers |->
        IF c \notin list_controller THEN known_surfaces[c]
        ELSE IF created THEN known_surfaces[c] \cup {id} ELSE known_surfaces[c] \ {id}]

TellLayer(l, created) ==
    known_layers' = [c \in Controllers |->
        IF c \notin list_controller THEN known_layers[c]
        ELSE IF created THEN known_layers[c] \cup {l} ELSE known_layers[c] \ {l}]

\* Mutated PropsSent: only one notification of each list is served.
PropsSentFirst(P) ==
    \E first \in [P -> Notifs] :
        stale' = [c \in Controllers |->
            IF c \in list_controller
            THEN stale[c] \cup {o \in P : \/ first[o] \notin notification_list[o]
                                        \/ resource[first[o]] # c}
            ELSE stale[c]]

\* The properties of the objects P changed: send_surface_prop and
\* send_layer_prop send them along every notification of the object.
PropsSent(P) ==
    stale' = [c \in Controllers |->
        IF c \in list_controller
        THEN stale[c] \cup {o \in P : ~Registered(c, o)}
        ELSE stale[c]]

\* o is gone for every controller.
Forget(o) ==
    /\ stale' = [c \in Controllers |-> stale[c] \ {o}]
    /\ wants' = [c \in Controllers |-> wants[c] \ {o}]

\* A surface that is not the background is listed and announced; the
\* background surface is only remembered.
create_surface(s, id) ==
    /\ ivisurfs' = ivisurfs \cup {s}
    /\ IF id # bkgnd_surface_id
       THEN /\ list_surface' = list_surface \cup {s}
            /\ TellSurface(id, TRUE)
            /\ PropsSent({s})
            /\ UNCHANGED bkgnd_surface
       ELSE /\ bkgnd_surface' = s
            /\ UNCHANGED <<list_surface, known_surfaces, stale>>
    /\ shared' = (shared \/ (id = bkgnd_surface_id /\ SurfacesWithId(id) # {}))

\* A surface appears in the layout engine.  An ivi application names an unused
\* id.  A desktop surface comes without one: the id agent is asked for an id
\* and may leave it without.  Without a background id in weston.ini every
\* surface without an id has the one of the background.
surface_event_create(s) ==
    /\ s \notin Live
    /\ \E id \in Ids \cup {NoId} :
        /\ id # NoId => SurfacesWithId(id) = {}
        /\ surface_id' = [surface_id EXCEPT ![s] = id]
        /\ create_surface(s, id)
    /\ UNCHANGED <<config, bkgnd_view, list_layer, list_controller, notis, fault,
                   known_layers, wants>>

remove_ivi_surface(s) ==
    /\ TellSurface(surface_id[s], FALSE)
    /\ list_surface' = list_surface \ {s}
    /\ ivisurfs' = ivisurfs \ {s}
    /\ Unlink(notification_list[s])
    /\ UNCHANGED <<bkgnd_surface, bkgnd_view>>

\* Mutated remove_bkgnd_surface: shell->bkgnd_surface is not reset.
remove_bkgnd_surface_kept ==
    /\ bkgnd_view' = Absent
    /\ ivisurfs' = ivisurfs \ {bkgnd_surface}
    /\ UNCHANGED <<bkgnd_surface, notis, list_surface, known_surfaces>>

\* Frees the struct shell->bkgnd_surface points to, whichever surface it is of.
remove_bkgnd_surface ==
    /\ bkgnd_view' = Absent
    /\ bkgnd_surface' = Absent
    /\ ivisurfs' = ivisurfs \ {bkgnd_surface}
    /\ Unlink(notification_list[bkgnd_surface])
    /\ UNCHANGED <<list_surface, known_surfaces>>

\* A handler dereferenced NULL for s: the compositor has crashed.
CrashFor(s) ==
    /\ fault' = s
    /\ UNCHANGED <<shell, list_layer, list_controller, notis, told, wants>>

IsBackground(s) == s \notin list_surface /\ surface_id[s] = bkgnd_surface_id

\* remove_bkgnd_surface is called with shell->bkgnd_surface, NULL or not.
surface_event_remove(s) ==
    /\ s \in Live
    /\ IF IsBackground(s) /\ bkgnd_surface = Absent
       THEN CrashFor(s)
       ELSE /\ IF s \in list_surface THEN remove_ivi_surface(s)
               ELSE IF IsBackground(s) THEN remove_bkgnd_surface
               ELSE UNCHANGED <<ivisurfs, list_surface, bkgnd_surface, bkgnd_view,
                                notis, known_surfaces>>
            /\ surface_id' = [surface_id EXCEPT ![s] = Absent]
            /\ Forget(s)
            /\ UNCHANGED <<config, shared, fault, list_layer, list_controller,
                           known_layers>>

\* The size of a background surface changed: the first such event makes its
\* view and inserts it in the layer of the background.
BackgroundConfigured(s) ==
    IF bkgnd_view # Absent THEN UNCHANGED vars
    ELSE IF ~bkgnd_layer THEN CrashFor(s)
    ELSE /\ bkgnd_view' = s
         /\ UNCHANGED <<config, surface_id, ivisurfs, list_surface, bkgnd_surface,
                        shared, list_layer, list_controller, notis, fault, told, wants>>

\* The content of a surface got another size.  Every notification of a listed
\* surface sends the size to its controller.  A desktop surface is resized with
\* it, and the commit this takes applies what the controllers have pending.
surface_event_configure(s) ==
    /\ s \in Live
    /\ IF surface_id[s] = bkgnd_surface_id
       THEN BackgroundConfigured(s)
       ELSE /\ IF s \in list_surface
               THEN \E P \in SUBSET (list_surface \cup list_layer) : PropsSent({s} \cup P)
               ELSE UNCHANGED stale
            /\ UNCHANGED <<shell, list_layer, list_controller, notis, fault,
                           known_surfaces, known_layers, wants>>

-----------------------------------------------------------------------------
(* Requests of the controllers.                                            *)

\* Mutated bind_ivi_controller: only the surfaces are announced.
bind_ivi_controller_no_layers(c) ==
    /\ c \notin list_controller
    /\ list_controller' = list_controller \cup {c}
    /\ known_surfaces' = [known_surfaces EXCEPT ![c] =
                             {surface_id[s] : s \in list_surface}]
    /\ stale' = [stale EXCEPT ![c] = list_surface \cup list_layer]
    /\ UNCHANGED <<shell, list_layer, notis, fault, known_layers, wants>>

bind_ivi_controller(c) ==
    /\ c \notin list_controller
    /\ list_controller' = list_controller \cup {c}
    /\ surface_notifications' = [surface_notifications EXCEPT ![c] = {}]
    /\ layer_notifications' = [layer_notifications EXCEPT ![c] = {}]
    /\ known_surfaces' = [known_surfaces EXCEPT ![c] =
                             {surface_id[s] : s \in list_surface}]
    /\ known_layers' = [known_layers EXCEPT ![c] = list_layer]
    /\ stale' = [stale EXCEPT ![c] = list_surface \cup list_layer]
    /\ UNCHANGED <<shell, list_layer, notification_list, resource, fault, wants>>

\* Mutated unbind_resource_controller: layer_notifications is not cleared.
unbind_resource_controller_half(c) ==
    /\ c \in list_controller
    /\ list_controller' = list_controller \ {c}
    /\ Unlink(surface_notifications[c])
    /\ known_surfaces' = [known_surfaces EXCEPT ![c] = {}]
    /\ known_layers' = [known_layers EXCEPT ![c] = {}]
    /\ stale' = [stale EXCEPT ![c] = {}]
    /\ wants' = [wants EXCEPT ![c] = {}]
    /\ UNCHANGED <<shell, list_layer, fault>>

\* The destructor of the resource: the client left, or was disconnected.
unbind_resource_controller(c) ==
    /\ c \in list_controller
    /\ list_controller' = list_controller \ {c}
    /\ Unlink(layer_notifications[c] \cup surface_notifications[c])
    /\ known_surfaces' = [known_surfaces EXCEPT ![c] = {}]
    /\ known_layers' = [known_layers EXCEPT ![c] = {}]
    /\ stale' = [stale EXCEPT ![c] = {}]
    /\ wants' = [wants EXCEPT ![c] = {}]
    /\ UNCHANGED <<shell, list_layer, fault>>

\* A request names any id the layout engine finds, and goes on with the struct
\* ivisurface get_surface finds in list_surface, NULL for a background surface.
OnIviSurface(s, action) ==
    /\ s \in Live
    /\ IF s \in list_surface
       THEN action /\ UNCHANGED <<shell, list_layer, list_controller, fault,
                                  known_surfaces, known_layers>>
       ELSE CrashFor(s)

controller_surface_sync(c, s, add) ==
    /\ c \in list_controller
    /\ add => \E n \in Notifs : resource[n] = Absent     \* calloc comes first
    /\ OnIviSurface(s, IF add
           THEN /\ SyncAddSurface(c, s)
                /\ wants' = [wants EXCEPT ![c] = @ \cup {s}]
                /\ UNCHANGED stale
           ELSE /\ SyncRemove(c, s)
                /\ wants' = [wants EXCEPT ![c] = @ \ {s}]
                /\ UNCHANGED stale)

\* (What the type is for is modelled in IviScene.)
controller_set_surface_type(c, s) ==
    /\ c \in list_controller
    /\ OnIviSurface(s, UNCHANGED <<notis, stale, wants>>)

controller_layer_sync(c, l, add) ==
    /\ c \in list_controller
    /\ l \in list_layer
    /\ IF add
       THEN /\ SyncAddLayer(c, l)
            /\ wants' = [wants EXCEPT ![c] = @ \cup {l}]
       ELSE /\ SyncRemove(c, l)
            /\ wants' = [wants EXCEPT ![c] = @ \ {l}]
    /\ UNCHANGED <<shell, list_layer, list_controller, fault, told>>

\* The layout engine applies the pending changes of every controller and emits
\* property_changed for each object that differs.
controller_commit_changes(c) ==
    /\ c \in list_controller
    /\ \E P \in SUBSET (list_surface \cup list_layer) : PropsSent(P)
    /\ UNCHANGED <<shell, list_layer, list_controller, notis, fault,
                   known_surfaces, known_layers, wants>>

\* With all the bits of "param" set the controller is told every property.
controller_surface_get(c, s) ==
    /\ c \in list_controller
    /\ OnIviSurface(s, /\ stale' = [stale EXCEPT ![c] = @ \ {s}]
                       /\ UNCHANGED <<notis, wants>>)

controller_layer_get(c, l) ==
    /\ c \in list_controller
    /\ l \in list_layer
    /\ stale' = [stale EXCEPT ![c] = @ \ {l}]
    /\ UNCHANGED <<shell, list_layer, list_controller, notis, fault,
                   known_surfaces, known_layers, wants>>

\* The layout engine emits layer_created in the request: layer_event_create.
controller_create_layout_layer(c, l) ==
    /\ c \in list_controller
    /\ l \notin list_layer
    /\ list_layer' = list_layer \cup {l}
    /\ TellLayer(l, TRUE)
    /\ PropsSent({l})
    /\ UNCHANGED <<shell, list_controller, notis, fault, known_surfaces, wants>>

\* The layout engine emits layer_removed in the request: layer_event_remove.
controller_destroy_layout_layer(c, l) ==
    /\ c \in list_controller
    /\ l \in list_layer
    /\ Unlink(notification_list[l])
    /\ list_layer' = list_layer \ {l}
    /\ TellLayer(l, FALSE)
    /\ Forget(l)
    /\ UNCHANGED <<shell, list_controller, fault, known_surfaces>>

SurfaceStep(s) ==
    \/ surface_event_create(s)
    \/ surface_event_remove(s)
    \/ surface_event_configure(s)

ControllerStep(c) ==
    \/ bind_ivi_controller(c)
    \/ unbind_resource_controller(c)
    \/ controller_commit_changes(c)
    \/ \E s \in Surfaces, add \in BOOLEAN : controller_surface_sync(c, s, add)
    \/ \E s \in Surfaces : \/ controller_surface_get(c, s)
                           \/ controller_set_surface_type(c, s)
    \/ \E l \in Layers, add \in BOOLEAN : controller_layer_sync(c, l, add)
    \/ \E l \in Layers : \/ controller_layer_get(c, l)
                         \/ controller_create_layout_layer(c, l)
                         \/ controller_destroy_layout_layer(c, l)

\* Nothing happens after a crash.
Crashed == fault # Absent /\ UNCHANGED vars

Running ==
    /\ fault = Absent
    /\ \/ \E s \in Surfaces : SurfaceStep(s)
       \/ \E c \in Controllers : ControllerStep(c)

Next == Running \/ Crashed

Spec == Init /\ [][Next]_vars

-----------------------------------------------------------------------------
(* Properties.                                                             *)

\* Every variable holds a value of its type; the history of the clients is
\* empty for a controller that is not bound.
TypeOK ==
    /\ bkgnd_surface_id \in Ids \cup {NoId}
    /\ bkgnd_layer \in BOOLEAN
    /\ surface_id \in [Surfaces -> Ids \cup {NoId, Absent}]
    /\ ivisurfs \subseteq Surfaces
    /\ list_surface \subseteq Surfaces
    /\ bkgnd_surface \in Surfaces \cup {Absent}
    /\ bkgnd_view \in Surfaces \cup {Absent}
    /\ list_layer \subseteq Layers
    /\ list_controller \subseteq Controllers
    /\ surface_notifications \in [Controllers -> SUBSET Notifs]
    /\ layer_notifications \in [Controllers -> SUBSET Notifs]
    /\ notification_list \in [Objects -> SUBSET Notifs]
    /\ resource \in [Notifs -> Controllers \cup {Absent}]
    /\ fault \in Surfaces \cup {Absent}
    /\ shared \in BOOLEAN
    /\ known_surfaces \in [Controllers -> SUBSET (Ids \cup {NoId})]
    /\ known_layers \in [Controllers -> SUBSET Layers]
    /\ stale \in [Controllers -> SUBSET Objects]
    /\ wants \in [Controllers -> SUBSET Objects]

\* A notification in the list of an object is allocated, its controller is
\* bound, the object is still registered, and it is in no other object's list:
\* send_surface_prop and send_layer_prop never follow a freed pointer.
ObjectListsSound ==
    \A o \in Objects : \A n \in notification_list[o] :
        /\ resource[n] \in list_controller
        /\ o \in list_surface \cup list_layer
        /\ \A p \in Objects : n \in notification_list[p] => p = o

\* The list of a controller and the lists of the objects agree: a controller
\* holds exactly its own notifications of surfaces in one list and of layers in
\* the other, and no allocated notification is outside of them.
ControllerListsSound ==
    /\ \A c \in Controllers, n \in Notifs :
        /\ n \in surface_notifications[c] <=>
              resource[n] = c /\ \E s \in Surfaces : n \in notification_list[s]
        /\ n \in layer_notifications[c] <=>
              resource[n] = c /\ \E l \in Layers : n \in notification_list[l]
    /\ \A n \in Notifs :
        resource[n] # Absent => \E o \in Objects : n \in notification_list[o]

\* The double bookkeeping of struct notification, whose two links are removed
\* by clear_notification_list, the two sync handlers, layer_event_remove and
\* remove_common_surface.
NotificationsSound == ObjectListsSound /\ ControllerListsSound

\* A controller whose last sync request for a live object was SYNC_ADD has a
\* notification there, whatever other controllers and objects did since.
SubscribersRegistered ==
    \A c \in Controllers : \A o \in wants[c] : Registered(c, o)

\* What a client was told of by created and destroyed events since it bound is
\* what the shell lists: bind_ivi_controller replays the registry, and
\* create_surface, remove_ivi_surface, create_layer and layer_event_remove keep
\* it up to date.  (Surfaces without an id share one, so it says nothing there.)
AnnouncedAreListed ==
    \A c \in list_controller :
        /\ known_surfaces[c] \ {NoId} = {surface_id[s] : s \in list_surface} \ {NoId}
        /\ known_layers[c] = list_layer

\* Of the live surfaces exactly those with another id than the background's are
\* listed, each with its struct ivisurface; bkgnd_surface and the view of the
\* background are of live surfaces with that id, never of one that is gone.  As
\* long as no two surfaces had the background's id at one time (several can when
\* it is left at the default, IVI_INVALID_ID), the shell owns one struct per live
\* surface and bkgnd_surface and the view are the background's.
\* No handler dereferences NULL for another surface than one with the
\* background's id; and unless two had it, for no other than the background
\* surface itself, whose struct a request does not find in list_surface and
\* whose view has no layer without an ivi client.
SurfacesOwned ==
    /\ list_surface = {s \in Live : surface_id[s] # bkgnd_surface_id}
    /\ list_surface \cup ({bkgnd_surface} \ {Absent}) \subseteq ivisurfs
    /\ \A s \in {bkgnd_surface, bkgnd_view, fault} \ {Absent} :
            surface_id[s] = bkgnd_surface_id
    /\ ~shared =>
        /\ ivisurfs = Live
        /\ SurfacesWithId(bkgnd_surface_id) =
               IF bkgnd_surface = Absent THEN {} ELSE {bkgnd_surface}
        /\ bkgnd_view \in {Absent, bkgnd_surface}
        /\ fault \in {Absent, bkgnd_surface}

\* A change of an object reaches every controller that has asked to be kept
\* in sync with it: no step makes a subscribed object stale for its subscriber.
SubscribersStayCurrent ==
    [][\A c \in Controllers : (stale'[c] \ stale[c]) \cap wants[c] = {}]_vars
=============================================================================
