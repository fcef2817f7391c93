------------------------------ MODULE IviScene ------------------------------
(***************************************************************************)
(* Changing the scene: the set_*, layer_* and commit requests of the       *)
(* ivi-controller module (weston-ivi-shell/src/ivi-controller.c) and the   *)
(* calls of ilmControl that send them (ilm_control_wayland_platform.c).    *)
(*                                                                         *)
(* Every client has a connection: requests wait in wire until the          *)
(* compositor handles them, one at a time and in any interleaving with     *)
(* those of other clients; its answers wait in inbox until the client      *)
(* dispatches them.  Setters only change what is pending in the layout     *)
(* engine, for all clients together; any client's commit, and the resize   *)
(* of a desktop surface, shows all of it.                                  *)
(*                                                                         *)
(* The layout engine is external: cur and pend are its committed and       *)
(* pending properties, and a field is reported when a commit changes it.   *)
(***************************************************************************)
EXTENDS Integers, Sequences, FiniteSets

CONSTANTS Clients,    \* ivi_wm clients; each has a notification on every object
          Surfaces, Layers,
          Values,     \* coordinates, lengths, opacities: 0 is the initial one
          Changes,    \* the objects and field values clients ask for
          Params,     \* the parameters of their get requests
          Orders,     \* the render orders clients ask for
          Nothing,    \* no value
          MaxCalls,   \* bound: calls of all clients that send a request
          MaxEvents   \* bound: objects that come, go or change their size

Objects == Surfaces \cup Layers
Keep == -1
Scalars == {"opacity", "visibility"} \X {"value"}
Source == {"source"} \X {"pos", "size"}
Destination == {"destination"} \X {"pos", "size"}
Fields == Scalars \cup Source \cup Destination
BufferSize == <<"buffer", "size">>     \* width and height of the weston_surface
RenderOrder == <<"render", "order">>

FieldValues == (UNION {[{f} -> Values] : f \in Scalars})
                 \cup [Source -> Values \cup {Keep}]
                 \cup [Destination -> Values \cup {Keep}]

ASSUME SceneAssumption ==
    /\ Surfaces \cap Layers = {}
    /\ 0 \in Values /\ Values \subseteq Nat
    /\ Nothing \notin Values
    /\ \A c \in Changes : c.obj \in Objects /\ c.change \in FieldValues
    /\ \A p \in Params : p \subseteq {"opacity", "visibility", "size"}
    /\ Orders \subseteq Seq(Surfaces)
    /\ MaxCalls \in Nat /\ MaxEvents \in Nat

VARIABLES
    objects,   \* the surfaces and layers there are
    cur, pend, \* their committed and pending look
    type,      \* ivisurf->type
    size,      \* size of the weston_surface, 0: no content yet
    told,      \* what a client was last told of a field of an object
    wire,      \* requests on their way to the compositor
    inbox,     \* answers on their way to the client
    call,      \* the call of the library that waits for a roundtrip
    flag,      \* ctx->wl.error_flag
    refused,   \* the first error sent since the last ilm_getError returned
    wish,      \* what a client asked for and nobody changed since
    settled,   \* the last call of the client was ilm_commitChanges
    calls, events

scene == <<objects, cur, pend, type, size, told>>
conn  == <<wire, inbox, call>>
hist  == <<refused, wish, settled>>
vars  == <<scene, conn, flag, hist, calls, events>>

Look(prop, order) == [prop |-> prop, order |-> order]
Blank == Look([f \in Fields |-> 0], <<>>)
NothingAsked == [f \in Fields \cup {RenderOrder} |-> Nothing]
NothingTold == [f \in Fields \cup {BufferSize} |-> Nothing]

Init ==
    /\ objects \in SUBSET Objects
    /\ cur = [o \in Objects |-> Blank]
    /\ pend = cur
    /\ type = [s \in Surfaces |-> "restricted"]
    /\ size = [s \in Surfaces |-> 0]
    /\ told = [c \in Clients |-> [o \in Objects |-> NothingTold]]
    /\ wire = [c \in Clients |-> <<>>]
    /\ inbox = [c \in Clients |-> <<>>]
    /\ call = [c \in Clients |-> "none"]
    /\ flag = [c \in Clients |-> "success"]
    /\ refused = [c \in Clients |-> "success"]
    /\ wish = [c \in Clients |-> [o \in Objects |-> NothingAsked]]
    /\ settled = [c \in Clients |-> FALSE]
    /\ calls = 0
    /\ events = 0

-----------------------------------------------------------------------------
(* The client: calls of ilmControl.  A call that does not synchronise      *)
(* appends its requests and returns.                                       *)

Send(c, requests) ==
    /\ call[c] = "none"
    /\ calls < MaxCalls
    /\ calls' = calls + 1
    /\ wire' = [wire EXCEPT ![c] = @ \o requests]
    /\ UNCHANGED <<scene, inbox, flag, refused, events>>

\* What c wants of o from now on: Nothing where it asks to keep the value.
Remember(c, o, ch) ==
    wish' = [wish EXCEPT ![c][o] =
                [f \in DOMAIN @ |-> IF f \notin DOMAIN ch THEN @[f]
                                    ELSE IF ch[f] = Keep THEN Nothing ELSE ch[f]]]

Setter(c, Objs, Names) ==
    \E a \in Changes :
        /\ a.obj \in Objs /\ {f[1] : f \in DOMAIN a.change} \subseteq Names
        /\ Send(c, <<[op |-> "set", obj |-> a.obj, change |-> a.change]>>)
        /\ Remember(c, a.obj, a.change)
        /\ settled' = [settled EXCEPT ![c] = FALSE]
        /\ UNCHANGED call

\* ilm_surfaceSetVisibility, ilm_surfaceSetOpacity
ilm_surfaceSetScalar(c) == Setter(c, Surfaces, {"visibility", "opacity"})
ilm_surfaceSetSourceRectangle(c) == Setter(c, Surfaces, {"source"})
ilm_surfaceSetDestinationRectangle(c) == Setter(c, Surfaces, {"destination"})
ilm_layerSetVisibility(c) == Setter(c, Layers, {"visibility"})
ilm_layerSetOpacity(c) == Setter(c, Layers, {"opacity"})
\* ilm_layerSetSourceRectangle, ilm_layerSetDestinationRectangle
ilm_layerSetRectangle(c) == Setter(c, Layers, {"source", "destination"})

\* The surfaces are added one by one after the layer is cleared; nothing
\* keeps these requests together on the way.
ilm_layerSetRenderOrder(c) ==
    \E l \in Layers, q \in Orders :
        /\ Send(c, <<[op |-> "clear", obj |-> l]>> \o
                   [i \in DOMAIN q |-> [op |-> "add", obj |-> l, surf |-> q[i]]])
        /\ wish' = [wish EXCEPT ![c][l][RenderOrder] = q]
        /\ settled' = [settled EXCEPT ![c] = FALSE]
        /\ UNCHANGED call

\* ilm_layerAddSurface, ilm_layerRemoveSurface
ilm_layerAddRemoveSurface(c) ==
    \E l \in Layers, s \in Surfaces, op \in {"add", "remove"} :
        /\ Send(c, <<[op |-> op, obj |-> l, surf |-> s]>>)
        /\ wish' = [wish EXCEPT ![c][l][RenderOrder] = Nothing]
        /\ settled' = [settled EXCEPT ![c] = FALSE]
        /\ UNCHANGED call

ilm_surfaceSetType(c) ==
    \E s \in Surfaces, t \in {"restricted", "desktop"} :
        /\ Send(c, <<[op |-> "type", obj |-> s, type |-> t]>>)
        /\ UNCHANGED <<wish, settled, call>>

\* Calls that wait: the request, if any, and a wl_display.sync.
Roundtrip(c, name, requests) ==
    /\ Send(c, requests \o <<[op |-> "sync"]>>)
    /\ call' = [call EXCEPT ![c] = name]
    /\ settled' = [settled EXCEPT ![c] = FALSE]
    /\ UNCHANGED wish

\* ilm_surfaceGetVisibility, ..., ilm_getPropertiesOfLayer
ilm_get(c) ==
    \E o \in Objects, params \in Params :
        Roundtrip(c, "get", <<[op |-> "get", obj |-> o, params |-> params]>>)
\* Mutated ilm_commitChanges: does not wait for its own request.
ilm_commitChanges_flush(c) ==
    /\ Send(c, <<[op |-> "sync"], [op |-> "commit"]>>)
    /\ call' = [call EXCEPT ![c] = "commit"]
    /\ settled' = [settled EXCEPT ![c] = FALSE]
    /\ UNCHANGED wish
ilm_commitChanges(c) == Roundtrip(c, "commit", <<[op |-> "commit"]>>)
\* Mutated ilm_getError: answers from the flag as it is.
ilm_getError_now(c) ==
    /\ call[c] = "none"
    /\ calls < MaxCalls
    /\ calls' = calls + 1
    /\ flag' = [flag EXCEPT ![c] = "success"]
    /\ refused' = [refused EXCEPT ![c] = "success"]
    /\ UNCHANGED <<scene, conn, wish, settled, events>>
ilm_getError(c) == Roundtrip(c, "getError", <<>>)

CallLibrary(c) ==
    \/ ilm_surfaceSetScalar(c)
    \/ ilm_surfaceSetSourceRectangle(c)
    \/ ilm_surfaceSetDestinationRectangle(c)
    \/ ilm_layerSetVisibility(c)
    \/ ilm_layerSetOpacity(c)
    \/ ilm_layerSetRectangle(c)
    \/ ilm_layerSetRenderOrder(c)
    \/ ilm_layerAddRemoveSurface(c)
    \/ ilm_surfaceSetType(c)
    \/ ilm_get(c)
    \/ ilm_commitChanges(c)
    \/ ilm_getError(c)

-----------------------------------------------------------------------------
(* The compositor.                                                         *)

S == INSTANCE Scene WITH shown <- cur, wanted <- pend

\* What o looks like in a field of its own or of its buffer.
Shown(o, f) == IF f = BufferSize THEN size[o] ELSE cur[o].prop[f]

\* An error event: ivi_wm_send_surface_error or ivi_wm_send_layer_error with
\* a code of a missing object.  The client's request is of no effect.
Refuse(c, r) ==
    /\ inbox' = [inbox EXCEPT ![c] = Append(@, "not_found")]
    /\ refused' = [refused EXCEPT ![c] = IF @ = "success" THEN "not_found" ELSE @]
    /\ wish' = IF r.op \in {"set", "clear", "add", "remove"}
               THEN [wish EXCEPT ![c][r.obj] = NothingAsked] ELSE wish
    /\ UNCHANGED scene

\* c overwrites fields of o: the others no longer see to those.
Overwrite(o, F, writers) ==
    wish' = [d \in Clients |-> IF d \in writers THEN wish[d]
              ELSE [wish[d] EXCEPT ![o] =
                       [f \in DOMAIN @ |-> IF f \in F THEN Nothing ELSE @[f]]]]

\* Mutated Requested: a negative argument is not looked at.
RequestedAsIs(o, ch) ==
    [f \in Fields |-> IF f \in DOMAIN ch THEN ch[f] ELSE pend[o].prop[f]]

\* A negative argument stands for the committed value, not the pending one.
Requested(o, ch) ==
    [f \in Fields |-> IF f \notin DOMAIN ch THEN pend[o].prop[f]
                      ELSE IF ch[f] = Keep THEN cur[o].prop[f] ELSE ch[f]]

\* Mutated SetProperties: the change is shown without a commit.
SetPropertiesShown(c, r) ==
    /\ pend' = [pend EXCEPT ![r.obj] = Look(Requested(r.obj, r.change), @.order)]
    /\ cur' = [cur EXCEPT ![r.obj] = Look(Requested(r.obj, r.change), @.order)]
    /\ Overwrite(r.obj, DOMAIN r.change, {c})
    /\ UNCHANGED <<objects, type, size, told, inbox, refused>>

SetProperties(c, r) ==
    /\ pend' = [pend EXCEPT ![r.obj] = Look(Requested(r.obj, r.change), @.order)]
    /\ Overwrite(r.obj, DOMAIN r.change, {c})
    /\ UNCHANGED <<objects, cur, type, size, told, inbox, refused>>

\* controller_set_surface_opacity, ..._visibility, ..._source_rectangle,
\* ..._destination_rectangle
controller_set_surface(c, r) ==
    /\ r.op = "set" /\ r.obj \in Surfaces
    /\ IF r.obj \in objects THEN SetProperties(c, r) ELSE Refuse(c, r)

controller_set_layer(c, r) ==
    /\ r.op = "set" /\ r.obj \in Layers
    /\ IF r.obj \in objects THEN SetProperties(c, r) ELSE Refuse(c, r)

SetOrder(c, l, order) ==
    /\ pend' = [pend EXCEPT ![l] = Look(@.prop, order)]
    /\ Overwrite(l, {RenderOrder}, {c})
    /\ UNCHANGED <<objects, cur, type, size, told, inbox, refused>>

controller_layer_clear(c, r) ==
    /\ r.op = "clear"
    /\ IF r.obj \in objects THEN SetOrder(c, r.obj, <<>>) ELSE Refuse(c, r)

\* A surface that is on the layer already moves to its end.
controller_layer_add_surface(c, r) ==
    /\ r.op = "add"
    /\ IF {r.obj, r.surf} \subseteq objects
       THEN SetOrder(c, r.obj, Append(S!Without(pend[r.obj].order, r.surf), r.surf))
       ELSE Refuse(c, r)

controller_layer_remove_surface(c, r) ==
    /\ r.op = "remove"
    /\ IF {r.obj, r.surf} \subseteq objects
       THEN SetOrder(c, r.obj, S!Without(pend[r.obj].order, r.surf))
       ELSE Refuse(c, r)

controller_set_surface_type(c, r) ==
    /\ r.op = "type"
    /\ IF r.obj \in objects
       THEN /\ type' = [type EXCEPT ![r.obj] = r.type]
            /\ UNCHANGED <<objects, cur, pend, size, told, inbox, refused, wish>>
       ELSE Refuse(c, r)

\* The fields a get request asks for.
convert_protocol_enum(params) ==
    UNION {CASE p = "opacity" -> {<<"opacity", "value">>}
             [] p = "visibility" -> {<<"visibility", "value">>}
             [] OTHER -> Source \cup Destination \cup {BufferSize} : p \in params}

\* A client is told fields F of o as they are in look; the size of a buffer
\* that has none is not sent (send_surface_configure_event).
ToldOf(t, o, F, look, sizes) ==
    [f \in DOMAIN t |-> IF f \notin F THEN t[f]
        ELSE IF f # BufferSize THEN look[o].prop[f]
        ELSE IF o \in Surfaces /\ sizes[o] # 0 THEN sizes[o] ELSE t[f]]

\* controller_surface_get, controller_layer_get
controller_get(c, r) ==
    /\ r.op = "get"
    /\ IF r.obj \in objects
       THEN /\ told' = [told EXCEPT ![c][r.obj] =
                           ToldOf(@, r.obj, convert_protocol_enum(r.params), cur, size)]
            /\ UNCHANGED <<objects, cur, pend, type, size, inbox, refused, wish>>
       ELSE Refuse(c, r)

\* The notifications of all objects whose event mask F is not empty.
Report(look, sizes, F(_)) ==
    told' = [c \in Clients |-> [o \in Objects |->
               IF o \notin objects THEN told[c][o]
               ELSE ToldOf(told[c][o], o, F(o), look, sizes)]]

\* Mutated Changed: the source rectangle is missing in the mask.
ChangedNoSource(look, o) ==
    {f \in Fields \ Source : look[o].prop[f] # cur[o].prop[f]}

\* send_surface_prop, send_layer_prop: what a commit that shows look changes.
Changed(look, o) == {f \in Fields : look[o].prop[f] # cur[o].prop[f]}

\* Everything that is pending, of all clients, is shown and reported.
controller_commit_changes(c, r) ==
    /\ r.op = "commit"
    /\ cur' = pend
    /\ Report(pend, size, LAMBDA o : Changed(pend, o))
    /\ UNCHANGED <<objects, pend, type, size, inbox, refused, wish>>

sync(c, r) ==
    /\ r.op = "sync"
    /\ inbox' = [inbox EXCEPT ![c] = Append(@, "done")]
    /\ UNCHANGED <<scene, refused, wish>>

HandleRequest(c) ==
    /\ wire[c] # <<>>
    /\ LET r == Head(wire[c]) IN
         \/ controller_set_surface(c, r)
         \/ controller_set_layer(c, r)
         \/ controller_layer_clear(c, r)
         \/ controller_layer_add_surface(c, r)
         \/ controller_layer_remove_surface(c, r)
         \/ controller_set_surface_type(c, r)
         \/ controller_get(c, r)
         \/ controller_commit_changes(c, r)
         \/ sync(c, r)
    /\ wire' = [wire EXCEPT ![c] = Tail(@)]
    /\ UNCHANGED <<call, flag, settled, calls, events>>

-----------------------------------------------------------------------------
(* Objects come, go and change their size.                                 *)

Event == events < MaxEvents /\ events' = events + 1

Renewed(o) ==
    /\ told' = [c \in Clients |-> [told[c] EXCEPT ![o] = NothingTold]]
    /\ UNCHANGED <<conn, flag, refused, settled, calls>>

\* create_surface, create_layer
create_object(o) ==
    /\ Event
    /\ S!Come(o)
    /\ wish' = [c \in Clients |-> [wish[c] EXCEPT ![o] = NothingAsked]]
    /\ Renewed(o)
    /\ UNCHANGED <<type, size>>

\* surface_event_remove, layer_event_remove; a surface leaves its layers.
remove_object(o) ==
    /\ Event
    /\ S!Go(o)
    /\ type' = IF o \in Surfaces THEN [type EXCEPT ![o] = "restricted"] ELSE type
    /\ size' = IF o \in Surfaces THEN [size EXCEPT ![o] = 0] ELSE size
    /\ wish' = [c \in Clients |-> [p \in Objects |->
                  IF p = o THEN NothingAsked
                  ELSE [wish[c][p] EXCEPT ![RenderOrder] = Nothing]]]
    /\ Renewed(o)

\* A desktop surface is shown in the size of its buffer, where it is shown.
DesktopLook(s, n) ==
    Look([pend[s].prop EXCEPT ![<<"destination", "pos">>] = cur[s].prop[<<"destination", "pos">>],
                              ![<<"destination", "size">>] = n,
                              ![<<"source", "pos">>] = 0,
                              ![<<"source", "size">>] = n], pend[s].order)

\* surface_event_configure for a surface of the list whose size changed.
\* commit_current of the other surfaces shows nothing that is pending.
surface_event_configure(s, n) ==
    /\ Event
    /\ s \in objects /\ n # 0 /\ n # size[s]
    /\ size' = [size EXCEPT ![s] = n]
    /\ IF type[s] = "desktop"
       THEN /\ pend' = [pend EXCEPT ![s] = DesktopLook(s, n)]
            /\ cur' = pend'
            /\ Report(pend', size', LAMBDA o : Changed(pend', o) \cup
                                               (IF o = s THEN {BufferSize} ELSE {}))
            /\ Overwrite(s, Source \cup Destination, {})
       ELSE /\ Report(cur, size', LAMBDA o : IF o = s THEN {BufferSize} ELSE {})
            /\ UNCHANGED <<cur, pend, wish>>
    /\ UNCHANGED <<objects, type, conn, flag, refused, settled, calls>>

-----------------------------------------------------------------------------
(* The client: events, dispatched by control_thread or by the roundtrip of *)
(* a call.  A roundtrip ends with its wl_callback.done.                    *)

\* wm_listener_surface_error, wm_listener_layer_error
wm_listener_error(c) ==
    /\ Head(inbox[c]) # "done"
    /\ flag' = [flag EXCEPT ![c] = IF @ = "success" THEN Head(inbox[c]) ELSE @]
    /\ UNCHANGED <<call, refused, settled>>

Done(c) ==
    /\ Head(inbox[c]) = "done"
    /\ call' = [call EXCEPT ![c] = "none"]
    /\ settled' = [settled EXCEPT ![c] = call[c] = "commit"]
    /\ IF call[c] = "getError"
       THEN /\ flag' = [flag EXCEPT ![c] = "success"]
            /\ refused' = [refused EXCEPT ![c] = "success"]
       ELSE UNCHANGED <<flag, refused>>

Dispatch(c) ==
    /\ inbox[c] # <<>>
    /\ wm_listener_error(c) \/ Done(c)
    /\ inbox' = [inbox EXCEPT ![c] = Tail(@)]
    /\ UNCHANGED <<scene, wire, wish, calls, events>>

\* Every call has returned and every bound is used up.
Finished ==
    /\ \A c \in Clients : call[c] = "none" /\ wire[c] = <<>> /\ inbox[c] = <<>>
    /\ UNCHANGED vars

Next ==
    \/ \E c \in Clients : CallLibrary(c) \/ HandleRequest(c) \/ Dispatch(c)
    \/ \E o \in Objects : create_object(o) \/ remove_object(o)
    \/ \E s \in Surfaces, n \in Values : surface_event_configure(s, n)
    \/ Finished

Spec == Init /\ [][Next]_vars

-----------------------------------------------------------------------------
\* A surface is on a layer once.
Distinct(q) == \A i, j \in DOMAIN q : q[i] = q[j] => i = j
Looks == [prop : [Fields -> Values], order : {q \in Seq(Surfaces) : Distinct(q)}]

\* Type invariant.
TypeOK ==
    /\ objects \subseteq Objects
    /\ cur \in [Objects -> Looks] /\ pend \in [Objects -> Looks]
    /\ type \in [Surfaces -> {"restricted", "desktop"}]
    /\ size \in [Surfaces -> Values]
    /\ told \in [Clients -> [Objects -> [Fields \cup {BufferSize} -> Values \cup {Nothing}]]]
    /\ \A c \in Clients :
         /\ inbox[c] \in Seq({"done", "not_found"})
         /\ call[c] \in {"none", "get", "commit", "getError"}
         /\ {flag[c], refused[c]} \subseteq {"success", "not_found"}

\* The compositor implements the abstract scene: no request but a commit, of
\* whatever client, changes what is on display, and a commit shows all of
\* what is pending (controller_set_*, controller_layer_*, commit_changes).
ImplementsScene == S!Spec

\* When ilm_commitChanges has returned, what the client asked for before is
\* on display, except for what was refused, or changed since by another
\* client, by a desktop surface that fits itself, or by an object that went.
CommitDelivers ==
    \A c \in Clients : settled[c] =>
        \A o \in Objects :
            /\ \A f \in Fields : wish[c][o][f] \in {Nothing, cur[o].prop[f]}
            /\ wish[c][o][RenderOrder] \in {Nothing, cur[o].order}

\* A client with a notification knows every property it was told of as it is
\* on display, whichever client or handler changed it (event_mask of commit,
\* configure of a desktop surface, convert_protocol_enum).
ToldIsShown ==
    \A c \in Clients, o \in objects : \A f \in Fields \cup {BufferSize} :
        told[c][o][f] # Nothing => told[c][o][f] = Shown(o, f)

\* ilm_getError answers with the first error the compositor sent since the
\* last one, for requests sent before the call (error_flag).
GetErrorTells ==
    [][\A c \in Clients : refused[c] # "success" /\ refused'[c] = "success"
                            => flag[c] = refused[c]]_vars

\* protocol/ivi-wm.xml: "If a parameter is less than 0, that value is not
\* changed", of the set_*_rectangle requests.
NegativeKeeps ==
    [][\A c \in Clients : wire[c] # <<>> /\ wire'[c] = Tail(wire[c]) =>
         LET r == Head(wire[c]) IN
         (r.op = "set" /\ r.obj \in objects) =>
            \A f \in DOMAIN r.change :
                r.change[f] = Keep => pend'[r.obj].prop[f] = pend[r.obj].prop[f]]_vars
=============================================================================
