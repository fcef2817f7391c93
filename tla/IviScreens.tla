----------------------------- MODULE IviScreens -----------------------------
(***************************************************************************)
(* Outputs of the compositor, the screens the ivi-controller module makes  *)
(* of them (weston-ivi-shell/src/ivi-controller.c), the background that    *)
(* fills them, and the screens as a client of ilmControl sees them         *)
(* (ilm_control_wayland_platform.c).                                       *)
(*                                                                         *)
(* An output is plugged and unplugged at any time; every time it appears   *)
(* it is a new wl_output global, and the globals are numbered.  A client   *)
(* makes an ivi_wm_screen object for every global it hears of.  Requests   *)
(* wait in wire and events in inbox until they are handled.                *)
(*                                                                         *)
(* External: weston gives an output the lowest free id and places outputs  *)
(* side by side; a request for an object the compositor does not have any  *)
(* more is a protocol error that ends the connection (libwayland).         *)
(***************************************************************************)
EXTENDS Integers, Sequences, FiniteSets, SequencesExt, FiniteSetsExt

CONSTANTS Clients, Outputs, Layers,
          Modes, Preferred,  \* <<width, height>> of an output, at first Preferred
          Rotated,           \* the outputs that stand on their side
          screen_ids,        \* ids of the outputs with an [ivi-screen] section
          screen_id_offset,  \* added to the id of the others
          Orders,            \* render orders clients ask for
          Nothing,
          MaxPlugs,          \* bound: outputs that come, go or are resized, changes
                             \* of the background and by clients not in Clients
          MaxCalls           \* bound: calls of all clients

ASSUME ScreensAssumption ==
    /\ IsFiniteSet(Outputs)
    /\ Modes \subseteq (Nat \ {0}) \X (Nat \ {0}) /\ Preferred \in Modes
    /\ Rotated \subseteq Outputs
    /\ DOMAIN screen_ids \subseteq Outputs
    /\ \A o \in DOMAIN screen_ids : screen_ids[o] \in Nat
    /\ screen_id_offset \in Nat
    /\ \A q \in Orders : q \in Seq(Layers \cup {Nothing})
    /\ MaxPlugs \in Nat /\ MaxCalls \in Nat

VARIABLES
    head,       \* every global there has been: output, weston's id, mode, and
                \* whether it was there before the ivi_wm global
    screens,    \* shell->list_screen, by the global of the output
    resources,  \* ivi_wm_screen objects: <<client, global>>
    viewers,    \* wl_output objects: <<client, global>>
    pend, cur,  \* pending and committed render order of a screen
    hmi,        \* shell->client: "waiting", "running" or "gone" (or not configured)
    bkgnd,      \* shell->bkgnd_view: is there one, and the area it covers
    up,         \* the shell has not been destroyed
    listening,  \* clients that are told of globals
    wire, inbox,
    stage,      \* how far ilm_init has come
    ctx,        \* ctx->wl.list_screen
    call,       \* the call that waits
    sent,       \* the render order the last get was answered with
    calls, plugs

outputs == <<head, screens, hmi, bkgnd, up>>
orders  == <<pend, cur, sent>>
objects == <<resources, viewers, listening>>
library == <<stage, ctx, call>>
bounds  == <<calls, plugs>>
screenVars == <<outputs, orders, objects, library, wire, inbox, bounds>>

NoBackground == [view |-> FALSE, area |-> Nothing]
Idle == [op |-> "none", n |-> 0]
Event(ev, n) == [ev |-> ev, n |-> n]
Request(op, n) == [op |-> op, n |-> n]

\* The elements of q that are in T, in their order.
Only(q, T) ==
    LET upto[i \in 0 .. Len(q)] ==
            IF i = 0 THEN <<>>
            ELSE IF q[i] \in T THEN Append(upto[i - 1], q[i])
            ELSE upto[i - 1]
    IN upto[Len(q)]

NewHead(o, isEarly, weston_id) ==
    [output |-> o, mode |-> Preferred, early |-> isEarly, id |-> weston_id]
FreeId == Min((0 .. Cardinality(screens)) \ {head[n].id : n \in screens})

\* create_screen: a name with an [ivi-screen] section, or the id and the offset.
ScreenId(n) == IF head[n].output \in DOMAIN screen_ids THEN screen_ids[head[n].output]
               ELSE head[n].id + screen_id_offset

\* init_ivi_shell: the outputs that are there when the module is loaded.
Init ==
    /\ \E Early \in SUBSET Outputs : \E q \in SetToSeqs(Early) :
            head = [n \in DOMAIN q |-> NewHead(q[n], TRUE, n - 1)]
    /\ screens = DOMAIN head
    /\ pend = [n \in DOMAIN head |-> <<>>] /\ cur = pend
    /\ hmi \in {"waiting", "gone"} /\ bkgnd = NoBackground /\ up = TRUE
    /\ resources = {} /\ viewers = {} /\ listening = {}
    /\ wire = [c \in Clients |-> <<>>] /\ inbox = wire
    /\ stage = [c \in Clients |-> "off"]
    /\ ctx = [c \in Clients |-> <<>>]
    /\ call = [c \in Clients |-> Idle]
    /\ sent = [c \in Clients |-> Nothing]
    /\ calls = 0 /\ plugs = 0

-----------------------------------------------------------------------------
(* Outputs and the background.                                             *)

\* Width and height of an output in the layout; weston places the outputs of
\* There beside each other.
Extent(h, n) == IF h[n].output \in Rotated THEN <<h[n].mode[2], h[n].mode[1]>>
                ELSE h[n].mode
Position(h, n, There) ==
    MapThenSumSet(LAMBDA k : Extent(h, k)[1], {k \in There : k < n})

\* Mutated FitTo: the view is as wide as the first output.
FitToFirst(h, There) ==
    IF There = {} THEN Nothing
    ELSE [x |-> Position(h, Min(There), There), width |-> Extent(h, Min(There))[1],
          height |-> Max({Extent(h, k)[2] : k \in There})]

\* From the position of the first output of the list to the end of the last;
\* without an output the transformation of the view is taken away.
FitTo(h, There) ==
    IF There = {} THEN Nothing
    ELSE [x |-> Position(h, Min(There), There),
          width |-> Position(h, Max(There), There) + Extent(h, Max(There))[1],
          height |-> Max({Extent(h, k)[2] : k \in There})]

set_bkgnd_surface_prop(h, There) ==
    bkgnd' = [view |-> TRUE, area |-> FitTo(h, There)]

Refit(h, There) ==
    IF bkgnd.view /\ hmi = "running" THEN set_bkgnd_surface_prop(h, There)
    ELSE UNCHANGED bkgnd

Tell(To, ev) == inbox' = [c \in Clients |-> IF c \in To THEN Append(inbox[c], ev)
                                            ELSE inbox[c]]

Plug ==
    /\ up /\ hmi # "waiting"
    /\ plugs < MaxPlugs /\ plugs' = plugs + 1
    /\ UNCHANGED <<library, wire, calls>>

\* output_created_event, create_screen
output_created_event(o) ==
    /\ Plug
    /\ \A n \in screens : head[n].output # o
    /\ head' = Append(head, NewHead(o, FALSE, FreeId))
    /\ screens' = screens \cup {Len(head')}
    /\ pend' = Append(pend, <<>>) /\ cur' = Append(cur, <<>>)
    /\ Tell(listening, Event("global", Len(head')))
    /\ Refit(head', screens')
    /\ UNCHANGED <<hmi, up, sent, objects>>

\* Mutated destroy_screen: the ivi_wm_screen objects stay.
destroy_screen_only(n) ==
    /\ screens' = screens \ {n}
    /\ UNCHANGED resources

\* The objects of the clients go with the screen they point to.
destroy_screen(n) ==
    /\ screens' = screens \ {n}
    /\ resources' = {r \in resources : r[2] # n}

output_destroyed_event(n) ==
    /\ Plug
    /\ n \in screens
    /\ destroy_screen(n)
    /\ viewers' = {v \in viewers : v[2] # n}
    /\ pend' = [pend EXCEPT ![n] = <<>>] /\ cur' = [cur EXCEPT ![n] = <<>>]
    /\ Tell(listening, Event("gone", n))
    /\ Refit(head, screens')
    /\ UNCHANGED <<head, hmi, up, sent, listening>>

ModeOf(h, n) == [ev |-> "mode", n |-> n, turned |-> h[n].output \in Rotated,
                 mode |-> h[n].mode]

output_resized_event(n, m) ==
    /\ Plug
    /\ n \in screens /\ m # head[n].mode
    /\ head' = [head EXCEPT ![n].mode = m]
    /\ Tell({v[1] : v \in {w \in viewers : w[2] = n}}, ModeOf(head', n))
    /\ Refit(head', screens)
    /\ UNCHANGED <<screens, hmi, up, orders, objects>>

\* Another ivi_wm client sets the render order and commits.
others_set_order(n, l) ==
    /\ Plug
    /\ pend' = [pend EXCEPT ![n] = <<l>>] /\ cur' = pend'
    /\ UNCHANGED <<outputs, objects, inbox, sent>>

Background ==
    /\ Plug
    /\ UNCHANGED <<head, screens, up, orders, objects, inbox>>

\* launch_client_process, if an HMI client and its background are configured:
\* an idle callback, and so before everything else.  ivi_shell_client_destroy:
\* the background surface goes with the client.
launch_client_process ==
    /\ up /\ hmi = "waiting" /\ hmi' = "running"
    /\ UNCHANGED <<head, screens, bkgnd, up, orders, objects, library, wire, inbox, bounds>>
ivi_shell_client_destroy ==
    Background /\ hmi = "running" /\ hmi' = "gone" /\ bkgnd' = NoBackground

\* The first configure of the background surface makes the view.
surface_event_configure ==
    Background /\ hmi = "running" /\ set_bkgnd_surface_prop(head, screens) /\ UNCHANGED hmi
remove_bkgnd_surface ==
    Background /\ bkgnd.view /\ bkgnd' = NoBackground /\ UNCHANGED hmi

\* The end of the shell; weston exits, and every connection ends with it.
ivi_shell_destroy ==
    /\ up /\ hmi # "waiting" /\ up' = FALSE
    /\ hmi' = "gone" /\ bkgnd' = NoBackground
    /\ screens' = {} /\ resources' = {} /\ viewers' = {} /\ listening' = {}
    /\ wire' = [c \in Clients |-> <<>>] /\ inbox' = wire'
    /\ stage' = [c \in Clients |-> "lost"] /\ ctx' = [c \in Clients |-> <<>>]
    /\ call' = [c \in Clients |-> Idle]
    /\ UNCHANGED <<head, orders, bounds>>

-----------------------------------------------------------------------------
(* Requests of the clients.                                                *)

ScreenRequests == {"clear", "add", "remove", "get", "screenshot", "screen_destroy"}

Handled(c) == wire' = [wire EXCEPT ![c] = Tail(@)]
Reply(c, events) == inbox' = [inbox EXCEPT ![c] = @ \o events]

\* The client is gone for the compositor, and its objects with it; its calls
\* return, and its contexts are of no more use to it.
Lost(c) ==
    /\ wire' = [wire EXCEPT ![c] = <<>>]
    /\ inbox' = [inbox EXCEPT ![c] = <<>>]
    /\ resources' = {r \in resources : r[1] # c}
    /\ viewers' = {v \in viewers : v[1] # c}
    /\ listening' = listening \ {c}
    /\ stage' = [stage EXCEPT ![c] = IF @ = "closing" THEN "off" ELSE "lost"]
    /\ ctx' = [ctx EXCEPT ![c] = <<>>]
    /\ call' = [call EXCEPT ![c] = Idle]
    /\ UNCHANGED orders

InvalidObject(c, r) == r.op \in ScreenRequests /\ <<c, r.n>> \notin resources /\ Lost(c)

wl_display_disconnect(c, r) == r.op = "disconnect" /\ Lost(c)

\* The globals there are, in their order; that of ivi_wm comes after the
\* outputs that were there before the module.
get_registry(c, r) ==
    /\ r.op = "get_registry"
    /\ LET Known(b) == Only([n \in DOMAIN head |-> n], {n \in screens : head[n].early = b}) IN
       Reply(c, [i \in DOMAIN Known(TRUE) |-> Event("global", Known(TRUE)[i])]
                \o <<[ev |-> "ivi_wm"]>>
                \o [i \in DOMAIN Known(FALSE) |-> Event("global", Known(FALSE)[i])])
    /\ listening' = listening \cup {c}
    /\ Handled(c)
    /\ UNCHANGED <<resources, viewers, orders, library>>

\* A wl_output of an output that is gone is inert.
bind_output(c, r) ==
    /\ r.op = "bind_output"
    /\ IF r.n \in screens
       THEN Reply(c, <<ModeOf(head, r.n)>>) /\ viewers' = viewers \cup {<<c, r.n>>}
       ELSE UNCHANGED <<inbox, viewers>>
    /\ Handled(c)
    /\ UNCHANGED <<resources, listening, orders, library>>

\* No object is made for an output that has no screen.
controller_create_screen(c, r) ==
    /\ r.op = "create_screen"
    /\ IF r.n \in screens
       THEN /\ resources' = resources \cup {<<c, r.n>>}
            /\ Reply(c, <<[ev |-> "screen_id", n |-> r.n, id |-> ScreenId(r.n)]>>)
       ELSE UNCHANGED <<resources, inbox>>
    /\ Handled(c)
    /\ UNCHANGED <<viewers, listening, orders, library>>

OnScreen(c, r, op) ==
    /\ r.op = op /\ <<c, r.n>> \in resources
    /\ Handled(c)
    /\ UNCHANGED <<viewers, listening, library>>

controller_screen_destroy(c, r) ==
    /\ OnScreen(c, r, "screen_destroy")
    /\ resources' = resources \ {<<c, r.n>>}
    /\ UNCHANGED <<inbox, orders>>

controller_screen_clear(c, r) ==
    /\ OnScreen(c, r, "clear")
    /\ pend' = [pend EXCEPT ![r.n] = <<>>]
    /\ UNCHANGED <<resources, inbox, cur, sent>>

\* A layer that does not exist is refused (see IviScene for the error).
controller_screen_add_layer(c, r) ==
    /\ OnScreen(c, r, "add")
    /\ pend' = [pend EXCEPT ![r.n] = IF r.layer \in Layers
                                     THEN Append(Only(@, Layers \ {r.layer}), r.layer)
                                     ELSE @]
    /\ UNCHANGED <<resources, inbox, cur, sent>>

controller_screen_remove_layer(c, r) ==
    /\ OnScreen(c, r, "remove")
    /\ pend' = [pend EXCEPT ![r.n] = Only(@, Layers \ {r.layer})]
    /\ UNCHANGED <<resources, inbox, cur, sent>>

controller_screen_get(c, r) ==
    /\ OnScreen(c, r, "get")
    /\ Reply(c, [i \in DOMAIN cur[r.n] |-> [ev |-> "layer", n |-> r.n, layer |-> cur[r.n][i]]])
    /\ sent' = [sent EXCEPT ![c] = cur[r.n]]
    /\ UNCHANGED <<resources, pend, cur>>

controller_commit_changes(c, r) ==
    /\ r.op = "commit"
    /\ cur' = pend
    /\ Handled(c)
    /\ UNCHANGED <<objects, inbox, pend, sent, library>>

sync(c, r) ==
    /\ r.op = "sync"
    /\ Reply(c, <<[ev |-> "done"]>>)
    /\ Handled(c)
    /\ UNCHANGED <<objects, orders, library>>

HandleRequest(c) ==
    /\ up /\ wire[c] # <<>>
    /\ LET r == Head(wire[c]) IN
         \/ InvalidObject(c, r)
         \/ wl_display_disconnect(c, r)
         \/ get_registry(c, r)
         \/ bind_output(c, r)
         \/ controller_create_screen(c, r)
         \/ controller_screen_destroy(c, r)
         \/ controller_screen_clear(c, r)
         \/ controller_screen_add_layer(c, r)
         \/ controller_screen_remove_layer(c, r)
         \/ controller_screen_get(c, r)
         \/ controller_commit_changes(c, r)
         \/ sync(c, r)
    /\ UNCHANGED <<outputs, bounds>>

-----------------------------------------------------------------------------
(* The client: calls.                                                      *)

CanCall(c, at) ==
    /\ up /\ hmi # "waiting" /\ stage[c] = at /\ call[c] = Idle
    /\ calls < MaxCalls /\ calls' = calls + 1
    /\ UNCHANGED <<outputs, orders, objects, inbox, ctx, plugs>>

Send(c, requests) == wire' = [wire EXCEPT ![c] = @ \o requests]
Wait(c, requests) ==
    /\ Send(c, Append(requests, [op |-> "sync"]))
    /\ UNCHANGED stage

\* ilm_init, as far as the first roundtrip of init_control.
ilm_init(c) ==
    /\ CanCall(c, "off")
    /\ Send(c, <<[op |-> "get_registry"], [op |-> "sync"]>>)
    /\ stage' = [stage EXCEPT ![c] = "globals"]
    /\ UNCHANGED call

\* get_screen_context_by_id: the first of the list with the id.
\* Mutated get_screen_context_by_id: the first of the list.
get_screen_context_first(c, id) == ctx[c][1]
Contexts(c, id) == {i \in DOMAIN ctx[c] : ctx[c][i].id = id}
get_screen_context_by_id(c, id) == ctx[c][Min(Contexts(c, id))]
Ids(c) == {ctx[c][i].id : i \in DOMAIN ctx[c]}

\* ilm_getLayerIDsOnScreen, ilm_getPropertiesOfScreen
ilm_getLayerIDsOnScreen(c) ==
    /\ CanCall(c, "on")
    /\ \E id \in Ids(c) :
         LET n == get_screen_context_by_id(c, id).n IN
         /\ Wait(c, <<Request("get", n)>>)
         /\ call' = [call EXCEPT ![c] = Request("layers", n)]

\* ilm_getScreenIDs, ilm_getScreenResolution
ilm_getScreenIDs(c) ==
    /\ CanCall(c, "on")
    /\ Wait(c, <<>>)
    /\ call' = [call EXCEPT ![c] = Request("screens", 0)]

\* For RequestsReachTheirScreen the requests carry the id the application
\* gave and whether the context had got its screen_id event.
ilm_displaySetRenderOrder(c) ==
    /\ CanCall(c, "on")
    /\ \E id \in Ids(c), q \in Orders :
         LET x == get_screen_context_by_id(c, id) IN
         Send(c, <<[op |-> "clear", n |-> x.n, asked |-> id, named |-> x.named]>> \o
                 [i \in DOMAIN q |-> [op |-> "add", n |-> x.n, layer |-> q[i],
                                      asked |-> id, named |-> x.named]])
    /\ UNCHANGED <<stage, call>>

\* ivi_wm_screen.remove_layer: a request no call of ilmControl makes.
remove_layer(c) ==
    /\ CanCall(c, "on")
    /\ \E i \in DOMAIN ctx[c], l \in Layers :
         Send(c, <<[op |-> "remove", n |-> ctx[c][i].n, layer |-> l]>>)
    /\ UNCHANGED <<stage, call>>

ilm_commitChanges(c) ==
    /\ CanCall(c, "on")
    /\ Wait(c, <<[op |-> "commit"]>>)
    /\ call' = [call EXCEPT ![c] = Request("commit", 0)]

\* ilm_destroy: destroy_control_resources and the roundtrip of wayland_destroy.
ilm_destroy(c) ==
    /\ CanCall(c, "on")
    /\ Send(c, [i \in DOMAIN ctx[c] |-> Request("screen_destroy", ctx[c][i].n)]
               \o <<[op |-> "disconnect"]>>)
    /\ stage' = [stage EXCEPT ![c] = "closing"]
    /\ UNCHANGED call

\* The connection broke: only what the library keeps is cleared.
ilm_destroy_lost(c) ==
    /\ CanCall(c, "lost")
    /\ stage' = [stage EXCEPT ![c] = "off"]
    /\ UNCHANGED <<wire, call>>

CallLibrary(c) ==
    \/ ilm_init(c) \/ ilm_destroy(c) \/ ilm_destroy_lost(c)
    \/ ilm_getLayerIDsOnScreen(c) \/ ilm_getScreenIDs(c)
    \/ ilm_displaySetRenderOrder(c) \/ remove_layer(c) \/ ilm_commitChanges(c)

-----------------------------------------------------------------------------
(* The client: events, dispatched by control_thread or in a roundtrip.     *)

\* The id is 0 until the screen_id event; named tells the two apart, which
\* the code cannot.
NewContext(n, isMade) == [n |-> n, id |-> 0, named |-> FALSE, made |-> isMade,
                          size |-> Nothing, order |-> <<>>]
Change(c, n, F(_)) ==
    ctx' = [ctx EXCEPT ![c] = [i \in DOMAIN @ |-> IF @[i].n = n THEN F(@[i]) ELSE @[i]]]

\* registry_handle_control for a wl_output; the ivi_wm_screen is made at once
\* if ivi_wm is bound.
registry_handle_control(c, e) ==
    /\ e.ev = "global"
    /\ LET bound == stage[c] # "globals" IN
       /\ ctx' = [ctx EXCEPT ![c] = <<NewContext(e.n, bound)>> \o @]
       /\ Send(c, <<Request("bind_output", e.n)>> \o
                  (IF bound THEN <<Request("create_screen", e.n)>> ELSE <<>>))
    /\ UNCHANGED <<stage, call>>

registry_handle_control_wm(c, e) ==
    /\ e.ev = "ivi_wm"
    /\ stage' = [stage EXCEPT ![c] = "bound"]
    /\ UNCHANGED <<wire, ctx, call>>

registry_handle_control_remove(c, e) ==
    /\ e.ev = "gone"
    /\ LET this == {x \in ToSet(ctx[c]) : x.n = e.n}
           made == Only(ctx[c], {x \in this : x.made})
       IN /\ Send(c, [i \in DOMAIN made |-> Request("screen_destroy", e.n)])
          /\ ctx' = [ctx EXCEPT ![c] = Only(@, ToSet(@) \ this)]
    /\ UNCHANGED <<stage, call>>

\* output_listener_geometry, output_listener_mode
output_listener_mode(c, e) ==
    /\ e.ev = "mode"
    /\ Change(c, e.n, LAMBDA x : [x EXCEPT !.size =
                         IF e.turned THEN <<e.mode[2], e.mode[1]>> ELSE e.mode])
    /\ UNCHANGED <<stage, wire, call>>

wm_screen_listener_screen_id(c, e) ==
    /\ e.ev = "screen_id"
    /\ Change(c, e.n, LAMBDA x : [x EXCEPT !.id = e.id, !.named = TRUE])
    /\ UNCHANGED <<stage, wire, call>>

wm_screen_listener_layer_added(c, e) ==
    /\ e.ev = "layer"
    /\ Change(c, e.n, LAMBDA x : [x EXCEPT !.order = Append(@, e.layer)])
    /\ UNCHANGED <<stage, wire, call>>

\* Mutated init_control: outputs that were announced before ivi_wm are left out.
init_control_late(c, e) ==
    /\ e.ev = "done" /\ stage[c] = "bound"
    /\ Send(c, <<[op |-> "sync"]>>)
    /\ stage' = [stage EXCEPT ![c] = "ids"]
    /\ UNCHANGED <<ctx, call>>

\* init_control after its first roundtrip: the screens of the outputs that
\* were announced before ivi_wm.
init_control(c, e) ==
    /\ e.ev = "done" /\ stage[c] = "bound"
    /\ LET missing == Only(ctx[c], {x \in ToSet(ctx[c]) : ~x.made}) IN
       Send(c, [i \in DOMAIN missing |-> Request("create_screen", missing[i].n)]
               \o <<[op |-> "sync"]>>)
    /\ ctx' = [ctx EXCEPT ![c] = [i \in DOMAIN @ |-> [@[i] EXCEPT !.made = TRUE]]]
    /\ stage' = [stage EXCEPT ![c] = "ids"]
    /\ UNCHANGED call

ilm_init_returns(c, e) ==
    /\ e.ev = "done" /\ stage[c] = "ids"
    /\ stage' = [stage EXCEPT ![c] = "on"]
    /\ UNCHANGED <<wire, ctx, call>>

\* Mutated create_layerids: the array is copied and not released.
create_layerids_kept(c, n) == UNCHANGED ctx
create_layerids(c, n) == Change(c, n, LAMBDA x : [x EXCEPT !.order = <<>>])

call_returns(c, e) ==
    /\ e.ev = "done" /\ call[c] # Idle
    /\ IF call[c].op = "layers" THEN create_layerids(c, call[c].n) ELSE UNCHANGED ctx
    /\ call' = [call EXCEPT ![c] = Idle]
    /\ UNCHANGED <<stage, wire>>

\* The context of the call went in its roundtrip (registry_handle_control_remove);
\* the call goes on with the freed struct: create_layerids reads it, and frees
\* its array again.  It may return with any answer (call_returns), or the
\* process dies of it.
Freed(c) == \A i \in DOMAIN ctx[c] : ctx[c][i].n # call[c].n
create_layerids_freed(c) ==
    /\ up /\ inbox[c] # <<>> /\ Head(inbox[c]).ev = "done"
    /\ call[c].op = "layers" /\ Freed(c)
    /\ Lost(c)
    /\ UNCHANGED <<outputs, bounds>>

\* ilm_destroy joins control_thread first: nothing is dispatched after it.
Dispatch(c) ==
    /\ up /\ inbox[c] # <<>> /\ stage[c] # "closing"
    /\ LET e == Head(inbox[c]) IN
         \/ registry_handle_control(c, e)
         \/ registry_handle_control_wm(c, e)
         \/ registry_handle_control_remove(c, e)
         \/ output_listener_mode(c, e)
         \/ wm_screen_listener_screen_id(c, e)
         \/ wm_screen_listener_layer_added(c, e)
         \/ init_control(c, e)
         \/ ilm_init_returns(c, e)
         \/ call_returns(c, e)
    /\ inbox' = [inbox EXCEPT ![c] = Tail(@)]
    /\ UNCHANGED <<outputs, orders, objects, bounds>>

Outside ==
    \/ \E o \in Outputs : output_created_event(o)
    \/ \E n \in screens : output_destroyed_event(n)
    \/ \E n \in screens, m \in Modes : output_resized_event(n, m)
    \/ \E n \in screens, l \in Layers : others_set_order(n, l)
    \/ launch_client_process \/ ivi_shell_client_destroy
    \/ surface_event_configure \/ remove_bkgnd_surface
    \/ ivi_shell_destroy

\* Nothing is on its way, and the bounds are used up or the shell is gone.
Finished ==
    /\ ~up \/ \A c \in Clients : wire[c] = <<>> /\ (inbox[c] = <<>> \/ stage[c] = "closing")
    /\ UNCHANGED screenVars

-----------------------------------------------------------------------------
\* No ivi_wm_screen object outlives the screen it points to or its client, in
\* whatever order outputs, clients and the shell go (destroy_screen,
\* ivi_shell_destroy, controller_create_screen for an output that is gone).
ResourcesSound ==
    \A r \in resources : r[2] \in screens /\ r[1] \in listening

\* After any order of outputs that come, go and change their mode, and of
\* the background surface, the background covers all outputs.
BackgroundCovers ==
    bkgnd.view /\ hmi = "running" /\ screens # {} =>
        /\ bkgnd.area.x = 0
        /\ bkgnd.area.width = MapThenSumSet(LAMBDA n : Extent(head, n)[1], screens)
        /\ \A n \in screens : Extent(head, n)[2] <= bkgnd.area.height

\* A client with nothing on its way knows the screens there are, with their
\* ids and sizes, whenever their outputs appeared: before the module, while
\* ilm_init ran or later.
Quiet(c) == stage[c] = "on" /\ wire[c] = <<>> /\ inbox[c] = <<>>
ScreensKnown ==
    \A c \in Clients : up /\ Quiet(c) =>
        {<<ctx[c][i].n, ctx[c][i].id, ctx[c][i].size>> : i \in DOMAIN ctx[c]}
            = {<<n, ScreenId(n), Extent(head, n)>> : n \in screens}

\* ilm_getLayerIDsOnScreen answers with the render order its screen had when
\* the compositor saw the request, and with nothing of earlier answers; but
\* when the context of the screen was freed in the roundtrip the answer is what
\* freed memory holds, and that happens only if the output is gone.
LayersAnswered ==
    [][\A c \in Clients : call[c].op = "layers" /\ call'[c] = Idle /\ stage'[c] = "on" =>
         IF Freed(c) THEN call[c].n \notin screens
         ELSE \A i \in DOMAIN ctx[c] : ctx[c][i].n = call[c].n => ctx[c][i].order = sent[c]
      ]_screenVars

\* A render order for the id of a screen goes to that screen, while screens
\* come and go (ilm_control.h, ilm_displaySetRenderOrder: "display Id of
\* display to set the given order of layers").  The exception is the id 0,
\* which is that of a screen when screen-id-offset is 0, the default, and of
\* every context whose screen_id event is still to come: an order for it can
\* go to the screen of such a context.
RequestsReachTheirScreen ==
    \A c \in Clients : \A i \in DOMAIN wire[c] :
        LET r == wire[c][i] IN
        "asked" \in DOMAIN r => ScreenId(r.n) = r.asked \/ (r.asked = 0 /\ ~r.named)
=============================================================================
