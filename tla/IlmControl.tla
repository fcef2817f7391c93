----------------------------- MODULE IlmControl -----------------------------
(***************************************************************************)
(* ilmControl, the library of the applications that control the compositor *)
(* (ivi-layermanagement-api/ilmControl): the mirror of the surfaces and    *)
(* layers it builds from events, the calls that synchronise with the       *)
(* compositor, and the callbacks of the application.                       *)
(*                                                                         *)
(* All of it runs under the recursive ctx->mutex, so at any time one       *)
(* thread is in the library: a thread of the application in a call, or     *)
(* the control thread that dispatches events.  Its stack is the variable   *)
(* stack, empty when the mutex is free.  What makes the library hard is    *)
(* that a call which waits for the compositor dispatches every event that  *)
(* arrives, a listener calls back into the application, and the callback   *)
(* may call the library again (layer-add-surfaces.c does), so events are   *)
(* dispatched in the middle of a listener and of a call, which still hold  *)
(* pointers into the mirror.                                               *)
(*                                                                         *)
(* The compositor answers requests in order, and what it sends arrives in  *)
(* order.  It is reduced here to what IviShell says of one controller.     *)
(***************************************************************************)
EXTENDS Integers, Sequences, SequencesExt

CONSTANTS Surfaces, Layers,         \* ids
          SurfacePtrs, LayerPtrs,   \* addresses calloc() may return for a context
          Props,                    \* values of a property of an object
          Initial,                  \* its value in a new object
          Zero,                     \* its value in a new context of the mirror
          Absent,                   \* no object, no context
          CallIn,                   \* the callbacks that call the library
          MaxCalls,                 \* bound on the calls of the application
          MaxChanges,               \* bound on the changes others make
          MaxDepth                  \* no callback calls with more frames on the stack

Callbacks == {"created", "removed", "changed", "registered", "added"}

Ids  == Surfaces \cup Layers
Ptrs == SurfacePtrs \cup LayerPtrs

\* struct surface_context, struct layer_context.
Contexts == [id : Ids, prop : Props \cup {Zero}, notification : BOOLEAN,
             render_order : Seq(Surfaces)]

ASSUME ControlAssumption ==
    /\ Surfaces \cap Layers = {} /\ SurfacePtrs \cap LayerPtrs = {}
    /\ Initial \in Props /\ Zero \notin Props
    /\ Absent \notin Ids \cup Ptrs \cup Props \cup {Zero} \cup Contexts
    /\ CallIn \subseteq Callbacks
    /\ MaxCalls \in Nat /\ MaxChanges \in Nat /\ MaxDepth \in Nat

VARIABLES
    exists,     \* the objects of the compositor
    prop,       \* their property
    on_layer,   \* the surfaces of each layer
    synced,     \* notifications the compositor has for this client, per object
    requests,   \* sent by the client and not handled
    events,     \* sent by the compositor and not dispatched
    list_surface, list_layer,   \* the mirror: contexts in list order
    context,    \* what is at each address, Absent when it is free
    registered, \* a callback for created and destroyed objects
    stack,      \* frames of the thread that holds ctx->mutex
    fault,      \* a freed context was used
    calls, changes, \* calls and changes so far
    missed,     \* history: surfaces whose creation left no context of theirs
    doubled     \* history: surfaces that got a second context

compositor == <<exists, prop, on_layer, synced>>
mirror     == <<list_surface, list_layer, context>>
vars == <<compositor, requests, events, mirror, registered, stack, fault, calls, changes,
          missed, doubled>>

\* A context as calloc() leaves it.
Context(id) == [id |-> id, prop |-> Zero, notification |-> FALSE, render_order |-> <<>>]

ListOf(id) == IF id \in Surfaces THEN list_surface ELSE list_layer

\* get_surface_context, wayland_controller_get_layer_context: the first in the
\* list with that id.
Lookup(id) ==
    LET found == SelectInSeq(ListOf(id), LAMBDA p : context[p].id = id)
    IN  IF found = 0 THEN Absent ELSE ListOf(id)[found]

Init ==
    /\ exists = {}
    /\ prop = [id \in Ids |-> Initial]
    /\ on_layer = [l \in Layers |-> <<>>]
    /\ synced = [id \in Ids |-> 0]
    /\ requests = <<>> /\ events = <<>>
    /\ list_surface = <<>> /\ list_layer = <<>>
    /\ context = [p \in Ptrs |-> Absent]
    /\ registered = FALSE
    /\ stack = <<>>
    /\ fault = FALSE
    /\ calls = 0 /\ changes = 0
    /\ missed = {} /\ doubled = {}

-----------------------------------------------------------------------------
(* The stack.  A frame is a call of the application, in the place pc, or a *)
(* callback, with what its caller does next.  The history of the answers   *)
(* the compositor would have given during a getter is in answers.          *)

Top == Last(stack)
Pop == Front(stack)

Frame(op, id, pc, ptr) ==
    [op |-> op, id |-> id, pc |-> pc, ptr |-> ptr, done |-> FALSE,
     value |-> Absent, answers |-> {}]

Callback(kind, ptr) == Frame("callback", Absent, kind, ptr)

InCallback == stack # <<>> /\ Top.op = "callback"
Waiting    == stack # <<>> /\ Top.pc \in {"sync", "reply"}

\* What a getter asked for is, in the compositor with objects ex, properties pr
\* and layers ol.
AnswerIn(f, ex, pr, ol) ==
    CASE f.op = "ilm_getSurfaceIDs" -> ex \cap Surfaces
      [] f.op = "ilm_getLayerIDs"   -> ex \cap Layers
      [] f.op = "ilm_getProperties" -> IF f.id \in ex THEN pr[f.id] ELSE Absent
      [] f.op = "ilm_getSurfaceIDsOnLayer" -> IF f.id \in ex THEN ol[f.id] ELSE Absent
      [] OTHER -> Absent

Witnessed(f, ex, pr, ol) ==
    [f EXCEPT !.answers = @ \cup {AnswerIn(f, ex, pr, ol)}]

-----------------------------------------------------------------------------
(* The compositor.                                                         *)

Event(type, id, value) == [type |-> type, id |-> id, value |-> value]

\* The compositor's state becomes the given one and the events E are sent.
Become(ex, pr, ol, E) ==
    /\ exists' = ex /\ prop' = pr /\ on_layer' = ol
    /\ events' = events \o E
    /\ stack' = [i \in DOMAIN stack |-> Witnessed(stack[i], ex, pr, ol)]

CreateObject(id) ==
    /\ id \notin exists
    /\ Become(exists \cup {id}, [prop EXCEPT ![id] = Initial], on_layer,
              <<Event("created", id, Absent)>>)
    /\ UNCHANGED synced

DestroyObject(id) ==
    /\ id \in exists
    /\ Become(exists \ {id}, prop,
              [l \in Layers |-> IF l = id THEN <<>> ELSE RemoveFirst(on_layer[l], id)],
              <<Event("destroyed", id, Absent)>>)
    /\ synced' = [synced EXCEPT ![id] = 0]

\* A commit makes a property of an object differ.
ChangeProp(id, v) ==
    /\ id \in exists /\ prop[id] # v
    /\ Become(exists, [prop EXCEPT ![id] = v], on_layer,
              IF synced[id] > 0 THEN <<Event("prop", id, v)>> ELSE <<>>)
    /\ UNCHANGED synced

\* A commit puts a surface on a layer.
AddToLayer(l, s) ==
    /\ l \in exists /\ s \in exists /\ s \notin ToSet(on_layer[l])
    /\ Become(exists, prop, [on_layer EXCEPT ![l] = Append(@, s)], <<>>)
    /\ UNCHANGED synced

Change ==
    \/ \E id \in Ids : CreateObject(id) \/ DestroyObject(id)
    \/ \E id \in Ids, v \in Props : ChangeProp(id, v)
    \/ \E l \in Layers, s \in Surfaces : AddToLayer(l, s)

\* Applications and other controllers change the scene.
OthersChange ==
    /\ changes < MaxChanges
    /\ changes' = changes + 1
    /\ Change
    /\ UNCHANGED <<requests, mirror, registered, fault, calls, missed, doubled>>

Reply(E) ==
    /\ events' = events \o E
    /\ UNCHANGED <<exists, prop, on_layer, stack>>

Synced(id, n) ==
    /\ synced' = IF id \in exists THEN [synced EXCEPT ![id] = n] ELSE synced
    /\ Reply(<<>>)

\* The compositor handles a request.  One that names an object it does not have
\* is answered with an error event, which changes nothing that is modelled.
HandleRequest ==
    /\ requests # <<>>
    /\ requests' = Tail(requests)
    /\ LET r == Head(requests) IN
        \/ /\ r.type = "sync"
           /\ Reply(<<Event("done", Absent, r.value)>>) /\ UNCHANGED synced
        \/ /\ r.type = "get"
           /\ Reply(IF r.id \in exists THEN <<Event("prop", r.id, prop[r.id])>> ELSE <<>>)
           /\ UNCHANGED synced
        \/ /\ r.type = "get_order"
           /\ Reply(IF r.id \in exists THEN <<Event("order", r.id, on_layer[r.id])>> ELSE <<>>)
           /\ UNCHANGED synced
        \/ r.type = "sync_add" /\ Synced(r.id, synced[r.id] + 1)
        \/ r.type = "sync_remove" /\ Synced(r.id, IF synced[r.id] = 0 THEN 0 ELSE synced[r.id] - 1)
        \/ r.type = "create" /\ CreateObject(r.id)
        \/ r.type = "create" /\ r.id \in exists /\ Reply(<<>>) /\ UNCHANGED synced
        \/ r.type = "destroy" /\ DestroyObject(r.id)
        \/ r.type = "destroy" /\ r.id \notin exists /\ Reply(<<>>) /\ UNCHANGED synced
        \/ r.type = "commit" /\ \E id \in Ids, v \in Props : ChangeProp(id, v)
        \/ r.type = "commit" /\ Reply(<<>>) /\ UNCHANGED synced
    /\ UNCHANGED <<mirror, registered, fault, calls, changes, missed, doubled>>

-----------------------------------------------------------------------------
(* Calls of the application.                                               *)

Request(type, id) == [type |-> type, id |-> id, value |-> 0]

\* The request of wl_display_roundtrip_queue by the frame at a depth.
SyncRequest(depth) == [type |-> "sync", id |-> Absent, value |-> depth]

\* The mutex is free, or the thread is in a callback.
CanCall ==
    /\ ~fault
    /\ calls < MaxCalls
    /\ stack = <<>> \/ (InCallback /\ Top.pc \in CallIn /\ Len(stack) < MaxDepth)

\* A call takes the mutex, sends R and waits until all of it is handled.
Call(op, id, pc, ptr, R) ==
    /\ CanCall
    /\ calls' = calls + 1
    /\ stack' = Append(stack, Witnessed(Frame(op, id, pc, ptr), exists, prop, on_layer))
    /\ requests' = requests \o R \o <<SyncRequest(Len(stack) + 1)>>
    /\ UNCHANGED <<compositor, events, mirror, registered, fault, changes, missed, doubled>>

\* impl_sync_and_acquire_instance comes first.
SyncCall(op, id) == Call(op, id, "sync", Absent, <<>>)

BeginGetIDs ==
    \/ SyncCall("ilm_getSurfaceIDs", Absent)
    \/ SyncCall("ilm_getLayerIDs", Absent)

\* Mutated BeginGetProperties: the mirror is trusted, nothing is requested.
BeginGetPropertiesCached(id) == Call("ilm_getProperties", id, "reply", Absent, <<>>)

\* ilm_getPropertiesOfSurface, ilm_getPropertiesOfLayer and the getters of one
\* property.
BeginGetProperties(id) ==
    Call("ilm_getProperties", id, "reply", Absent, <<Request("get", id)>>)

\* The context is looked up before the roundtrip.
BeginGetSurfaceIDsOnLayer(l) ==
    /\ Lookup(l) # Absent
    /\ Call("ilm_getSurfaceIDsOnLayer", l, "reply", Lookup(l), <<Request("get_order", l)>>)

BeginNotification ==
    \/ \E id \in Ids : \/ SyncCall("ilm_addNotification", id)
                       \/ SyncCall("ilm_removeNotification", id)
    \/ SyncCall("ilm_registerNotification", Absent)
    \/ SyncCall("ilm_unregisterNotification", Absent)

BeginChange ==
    \/ \E l \in Layers : SyncCall("ilm_layerCreateWithDimension", l)
    \/ \E l \in Layers : Call("ilm_layerRemove", l, "reply", Absent, <<Request("destroy", l)>>)
    \/ Call("ilm_commitChanges", Absent, "reply", Absent, <<Request("commit", Absent)>>)

BeginCall ==
    \/ BeginGetIDs
    \/ \E id \in Ids : BeginGetProperties(id)
    \/ \E l \in Layers : BeginGetSurfaceIDsOnLayer(l)
    \/ BeginNotification
    \/ BeginChange

-----------------------------------------------------------------------------
(* Listeners.                                                              *)

\* What the application is told, on top of frames S.
CallBack(S, kind, ptr, wanted) == IF wanted THEN Append(S, Callback(kind, ptr)) ELSE S

Linked(id, ptr) ==
    IF id \in Surfaces
    THEN list_surface' = <<ptr>> \o list_surface /\ UNCHANGED list_layer
    ELSE list_layer' = <<ptr>> \o list_layer /\ UNCHANGED list_surface

Unlinked(ptr) ==
    /\ list_surface' = RemoveFirst(list_surface, ptr)
    /\ list_layer' = RemoveFirst(list_layer, ptr)

FreePtrs(id) == {p \in IF id \in Surfaces THEN SurfacePtrs ELSE LayerPtrs : context[p] = Absent}

\* wm_listener_surface_created, wm_listener_layer_created.
ObjectCreated(id) ==
    IF Lookup(id) # Absent THEN UNCHANGED <<mirror, stack>>
    ELSE \E p \in FreePtrs(id) :
            /\ context' = [context EXCEPT ![p] = Context(id)]
            /\ Linked(id, p)
            /\ stack' = CallBack(stack, "created", p, registered)

\* Mutated LayerDestroyed: the context stays in the list.
LayerDestroyedKept(l) ==
    LET p == Lookup(l) IN
    IF p = Absent THEN UNCHANGED <<mirror, stack>>
    ELSE /\ stack' = CallBack(stack, "removed", p, registered)
         /\ UNCHANGED mirror

\* wm_listener_layer_destroyed: out of the list, then the callback, then free.
LayerDestroyed(l) ==
    LET p == Lookup(l) IN
    IF p = Absent THEN UNCHANGED <<mirror, stack>>
    ELSE /\ Unlinked(p)
         /\ context' = IF registered THEN context ELSE [context EXCEPT ![p] = Absent]
         /\ stack' = CallBack(stack, "removed", p, registered)

\* wm_listener_surface_destroyed: the callbacks, then out of the list and free.
SurfaceDestroyed(s) ==
    LET p == Lookup(s) IN
    IF p = Absent THEN UNCHANGED <<mirror, stack>>
    ELSE IF context[p].notification \/ registered
    THEN stack' = CallBack(stack, "removed", p, TRUE) /\ UNCHANGED mirror
    ELSE Unlinked(p) /\ context' = [context EXCEPT ![p] = Absent] /\ UNCHANGED stack

\* wm_listener_surface_visibility and its like: told when the value is new.
PropChanged(id, v) ==
    LET p == Lookup(id) IN
    IF p = Absent \/ context[p].prop = v THEN UNCHANGED <<mirror, stack>>
    ELSE /\ context' = [context EXCEPT ![p].prop = v]
         /\ stack' = CallBack(stack, "changed", p, context[p].notification)
         /\ UNCHANGED <<list_surface, list_layer>>

\* wm_listener_layer_surface_added, once for each surface.
SurfacesAdded(l, order) ==
    LET p == Lookup(l) IN
    /\ context' = IF p = Absent THEN context
                  ELSE [context EXCEPT ![p].render_order = @ \o order]
    /\ UNCHANGED <<list_surface, list_layer, stack>>

\* The context at p is unlinked and freed when the callback of its removal returns.
Going(p) == \E i \in DOMAIN stack : stack[i].pc = "removed" /\ stack[i].ptr = p

Outgoing(s) == \E p \in ToSet(list_surface) : context[p].id = s /\ Going(p)

\* History: what is listed for a surface when its created event was handled is
\* a context that goes, of the surface that had the id or the address before.
Missing(e) ==
    LET outgoing == \E p \in ToSet(list_surface') : context'[p].id = e.id /\ Going(p)'
    IN  missed' = IF e.type # "created" THEN missed
                  ELSE IF outgoing THEN missed \cup {e.id} ELSE missed \ {e.id}

\* The control thread, or the thread that waits in a roundtrip, dispatches the
\* next event.
DispatchEvent ==
    /\ ~fault
    /\ events # <<>>
    /\ stack = <<>> \/ Waiting
    /\ events' = Tail(events)
    /\ LET e == Head(events) IN
        \/ e.type = "created" /\ ObjectCreated(e.id)
        \/ e.type = "destroyed" /\ e.id \in Layers /\ LayerDestroyed(e.id)
        \/ e.type = "destroyed" /\ e.id \in Surfaces /\ SurfaceDestroyed(e.id)
        \/ e.type = "prop" /\ PropChanged(e.id, e.value)
        \/ e.type = "order" /\ SurfacesAdded(e.id, e.value)
        \/ /\ e.type = "done"
           /\ stack' = [stack EXCEPT ![e.value].done = TRUE]
           /\ UNCHANGED mirror
    /\ Missing(Head(events))
    /\ UNCHANGED <<compositor, requests, registered, fault, calls, changes, doubled>>

-----------------------------------------------------------------------------
(* The rest of a call, once the roundtrip it waited for is over.           *)

Arrived(op, pc) == Waiting /\ Top.op = op /\ Top.pc = pc /\ Top.done /\ ~fault

Return(value) ==
    stack' = Append(Pop, [Top EXCEPT !.pc = "return", !.value = value])

\* Mutated Again: the second roundtrip is not requested.
AgainWithoutSync(ptr, R) ==
    /\ stack' = Append(Pop, [Top EXCEPT !.pc = "reply", !.ptr = ptr, !.done = FALSE])
    /\ requests' = requests \o R

\* A second request and roundtrip of the call, which keeps a pointer.
Again(ptr, R) ==
    /\ stack' = Append(Pop, [Top EXCEPT !.pc = "reply", !.ptr = ptr, !.done = FALSE])
    /\ requests' = requests \o R \o <<SyncRequest(Len(stack))>>

SetNotification(p, on) ==
    /\ context' = [context EXCEPT ![p].notification = on]
    /\ UNCHANGED <<list_surface, list_layer>>

\* The context at p is used, whatever is there now.
Use(p, action) ==
    IF context[p] = Absent THEN fault' = TRUE /\ UNCHANGED <<mirror, stack>>
    ELSE action /\ UNCHANGED fault

IdsIn(list) == {context[p].id : p \in ToSet(list)}

EndGetIDs ==
    /\ \/ Arrived("ilm_getSurfaceIDs", "sync") /\ Return(IdsIn(list_surface))
       \/ Arrived("ilm_getLayerIDs", "sync") /\ Return(IdsIn(list_layer))
    /\ UNCHANGED <<requests, mirror, registered, fault>>

\* The context is looked up after the roundtrip; without one the call fails.
EndGetProperties ==
    /\ Arrived("ilm_getProperties", "reply")
    /\ LET p == Lookup(Top.id) IN Return(IF p = Absent THEN Absent ELSE context[p].prop)
    /\ UNCHANGED <<requests, mirror, registered, fault>>

EndGetSurfaceIDsOnLayer ==
    /\ Arrived("ilm_getSurfaceIDsOnLayer", "reply")
    /\ Use(Top.ptr, /\ Return(context[Top.ptr].render_order)
                    /\ context' = [context EXCEPT ![Top.ptr].render_order = <<>>]
                    /\ UNCHANGED <<list_surface, list_layer>>)
    /\ UNCHANGED <<requests, registered>>

\* ilm_layerAddNotification, ilm_surfaceAddNotification after the first
\* roundtrip.  For a surface that does not exist the callback is called at once.
FindForAdd ==
    LET id == Top.id  p == Lookup(id) IN
    /\ Arrived("ilm_addNotification", "sync")
    /\ IF p # Absent
       THEN SetNotification(p, TRUE) /\ Again(p, <<Request("sync_add", id)>>)
       ELSE /\ stack' = IF id \in Layers THEN Pop ELSE Append(stack, Callback("added", Absent))
            /\ UNCHANGED <<requests, mirror>>
    /\ UNCHANGED <<registered, fault>>

\* After the second one the callback of a surface is called with its context.
EndAdd ==
    /\ Arrived("ilm_addNotification", "reply")
    /\ IF Top.id \in Layers
       THEN stack' = Pop /\ UNCHANGED <<mirror, fault>>
       ELSE Use(Top.ptr, stack' = Append(stack, Callback("added", Top.ptr)) /\ UNCHANGED mirror)
    /\ UNCHANGED <<requests, registered>>

FindForRemove ==
    LET p == Lookup(Top.id) IN
    /\ Arrived("ilm_removeNotification", "sync")
    /\ IF p # Absent /\ context[p].notification
       THEN Again(p, <<Request("sync_remove", Top.id)>>)
       ELSE stack' = Pop /\ UNCHANGED requests
    /\ UNCHANGED <<mirror, registered, fault>>

\* Mutated EndRemove: the callback stays set.
EndRemoveKept ==
    /\ Arrived("ilm_removeNotification", "reply")
    /\ stack' = Pop
    /\ UNCHANGED <<requests, mirror, registered, fault>>

EndRemove ==
    /\ Arrived("ilm_removeNotification", "reply")
    /\ Use(Top.ptr, SetNotification(Top.ptr, FALSE) /\ stack' = Pop)
    /\ UNCHANGED <<requests, registered>>

\* The callback is called for every layer, then for every surface of the lists.
Listed == list_layer \o list_surface

EndRegister ==
    /\ \/ /\ Arrived("ilm_registerNotification", "sync")
          /\ registered' = TRUE
          /\ stack' = IF Listed = <<>> THEN Pop
                      ELSE Append(stack, Callback("registered", Head(Listed)))
       \/ /\ Arrived("ilm_unregisterNotification", "sync")
          /\ registered' = FALSE
          /\ stack' = Pop
    /\ UNCHANGED <<requests, mirror, fault>>

EndChange ==
    /\ \/ /\ Arrived("ilm_layerCreateWithDimension", "sync")
          /\ IF Lookup(Top.id) # Absent THEN stack' = Pop /\ UNCHANGED requests
             ELSE Again(Absent, <<Request("create", Top.id)>>)
       \/ /\ \E op \in {"ilm_layerCreateWithDimension", "ilm_layerRemove", "ilm_commitChanges"} :
                Arrived(op, "reply")
          /\ stack' = Pop
          /\ UNCHANGED requests
    /\ UNCHANGED <<mirror, registered, fault>>

\* A getter hands its answer to the application and releases the mutex.
GetterReturns ==
    /\ ~fault
    /\ stack # <<>> /\ Top.pc = "return"
    /\ stack' = Pop
    /\ UNCHANGED <<requests, mirror, registered, fault>>

\* The application returns from a callback to the library.
ReturnTo(kind) == ~fault /\ InCallback /\ Top.pc = kind

ToListener ==
    /\ \/ ReturnTo("created") \/ ReturnTo("changed")
    /\ stack' = Pop
    /\ UNCHANGED <<requests, mirror, registered, fault>>

ToDestroyedListener ==
    /\ ReturnTo("removed")
    /\ Use(Top.ptr, /\ Unlinked(Top.ptr)
                    /\ context' = [context EXCEPT ![Top.ptr] = Absent]
                    /\ stack' = Pop)
    /\ UNCHANGED <<requests, registered>>

\* wl_list_for_each goes on from the context the callback was called for.
ToRegister ==
    /\ ReturnTo("registered")
    /\ LET later == {i \in 2 .. Len(Listed) : Listed[i - 1] = Top.ptr} IN
       Use(Top.ptr, /\ stack' = IF later = {} THEN Front(Pop)
                                ELSE Append(Pop, Callback("registered",
                                                          Listed[CHOOSE i \in later : TRUE]))
                    /\ UNCHANGED mirror)
    /\ UNCHANGED <<requests, registered>>

\* ilm_surfaceAddNotification makes a context when there was none, without
\* looking again, and sets the callback.
ToAdd ==
    /\ ReturnTo("added")
    /\ IF Top.ptr = Absent
       THEN LET s == Last(Pop).id IN
            /\ \E p \in FreePtrs(s) :
                  /\ context' = [context EXCEPT ![p] = [Context(s) EXCEPT !.notification = TRUE]]
                  /\ Linked(s, p)
            /\ stack' = Front(Pop)
            /\ UNCHANGED fault
       ELSE Use(Top.ptr, SetNotification(Top.ptr, TRUE) /\ stack' = Front(Pop))
    /\ UNCHANGED <<requests, registered>>

CallbackReturns == ToListener \/ ToDestroyedListener \/ ToRegister \/ ToAdd

\* History: ToAdd makes a context where the surface's creation, dispatched during
\* the callback, has made one.
Doubling ==
    doubled' = IF ReturnTo("added") /\ Top.ptr = Absent
               THEN doubled \cup (IdsIn(list_surface) \cap {Last(Pop).id})
               ELSE doubled

Proceed ==
    /\ \/ EndGetIDs \/ EndGetProperties \/ EndGetSurfaceIDsOnLayer
       \/ FindForAdd \/ EndAdd \/ FindForRemove \/ EndRemove
       \/ EndRegister \/ EndChange \/ GetterReturns \/ CallbackReturns
    /\ Doubling
    /\ UNCHANGED <<compositor, events, calls, changes, missed>>

Next == OthersChange \/ HandleRequest \/ BeginCall \/ DispatchEvent \/ Proceed

\* The compositor's loop handles what it received, the control thread or the
\* waiting thread dispatches, a call goes on, and the application's callbacks
\* return.  Nobody has to call the library or to change the scene.
Fairness == WF_vars(HandleRequest) /\ WF_vars(DispatchEvent) /\ WF_vars(Proceed)

Spec == Init /\ [][Next]_vars /\ Fairness

-----------------------------------------------------------------------------
(* Properties.                                                             *)

\* The last created or destroyed event of an object on its way, or the mirror
\* when there is none, says whether it exists.
WillBeListed(id) ==
    LET last == SelectLastInSeq(events, LAMBDA e : e.type \in {"created", "destroyed"} /\ e.id = id)
    IN  IF last = 0 THEN Lookup(id) # Absent ELSE events[last].type = "created"

\* ilm_getLayerIDs: "Get all LayerIds which are currently registered".  With the
\* events on their way the mirror has every surface, and exactly the layers, of
\* the compositor.  (It may have a surface that does not exist: see ToAdd.)
MirrorCatchesUp ==
    stack = <<>> =>
        /\ \A s \in Surfaces \cap exists : WillBeListed(s) \/ s \in missed
        /\ \A l \in Layers : l \in exists <=> WillBeListed(l)

\* A getter returns what the compositor had at some moment of the call.  When the
\* object did not exist at some moment of it, the context may be a new one that
\* has no property yet (Zero).  The exceptions are a surface whose context went
\* with the one before it, or is going, and one that has had two contexts, of
\* which one stays when it is destroyed.
GettersAnswer ==
    \A i \in DOMAIN stack :
        stack[i].pc = "return" /\ stack[i].op \in {"ilm_getLayerIDs", "ilm_getProperties"}
            => \/ stack[i].value \in stack[i].answers
               \/ stack[i].value = Zero /\ Absent \in stack[i].answers
               \/ stack[i].id \in missed \cup doubled \/ Outgoing(stack[i].id)

Quiet == stack = <<>> /\ requests = <<>> /\ events = <<>>

\* When everything sent is handled, the compositor keeps the client informed of
\* each layer that has a callback, whatever the callbacks called meanwhile.
LayersInformed ==
    Quiet => \A p \in ToSet(list_layer) :
        context[p].notification /\ context[p].id \in exists => synced[context[p].id] > 0

\* Every call of the application, nested in callbacks or not, returns.
CallsReturn == (stack # <<>>) ~> (stack = <<>> \/ fault)

\* ilm_control.h on ilm_getSurfaceIDsOnLayer: "ILM_FAILED if the client can not
\* call the method".  A call never goes on with a context that was freed.
NoFreedContext == ~fault
=============================================================================
