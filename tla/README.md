# wayland-ivi-extension: a TLA+ verification project

The repository adds a window manager for vehicles to weston. Applications name their surfaces by
ids; a central controller (an HMI, a layer manager) places all of them on layers and screens and
decides from which seats they get input. This directory holds TLA+ models of the parts of it that
keep state of their own, the TLC configurations that check them, and proofs that TLAPS checks.

1. [The system](#1-the-system)
2. [What is hard, and what makes each part correct](#2-what-is-hard-and-what-makes-each-part-correct)
3. [Modules and how they correspond to the code](#3-modules-and-how-they-correspond-to-the-code)
4. [Runs](#4-runs)
5. [Where the code and its documents disagree](#5-where-the-code-and-its-documents-disagree)
6. [Proofs](#6-proofs)
7. [Not modelled](#7-not-modelled)
8. [Plan](#8-plan)

To check a run: `tlc -config MCIviShell.cfg MCIviShell`. To check the proofs: `tlapm IviShellProofs.tla`
(and the other modules named `...Proofs`). `PROJECT.json` lists components, runs, the lines each definition
stands for, findings, hazards and theorems.

## 1. The system

| part | source | runs in | state it keeps | operations |
|---|---|---|---|---|
| ivi-controller | `weston-ivi-shell/src/ivi-controller.c` | compositor | `ivishell`: lists of surfaces, layers, screens, controllers; the background surface and its view; per controller and per object the notifications | signals of the layout engine (`*_event_create/remove/configure`), `bind_ivi_controller` and its destructor, the requests of `ivi_wm` and `ivi_wm_screen`, output signals, screenshots |
| ivi-input-controller | `ivi-input-modules/ivi-input-controller/src/ivi-input-controller.c` | compositor | a `seat_ctx` per seat with the forced pointer focus; per surface the accepted seats and, per seat, the focus flags; bound clients | grabs of pointer, touch, keyboard; seats and devices that come and go; `set_input_focus`, `set_input_acceptance`; bind |
| ivi-id-agent | `ivi-id-agent-modules/ivi-id-agent/src/ivi-id-agent.c` | compositor | the sections of `weston.ini` with the surface that got the id of each; the next id of the default interval | reading the configuration, an id for a desktop surface, removal of a surface |
| ilmCommon | `ivi-layermanagement-api/ilmCommon` | application | `gInitialized`, two mutexes, the display connection | init, destroy |
| ilmControl | `ivi-layermanagement-api/ilmControl` | application threads and a control thread | a mirror of surfaces, layers, screens and seats built from events; callbacks; recursive `ctx->mutex`; error flag; next layer id | listeners for all events of `ivi_wm` and `ivi_input`; about 45 calls: setters, getters with a roundtrip, notifications, screenshots |
| ilmInput | `ivi-layermanagement-api/ilmInput` | application | none: uses the mirror | acceptance and focus for lists of surfaces and seats |
| LayerManagerControl | `ivi-layermanagement-examples/LayerManagerControl` | application | a captured scene, for as long as a command runs | print, set, analyze |
| ilmClient | `ivi-layermanagement-api/ilmClient` | application | list of the surfaces it created | create, destroy |
| protocols | `protocol/ivi-wm.xml`, `protocol/ivi-input.xml` | | | what requests and events promise |
| layout engine, weston core | not in the repository | compositor | surfaces, layers, pending and committed properties, focus, devices | modelled as far as the code uses it |

How they interact. A client's request arrives at the compositor in the order it was sent, and its
handler runs to the end on the compositor's only thread. Handlers call the layout engine, which
emits signals (`surface_created`, `layer_removed`, `property_changed`, ...) in the middle of the
call; the ivi-controller, the input controller and the id agent listen to them. The ivi-controller
offers them two more signals: `ivisurface_created_signal` / `_removed_signal` for the input
controller, `id_allocation_request_signal` for the id agent. Events go back to every bound
resource; in the application the control thread, or a call that waits in a roundtrip, dispatches
them to listeners that update the mirror and call back into the application.

## 2. What is hard, and what makes each part correct

No handler is hard on its own. What is hard is the order of many of them, by parties that do not
know each other:

- **ivi-controller**: a `struct notification` is in two lists, of a client and of an object. A
  client that exits, an object that goes, and SYNC_REMOVE all free it, in any order. *Correct when*
  both lists agree and hold only allocated notifications of bound clients and listed objects; when
  each change reaches every client that asked for it; when a client that binds at any time knows the
  objects there are; when each layout surface has exactly one `struct ivisurface`, the background
  included.
- **ivi-input-controller**: weston picks and drops a focus without asking the module, the devices
  move it, requests force it, a refusal takes it away, and each of them reads flags another one
  wrote. *Correct when* events go only to surfaces that accept the seat, a forced focus moves to no
  other surface, and clients know every accepted seat and every keyboard focus.
- **ivi-id-agent**: sections, the default interval, and ivi applications share one space of ids.
  *Correct when* a reserved id never goes to another desktop application, an id of the interval is
  given once, an application with a matching section gets its id when one is free, and a section
  names a surface only while that lives.
- **ilmControl**: a call that waits dispatches events, a listener calls the application, and the
  application may call again, so listeners and calls nest while they hold pointers into the mirror.
  *Correct when* the mirror follows the compositor, a getter returns what was true at some moment of
  the call, notifications in the client and in the compositor agree, and every call returns.
- **scene**: setters change what is pending for all clients together, any client's commit shows all
  of it, and so does the resize of a desktop surface. *Correct when* what is on display changes as a
  whole only, a client's committed wish is shown unless somebody else changed it, and everybody is
  told what is shown.
- **screens and screenshots**: outputs come and go under the requests that name them, and a shot is
  answered a frame later. *Correct when* no resource outlives its screen, the background covers all
  outputs, the mirror has the right ids, requests reach the screen that was meant, and each shot is
  answered once, whatever has gone meanwhile.
- **life cycle of the libraries**: threads share one connection and two locks; a control thread
  reads it while calls wait on it; the compositor may go at any step. *Correct when* the library works
  exactly while somebody holds it, and every call returns.
- **start-up and shutdown in the compositor**: three modules leave pointers to each other's memory
  in weston's lists. *Correct when* none is followed after its end.
- **ilmInput**: a call asks for the difference to the mirror. *Correct when* the compositor ends with
  what was asked for, and no application is left with a key that it thinks is down.
- **LayerManagerControl**: puts together what many roundtrips answered. *Correct when* what it calls
  seen is seen, and what it calls missing was missing.

Nothing is persisted, so there is no crash recovery; a client that crashes is a client that
unbinds, which the models have. The sockets neither lose nor reorder.

## 3. Modules and how they correspond to the code

A handler is one action, with every call it makes that changes state. Each modelled definition has
its lines in `PROJECT.json` ("map"). A definition that begins with "Mutated" in its comment is a
plausible bug; it is used nowhere, and shows that a property notices when it takes the place of the
definition after it.

### IviShell: the registry of ivi-controller.c

| variable | code |
|---|---|
| `surface_id` | the layout engine's surfaces and their ids |
| `ivisurfs`, `list_surface`, `bkgnd_surface`, `bkgnd_view` | allocated `struct ivisurface`, `shell->list_surface`, `shell->bkgnd_surface`, `shell->bkgnd_view` |
| `list_layer`, `list_controller` | the lists of that name in `struct ivishell` |
| `surface_notifications`, `layer_notifications` | the lists of `struct ivicontroller` (`link`) |
| `notification_list` | the list of an object (`layout_link`) |
| `resource` | `noti->resource`; the addresses are `Notifs`, free ones hold `Absent` |
| `known_surfaces`, `known_layers`, `stale` | history: what a client has been told, and the objects whose last change it has not |
| `wants` | history: objects whose last sync request of a client was SYNC_ADD |
| `bkgnd_surface_id`, `bkgnd_layer` | the configured id, or IVI_INVALID_ID (-1, `NoId`) when weston.ini has none; whether the background layer was initialised, which needs an ivi client |
| `fault` | the surface whose handler dereferenced a NULL pointer: the compositor is gone then (`Crashed`) |
| `shared` | history: two surfaces had the background's id at one time |

Actions: `surface_event_create`, `_remove`, `_configure`; `bind_ivi_controller`,
`unbind_resource_controller`; `controller_surface_sync`, `controller_layer_sync`,
`controller_surface_get`, `controller_layer_get`, `controller_commit_changes`,
`controller_create_layout_layer`, `controller_destroy_layout_layer`. Which properties change in a
commit is left open: any set of objects. Surfaces and requests may have any id, that of the background
and -1 among them.

### IviInput: ivi-input-controller.c

`accepted` is `accepted_seat_list`, `focus` is `st_focus->focus`, `forced` and `forced_enabled` are
the fields of `seat_ctx`; `pointer_focus`, `button_down`, `touch_focus`, `num_tp`, `caps` are
weston's. `told_seats`, `told_accepted`, `told_focus` are the mirror of a client that has read
everything sent, so the module also stands for the `ivi_input` listeners of ilmControl. Actions:
one for each grab callback (`pointer_grab_focus`, `_motion`, `_button`, `touch_grab_down`, `_up`),
for seats and devices (`handle_seat_create`, `destroy_seat`, `handle_seat_updated_caps`), for
surfaces (`handle_surface_create`, `_destroy`, `surface_unmapped`), and for clients
(`input_set_input_focus`, `input_set_input_acceptance`, bind, unbind). What the pointer handlers
may make of a pointer is an *outcome* (`Stay`, `SetWestFocus`, `LeaveWestFocus`, `ClearFocus`): the
view under the cursor is any. A forced focus may be the address of a surface that is gone;
`pointer_grab_focus` follows it, to whatever view is found in the freed memory (`ForcedViews`).

### IdAgent: ivi-id-agent.c

`app_list` is the list of `struct db_elem`, in its order (the last section of the file first).
`app-id` and `app-title` of a section are reduced to the set of applications it matches. `Files`
are the possible contents of `weston.ini`. Actions: `id_agent_module_init` (with `read_config`;
a configuration that is refused leaves the compositor without the agent),
`id_allocation_event_request`, `surface_event_remove`, and `ivi_surface_created` for ivi
applications that choose their id.

### IlmControl: the client library

The whole library runs under the recursive mutex, so the thread that has it is one *stack* of
frames: calls of the application and callbacks, each with the place it is at. `requests` and
`events` are the two directions of the connection, `exists`, `prop`, `on_layer`, `synced` the
compositor, as IviShell describes it for one client. `list_surface`, `list_layer` and `context` are
the mirror; `SurfacePtrs` and `LayerPtrs` are the addresses of contexts, so that a freed one can be
told from one that is used again. A call is `Begin...` (lock, request, roundtrip), then
`DispatchEvent` as often as there are events, by the waiting thread or by the control thread, then
`End...`. A listener that calls the application pushes a callback frame, and `To...` is what it
does after the return. The two callbacks of a destroyed surface (its own and the registered one)
come one after the other in the code and are one frame here. A getter records in `answers` what
the compositor would have answered at each moment of the call. Two more variables are history:
`missed` are surfaces whose created event found a context that was on its way out, `doubled` those
that got a second context (section 5).

### Scene, IviScene: changing the scene

`Scene` is what the compositor promises: `shown` and `wanted` looks of the objects there are; an
object comes or goes, somebody asks for another look of one object, and everything that is asked
for is shown at once. `IviScene` is the code: `wire` and `inbox` are the two directions of each
client's connection, `pend` and `cur` the pending and committed properties in the layout engine,
`told` what a client heard, `flag` the error flag of ilmControl. A setter of the library is one
action that appends a request; `controller_set_surface`, `controller_set_layer`,
`controller_layer_*`, `controller_get`, `controller_commit_changes` handle one; the properties of
rectangles are a position and a length, since all four are treated alike. `ImplementsScene` is
`Scene!Spec` under `objects <- objects, shown <- cur, wanted <- pend`.

### IviScreens, IviScreenshots: outputs, screens, shots

A plugged output is a new global, so `head` is a sequence of all there have been, and a screen is
its number. `resources` are `ivi_wm_screen` objects, `viewers` the `wl_output` ones. The client is
in the module as well: `stage` says how far `ilm_init` has come, `ctx` is its list of screens, and a
request for an object that is gone ends the connection (`Lost`), as libwayland does.
`set_bkgnd_surface_prop` is translated with its walk over the outputs. `IviScreenshots` EXTENDS it
with shots: `held` is what weston's screenshooter has, `shots` the `ivi_screenshot` objects,
`contexts` the structs of the client. Actions are those of the screens, with `Follow` for what goes
with a connection, and those of the shots.

### IlmLifecycle: ilmCommon and the threads of ilmControl

`pc` is where each thread is in `ilm_init`, `ilm_destroy` or a call that synchronises, `thread` where
the control thread is. `readers`, `waiting`, `error_queued` and `last_error` are libwayland's: who
announced to read, who waits for the last reader, an error that was read, one that was
dispatched. The contents of events are left out. Any thread may call `ilm_init` and `ilm_destroy` at
any time: each takes its own lock, and of two writes of `gInitialized` under different locks one may be
lost (`Counted`). `overlapped` is the history of whether both locks were held at once.

### IlmInput: from a call of ilmInput to a key in an application

Both ends and the way between: the calls of `ilm_input.c` on `mirror`, requests in `wire`, the
handlers of the input controller, events in `inbox`, the listeners. `pressed` are the keys down on a
seat, `entered` and `held` what an application was sent by `wl_keyboard`. `want` is the history of
what the client asked for last, and `quiet` whether anything happened since its sync. A seat may come back
under its name: `gone` are the names that were destroyed once. `parted` are the surfaces that one keyboard
has left while another one stayed.

### IviModules: loading and unloading

`struct` says whether `struct ivishell`, `struct input_context` and `struct ivi_id_agent` are allocated;
`on_destroy` (in order), `linked`, `globals`, `bound` are the pointers to them that weston keeps;
`used` collects the structs a handler used when they were not allocated. `wet_module_init` is a
sequence of steps, each of which may fail; then weston's signals arrive in any order, and at shutdown
the destroy signal runs its listeners before or after the clients go.

### SceneAnalysis: LayerManagerControl analyze

`captureSceneData` is one action per roundtrip, `scene` is `t_scene_data`; other clients change the
scene between them. The geometry keeps the code's types: unsigned subtraction and sums wrap, an unsigned
number becomes an int with its bits (`AsInt`), a conversion of a double to int out of its range is
`Indefinite`, corners are inclusive. The scale is a double, rounded: from the two integers to a screen
coordinate are four roundings, which together change a number n by less than n divided by `Exactness`
(2^50), so a coordinate is any int in that interval (`ToInts`, with a single member where the layer is not
scaled, as 1.0 is exact). `Shows` is a reference by exact arithmetic that uses none of it. It takes a
pixel of a scaled layer for a surface's only if the next one in each direction is the surface's too
(`Firm`): section 5 says what the rounding does to the last.

## 4. Runs

| run | instance | states | shows |
|---|---|---|---|
| IviShell | 2 surfaces, 1 layer, 2 controllers, 3 notifications, 2 ids and -1, background configured or not | 178,700 up to symmetry | `TypeOK`, `NotificationsSound`, `SubscribersRegistered`, `AnnouncedAreListed`, `SurfacesOwned`, `SubscribersStayCurrent` |
| IviScene | 2 clients, 1 surface, 1 layer, 3 calls, 2 other changes | 836,600 up to symmetry | `TypeOK`, `CommitDelivers`, `ToldIsShown`, `ImplementsScene`, `GetErrorTells` |
| IviScreenshots | 1 client, 2 outputs, 1 layer, 3 calls, 2 plugs or other changes, screen-id-offset 0 | 959,000 | `ResourcesSound`, `BackgroundCovers`, `ScreensKnown`, `RequestsReachTheirScreen`, `LayersAnswered`, `AnswersFindTheirShot`, `ShotsAwaited` |
| IviInput | 2 surfaces, 2 seats, 1 client, at most 3 of them at a time | 173,000 up to symmetry | `TypeOK`, `FocusIsAccepted`, `AcceptedIsKnown`, `KeyboardFocusIsKnown`, `ForcedFocusStays` |
| IlmInput | 2 surfaces, 2 seats with keyboards, 2 calls, 2 other events | 4,844,000 | `AcceptanceAsAsked`, `AnswersAreCurrent`, `KeysFollowFocus` |
| IlmControl | 1 surface and 1 layer with 2 addresses each, 2 calls, 3 changes by others, 3 frames | 298,000 | `MirrorCatchesUp`, `GettersAnswer`, `LayersInformed`, `CallsReturn` |
| IlmLifecycle | 2 threads, 5 calls, 2 events or faults, 2 connections | 220,000 | `HoldersServed`, `CallsReturn` |
| IviModules | 2 clients, 2 seats, every configuration, 6 events | 53,400 up to symmetry | `NothingFreedIsUsed` |
| SceneAnalysis | 2 surfaces, 2 layers, 1 screen, 1 change during the capture | 2,683,000 up to symmetry | `CleanMeansSeen`, `AbsenceWasReal` |
| IdAgent | 3 surfaces, 3 applications, ids 0 to 3, every file with at most 2 sections | 143,000 up to symmetry | `TypeOK`, `ReservedForTheirApps`, `ElementsNameTheirSurface`, `DefaultIdsAreFresh`, `SectionsServe` |
| IviSceneNegative, IlmFreed | as above | | violations: section 5 |

The instance of a run is `MC<module>.cfg`, and the module and its constants are in `MC<module>.tla`.

**Why these bounds.** *IviShell*: two controllers and two objects are needed for a notification to be freed
on behalf of one while the other holds it; the third address lets a controller register twice for one object
while another is registered. One more address, surface, or controller only adds independent copies, and the
proofs cover any number. With a second surface the background surface and an ordinary one exist together, or
two without an id. The background's id is one of the ids or, when `weston.ini` sets none, -1, which surfaces
without an id have; the initial states are both, with and without an ivi client. *IviScene*: two clients
with three calls between them are a setter, another one's setter or commit, and a commit; `Changes` has
every field, and a rectangle with a negative argument beside one that changes the same field.
*IviScreenshots*: two outputs give the background a minimum and a maximum to find, one that is on its side
and one with a configured id; three calls are one that waits, and one before and after it; two plugs are an
output that goes and comes again, or both that come late. The offset is the default, 0, so that the id of a
screen may be the one every new context has. *IviInput*: two surfaces compete for one pointer, which is all
that a handler compares; two seats with a keyboard each meet on one surface, which matters because the event
does not name the seat (section 5). `MaxObjects` keeps either two surfaces and a seat or two seats and a
surface at a time, of any names in turn; the proofs cover any number. `Masks` has the pointer and the other
two devices: the handlers treat devices one by one. *IlmInput*: the two seats are the default one and one
that is not, two calls let the second decide from a mirror that the first has changed, and two events are a
seat that goes and comes back under its name, a keyboard that leaves while the other stays, or another
client's request and a key. *IlmControl*: two calls are one that waits and one from a callback meanwhile, or
one after the other; three changes by others make an object, end it and make it again. There is one surface:
contexts of different ids interact only in the walk of `ilm_registerNotification`, which has a surface and a
layer. `MaxDepth` bounds callbacks that call again; `CallIn` says which callbacks do: all. A third call,
nested or not, was checked apart (4,880,000 states, the three invariants hold). *IlmLifecycle*: with two
threads one can wait for the other to read, and the control thread is the third reader; five calls are init
and destroy of both and one more, two faults are a compositor that goes and comes again, two connections let
state of the first meet the second. *IviModules*: no handler looks at more than one client or seat at a
time. *SceneAnalysis*: rectangles of every relation two can have (crossing, inside, corner, apart), a layer
that is moved and stretched; a single change in the capture is what separates one call from the next.
*IdAgent*: two sections and three surfaces make two instances of an application compete, with a third
surface on the id; the file ranges over all intervals, also empty ones, missing limits, equal and missing
ids.

**Fairness.** IlmControl assumes weak fairness of `HandleRequest` (the compositor's loop reads what
it received), `DispatchEvent` (the control thread polls, a waiting thread is in
`wl_display_roundtrip_queue`) and `Proceed` (a thread that is not blocked runs, callbacks of the
application return). IlmLifecycle assumes it of each thread inside the library, of the control
thread, and of the answer to each thread's sync by a compositor that is up: threads are scheduled, and
a compositor that hangs is none of its faults. Neither assumes anything of the application's calls,
of other clients, or that the compositor stays. It is what the two `CallsReturn` need: no call, nested
in callbacks or not, waits for ever. That of IlmLifecycle names three exceptions the code has
(`Abandoned`, `Spinning`, `crashed`; section 5). The other modules state safety only: nothing there
has to happen.

**Deadlock** is checked in all runs but those of IlmControl and IlmLifecycle, where an application may
make no call any more, and the bounds end the run. In the others a state that may end is an action
of its own (`Finished`, `Exit`) that says when.

**Symmetry** is used for surfaces, layers, controllers, clients and addresses in runs without
liveness properties; seats and outputs are not interchangeable (`DefaultSeat`, `screen_ids`), and
ids are in IviShell only.

## 5. Where the code and its documents disagree

Two runs end with a trace; `PROJECT.json` quotes the lines.

- **IviSceneNegative**: a negative parameter, which should leave a value unchanged, takes the
  committed one and takes back a change that is still pending.
- **IlmFreed**: a context is kept across a roundtrip that frees it (`ilm_getSurfaceIDsOnLayer`, three
  notification calls, the walk of `ilm_registerNotification`).

What else showed while the modules were written, with the state or the constant that shows it. The
properties are stated so that they hold of the code as it is; each of these is the reason for an
exception in one, or for a bound.

*Registry and scene.* SYNC_ADD twice and SYNC_REMOVE once leaves a notification (`Registered` and not
`wants` in IviShell). The layout engine finds the background surface by its id, but its struct is not in
`list_surface`: a request that names it (`surface_sync`, `surface_get`, `set_surface_type`) dereferences
NULL, and so does its first configure when no ivi client made the background layer (`fault`). When
`weston.ini` sets no id for it, as the shipped one, the id is -1, that of every surface without one: the
second of them overwrites `bkgnd_surface`, and the first to go frees the other's struct (`shared`).
`SurfacesOwned` says what is left: no other surface is affected, and nothing of it happens to a surface
with another id.

*Screens.* `destroy_screen` destroys the resources clients made, so the library's own
`ivi_wm_screen_destroy` names an object that is gone, which is a protocol error and ends the
connection of every ilm client when an output is unplugged (`Lost` in IviScreens). Ids may collide
when an output with a configured id has the number of another one (`ScreenId`).
With `screen_id_offset = 0`, the default and that of the shipped `weston.ini`, an id of 0 finds a context
whose id has not arrived, and a request reaches the wrong screen: the exception
`RequestsReachTheirScreen` names, in the run since its offset is 0. A synchronous screenshot waits under the
lock for ever if its output goes before the next frame (`Stranded`, the exception in `ShotsAwaited`). When
the screen of `ilm_getLayerIDsOnScreen` goes during the roundtrip the listener frees its context, and the
call goes on with the freed struct: it returns anything or the process dies (`create_layerids_freed`);
`LayersAnswered` says that this is only so when the output is gone. A client that leaves during a shot
frees the struct weston still holds.

*Life cycle.* `ilm_init` and `ilm_destroy` hold different locks, so that two threads that call one
each at a time may tear down what the other sets up, or lose a count. Such interleavings are in the run;
`HoldersServed` promises nothing once both locks were held at the same time (`overlapped`), while
`CallsReturn` of IlmLifecycle makes no such exception. The control thread leaves
its loop on a failed flush without `wl_display_cancel_read`, and a thread that waits to read waits for
it (`Abandoned`); `ilm_common.h:83-84` promises a result. It may also dispatch a failed queue without
end (`Spinning`). A failed `init_control` leaves the controller's proxy of a connection that is closed
for the next `ilm_init` to use (`crashed`); where nothing overlapped, `HoldersServed` says that this is
the only way to that end.

*Start-up.* A `wet_module_init` that fails frees the shell under its listeners and its global; a
client of `ivi_wm` that leaves after `ivi_shell_destroy` reaches into lists that are gone; a surface
that exists when the module is loaded never gets its list of accepted seats. `NothingFreedIsUsed`
names the three.

*Input.* The end of a seat takes it from the accepted seats of every surface without an event, so a client's
list keeps it, and when the seat comes back `ilm_setInputAcceptanceOn` sends nothing for it (`gone` in
IlmInput: nothing is promised of such a name). `input_focus` does not name the seat: the loss of one of two
keyboards is told as the loss of the focus (the exceptions in `KeyboardFocusIsKnown`, and `parted` in
`AnswersAreCurrent`). A surface that refuses a seat keeps `forced` after its end, as
`handle_surface_destroy` clears it for seats the surface accepts only, and `pointer_grab_focus` follows the
freed pointer (`ForcedViews`; `ForcedFocusStays` is about surfaces that live). A request to force the
pointer is ignored when it follows a withdrawn one for the same surface that has not taken effect. A
`wl_keyboard` that is bound after the focus was set gets keys without an enter.

*Mirror.* The listener for a destroyed surface calls the application before it unlinks the context; if
the callback calls the library and the surface's re-creation has arrived, the new surface is taken for
the old one and lost when that is freed (`missed`, the exception in `MirrorCatchesUp` and, with a context
that still goes, in `GettersAnswer`). A notification for a surface still to come is accepted, but nobody asks the
compositor for its properties (`LayersInformed` is about layers for that reason). If its callback calls
the library the surface's created event may come meanwhile; the surface then has two contexts, and when it
is destroyed one is left, whose old properties `ilm_getPropertiesOfSurface` returns (`doubled`, the other
exception in `GettersAnswer`; it takes three calls).

*Analysis.* Where a surface begins left of, or above, what its layer shows, the unsigned subtraction wraps,
and what the conversion to int makes of it differs between processors (`Ordinary` leaves the case out; on
one that saturates `CleanMeansSeen` does not hold there). A scaled layer may lose the last column or row of
its surfaces to the rounding of doubles: of 49 columns shown as 64, 64 / 49 * 49 is 63.99..., the last pixel
is 62, and a surface over pixel 63 is not found (`Firm` takes such pixels out). A surface that reaches one
pixel beyond its layer is reported as inside. A surface that is moved during the capture may be reported as
on no layer, and a call that failed for another object leaves properties that are zero.

## 6. Proofs

**IviShellProofs** proves for any sets of surfaces, layers, controllers, addresses and ids, under
`IdAssumption` (the invalid id is none of the other ids, and what stands for NULL is no id, surface or
controller) and `ObjectAssumption` (surfaces and layers are different things):

- `TypeCorrect`: `Spec => []TypeOK`;
- `NotificationsSoundAlways`, `SurfacesOwnedAlways`, `SubscribersRegisteredAlways`,
  `AnnouncedAreListedAlways`: the invariants of the run;
- `SubscribersStayCurrentAlways`: the action property.

The invariants are inductive together, not each alone. Freeing is by object in one handler and by controller
in another, so `ControllerListsSound` is needed to see that `unbind_resource_controller` leaves no
notification of that controller behind, and `ObjectListsSound` (a notification is in one object's list) that
removing an object leaves none of it in a controller's. `SubscribersRegistered` needs both: what is freed
belongs to the object or the controller that goes, so nobody else's subscription is lost. `SurfacesOwned` is
about any id of the background, -1 too, and about requests that name it; what it says of the background's
struct and view stops when two surfaces have that id (`shared`). That there are not two with another id is
`IdsUnique`, which `AnnouncedAreListed` needs. For each conjunct there is a lemma for the signals of
surfaces and one for the requests of controllers, with a step per handler. What unlinking, adding and
removing a notification preserves has lemmas of its own (`UnlinkKeepsSound`, `SyncAddSurfaceSound`,
`SyncRemoveSound`, ...), because several handlers do it.

**IviSceneProofs** proves for any clients, objects, fields and values, under the assumptions on the
constants of IviScene:

- `SceneImplemented`: `Spec => ImplementsScene`. Initial states map to initial states, and each
  handler to one step of `Scene` or a stutter: a setter to `Ask`, a commit to `Show`, the resize of a
  desktop surface to `AskAndShow`, objects to `Come` and `Go`, everything of a client and of the
  connection to a stutter;
- `ToldIsShownAlways`: what a client was told is on display. It needs that the looks of all objects
  have their shape (`Shaped`), and that a commit tells exactly the fields that differ;
- `GetErrorAlwaysTells`: the answer of `ilm_getError`. The invariant is about where a client's
  `wl_display.sync` is: the last of its requests, answered by the last of its events, or nowhere
  (`Await`); and an error that was sent is in the flag or in front of that answer (`ErrorKnown`);
- `SceneTypesAlways`: the type invariant. What it needs beyond types is that a layer never has a surface
  twice, which `Append` keeps only because the surface was removed first (`Stacked`);
- `CommitAlwaysDelivers`, under `DistinctOrders` (an order asks for a surface once: one that is asked for
  twice is shown once, so what was asked for is not what is shown). The invariant says of every property
  a client asked for where its value is: pending, or in the last request on its way that sets it
  (`FieldOnItsWay`). An order is the hard case, since it takes a clear and one request for each surface: it
  is on its way as a whole, or its first k surfaces are what is pending and the others are the next
  requests, with nothing that stacks after them (`OrderOnItsWay`). `Delivers` says that from the commit of
  a call on only its sync is behind it, so that at the answer nothing can be on its way any more. Requests
  of another client that touch a property end the claim about it (`Less`).

**IviScreensProofs** proves of IviScreens and IviScreenshots for any clients, outputs, layers, modes, ids
and bounds:

- `ScreensTyped`: the types of all variables;
- `ResourcesAlwaysSound`, `ScreensAlwaysKnown`, `AnswersAlwaysFindTheirShot`, `ShotsAlwaysAwaited`,
  `BackgroundAlwaysCovers`: the invariants of the run;
- `LayersAlwaysAnswered`: the action property;
- `RequestsAlwaysReachTheirScreen`, for every offset, 0 included (the default, `ivi-controller.c:1961`). A
  context has the id 0 until its screen_id event, so a request for 0 may go to any such screen, which is the
  exception the property names; that every other one goes where it should needs `Directed`, below.

All but the background stand on `Base`: the types, and per client what the compositor has of it (`Registered`: a
client that listens is connected, one that has gone has no object anywhere). The module first reduces
every step to what it means to one client (`StepCases`): nothing, an output that comes, goes or is
resized, an answer to a shot, the end of the connection, or the client's own request, event or call,
each with the new list of contexts and what is sent. The invariants are then about one client each:

- `ShotOf`: a shot is in exactly one place, on the wire, with weston or in the inbox, its struct is there,
  and a call that waits for it waits in the way that fits the place;
- `Directed`: what names an output names one there has been, with that output's id, or with 0 from a context
  whose screen_id event has not been heard;
- `Heard`: for every global, a client has heard of it or is about to, at most once, and when the output is
  gone so does it hear, behind the global (`Leaving`), so that no context is left of a screen that went
  and none is made twice;
- `Described`: of each context, id and size are right or their events are on the way, where the last
  `mode` event in the inbox is the one that counts (`LastIs`).

`LayersAlwaysAnswered` says something about the step in which a call returns, and needs what led to it
(`Listings`): who has a sync, or a done event for it, on its way (`Exchanges`: one at most, and none unless
ilm_init or a call waits), and how far a call for layers has come (`Listing`). Until the compositor has served
its `get`, that request is ahead of the sync and every context is empty (`Asked`); afterwards the context has
the first k layers of the order, the inbox has the rest in their order, and no done event before the last of
them (`Delivers`, `Begun`). The other events in between leave the queue of layers as it is, since what they
append comes after it. So when the done event is heard nothing of the order is left to come. And it
needs `HeardAll`: as the call names a screen whose global has been heard, no new context of that screen
can come in between. Outside a call all contexts are empty, since each call that reads them empties
them (`Unasked`), which is why nothing of an earlier answer is in a later one.

What sequences need for that is proved first: what is in `Tail(q)`, `q \o r` and `Only(q, T)`, that
something is in a queue once, followed by something, or last. `BackgroundAlwaysCovers` needs the sum
that `MapThenSumSet` computes (`BreadthMore`: taking one output away takes its width away, whichever it
is), which is proved with a least counterexample.

**IviInputProofs** proves for any surfaces, seats and clients, under `InputAssumption`:

- `TypesAreRight`, `FocusIsAlwaysAccepted`, `AcceptedIsAlwaysKnown`: three invariants of the run;
- `ForcedFocusAlwaysStays`: the action property;
- `KeyboardFocusAlwaysKnown`, for any number of seats: `input_focus` does not name the seat, so a client
  takes the event that one of them lost the focus for the end of it; the action property says that there is
  no other way in which a client comes to miss a keyboard focus. Each handler that clears flags of the
  keyboard and tells so must clear them for the seat, or for another one (`KeysFit`). A request to take the
  focus away with a touch mask tells the whole mask, but clears the flags of seats with a keyboard only;
  that this leaves none is `KeyboardIsThere`, which `keyboard_grab_cancel` keeps.

`FocusIsAccepted` is not inductive: a refusal takes the focus away only if the seat has the device and
the flag is of a surface that is listed. `Capable` (a flag, a focus or a forced focus only on a seat
that has the device) and `Listed` (a view in focus is of an existing surface) are what the handlers
keep. One lemma per handler; what the pointer handlers may make of a pointer (`Outcome`) is one value,
so that each outcome is considered once.

**IlmInputProofs** proves for any surfaces, seats, keys, calls and other events:

- `KeysFollowFocusAlways`: the keyboard of a seat has entered just the surfaces with its focus flag, and
  their applications hold exactly the keys that are down.

A keyboard that goes must leave every surface it has entered, and a surface that comes again must not
find a flag: `Reachable` says that flags are of listed surfaces and of seats with a keyboard, and is
what makes the property inductive. `Leave`, `PassOn` and the loss of a device have a lemma each, because
several handlers do them. It proves also:

- `AcceptanceAlwaysAsAsked`: a surface accepts just the seats asked for once the requests of the call are
  handled; and `AnswersAlwaysCurrent`: an answer is the state of the compositor at its sync.

Seats may come back under their names and all of them may have keyboards. What the code fails in is said in
the properties: a name that was destroyed once (`gone`) may still be in a client's list, and a surface that
one of several keyboards has left (`parted`) is taken for one without the focus. The invariant relates
mirror and compositor through the events between them: there are mirrors, one for each event on its way,
that lead from the client's to the exact one (`Leads`, `Informed`); sending an event appends one,
dispatching takes the first. With it `Synced` says where the one sync of a call is, and `Asked` that each
difference between what was asked for and what is accepted is a request on its way (`Settling`).

**ClientProofs** proves of IlmLifecycle, for any threads, calls, connections and faults:

- `HoldersAlwaysServed`: between its `ilm_init` and its `ilm_destroy` a thread has an initialised library
  with a connection and a control thread, and nothing is left when nobody holds it.

It is about threads that call `ilm_init` and `ilm_destroy` as they like, up to the first time at which both
locks are held (`overlapped`, section 5). `Settled` is what the two calls have to agree on; it does not hold
while one is under way. `Phase` says for each place in them how much of the library is there, `Locks` that a
lock is held where it is taken, and `OneAtATime` that one of them is free, which is just what an overlap
ends. `Crashes` is for the one use of an earlier connection that needs no overlap, the controller of an
`ilm_init` that failed.

**IlmControlProofs** proves for any objects, addresses and bounds, and any `CallIn` where nothing is said:

- `MirrorAlwaysSound`: the invariant below;
- `LayersAlwaysInformed`: the compositor keeps the client informed of each listed layer with a callback,
  whatever the callbacks called meanwhile;
- `MirrorAlwaysCatchesUp`: layers as they are, and every surface but those whose created event met the
  context of the one before on its way out (`missed`, section 5), whatever the callbacks call;
- `MirrorAlwaysPrompt`: the second invariant below;
- `LayersAlwaysAnswer`: `ilm_getLayerIDs` and the properties of a layer are what the compositor had at
  some moment of the call;
- `GettersAlwaysAnswer`: the same of a surface's properties too, for callbacks of removed and of added
  objects that do not call the library. With those that do, the property has the exceptions `missed`,
  `doubled` and `Outgoing`; that there are no others is model-checked only, for two and for three calls.

The first two properties say nothing of the time when listeners and calls are nested, so the invariant has
to. `FramesSit` says what a callback sits on, so that what its listener or call does after the return is
known; `Listings`, that the lists hold allocated contexts of their kind, each once, and one for a layer;
`LayersLeave`, that a layer whose callback is told of its removal is not listed and not freed, and that
only one listener has it. (Of a surface the like is not true: two listeners may have it, and the second
uses it when it is freed, as `IlmFreed` shows.) The rest relates the lists to the compositor through the
events between them, as in IlmInputProofs: there is a `History` of sets of objects that leads, one event after the
other, from what the lists show (`Mirrored`: exactly for layers, at least for surfaces, and not counting
one whose removal is being told) to what exists. A layer that is listed with a callback, and in all sets
of it, is `Wanted` (the compositor counts it, or a sync request for it is on its way, with no removal
behind it), or a call is about to take the callback away (`Withdrawn`) (`Informed`). A step that the
library takes is one of few kinds: which frames stay and which comes on top, whether a context is
added, dropped or changed, what is sent; each handler is then shown to be of a kind.

The answers need a second invariant, `Prompt`, on top of the first. A getter reads the mirror when its
roundtrip is over, so what matters is which events come before the end of it. `Outstanding`: a frame that
waits has one sync request or done event on its way, and no other frame has one for its depth, however often
depths are used again. An account `M` says of each object what the client knows after `k` of the events on
their way: nothing, that it exists, or a property. It ends with the objects that exist (`Recounts`), and
begins with what the contexts show (`Shows`), where no two contexts show one object (`Unique`). Since
`ToAdd` makes a context without looking again, this needs that a surface whose callback is told that there
is none has still none when it returns (`AwaitsContext`). What the account says of a getter's object after
the events that precede the end of its roundtrip, or later, is one of its answers (`Claim`): while the sync
is a request, because the request for the properties is before it (`Asked`) or the last of the account is an
answer already; once the done event is sent, from its place on; and each event the compositor sends later
only tells of a state that the getter, still waiting, has witnessed (`Current`).

**IviModulesProofs** proves for any clients, seats and events, and every configuration:

- `NothingFreedIsEverUsed`: but for the exceptions the property names, no handler uses a struct that is
  not allocated.

The invariant says that a listener is linked only while its struct is allocated (`Linked`), that the
shell is the last in the destroy signal, so that each module finds it at its own end (`Ordered`), how
far `wet_module_init` has come at each step (`Loading`), and what clients are bound to (`Bound`).

**IviModulesProofs** also proves of IdAgent (the module's two parts share nothing; the names of IdAgent's
specification begin with `Agent`), for any surfaces, applications, ids and configurations, under
`AgentAssumption` (the ids are an initial segment of the naturals, and the invalid id is the next
number):

- `AgentInvariant`: `Spec => []IInv`, and `AgentNames`: `Spec => []NInv`;
- `ReservedAlways`: an id of a section is held by no desktop application it does not match;
- `DefaultIdsFreshAlways`: an id of the interval is given once;
- `ElementsAlwaysName`: an element that names a surface names one that lives and has its id;
- `SectionsAlwaysServe`: an application with a free matching section gets such an id;
- `AgentTypes`: the type invariant, which includes that no two surfaces have one id.

`ReservedForTheirApps` is not inductive: the interval could reach a section's id, or a second
section with the same id could give it to its own application. The strengthening is what
`read_config` establishes and no handler disturbs: sections name different ids (`SectionsDiffer`),
none of them in the interval, whose next id only grows (`IntervalApart`); and only desktop surfaces
that live have an application (`LivingApps`). `NInv` adds what ties elements to surfaces: since elements
and surfaces differ in their ids, no surface is named twice, so that `surface_event_remove`, which stops
at the first element, leaves none behind.

**ClientProofs** also proves of SceneAnalysis (the names of its specification begin with `Tool`), for scenes
of any size, and for all whole numbers as coordinates:

- `IntersectExact`: `intersect` tells exactly whether two rectangles have a pixel in common;
- `OcclusionIsFound`: a surface that firmly has a pixel of the target is found by `analyzeOcclusion`, where the
  unsigned arithmetic does not wrap and the ends fit an int, whichever way the doubles are rounded. It needs
  that every such pixel is within the coordinates that may be computed for it, a fact about division at
  both ends (`DivLow`, `DivHigh`) and about an error of less than one part in `Exactness` (`RoundedBelow`,
  `RoundedAbove`, `PixelsAreWithin`);
- `CleanAlwaysSeen`: if the tool finds no problem in a scene that stood still then the surface is drawn, and no
  pixel it firmly has is covered. It has three parts. A scene that
  stands still is captured call by call (`Screened`, `Layered`, `Ordered`, `Surfaced`: each says of one
  loop that what it has come to is captured as it is). A surface that is above another is behind it in the
  list of `getSceneRenderOrder` (`AboveIsAfter`), for which it is proved what `FlattenSeq` keeps of the
  sequences it joins (`FlattenKeeps`, by a least counterexample, since its recursive function is beyond
  the induction theorems here). And the geometry, for each pixel;
- `AbsenceWasRealAlways`: a surface that is reported not to exist did not at some time since the command.

Only model-checked: both `CallsReturn`, because liveness under fairness and `ENABLED` are beyond TLAPS
here. So is induction over data by the theorems of the library, whose parameter is an operator: the
modules state most walks over a list by their result (`Lookup`, `Usable`, `Released`), and no module has
a RECURSIVE operator.

## 7. Not modelled

- Memory that runs out, except where a notification is allocated (`Notifs`) and where the mirror
  needs a context (`SurfacePtrs`: there is always one when the bounds leave a call).
- Parsing of `weston.ini` but for the sections of the id agent; the text of errors and logs; pixels
  and files of screenshots.
- Axis and frame events of pointers, modifiers to surfaces with pointer focus.
- ilmControl: `gen_layer_id`, a NULL callback, argument checks that unlock without having locked.
- The libraries' modules are not composed into one: the mirror of surfaces and layers (IlmControl), of
  screens (IviScreens), of seats (IlmInput) and the threads (IlmLifecycle) are checked apart, each with
  the part of the compositor it talks to. All of them share only the lock, which serialises them, and the
  queue, which keeps the order.
- ilmClient, the demonstration programs and the other commands of LayerManagerControl keep no state the
  system depends on.
- Weston, libwayland and the layout engine, except for what the code uses of them (marked external in
  `PROJECT.json`).

## 8. Plan

| module | models | proved |
|---|---|---|
| IviShell, IviShellProofs | registry and notifications | its invariants and action property |
| Scene, IviScene, IviSceneProofs | pending and shown properties, commit | the refinement and all invariants and action properties |
| IviScreens, IviScreenshots, IviScreensProofs | outputs, screens, background, screenshots | all invariants and the action property |
| IviInput, IviInputProofs | acceptance and focus | all properties |
| IlmInput, IlmInputProofs | the client of it, and keys | `KeysFollowFocus`, `AcceptanceAsAsked`, `AnswersAreCurrent` |
| IlmControl, IlmControlProofs | mirror, nested calls and callbacks | all invariants |
| IlmLifecycle, ClientProofs | init, destroy, threads, a lost connection | `HoldersServed` |
| IviModules, IviModulesProofs | start-up and shutdown | `NothingFreedIsUsed` |
| SceneAnalysis, ClientProofs | LayerManagerControl analyze | both properties, the geometry |
| IdAgent, IviModulesProofs | ids of desktop surfaces | all its properties |

What could be added: an abstract directory of objects that both IviShell and IlmControl implement (bind,
created and destroyed events).
