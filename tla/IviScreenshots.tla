--------------------------- MODULE IviScreenshots ---------------------------
(***************************************************************************)
(* Screenshots of screens and surfaces, on top of the screens: requests,   *)
(* ivi_screenshot objects and the screenshooter of weston in               *)
(* weston-ivi-shell/src/ivi-controller.c, the calls of ilmControl and      *)
(* their callbacks in ilm_control_wayland_platform.c.                      *)
(*                                                                         *)
(* A call with a file name waits for its answer and holds the lock, one    *)
(* without returns at once and is called back.  Every shot has a number.   *)
(*                                                                         *)
(* External: weston answers a screen shot after the next frame of its      *)
(* output, and never when the output goes first.                           *)
(***************************************************************************)
EXTENDS IviScreens

CONSTANTS Sizes   \* sizes of a surface with content
ASSUME SizesAssumption == Sizes \subseteq Nat \ {0}

VARIABLES
    surf,      \* size of a surface, 0: no content, Nothing: no such surface
    held,      \* screen shots weston is taking
    shots,  \* ivi_screenshot objects of the compositor: <<client, shot>>
    contexts   \* screenshot_context structs of the clients: <<client, shot>>

shotVars == <<surf, held, shots, contexts>>
vars == <<screenVars, shotVars>>

ShotsInit ==
    /\ Init
    /\ surf = Nothing /\ held = {} /\ shots = {} /\ contexts = {}

-----------------------------------------------------------------------------
(* The client: calls.                                                      *)

Shot == calls + 1

\* create_shm_buffer needs a size; so a screen whose mode has not arrived
\* makes the call fail.
ilm_takeShoot(c, async) ==
    /\ CanCall(c, "on")
    /\ \E id \in Ids(c) :
         LET x == get_screen_context_by_id(c, id) IN
         IF x.size = Nothing THEN UNCHANGED <<wire, call, contexts>>
         ELSE /\ Send(c, <<[op |-> "screenshot", n |-> x.n, shot |-> Shot]>>)
              /\ contexts' = contexts \cup {<<c, Shot>>}
              /\ call' = [call EXCEPT ![c] = IF async THEN Idle ELSE Request("shot", Shot)]
    /\ UNCHANGED <<stage, surf, held, shots>>

\* ilm_takeSurfaceShoot: the size of the surface first.  The get request and
\* the roundtrip are one request here.
ilm_takeSurfaceShoot(c, async) ==
    /\ CanCall(c, "on")
    /\ Send(c, <<Request("surface_get", Shot)>>)
    /\ call' = [call EXCEPT ![c] = Request(IF async THEN "async" ELSE "sized", Shot)]
    /\ UNCHANGED <<stage, shotVars>>

-----------------------------------------------------------------------------
(* The compositor.                                                         *)

Answer(id, isDone) == [ev |-> "shot", n |-> id, ok |-> isDone]

controller_screen_screenshot(c, r) ==
    /\ OnScreen(c, r, "screenshot")
    /\ held' = held \cup {[client |-> c, shot |-> r.shot, n |-> r.n]}
    /\ shots' = shots \cup {<<c, r.shot>>}
    /\ UNCHANGED <<resources, inbox, orders, surf, contexts>>

surface_get(c, r) ==
    /\ r.op = "surface_get"
    /\ Reply(c, <<[ev |-> "surface", n |-> r.n, size |-> surf]>>)
    /\ Handled(c)
    /\ UNCHANGED <<objects, orders, library, shotVars>>

\* Mutated SurfaceAnswers: a buffer that is too small is not the end of it.
SurfaceAnswersTwice(id, size) ==
    IF surf \in {Nothing, 0} THEN {<<Answer(id, FALSE)>>}
    ELSE IF size < surf THEN {<<Answer(id, FALSE), Answer(id, TRUE)>>}
    ELSE {<<Answer(id, ok)>> : ok \in BOOLEAN}

\* Errors no_surface, no_content and bad_buffer; else the renderer decides.
SurfaceAnswers(id, size) ==
    IF surf \in {Nothing, 0} \/ size < surf THEN {<<Answer(id, FALSE)>>}
    ELSE {<<Answer(id, ok)>> : ok \in BOOLEAN}

\* The object is made, answered and destroyed in the request.
controller_surface_screenshot(c, r) ==
    /\ r.op = "surface_screenshot"
    /\ \E q \in SurfaceAnswers(r.n, r.size) : Reply(c, q)
    /\ Handled(c)
    /\ UNCHANGED <<objects, orders, library, shotVars>>

HandleShotRequest(c) ==
    /\ up /\ wire[c] # <<>>
    /\ LET r == Head(wire[c]) IN
         \/ controller_screen_screenshot(c, r)
         \/ surface_get(c, r)
         \/ controller_surface_screenshot(c, r)
    /\ UNCHANGED <<outputs, bounds>>

\* The object stays until the client goes.  If it has gone, the struct weston
\* calls back with is freed memory (see the README); nothing is sent here.
controller_screenshooter_done(s) ==
    /\ up /\ s \in held /\ s.n \in screens
    /\ held' = held \ {s}
    /\ \E ok \in BOOLEAN :
         IF <<s.client, s.shot>> \in shots THEN Reply(s.client, <<Answer(s.shot, ok)>>)
         ELSE UNCHANGED inbox
    /\ UNCHANGED <<outputs, orders, objects, library, wire, bounds, surf, shots, contexts>>

surface_changes(size) ==
    /\ up /\ plugs < MaxPlugs /\ plugs' = plugs + 1
    /\ surf # size
    /\ surf' = size
    /\ UNCHANGED <<outputs, orders, objects, library, wire, inbox, calls, held, shots, contexts>>

-----------------------------------------------------------------------------
(* The client: events.                                                     *)

\* ilm_takeSurfaceShoot after its roundtrip.
ilm_takeSurfaceShoot_sized(c, e) ==
    /\ e.ev = "surface"
    /\ IF e.size \in {Nothing, 0}
       THEN /\ call' = [call EXCEPT ![c] = Idle]
            /\ UNCHANGED <<wire, contexts>>
       ELSE /\ Send(c, <<[op |-> "surface_screenshot", n |-> e.n, size |-> e.size]>>)
            /\ contexts' = contexts \cup {<<c, e.n>>}
            /\ call' = [call EXCEPT ![c] = IF @.op = "async" THEN Idle
                                           ELSE Request("shot", e.n)]

\* screenshot_done and screenshot_error reset the file name, for which a call
\* waits, and free the context if no call does.
screenshot_done(c, e) ==
    /\ e.ev = "shot" /\ e.ok
    /\ contexts' = contexts \ {<<c, e.n>>}
    /\ call' = [call EXCEPT ![c] = IF @ = Request("shot", e.n) THEN Idle ELSE @]
    /\ UNCHANGED wire

\* Mutated screenshot_error: the file name is not reset.
screenshot_error_named(c, e) ==
    /\ e.ev = "shot" /\ ~e.ok
    /\ contexts' = contexts \ {<<c, e.n>>}
    /\ UNCHANGED <<wire, call>>
screenshot_error(c, e) ==
    /\ e.ev = "shot" /\ ~e.ok
    /\ contexts' = contexts \ {<<c, e.n>>}
    /\ call' = [call EXCEPT ![c] = IF @ = Request("shot", e.n) THEN Idle ELSE @]
    /\ UNCHANGED wire

DispatchShot(c) ==
    /\ up /\ inbox[c] # <<>> /\ stage[c] # "closing"
    /\ LET e == Head(inbox[c]) IN
         ilm_takeSurfaceShoot_sized(c, e) \/ screenshot_done(c, e) \/ screenshot_error(c, e)
    /\ inbox' = [inbox EXCEPT ![c] = Tail(@)]
    /\ UNCHANGED <<outputs, orders, objects, stage, ctx, bounds, surf, held, shots>>

-----------------------------------------------------------------------------
Connected(c) == stage[c] \notin {"off", "lost"}

\* controller_screenshoot_destroy frees the struct of a client that goes.
Follow ==
    /\ shots' = {x \in shots : Connected(x[1])'}
    /\ contexts' = {x \in contexts : Connected(x[1])'}
    /\ UNCHANGED <<surf, held>>

Handle(c) == HandleShotRequest(c) \/ (HandleRequest(c) /\ Follow)
Receive(c) == DispatchShot(c) \/ (Dispatch(c) /\ Follow)
Take(c) == \E async \in BOOLEAN : ilm_takeShoot(c, async) \/ ilm_takeSurfaceShoot(c, async)

Next ==
    \/ \E c \in Clients : Handle(c) \/ Receive(c) \/ Take(c) \/ (CallLibrary(c) /\ Follow)
    \/ \E c \in Clients : create_layerids_freed(c) /\ Follow
    \/ \E s \in held : controller_screenshooter_done(s)
    \/ \E size \in Sizes \cup {0, Nothing} : surface_changes(size)
    \/ Outside /\ Follow
    \/ Finished /\ Follow

Spec == ShotsInit /\ [][Next]_vars

-----------------------------------------------------------------------------
\* Every screenshot is answered at most once, and its answer finds the struct
\* of the shot it belongs to (screenshot_done and screenshot_error free it).
ShotEvents(c) == {i \in DOMAIN inbox[c] : inbox[c][i].ev = "shot"}
AnswersFindTheirShot ==
    \A c \in Clients : \A i \in ShotEvents(c) :
        /\ <<c, inbox[c][i].n>> \in contexts
        /\ ~\E s \in held : s.client = c /\ s.shot = inbox[c][i].n
        /\ \A j \in ShotEvents(c) : inbox[c][j].n = inbox[c][i].n => i = j

\* A call that waits for a screenshot does not wait in vain: its request is
\* on its way, weston takes the shot of an output that is there, or the answer
\* has arrived; whatever goes wrong with the surface, the screen or the
\* connection meanwhile.  The exception is a shot whose output went while
\* weston held it: it is never answered, and the call waits for ever.
ShotAwaited(c) ==
    LET k == call[c].n IN
    \/ \E i \in DOMAIN wire[c] :
          \/ wire[c][i].op = "screenshot" /\ wire[c][i].shot = k
          \/ wire[c][i].op = "surface_screenshot" /\ wire[c][i].n = k
    \/ \E s \in held : s.client = c /\ s.shot = k /\ s.n \in screens
    \/ \E i \in ShotEvents(c) : inbox[c][i].n = k
Stranded(c) == \E s \in held : s.client = c /\ s.shot = call[c].n /\ s.n \notin screens
ShotsAwaited == \A c \in Clients : call[c].op = "shot" => ShotAwaited(c) \/ Stranded(c)
=============================================================================
