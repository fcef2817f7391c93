------------------------------ MODULE IlmInput ------------------------------
(***************************************************************************)
(* Input from one end to the other: a client of ilmInput                   *)
(* (ilmInput/src/ilm_input.c) says from which seats surfaces accept input  *)
(* and which have the keyboard focus; its requests travel to the           *)
(* ivi-input-controller, whose events travel back into the mirror the      *)
(* library decides from; and the keyboard grab of a seat passes keys on to *)
(* the applications of the surfaces.                                       *)
(*                                                                         *)
(* Requests and events are handled in the order they were sent.  Every     *)
(* call of ilmInput first makes a roundtrip and then reads the mirror, so  *)
(* a call decides from the state its wl_display.sync met, while seats,     *)
(* surfaces and the requests of other clients change that state.           *)
(*                                                                         *)
(* IviInput models the pointer, touch and several clients; here a seat     *)
(* always has a pointer, and its keyboard comes and goes.  What the        *)
(* application of a surface was sent by wl_keyboard is in entered and      *)
(* held; it has bound the keyboard of every seat before.                   *)
(***************************************************************************)
EXTENDS Naturals, SequencesExt

CONSTANTS Surfaces,       \* ivi surfaces, identified by their id
          Seats,          \* seats, identified by their name
          DefaultSeat,    \* ctx->seat_default_name
          KeyboardSeats,  \* the seats that may have a keyboard
          FocusLists,     \* the lists of surfaces given to ilm_setInputFocus
          MaxCalls,       \* bound on calls of ilmInput
          MaxEvents,      \* bound on what happens otherwise
          None            \* nothing asked for

ASSUME IlmInputAssumption ==
    /\ IsFiniteSet(Surfaces) /\ IsFiniteSet(Seats)
    /\ KeyboardSeats \subseteq Seats
    /\ FocusLists \subseteq Seq(Surfaces)
    /\ MaxCalls \in Nat /\ MaxEvents \in Nat

KEYBOARD == "keyboard"
POINTER  == "pointer"
Keys == {"key", "modifier"}

VARIABLES
    list_surface,   \* the surfaces of the shell
    seat_list,      \* the seats with a struct seat_ctx
    gone,           \* the names of seats that were destroyed
    keyboard,       \* the seats with a weston_keyboard
    accepted,       \* the seats in accepted_seat_list of each surface
    focus,          \* of these, the seats whose st_focus has KEYBOARD
    pressed,        \* keyboard->keys and keyboard->modifiers of each seat
    entered,        \* the seats whose keyboard entered an application
    held,           \* the keys and modifiers it was sent
    wire,           \* requests on their way
    inbox,          \* events on their way
    mirror,         \* list_seat and list_surface of the library
    call,           \* the call the client is in
    quiet,          \* nothing else happened since the call's sync
    want,           \* the seats the client expects a surface to accept
    parted,         \* surfaces that a keyboard left while another stayed
    calls, events   \* bounded counts

world == <<list_surface, seat_list, gone, keyboard, accepted, focus>>
apps  == <<pressed, entered, held>>
ghost == <<quiet, want>>
vars  == <<world, apps, wire, inbox, mirror, call, ghost, parted, calls, events>>

NoCall == [op |-> "none"]
Clear(S, with) == [s \in Surfaces |-> IF s \in S THEN with ELSE {}]
Defaults == seat_list \cap {DefaultSeat}

\* The client has finished ilm_init in a scene of any size.
Init ==
    /\ list_surface \in SUBSET Surfaces
    /\ seat_list \in SUBSET Seats
    /\ gone = {}
    /\ keyboard \in SUBSET (seat_list \cap KeyboardSeats)
    /\ accepted = Clear(list_surface, Defaults)
    /\ focus = Clear({}, {})
    /\ pressed = [t \in Seats |-> {}]
    /\ entered = Clear({}, {})
    /\ held = [s \in Surfaces |-> [t \in Seats |-> {}]]
    /\ wire = <<>> /\ inbox = <<>>
    /\ mirror = [seats |-> seat_list, keyboards |-> keyboard, surfaces |-> list_surface,
                 accepted |-> accepted, focus |-> {}]
    /\ call = NoCall
    /\ quiet = FALSE
    /\ want = [s \in Surfaces |-> None]
    /\ parted = {}
    /\ calls = 0 /\ events = 0

-----------------------------------------------------------------------------
(* The events the compositor sends.                                        *)

Sent(evs) == inbox' = inbox \o evs

SeatCreated(t)        == [ev |-> "seat_created", seat |-> t]
SeatCapabilities(t, k) == [ev |-> "seat_capabilities", seat |-> t, keyboard |-> k]
SeatDestroyed(t)      == [ev |-> "seat_destroyed", seat |-> t]
SurfaceEvent(s, on)   == [ev |-> "surface", surf |-> s, on |-> on]
InputFocus(s, on)     == [ev |-> "input_focus", surf |-> s, on |-> on]
InputAcceptance(s, t, on) == [ev |-> "input_acceptance", surf |-> s, seat |-> t, on |-> on]

FocusEvents(S, on) == SetToSeq({InputFocus(s, on) : s \in S})

-----------------------------------------------------------------------------
(* The keyboard.                                                           *)

\* input_ctrl_kbd_leave_surf
Leave(S, t) ==
    /\ focus' = [s \in Surfaces |-> IF s \in S THEN focus[s] \ {t} ELSE focus[s]]
    /\ entered' = [s \in Surfaces |-> IF s \in S THEN entered[s] \ {t} ELSE entered[s]]
    /\ held' = [s \in Surfaces |-> IF s \in S THEN [held[s] EXCEPT ![t] = {}] ELSE held[s]]

Focused(t) == {s \in list_surface : t \in focus[s]}

\* A key or a modifier k goes down or up, which the application of every
\* surface with the focus is sent.
PassOn(t, k) ==
    /\ t \in keyboard
    /\ LET now == IF k \in pressed[t] THEN pressed[t] \ {k} ELSE pressed[t] \cup {k} IN
         /\ pressed' = [pressed EXCEPT ![t] = now]
         /\ held' = [s \in Surfaces |-> [u \in Seats |->
                IF s \notin Focused(t) \/ u # t THEN held[s][u]
                ELSE (held[s][u] \ {k}) \cup (now \cap {k})]]
    /\ UNCHANGED <<world, entered, wire, inbox, mirror, call, ghost>>

keyboard_grab_key(t) == PassOn(t, "key")
keyboard_grab_modifiers(t) == PassOn(t, "modifier")

-----------------------------------------------------------------------------
(* Requests, of the client or of another one.                              *)

\* add_accepted_seat: accepting what is accepted is confirmed again.
Accept(s, t) ==
    /\ accepted' = [accepted EXCEPT ![s] = @ \cup {t}]
    /\ Sent(<<InputAcceptance(s, t, TRUE)>>)
    /\ UNCHANGED <<focus, entered, held>>

\* Mutated Refuse: the keyboard does not leave the surface.
RefuseSilently(s, t) ==
    /\ accepted' = [accepted EXCEPT ![s] = @ \ {t}]
    /\ focus' = [focus EXCEPT ![s] = @ \ {t}]
    /\ Sent(<<InputAcceptance(s, t, FALSE)>>)
    /\ UNCHANGED <<entered, held>>

\* The keyboard leaves the surface before its seat is removed from the list.
Refuse(s, t) ==
    /\ accepted' = [accepted EXCEPT ![s] = @ \ {t}]
    /\ Leave({s} \cap Focused(t), t)
    /\ Sent((IF s \in Focused(t) THEN <<InputFocus(s, FALSE)>> ELSE <<>>)
                \o <<InputAcceptance(s, t, FALSE)>>)

\* Accepting reaches nothing where the seat or the surface is not found, and
\* refusing only a seat that is accepted.
setup_input_acceptance(s, t, accept) ==
    /\ IF t \notin seat_list \/ s \notin list_surface \/ (~accept /\ t \notin accepted[s])
       THEN UNCHANGED <<accepted, focus, entered, held, inbox>>
       ELSE IF accept THEN Accept(s, t) ELSE Refuse(s, t)
    /\ UNCHANGED <<list_surface, seat_list, gone, keyboard, pressed>>

\* The keyboard of each seat the surface accepts enters or leaves it; one that
\* enters brings the modifiers and the keys that are down.
setup_input_focus(s, on) ==
    LET T == {t \in keyboard : s \in list_surface /\ t \in accepted[s] /\ (t \in focus[s]) # on} IN
    /\ focus' = [focus EXCEPT ![s] = IF on THEN @ \cup T ELSE @ \ T]
    /\ entered' = [entered EXCEPT ![s] = IF on THEN @ \cup T ELSE @ \ T]
    /\ held' = [held EXCEPT ![s] = [t \in Seats |->
                    IF t \notin T THEN @[t] ELSE IF on THEN pressed[t] ELSE {}]]
    /\ Sent([i \in 1 .. (IF T = {} THEN 0 ELSE 1) |-> InputFocus(s, on)])
    /\ UNCHANGED <<list_surface, seat_list, gone, keyboard, accepted, pressed>>

\* The oldest request of the client.  Its sync begins the time in which the
\* call looks at the scene.
HandleRequest ==
    /\ wire # <<>>
    /\ LET r == Head(wire) IN
         \/ /\ r.op = "sync"
            /\ Sent(<<[ev |-> "done"]>>)
            /\ quiet' = TRUE
            /\ UNCHANGED <<world, apps>>
         \/ /\ r.op = "acceptance"
            /\ setup_input_acceptance(r.surf, r.seat, r.on)
            /\ UNCHANGED quiet
         \/ /\ r.op = "focus"
            /\ setup_input_focus(r.surf, r.on)
            /\ UNCHANGED quiet
    /\ wire' = Tail(wire)
    /\ UNCHANGED <<mirror, call, want, calls, events>>

-----------------------------------------------------------------------------
(* What happens otherwise.                                                 *)

Expect(f(_)) == want' = [s \in Surfaces |-> IF want[s] = None THEN None ELSE f(s)]
Unsettled(s) == want' = [want EXCEPT ![s] = None]

\* Requests of another client.
others_set_acceptance(s, t, accept) ==
    /\ setup_input_acceptance(s, t, accept)
    /\ Unsettled(s)
    /\ UNCHANGED <<wire, mirror, call>>

others_set_focus(s, on) ==
    /\ KeyboardSeats # {}
    /\ setup_input_focus(s, on)
    /\ UNCHANGED <<wire, mirror, call, want>>

\* handle_surface_create, after the surface was announced by ivi_wm.
surface_created(s) ==
    /\ s \notin list_surface
    /\ list_surface' = list_surface \cup {s}
    /\ accepted' = [accepted EXCEPT ![s] = Defaults]
    /\ Sent(<<SurfaceEvent(s, TRUE)>> \o SetToSeq({InputAcceptance(s, t, TRUE) : t \in Defaults}))
    /\ Unsettled(s)
    /\ UNCHANGED <<seat_list, gone, keyboard, focus, apps, wire, mirror, call>>

\* handle_surface_destroy; the application of the surface is gone with it.
surface_destroyed(s) ==
    /\ s \in list_surface
    /\ list_surface' = list_surface \ {s}
    /\ accepted' = [accepted EXCEPT ![s] = {}]
    /\ focus' = [focus EXCEPT ![s] = {}]
    /\ entered' = [entered EXCEPT ![s] = {}]
    /\ held' = [held EXCEPT ![s] = [t \in Seats |-> {}]]
    /\ Sent(<<SurfaceEvent(s, FALSE)>>)
    /\ Unsettled(s)
    /\ UNCHANGED <<seat_list, gone, keyboard, pressed, wire, mirror, call>>

\* The default seat is accepted by every surface there is.  A name may come back.
handle_seat_create(t) ==
    /\ t \notin seat_list
    /\ seat_list' = seat_list \cup {t}
    /\ LET S == {s \in list_surface : t = DefaultSeat} IN
         /\ accepted' = [s \in Surfaces |-> IF s \in S THEN accepted[s] \cup {t} ELSE accepted[s]]
         /\ Sent(<<SeatCreated(t)>> \o SetToSeq({InputAcceptance(s, t, TRUE) : s \in S}))
         /\ Expect(LAMBDA s : IF s \in S THEN want[s] \cup {t} ELSE want[s])
    /\ UNCHANGED <<list_surface, gone, keyboard, focus, apps, wire, mirror, call>>

\* keyboard_grab_cancel runs when weston releases the keyboard of a seat.
\* A keyboard that comes has no keys down.
handle_seat_updated_caps(t) ==
    /\ t \in seat_list \cap KeyboardSeats
    /\ pressed' = [pressed EXCEPT ![t] = {}]
    /\ IF t \in keyboard
       THEN /\ keyboard' = keyboard \ {t}
            /\ Leave(Focused(t), t)
            /\ Sent(FocusEvents(Focused(t), FALSE) \o <<SeatCapabilities(t, FALSE)>>)
       ELSE /\ keyboard' = keyboard \cup {t}
            /\ Sent(<<SeatCapabilities(t, TRUE)>>)
            /\ UNCHANGED <<focus, entered, held>>
    /\ UNCHANGED <<list_surface, seat_list, gone, accepted, wire, mirror, call, want>>

\* Weston releases the keyboard before the seat; no surface is told that it
\* no longer accepts the seat.
destroy_seat(t) ==
    /\ t \in seat_list \ keyboard
    /\ seat_list' = seat_list \ {t}
    /\ gone' = gone \cup {t}
    /\ accepted' = [s \in Surfaces |-> accepted[s] \ {t}]
    /\ Sent(<<SeatDestroyed(t)>>)
    /\ Expect(LAMBDA s : want[s] \ {t})
    /\ UNCHANGED <<list_surface, keyboard, focus, apps, wire, mirror, call>>

World ==
    /\ events < MaxEvents
    /\ events' = events + 1
    /\ quiet' = FALSE
    /\ \/ \E t \in Seats : handle_seat_create(t) \/ destroy_seat(t)
       \/ \E t \in Seats : handle_seat_updated_caps(t)
       \/ \E s \in Surfaces : surface_created(s) \/ surface_destroyed(s)
       \/ \E s \in Surfaces, t \in Seats, on \in BOOLEAN : others_set_acceptance(s, t, on)
       \/ \E s \in Surfaces, on \in BOOLEAN : others_set_focus(s, on)
    /\ UNCHANGED calls

Typing ==
    /\ events < MaxEvents
    /\ events' = events + 1
    /\ \E t \in Seats : keyboard_grab_key(t) \/ keyboard_grab_modifiers(t)
    /\ UNCHANGED calls

-----------------------------------------------------------------------------
(* The library: events into the mirror.                                    *)

\* A second creation only renews the capabilities; a new seat has no keyboard.
input_listener_seat_created(e) ==
    mirror' = [mirror EXCEPT !.seats = @ \cup {e.seat}, !.keyboards = @ \ {e.seat}]

\* Mutated input_listener_seat_capabilities: a device that goes is overlooked.
input_listener_seat_capabilities_only(e) ==
    mirror' = IF e.seat \notin mirror.seats \/ ~e.keyboard THEN mirror
              ELSE [mirror EXCEPT !.keyboards = @ \cup {e.seat}]

input_listener_seat_capabilities(e) ==
    mirror' = IF e.seat \notin mirror.seats THEN mirror
              ELSE [mirror EXCEPT !.keyboards =
                        IF e.keyboard THEN @ \cup {e.seat} ELSE @ \ {e.seat}]

\* The accepted seats of the surfaces stay as they are.
input_listener_seat_destroyed(e) ==
    mirror' = [mirror EXCEPT !.seats = @ \ {e.seat}, !.keyboards = @ \ {e.seat}]

input_listener_input_focus(e) ==
    mirror' = IF e.surf \notin mirror.surfaces THEN mirror
              ELSE [mirror EXCEPT !.focus = IF e.on THEN @ \cup {e.surf} ELSE @ \ {e.surf}]

input_listener_input_acceptance(e) ==
    mirror' = IF e.surf \notin mirror.surfaces THEN mirror
              ELSE [mirror EXCEPT !.accepted[e.surf] =
                        IF e.on THEN @ \cup {e.seat} ELSE @ \ {e.seat}]

\* wm_listener_surface_created, wm_listener_surface_destroyed: a context comes
\* without seats and focus, and goes with them.
wm_listener_surface(e) ==
    mirror' = IF e.on = (e.surf \in mirror.surfaces) THEN mirror
              ELSE [mirror EXCEPT !.surfaces = IF e.on THEN @ \cup {e.surf} ELSE @ \ {e.surf},
                                  !.accepted[e.surf] = {}, !.focus = @ \ {e.surf}]

\* By the control thread, or by the roundtrip of a call, which may read past
\* the end of its own wl_callback.
Dispatch ==
    /\ inbox # <<>>
    /\ inbox' = Tail(inbox)
    /\ LET e == Head(inbox) IN
         CASE e.ev = "seat_created"      -> input_listener_seat_created(e) /\ UNCHANGED call
           [] e.ev = "seat_capabilities" -> input_listener_seat_capabilities(e) /\ UNCHANGED call
           [] e.ev = "seat_destroyed"    -> input_listener_seat_destroyed(e) /\ UNCHANGED call
           [] e.ev = "input_focus"       -> input_listener_input_focus(e) /\ UNCHANGED call
           [] e.ev = "input_acceptance"  -> input_listener_input_acceptance(e) /\ UNCHANGED call
           [] e.ev = "surface"           -> wm_listener_surface(e) /\ UNCHANGED call
           [] e.ev = "done"              -> call' = [call EXCEPT !.synced = TRUE] /\ UNCHANGED mirror
    /\ UNCHANGED <<world, apps, wire, ghost, calls, events>>

-----------------------------------------------------------------------------
(* The library: calls.                                                     *)

\* sync_and_acquire_instance, after the check of the arguments.
Begin ==
    /\ call = NoCall
    /\ calls < MaxCalls
    /\ calls' = calls + 1
    /\ wire' = Append(wire, [op |-> "sync"])
    /\ quiet' = FALSE
    /\ UNCHANGED <<world, apps, inbox, mirror, want, events>>

\* release_instance, with the requests the call has made.
Return(requests) ==
    /\ call' = NoCall
    /\ wire' = wire \o requests
    /\ quiet' = FALSE
    /\ UNCHANGED <<world, apps, inbox, mirror, calls, events>>

Acceptance(s, T, on) == SetToSeq({[op |-> "acceptance", surf |-> s, seat |-> t, on |-> on] : t \in T})

\* Mutated Difference: seats that are not asked for are kept.
DifferenceAdded(s, T) == Acceptance(s, T \ mirror.accepted[s], TRUE)

\* What ilm_setInputAcceptanceOn asks for: the difference to the mirror.
Difference(s, T) == Acceptance(s, T \ mirror.accepted[s], TRUE)
                        \o Acceptance(s, mirror.accepted[s] \ T, FALSE)

\* It fails, and asks for nothing, when it does not know the surface or a seat.
ilm_setInputAcceptanceOn ==
    /\ call.op = "setAcceptance" /\ call.synced
    /\ IF call.surf \in mirror.surfaces /\ call.seats \subseteq mirror.seats
       THEN /\ Return(Difference(call.surf, call.seats))
            /\ want' = [want EXCEPT ![call.surf] = IF quiet THEN call.seats ELSE None]
       ELSE Return(<<>>) /\ UNCHANGED want

\* One request per surface, up to the first surface that is not known.
ilm_setInputFocus ==
    /\ call.op = "setFocus" /\ call.synced
    /\ \E n \in 0 .. Len(call.surfaces) :
         /\ \A i \in 1 .. n : call.surfaces[i] \in mirror.surfaces
         /\ n < Len(call.surfaces) => call.surfaces[n + 1] \notin mirror.surfaces
         /\ Return([i \in 1 .. n |-> [op |-> "focus", surf |-> call.surfaces[i], on |-> call.on]])
    /\ UNCHANGED want

\* The getters: what they answer from the mirror.
ilm_getInputAcceptanceOn(s) == mirror.accepted[s]
ilm_getInputDevices(device) == IF device = KEYBOARD THEN mirror.keyboards ELSE mirror.seats
ilm_getInputDeviceCapabilities(t) ==
    {d \in {KEYBOARD, POINTER} : t \in ilm_getInputDevices(d)}
ilm_getInputFocus == [s \in mirror.surfaces |-> s \in mirror.focus]
ilm_getDefaultSeat == mirror.seats \cap {DefaultSeat}

GetterReturns ==
    /\ call.op = "get" /\ call.synced
    /\ Return(<<>>)
    /\ UNCHANGED want

\* A list of surfaces is refused at once for the pointer; alone it is served.
CallLibrary ==
    /\ Begin
    /\ \/ \E s \in Surfaces, T \in SUBSET Seats :
               call' = [op |-> "setAcceptance", surf |-> s, seats |-> T, synced |-> FALSE]
       \/ \E q \in FocusLists, on \in BOOLEAN :
               call' = [op |-> "setFocus", surfaces |-> q, on |-> on, synced |-> FALSE]
       \/ call' = [op |-> "get", synced |-> FALSE]

Finished ==
    /\ call = NoCall /\ wire = <<>> /\ inbox = <<>>
    /\ UNCHANGED vars

\* A surface is parted from when a keyboard leaves it, but not the last one,
\* until one enters or all have left.
Parting ==
    parted' = {s \in Surfaces :
                 /\ focus'[s] # {} /\ focus'[s] \subseteq focus[s]
                 /\ (s \in parted \/ focus'[s] # focus[s])}

Next ==
    /\ \/ CallLibrary
       \/ ilm_setInputAcceptanceOn \/ ilm_setInputFocus \/ GetterReturns
       \/ HandleRequest \/ Dispatch \/ World \/ Typing
       \/ Finished
    /\ Parting

Spec == Init /\ [][Next]_vars

-----------------------------------------------------------------------------
\* A surface accepts just the seats its client asked for last with
\* ilm_setInputAcceptanceOn, once the requests it made of the difference to
\* its mirror are handled, and unless another client or a new surface has
\* changed that since; seats that go are left out and the default seat comes
\* in.  Of a seat that came back under its name nothing is promised: the mirror
\* may still list the one that went (destroy_seat), and a request for that one
\* may reach the new one.
AcceptanceAsAsked ==
    \A s \in Surfaces :
        (want[s] # None /\ \A i \in DOMAIN wire : wire[i].op # "acceptance")
            => accepted[s] \ gone = want[s] \ gone

\* What the calls of ilmInput answer is what there was in the compositor at
\* their wl_display.sync, or happened since: if nothing did, they are exact.
\* But a surface may list a seat that is gone, also when it has come back, and
\* is said to have lost the focus when one of several keyboards left it.
AnswersAreCurrent ==
    (quiet /\ call # NoCall /\ call.synced) =>
        /\ mirror.surfaces = list_surface
        /\ \A s \in list_surface :
              /\ accepted[s] \subseteq ilm_getInputAcceptanceOn(s)
              /\ ilm_getInputAcceptanceOn(s) \ accepted[s] \subseteq gone
        /\ ilm_getInputDevices(POINTER) = seat_list
        /\ ilm_getInputDevices(KEYBOARD) = keyboard
        /\ \A t \in seat_list : (KEYBOARD \in ilm_getInputDeviceCapabilities(t)) = (t \in keyboard)
        /\ ilm_getInputFocus = [s \in list_surface |-> focus[s] # {} /\ s \notin parted]
        /\ ilm_getDefaultSeat = seat_list \cap {DefaultSeat}

\* The keyboard of a seat has entered just the surfaces with its focus flag,
\* and their applications know exactly the keys and modifiers that are down,
\* however acceptance, focus and keyboards change while keys are held.
KeysFollowFocus ==
    \A s \in Surfaces, t \in Seats :
        /\ (t \in entered[s]) = (t \in focus[s])
        /\ t \in entered[s] => held[s][t] = pressed[t]
        /\ t \notin entered[s] => held[s][t] = {}
=============================================================================
