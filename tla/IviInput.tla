------------------------------ MODULE IviInput ------------------------------
(***************************************************************************)
(* The ivi-input-controller module of the compositor                       *)
(* (ivi-input-modules/ivi-input-controller): which seats a surface accepts *)
(* input from, which surface has the pointer, touch and keyboard focus of  *)
(* a seat, and what the clients of ivi_input are told of it.               *)
(*                                                                         *)
(* Every handler runs to its end on the compositor's one thread, so each   *)
(* is an action.  Three parties change the same state in any order: the    *)
(* clients by requests, the input devices through the grabs of a seat, and *)
(* weston, which creates and destroys seats, surfaces and views and drops  *)
(* the focus of a view that goes away without asking a grab.               *)
(*                                                                         *)
(* A view is identified with its surface.  What the mirror of an ilm       *)
(* client holds once it has read every event sent is kept in told_seats,   *)
(* told_accepted and told_focus.                                           *)
(***************************************************************************)
EXTENDS Naturals, FiniteSets

CONSTANTS Surfaces,     \* ivi surfaces
          Seats,        \* seats, identified by their name
          Clients,      \* resources of ivi_input
          DefaultSeat,  \* ctx->seat_default_name
          Masks,        \* device masks clients put into their focus requests
          Hardware,     \* the devices each seat may have
          MaxTouch,     \* bound on touch->num_tp
          MaxObjects,   \* bound on the surfaces and seats there are at once
          None,         \* no view, no surface
          Elsewhere     \* the view of a surface that is no ivi surface

POINTER  == "pointer"
KEYBOARD == "keyboard"
TOUCH    == "touch"
Devices  == {POINTER, KEYBOARD, TOUCH}

ASSUME InputAssumption ==
    /\ None \notin Surfaces
    /\ Elsewhere \notin Surfaces \cup {None}
    /\ Masks \subseteq SUBSET Devices
    /\ Hardware \in [Seats -> SUBSET Devices]
    /\ MaxTouch \in Nat /\ MaxObjects \in Nat

Views    == Surfaces \cup {None, Elsewhere}

VARIABLES
    list_surface,   \* the surfaces of the shell
    seat_list,      \* the seats with a struct seat_ctx
    caps,           \* the devices of each seat
    accepted,       \* the seats in accepted_seat_list of each surface
    focus,          \* st_focus->focus of each surface and seat
    forced,         \* forced_ptr_focus_surf of each seat
    forced_enabled, \* the seats with forced_surf_enabled
    pointer_focus,  \* pointer->focus of each seat
    button_down,    \* the seats with pointer->button_count > 0
    touch_focus,    \* touch->focus of each seat
    num_tp,         \* touch->num_tp of each seat
    resource_list,  \* the bound clients
    told_seats,     \* the seats a client knows
    told_accepted,  \* the accepted seats a client has for each surface
    told_focus      \* prop.focus a client has for each surface

lists   == <<list_surface, seat_list, caps, accepted>>
pointer == <<forced, forced_enabled, pointer_focus, button_down>>
touch   == <<touch_focus, num_tp>>
told    == <<told_seats, told_accepted>>
vars    == <<lists, focus, pointer, touch, resource_list, told, told_focus>>

Init ==
    /\ list_surface = {} /\ seat_list = {}
    /\ caps = [t \in Seats |-> {}]
    /\ accepted = [s \in Surfaces |-> {}]
    /\ focus = [s \in Surfaces |-> [t \in Seats |-> {}]]
    /\ forced = [t \in Seats |-> None]
    /\ forced_enabled = {}
    /\ pointer_focus = [t \in Seats |-> None]
    /\ button_down = {}
    /\ touch_focus = [t \in Seats |-> None]
    /\ num_tp = [t \in Seats |-> 0]
    /\ resource_list = {}
    /\ told_seats = [c \in Clients |-> {}]
    /\ told_accepted = [c \in Clients |-> [s \in Surfaces |-> {}]]
    /\ told_focus = [c \in Clients |-> [s \in Surfaces |-> {}]]

-----------------------------------------------------------------------------
(* Focus flags and the events about them.                                  *)

\* The bound on surfaces and seats leaves room for one more.
Room == Cardinality(list_surface) + Cardinality(seat_list) < MaxObjects

\* The surface of view v if it is an ivi surface whose list acc has seat t.
Accepting(acc, v, t) == {s \in list_surface : s = v /\ t \in acc[s]}

\* send_input_focus: to every bound client, without the name of the seat.
\* L and G are the pairs <<surface, device>> that lose and gain the focus.
SendFocus(L, G) ==
    told_focus' = [c \in Clients |-> [s \in Surfaces |->
        IF c \in resource_list
        THEN (told_focus[c][s] \ {d \in Devices : <<s, d>> \in L})
                 \cup {d \in Devices : <<s, d>> \in G}
        ELSE told_focus[c][s]]]

\* The flags L are cleared and G set, all of them <<surface, seat, device>>.
Flagged(L, G) ==
    [s \in Surfaces |-> [t \in Seats |->
        (focus[s][t] \ {d \in Devices : <<s, t, d>> \in L})
            \cup {d \in Devices : <<s, t, d>> \in G}]]

SetFlags(L, G) ==
    /\ focus' = Flagged(L, G)
    /\ SendFocus({<<f[1], f[3]>> : f \in L}, {<<f[1], f[3]>> : f \in G})

\* send_input_acceptance, to every bound client.
SendAcceptance(S, t, accept) ==
    told_accepted' = [c \in Clients |-> [s \in Surfaces |->
        IF c \notin resource_list \/ s \notin S THEN told_accepted[c][s]
        ELSE IF accept THEN told_accepted[c][s] \cup {t}
        ELSE told_accepted[c][s] \ {t}]]

-----------------------------------------------------------------------------
(* The pointer.  An outcome is what a handler may make of the pointer of a *)
(* seat: the view it leaves in focus, the surfaces that are told to lose   *)
(* and to gain the focus, and the fields of the forced focus.              *)

Outcome(v, L, G, f, en) == [at |-> v, lose |-> L, gain |-> G, forced |-> f, enabled |-> en]
Stay(t, f, en) == Outcome(pointer_focus[t], {}, {}, f, en)

\* input_ctrl_ptr_leave_west_focus, with or without a focus to leave.
LeaveWestFocus(t, f, en) ==
    Outcome(None, Accepting(accepted, pointer_focus[t], t), {}, f, en)

\* Mutated SetWestFocus: the new surface is entered whether it accepts or not.
SetWestFocusAny(acc, t, v, f, en) ==
    IF v = pointer_focus[t] THEN Stay(t, f, en)
    ELSE Outcome(v, Accepting(acc, pointer_focus[t], t), Accepting(acc, v, t), f, en)

\* input_ctrl_ptr_set_west_focus: an ivi surface that does not accept the seat
\* leaves the pointer without a focus.
SetWestFocus(acc, t, v, f, en) ==
    IF v = pointer_focus[t] THEN Stay(t, f, en)
    ELSE Outcome(IF v \in list_surface /\ t \notin acc[v] THEN None ELSE v,
                 Accepting(acc, pointer_focus[t], t), Accepting(acc, v, t), f, en)

\* Mutated GrabFocus: the view under the pointer wins over the forced one.
GrabFocusPick(acc, t, f, en) ==
    IF t \in button_down THEN {Stay(t, f, en)}
    ELSE {SetWestFocus(acc, t, v, f, en) : v \in list_surface \cup {None, Elsewhere}}

\* The views the forced focus f leads to.  It may be the address of a surface that
\* is gone: the code follows the freed pointer, to whatever view is found there.
ForcedViews(f) == IF f \in list_surface THEN {f} ELSE list_surface \cup {Elsewhere}

\* pointer_grab_focus with forced focus f.  A surface may have no view to force
\* the focus to, and the view under the pointer may be any.
GrabFocus(acc, t, f, en) ==
    IF t \in button_down THEN {Stay(t, f, en)}
    ELSE IF f = None
    THEN {SetWestFocus(acc, t, v, f, en) : v \in list_surface \cup {None, Elsewhere}}
    ELSE IF en
    THEN {Stay(t, f, en)} \cup {SetWestFocus(acc, t, v, f, en) : v \in ForcedViews(f)}
    ELSE IF pointer_focus[t] = None THEN {Stay(t, f, en)}
    ELSE {LeaveWestFocus(t, None, en) : v \in {pointer_focus[t]} \cap ForcedViews(f)}
         \cup {Stay(t, None, en) : v \in {pointer_focus[t]} \ {f}}

\* input_ctrl_ptr_clear_focus.
ClearFocus(t) ==
    IF pointer_focus[t] = None THEN Stay(t, forced[t], t \in forced_enabled)
    ELSE LeaveWestFocus(t, None, t \in forced_enabled)

\* input_ctrl_ptr_set_focus_surf, for a seat with a pointer.
SetFocusSurf(t, s, enabled) ==
    IF enabled /\ forced[t] # s THEN GrabFocus(accepted, t, s, TRUE)
    ELSE IF ~enabled /\ forced[t] = s THEN GrabFocus(accepted, t, s, FALSE)
    ELSE {Stay(t, forced[t], t \in forced_enabled)}

\* The pointers of the seats T take the outcomes out.
MovePointers(T, out) ==
    /\ pointer_focus' = [t \in Seats |-> IF t \in T THEN out[t].at ELSE pointer_focus[t]]
    /\ forced' = [t \in Seats |-> IF t \in T THEN out[t].forced ELSE forced[t]]
    /\ forced_enabled' = (forced_enabled \ T) \cup {t \in T : out[t].enabled}

PointerLost(T, out)   == UNION {{<<s, t, POINTER>> : s \in out[t].lose} : t \in T}
PointerGained(T, out) == UNION {{<<s, t, POINTER>> : s \in out[t].gain} : t \in T}

\* The pointer of seat t takes one outcome, and nothing else happens.
MovePointer(t, o) ==
    LET out == [u \in {t} |-> o]
    IN  /\ MovePointers({t}, out)
        /\ SetFlags(PointerLost({t}, out), PointerGained({t}, out))
        /\ UNCHANGED <<lists, touch, resource_list, told>>

\* Weston evaluates the focus again: a view was mapped, moved or restacked.
pointer_grab_focus(t) ==
    /\ POINTER \in caps[t]
    /\ \E o \in GrabFocus(accepted, t, forced[t], t \in forced_enabled) : MovePointer(t, o)
    /\ UNCHANGED button_down

\* Motion ends a forced focus, and weston evaluates the focus at the new place.
pointer_grab_motion(t) ==
    /\ POINTER \in caps[t]
    /\ \E o \in GrabFocus(accepted, t, None, t \in forced_enabled) : MovePointer(t, o)
    /\ UNCHANGED button_down

\* A press only counts the button; the release of the last one evaluates the
\* focus that was held while it was down.
pointer_grab_button(t) ==
    /\ POINTER \in caps[t]
    /\ IF t \in button_down
       THEN /\ button_down' = button_down \ {t}
            /\ \E o \in GrabFocus(accepted, t, forced[t], t \in forced_enabled) :
                   MovePointer(t, o)
       ELSE /\ button_down' = button_down \cup {t}
            /\ MovePointer(t, Stay(t, forced[t], t \in forced_enabled))

-----------------------------------------------------------------------------
(* Touch.                                                                  *)

\* Weston counts the touch point and, for the first, picks the view in focus.
\* The grab tells the surface, or takes the focus away if it does not accept.
touch_grab_down(t) ==
    /\ TOUCH \in caps[t]
    /\ num_tp[t] < MaxTouch
    /\ num_tp' = [num_tp EXCEPT ![t] = @ + 1]
    /\ \E v \in IF num_tp[t] = 0 THEN list_surface \cup {None, Elsewhere}
                ELSE {touch_focus[t]} :
        /\ touch_focus' = [touch_focus EXCEPT ![t] =
                               IF v \in list_surface /\ t \notin accepted[v] THEN None ELSE v]
        /\ SetFlags({}, {<<s, t, TOUCH>> : s \in IF num_tp[t] = 0
                                                 THEN Accepting(accepted, v, t) ELSE {}})
    /\ UNCHANGED <<lists, pointer, resource_list, told>>

\* After the last point weston drops the focus.
touch_grab_up(t) ==
    /\ TOUCH \in caps[t]
    /\ num_tp[t] > 0
    /\ num_tp' = [num_tp EXCEPT ![t] = @ - 1]
    /\ IF num_tp[t] = 1
       THEN /\ SetFlags({<<s, t, TOUCH>> : s \in Accepting(accepted, touch_focus[t], t)}, {})
            /\ touch_focus' = [touch_focus EXCEPT ![t] = None]
       ELSE UNCHANGED <<focus, told_focus, touch_focus>>
    /\ UNCHANGED <<lists, pointer, resource_list, told>>

-----------------------------------------------------------------------------
(* Seats.                                                                  *)

\* The default seat is accepted by every surface there is.
handle_seat_create(t) ==
    /\ t \notin seat_list /\ Room
    /\ seat_list' = seat_list \cup {t}
    /\ told_seats' = [c \in Clients |->
           IF c \in resource_list THEN told_seats[c] \cup {t} ELSE told_seats[c]]
    /\ IF t = DefaultSeat
       THEN /\ accepted' = [s \in Surfaces |->
                   IF s \in list_surface THEN accepted[s] \cup {t} ELSE accepted[s]]
            /\ SendAcceptance(list_surface, t, TRUE)
       ELSE UNCHANGED <<accepted, told_accepted>>
    /\ UNCHANGED <<list_surface, caps, focus, pointer, touch, resource_list, told_focus>>

\* A device appears.  Starting the grab of a pointer evaluates its focus.
DeviceAdded(t, d) ==
    /\ t \in seat_list /\ d \in Hardware[t] \ caps[t]
    /\ caps' = [caps EXCEPT ![t] = @ \cup {d}]
    /\ \E o \in IF d = POINTER
                THEN GrabFocus(accepted, t, forced[t], t \in forced_enabled)
                ELSE {Stay(t, forced[t], t \in forced_enabled)} :
        LET out == [u \in {t} |-> o]
        IN  /\ MovePointers({t}, out)
            /\ SetFlags(PointerLost({t}, out), PointerGained({t}, out))
    /\ UNCHANGED <<list_surface, seat_list, accepted, button_down, touch,
                   resource_list, told>>

\* A device goes: weston drops its focus and cancels its grab, and the grab
\* (pointer_grab_cancel, touch_grab_cancel) may or may not still see the focus.
\* keyboard_grab_cancel leaves every surface that has the keyboard focus.
DeviceRemoved(t, d) ==
    /\ d \in caps[t]
    /\ caps' = [caps EXCEPT ![t] = @ \ {d}]
    /\ CASE d = POINTER ->
              /\ \E o \in {ClearFocus(t),
                            Outcome(None, {}, {}, forced[t], t \in forced_enabled)} :
                    LET out == [u \in {t} |-> o]
                    IN  /\ MovePointers({t}, out)
                        /\ SetFlags(PointerLost({t}, out), {})
              /\ button_down' = button_down \ {t}
              /\ UNCHANGED touch
         [] d = TOUCH ->
              /\ \E seen \in BOOLEAN :
                    SetFlags({<<s, t, TOUCH>> : s \in IF seen
                                  THEN Accepting(accepted, touch_focus[t], t) ELSE {}}, {})
              /\ touch_focus' = [touch_focus EXCEPT ![t] = None]
              /\ num_tp' = [num_tp EXCEPT ![t] = 0]
              /\ UNCHANGED pointer
         [] d = KEYBOARD ->
              /\ SetFlags({<<s, t, KEYBOARD>> : s \in
                              {x \in list_surface : KEYBOARD \in focus[x][t]}}, {})
              /\ UNCHANGED <<pointer, touch>>
    /\ UNCHANGED <<list_surface, seat_list, accepted, resource_list, told>>

handle_seat_updated_caps(t, d) == DeviceAdded(t, d) \/ DeviceRemoved(t, d)

\* Mutated destroy_seat: the acceptance of the surfaces is kept.
destroy_seat_kept(t) ==
    /\ t \in seat_list
    /\ seat_list' = seat_list \ {t}
    /\ told_seats' = [c \in Clients |->
           IF c \in resource_list THEN told_seats[c] \ {t} ELSE told_seats[c]]
    /\ caps' = [caps EXCEPT ![t] = {}]
    /\ forced' = [forced EXCEPT ![t] = None]
    /\ forced_enabled' = forced_enabled \ {t}
    /\ pointer_focus' = [pointer_focus EXCEPT ![t] = None]
    /\ button_down' = button_down \ {t}
    /\ touch_focus' = [touch_focus EXCEPT ![t] = None]
    /\ num_tp' = [num_tp EXCEPT ![t] = 0]
    /\ UNCHANGED <<list_surface, accepted, focus, resource_list, told_accepted, told_focus>>

\* The seat and its devices are gone; the surfaces forget it, and the clients
\* are told of the seat only.
destroy_seat(t) ==
    /\ t \in seat_list
    /\ seat_list' = seat_list \ {t}
    /\ told_seats' = [c \in Clients |->
           IF c \in resource_list THEN told_seats[c] \ {t} ELSE told_seats[c]]
    /\ accepted' = [s \in Surfaces |-> accepted[s] \ {t}]
    /\ focus' = Flagged(Surfaces \X {t} \X Devices, {})
    /\ caps' = [caps EXCEPT ![t] = {}]
    /\ forced' = [forced EXCEPT ![t] = None]
    /\ forced_enabled' = forced_enabled \ {t}
    /\ pointer_focus' = [pointer_focus EXCEPT ![t] = None]
    /\ button_down' = button_down \ {t}
    /\ touch_focus' = [touch_focus EXCEPT ![t] = None]
    /\ num_tp' = [num_tp EXCEPT ![t] = 0]
    /\ UNCHANGED <<list_surface, resource_list, told_accepted, told_focus>>

-----------------------------------------------------------------------------
(* Surfaces.                                                               *)

\* A new surface accepts the default seat, if it exists.
handle_surface_create(s) ==
    /\ s \notin list_surface /\ Room
    /\ list_surface' = list_surface \cup {s}
    /\ accepted' = [accepted EXCEPT ![s] = seat_list \cap {DefaultSeat}]
    /\ told_accepted' = [c \in Clients |-> [told_accepted[c] EXCEPT ![s] =
           IF c \in resource_list THEN seat_list \cap {DefaultSeat} ELSE {}]]
    /\ UNCHANGED <<seat_list, caps, focus, pointer, touch, resource_list,
                   told_seats, told_focus>>

\* The surface, its views and every client's copy of it are gone.  Only the
\* seats it accepts are searched for a forced focus on it.
handle_surface_destroy(s) ==
    /\ s \in list_surface
    /\ list_surface' = list_surface \ {s}
    /\ forced' = [t \in Seats |->
           IF t \in accepted[s] /\ forced[t] = s THEN None ELSE forced[t]]
    /\ accepted' = [accepted EXCEPT ![s] = {}]
    /\ focus' = Flagged({s} \X Seats \X Devices, {})
    /\ pointer_focus' = [t \in Seats |-> IF pointer_focus[t] = s THEN None ELSE pointer_focus[t]]
    /\ touch_focus' = [t \in Seats |-> IF touch_focus[t] = s THEN None ELSE touch_focus[t]]
    /\ told_accepted' = [c \in Clients |-> [told_accepted[c] EXCEPT ![s] = {}]]
    /\ told_focus' = [c \in Clients |-> [told_focus[c] EXCEPT ![s] = {}]]
    /\ UNCHANGED <<seat_list, caps, forced_enabled, button_down, num_tp, resource_list,
                   told_seats>>

\* Weston unmaps the surface: its view is in nobody's focus any more.
surface_unmapped(s) ==
    /\ s \in list_surface
    /\ pointer_focus' = [t \in Seats |-> IF pointer_focus[t] = s THEN None ELSE pointer_focus[t]]
    /\ touch_focus' = [t \in Seats |-> IF touch_focus[t] = s THEN None ELSE touch_focus[t]]
    /\ UNCHANGED <<lists, focus, forced, forced_enabled, button_down, num_tp,
                   resource_list, told, told_focus>>

-----------------------------------------------------------------------------
(* Requests.                                                               *)

\* Each seat the surface accepts and that has the device.  A touch focus cannot
\* be forced: the clients are told of the whole device mask, and that is all.
input_set_input_focus(s, devices, enabled) ==
    LET T        == accepted[s]
        pointers == {t \in T : POINTER \in devices \cap caps[t]}
        keyboards == {t \in T : KEYBOARD \in devices \cap caps[t]}
        masks    == IF TOUCH \in devices /\ T # {} THEN {s} \X devices ELSE {}
    IN  /\ s \in list_surface
        /\ \E out \in [pointers -> UNION {SetFocusSurf(t, s, enabled) : t \in pointers}] :
            /\ \A t \in pointers : out[t] \in SetFocusSurf(t, s, enabled)
            /\ MovePointers(pointers, out)
            /\ LET entered == {t \in keyboards : KEYBOARD \notin focus[s][t]}
                   left    == keyboards \ entered
                   L == PointerLost(pointers, out) \cup
                        (IF enabled THEN {} ELSE {<<s, t, KEYBOARD>> : t \in left})
                   G == PointerGained(pointers, out) \cup
                        (IF enabled THEN {<<s, t, KEYBOARD>> : t \in entered} ELSE {})
               IN  /\ focus' = Flagged(L, G)
                   /\ SendFocus({<<f[1], f[3]>> : f \in L} \cup (IF enabled THEN {} ELSE masks),
                                {<<f[1], f[3]>> : f \in G} \cup (IF enabled THEN masks ELSE {}))
        /\ UNCHANGED <<lists, button_down, touch, resource_list, told>>

\* A seat without pointer focus may now have it on this surface.
AcceptSeat(s, t) ==
    /\ accepted' = [accepted EXCEPT ![s] = @ \cup {t}]
    /\ \E o \in IF POINTER \in caps[t] /\ pointer_focus[t] = None
                THEN GrabFocus(accepted', t, forced[t], t \in forced_enabled)
                ELSE {Stay(t, forced[t], t \in forced_enabled)} :
        LET out == [u \in {t} |-> o]
        IN  /\ MovePointers({t}, out)
            /\ SetFlags(PointerLost({t}, out), PointerGained({t}, out))
    /\ SendAcceptance({s}, t, TRUE)
    /\ UNCHANGED touch_focus

\* The focus the surface has by its flags is taken from the seat, then the seat
\* is removed from the list with the flags that are left.
RefuseSeat(s, t) ==
    LET flags  == focus[s][t] \cap caps[t]
        o      == IF POINTER \in flags THEN ClearFocus(t)
                  ELSE Stay(t, forced[t], t \in forced_enabled)
        out    == [u \in {t} |-> o]
        touched == IF TOUCH \in flags THEN Accepting(accepted, touch_focus[t], t) ELSE {}
        L == PointerLost({t}, out) \cup {<<x, t, TOUCH>> : x \in touched} \cup
             {<<x, t, KEYBOARD>> : x \in IF KEYBOARD \in flags THEN {s} ELSE {}}
    IN  /\ t \in accepted[s]
        /\ accepted' = [accepted EXCEPT ![s] = @ \ {t}]
        /\ MovePointers({t}, out)
        /\ touch_focus' = IF TOUCH \in flags THEN [touch_focus EXCEPT ![t] = None]
                          ELSE touch_focus
        /\ focus' = Flagged(L \cup {<<s, t, d>> : d \in Devices}, {})
        /\ SendFocus({<<f[1], f[3]>> : f \in L}, {})
        /\ SendAcceptance({s}, t, FALSE)

\* setup_input_acceptance returns early on an unknown seat or surface, and when
\* a seat is refused that was not accepted.
input_set_input_acceptance(s, t, accept) ==
    /\ t \in seat_list
    /\ s \in list_surface
    /\ IF accept THEN AcceptSeat(s, t) ELSE RefuseSeat(s, t)
    /\ UNCHANGED <<list_surface, seat_list, caps, button_down, num_tp, resource_list,
                   told_seats>>

\* Mutated bind_ivi_input: only the seats are sent, nothing of the surfaces.
bind_ivi_input_seats_only(c) ==
    /\ c \notin resource_list
    /\ resource_list' = resource_list \cup {c}
    /\ told_seats' = [told_seats EXCEPT ![c] = seat_list]
    /\ UNCHANGED <<lists, focus, pointer, touch, told_accepted, told_focus>>

\* The new client is sent the seats, and the focus and acceptance of surfaces.
bind_ivi_input(c) ==
    /\ c \notin resource_list
    /\ resource_list' = resource_list \cup {c}
    /\ told_seats' = [told_seats EXCEPT ![c] = seat_list]
    /\ told_accepted' = [told_accepted EXCEPT ![c] = accepted]
    /\ told_focus' = [told_focus EXCEPT ![c] =
           [s \in Surfaces |-> UNION {focus[s][t] : t \in accepted[s]}]]
    /\ UNCHANGED <<lists, focus, pointer, touch>>

unbind_resource_controller(c) ==
    /\ c \in resource_list
    /\ resource_list' = resource_list \ {c}
    /\ told_seats' = [told_seats EXCEPT ![c] = {}]
    /\ told_accepted' = [told_accepted EXCEPT ![c] = [s \in Surfaces |-> {}]]
    /\ told_focus' = [told_focus EXCEPT ![c] = [s \in Surfaces |-> {}]]
    /\ UNCHANGED <<lists, focus, pointer, touch>>

SeatStep(t) ==
    \/ pointer_grab_focus(t)
    \/ pointer_grab_motion(t)
    \/ pointer_grab_button(t)
    \/ touch_grab_down(t)
    \/ touch_grab_up(t)
    \/ handle_seat_create(t)
    \/ destroy_seat(t)
    \/ \E d \in Devices : handle_seat_updated_caps(t, d)

SurfaceStep(s) ==
    \/ handle_surface_create(s)
    \/ handle_surface_destroy(s)
    \/ surface_unmapped(s)

\* A client that sends a request is bound; what it asks does not depend on it.
ClientStep ==
    \/ \E c \in Clients : bind_ivi_input(c) \/ unbind_resource_controller(c)
    \/ /\ resource_list # {}
       /\ \E s \in Surfaces, devices \in Masks, enabled \in BOOLEAN :
              input_set_input_focus(s, devices, enabled)
    \/ /\ resource_list # {}
       /\ \E s \in Surfaces, t \in Seats, accept \in BOOLEAN :
              input_set_input_acceptance(s, t, accept)

Next ==
    \/ \E t \in Seats : SeatStep(t)
    \/ \E s \in Surfaces : SurfaceStep(s)
    \/ ClientStep

Spec == Init /\ [][Next]_vars

-----------------------------------------------------------------------------
(* Properties.                                                             *)

\* Every variable holds a value of its type; what is said of a surface or a
\* seat that does not exist is empty.
TypeOK ==
    /\ list_surface \subseteq Surfaces /\ seat_list \subseteq Seats
    /\ caps \in [Seats -> SUBSET Devices]
    /\ accepted \in [Surfaces -> SUBSET seat_list]
    /\ focus \in [Surfaces -> [Seats -> SUBSET Devices]]
    /\ forced \in [Seats -> Surfaces \cup {None}]
    /\ forced_enabled \subseteq Seats
    /\ pointer_focus \in [Seats -> Views]
    /\ button_down \subseteq Seats
    /\ touch_focus \in [Seats -> Views]
    /\ num_tp \in [Seats -> 0 .. MaxTouch]
    /\ resource_list \subseteq Clients
    /\ told_seats \in [Clients -> SUBSET Seats]
    /\ told_accepted \in [Clients -> [Surfaces -> SUBSET Seats]]
    /\ told_focus \in [Clients -> [Surfaces -> SUBSET Devices]]
    /\ \A s \in Surfaces : s \notin list_surface => accepted[s] = {}
    /\ \A s \in Surfaces, t \in Seats : t \notin accepted[s] => focus[s][t] = {}

\* Weston delivers the pointer and touch events of a seat to the view in focus.
\* If it is of an ivi surface, the surface accepts the seat and has its flag,
\* so a refusal takes the focus away again.
FocusIsAccepted ==
    \A t \in Seats, s \in list_surface :
        /\ pointer_focus[t] = s => t \in accepted[s] /\ POINTER \in focus[s][t]
        /\ touch_focus[t] = s => t \in accepted[s] /\ TOUCH \in focus[s][t]

\* A client knows the seats there are, and every seat a surface accepts: it can
\* refuse any of them, though it may know some that are not accepted any more.
AcceptedIsKnown ==
    \A c \in resource_list :
        /\ told_seats[c] = seat_list
        /\ \A s \in Surfaces : accepted[s] \subseteq told_accepted[c][s]

\* While the focus of a pointer is forced to a surface it moves to no other.
\* (Nothing is promised of a seat whose forced surface is gone: only the seats
\* the surface accepted at its end forget it, the others follow freed memory.)
ForcedFocusStays ==
    [][\A t \in Seats :
          forced[t] \in list_surface /\ t \in forced_enabled /\ forced'[t] = forced[t]
              => pointer_focus'[t] \in {pointer_focus[t], forced[t], None}]_vars

\* A surface that keyboard events of a seat go to is known by every client, also
\* by one that binds later, to have the keyboard focus.  A client does not come
\* to miss it but by another seat that leaves the surface, as input_focus does
\* not name the seat.
KeyboardFocusIsKnown ==
    [][\A c \in resource_list', s \in Surfaces, t \in Seats :
          KEYBOARD \in focus'[s][t] /\ KEYBOARD \notin told_focus'[c][s] =>
              \/ /\ c \in resource_list
                 /\ KEYBOARD \in focus[s][t] /\ KEYBOARD \notin told_focus[c][s]
              \/ \E u \in Seats \ {t} : KEYBOARD \in focus[s][u] \ focus'[s][u]]_vars
=============================================================================
