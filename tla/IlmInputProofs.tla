---------------------------- MODULE IlmInputProofs ----------------------------
(***************************************************************************)
(* Proofs about IlmInput, for any number of surfaces, seats, keys and      *)
(* calls: what applications know of the keyboards (KeysFollowFocus), that  *)
(* surfaces come to accept what was asked for (AcceptanceAsAsked), and     *)
(* that the answers of the library are current (AnswersAreCurrent).        *)
(*                                                                         *)
(* The last two rest on one invariant of the whole system, Base: the       *)
(* events on their way always lead from the mirror of the library to what  *)
(* there is in the compositor (Informed), a call waits for the only sync   *)
(* there is (Synced), and requests on their way and seats accepted         *)
(* together are what was asked for (Asked).                                *)
(***************************************************************************)
EXTENDS IlmInput, SequenceTheorems, FiniteSetTheorems, TLAPS

\* The variables the keyboards are about are of their types.
KeyTypes ==
    /\ list_surface \subseteq Surfaces
    /\ seat_list \subseteq Seats /\ keyboard \subseteq seat_list
    /\ focus \in [Surfaces -> SUBSET Seats] /\ entered \in [Surfaces -> SUBSET Seats]
    /\ pressed \in [Seats -> SUBSET Keys]
    /\ held \in [Surfaces -> [Seats -> SUBSET Keys]]

\* Only keyboards there are have entered, and only surfaces there are.
Reachable ==
    \A s \in Surfaces, t \in Seats :
        t \in focus[s] => (s \in list_surface /\ t \in keyboard)

\* The invariant: the property is inductive only beside the two above, since
\* a keyboard that goes must leave every surface it has entered.
KInv == KeyTypes /\ Reachable /\ KeysFollowFocus

\* The variables of the invariant.
keys == <<list_surface, seat_list, keyboard, focus, entered, pressed, held>>

LEMMA KeysUnchanged == KInv /\ UNCHANGED keys => KInv'
  BY DEF KInv, KeyTypes, Reachable, KeysFollowFocus, keys

LEMMA KeysInit == Init => KInv
<1> SUFFICES ASSUME Init PROVE KInv
  OBVIOUS
<1>1. KeyTypes
  BY DEF Init, KeyTypes, Clear
<1>2. Reachable
  BY DEF Init, Reachable, Clear
<1>3. KeysFollowFocus
  BY DEF Init, KeysFollowFocus, Clear
<1> QED
  BY <1>1, <1>2, <1>3 DEF KInv

-----------------------------------------------------------------------------
(* The keyboard.                                                           *)

\* A keyboard that leaves surfaces, with its keys as they are.
LEMMA KeysLeave ==
    ASSUME KInv, NEW S, NEW t \in Seats, Leave(S, t),
           UNCHANGED <<list_surface, seat_list, keyboard, pressed>>
    PROVE  KInv'
<1> USE DEF KInv, Leave
<1>1. KeyTypes'
  BY DEF KeyTypes
<1>2. Reachable'
  BY DEF KeyTypes, Reachable
<1>3. KeysFollowFocus'
  <2> SUFFICES ASSUME NEW s \in Surfaces, NEW u \in Seats
               PROVE  /\ (u \in entered'[s]) = (u \in focus'[s])
                      /\ u \in entered'[s] => held'[s][u] = pressed'[u]
                      /\ u \notin entered'[s] => held'[s][u] = {}
    BY DEF KeysFollowFocus
  <2>1. CASE s \in S
    BY <2>1 DEF KeyTypes, KeysFollowFocus
  <2>2. CASE s \notin S
    BY <2>2 DEF KeyTypes, KeysFollowFocus
  <2> QED
    BY <2>1, <2>2
<1> QED
  BY <1>1, <1>2, <1>3

\* A key that goes down or up.
LEMMA KeysPassOn ==
    ASSUME KInv, NEW t \in Seats, NEW k \in Keys, PassOn(t, k)
    PROVE  KInv'
<1> DEFINE now == IF k \in pressed[t] THEN pressed[t] \ {k} ELSE pressed[t] \cup {k}
<1>1. /\ UNCHANGED <<list_surface, seat_list, keyboard, focus, entered>>
      /\ pressed' = [pressed EXCEPT ![t] = now]
      /\ held' = [s \in Surfaces |-> [u \in Seats |->
             IF s \notin Focused(t) \/ u # t THEN held[s][u]
             ELSE (held[s][u] \ {k}) \cup (now \cap {k})]]
  BY DEF PassOn, world
<1>2. KeyTypes'
  BY <1>1 DEF KInv, KeyTypes
<1>3. Reachable'
  BY <1>1 DEF KInv, Reachable
<1>4. KeysFollowFocus'
  <2> SUFFICES ASSUME NEW s \in Surfaces, NEW u \in Seats
               PROVE  /\ (u \in entered'[s]) = (u \in focus'[s])
                      /\ u \in entered'[s] => held'[s][u] = pressed'[u]
                      /\ u \notin entered'[s] => held'[s][u] = {}
    BY DEF KeysFollowFocus
  <2>1. (u \in entered[s]) = (u \in focus[s])
    BY DEF KInv, KeysFollowFocus
  <2>2. CASE u # t
    BY <1>1, <2>1, <2>2 DEF KInv, KeyTypes, KeysFollowFocus
  <2>3. CASE u = t /\ s \in Focused(t)
    <3>1. t \in entered[s] /\ held[s][t] = pressed[t]
      BY <2>1, <2>3 DEF Focused, KInv, KeysFollowFocus
    <3>2. held'[s][t] = (pressed[t] \ {k}) \cup (now \cap {k})
      BY <1>1, <2>3, <3>1
    <3>3. held'[s][t] = now
      BY <3>2
    <3>4. pressed'[t] = now
      BY <1>1 DEF KInv, KeyTypes
    <3> QED
      BY <1>1, <2>1, <2>3, <3>1, <3>3, <3>4
  <2>4. CASE u = t /\ s \notin Focused(t)
    <3>1. t \notin focus[s]
      BY <2>4 DEF Focused, KInv, Reachable
    <3> QED
      BY <1>1, <2>1, <2>4, <3>1 DEF KInv, KeysFollowFocus
  <2> QED
    BY <2>2, <2>3, <2>4
<1> QED
  BY <1>2, <1>3, <1>4 DEF KInv

-----------------------------------------------------------------------------
(* Requests.                                                               *)

LEMMA KeysAcceptance ==
    ASSUME KInv, NEW s, NEW t, NEW on,
           setup_input_acceptance(s, t, on)
    PROVE  KInv'
<1>1. UNCHANGED <<list_surface, seat_list, keyboard, pressed>>
  BY DEF setup_input_acceptance
<1>2. \/ UNCHANGED <<focus, entered, held>>
      \/ t \in Seats /\ Leave({s} \cap Focused(t), t)
  BY DEF setup_input_acceptance, Accept, Refuse, KInv, KeyTypes
<1>3. CASE UNCHANGED <<focus, entered, held>>
  BY <1>1, <1>3, KeysUnchanged DEF keys
<1>4. CASE t \in Seats /\ Leave({s} \cap Focused(t), t)
  BY <1>1, <1>4, KeysLeave
<1> QED
  BY <1>2, <1>3, <1>4

LEMMA KeysFocus ==
    ASSUME KInv, NEW s, NEW on, setup_input_focus(s, on)
    PROVE  KInv'
<1> DEFINE T == {t \in keyboard : s \in list_surface /\ t \in accepted[s]
                                       /\ (t \in focus[s]) # on}
<1>1. /\ UNCHANGED <<list_surface, seat_list, keyboard, pressed>>
      /\ focus' = [focus EXCEPT ![s] = IF on THEN @ \cup T ELSE @ \ T]
      /\ entered' = [entered EXCEPT ![s] = IF on THEN @ \cup T ELSE @ \ T]
      /\ held' = [held EXCEPT ![s] = [t \in Seats |->
             IF t \notin T THEN @[t] ELSE IF on THEN pressed[t] ELSE {}]]
  BY DEF setup_input_focus
<1>2. T \subseteq keyboard /\ (T # {} => s \in list_surface)
  OBVIOUS
<1> HIDE DEF T
<1>3. KeyTypes'
  BY <1>1, <1>2 DEF KInv, KeyTypes
<1>4. Reachable'
  BY <1>1, <1>2 DEF KInv, KeyTypes, Reachable
<1>5. KeysFollowFocus'
  <2> SUFFICES ASSUME NEW r \in Surfaces, NEW u \in Seats
               PROVE  /\ (u \in entered'[r]) = (u \in focus'[r])
                      /\ u \in entered'[r] => held'[r][u] = pressed'[u]
                      /\ u \notin entered'[r] => held'[r][u] = {}
    BY DEF KeysFollowFocus
  <2>1. CASE r # s
    BY <1>1, <2>1 DEF KInv, KeyTypes, KeysFollowFocus
  <2>2. CASE r = s
    <3>1. /\ focus'[s] = IF on THEN focus[s] \cup T ELSE focus[s] \ T
          /\ entered'[s] = IF on THEN entered[s] \cup T ELSE entered[s] \ T
          /\ held'[s][u] = IF u \notin T THEN held[s][u] ELSE IF on THEN pressed[u] ELSE {}
      BY <1>1, <2>2 DEF KInv, KeyTypes
    <3> QED
      BY <1>1, <2>2, <3>1 DEF KInv, KeysFollowFocus
  <2> QED
    BY <2>1, <2>2
<1> QED
  BY <1>3, <1>4, <1>5 DEF KInv

LEMMA KeysRequest == KInv /\ HandleRequest => KInv'
<1> SUFFICES ASSUME KInv, HandleRequest PROVE KInv'
  OBVIOUS
<1> DEFINE r == Head(wire)
<1>1. \/ UNCHANGED <<world, apps>>
      \/ setup_input_acceptance(r.surf, r.seat, r.on)
      \/ setup_input_focus(r.surf, r.on)
  BY DEF HandleRequest
<1>2. CASE UNCHANGED <<world, apps>>
  BY <1>2, KeysUnchanged DEF keys, world, apps
<1>3. CASE setup_input_acceptance(r.surf, r.seat, r.on)
  BY <1>3, KeysAcceptance
<1>4. CASE setup_input_focus(r.surf, r.on)
  BY <1>4, KeysFocus
<1> QED
  BY <1>1, <1>2, <1>3, <1>4

-----------------------------------------------------------------------------
(* What happens otherwise.                                                 *)

LEMMA KeysSurfaceGone ==
    ASSUME KInv, NEW s \in Surfaces, surface_destroyed(s)
    PROVE  KInv'
<1> USE DEF KInv
<1>1. /\ list_surface' = list_surface \ {s}
      /\ UNCHANGED <<seat_list, keyboard, pressed>>
      /\ focus' = [focus EXCEPT ![s] = {}]
      /\ entered' = [entered EXCEPT ![s] = {}]
      /\ held' = [held EXCEPT ![s] = [t \in Seats |-> {}]]
  BY DEF surface_destroyed
<1>2. KeyTypes'
  BY <1>1 DEF KeyTypes
<1>3. Reachable'
  BY <1>1 DEF KeyTypes, Reachable
<1>4. KeysFollowFocus'
  BY <1>1 DEF KeyTypes, KeysFollowFocus
<1> QED
  BY <1>2, <1>3, <1>4

\* The keyboard of a seat goes or comes: with it, all it has entered.
LEMMA KeysCaps ==
    ASSUME KInv, NEW t \in Seats, handle_seat_updated_caps(t)
    PROVE  KInv'
<1> USE DEF KInv
<1>1. /\ t \in seat_list
      /\ UNCHANGED <<list_surface, seat_list>>
      /\ pressed' = [pressed EXCEPT ![t] = {}]
  BY DEF handle_seat_updated_caps
<1>2. CASE t \in keyboard
  <2>1. keyboard' = keyboard \ {t} /\ Leave(Focused(t), t)
    BY <1>2 DEF handle_seat_updated_caps
  <2>2. \A s \in Surfaces : t \in focus[s] => s \in Focused(t)
    BY DEF Reachable, Focused
  <2>3. \A s \in Surfaces : /\ focus'[s] = focus[s] \ {t}
                            /\ entered'[s] = entered[s] \ {t}
    BY <2>1, <2>2 DEF Leave, KeyTypes, KeysFollowFocus
  <2>4. \A s \in Surfaces, u \in Seats : u # t => held'[s][u] = held[s][u]
    BY <2>1 DEF Leave, KeyTypes
  <2>5. \A s \in Surfaces : held'[s][t] = {}
    BY <2>1, <2>2 DEF Leave, KeyTypes, KeysFollowFocus
  <2>6. KeyTypes'
    BY <1>1, <2>1 DEF Leave, KeyTypes
  <2>7. Reachable'
    BY <1>1, <2>1, <2>3 DEF KeyTypes, Reachable
  <2>8. KeysFollowFocus'
    BY <1>1, <2>3, <2>4, <2>5 DEF KeyTypes, KeysFollowFocus
  <2> QED
    BY <2>6, <2>7, <2>8
<1>3. CASE t \notin keyboard
  <2>1. keyboard' = keyboard \cup {t} /\ UNCHANGED <<focus, entered, held>>
    BY <1>3 DEF handle_seat_updated_caps
  <2>2. \A s \in Surfaces : t \notin focus[s]
    BY <1>3 DEF Reachable
  <2>3. KeyTypes'
    BY <1>1, <2>1 DEF KeyTypes
  <2>4. Reachable'
    BY <1>1, <2>1 DEF Reachable
  <2>5. KeysFollowFocus'
    BY <1>1, <2>1, <2>2 DEF KeyTypes, KeysFollowFocus
  <2> QED
    BY <2>3, <2>4, <2>5
<1> QED
  BY <1>2, <1>3

\* What comes: a surface, or a seat; and a seat that goes without a keyboard.
LEMMA KeysScene ==
    ASSUME KInv,
           /\ list_surface \subseteq list_surface' /\ list_surface' \subseteq Surfaces
           /\ keyboard \subseteq seat_list' /\ seat_list' \subseteq Seats,
           UNCHANGED <<keyboard, focus, entered, held, pressed>>
    PROVE  KInv'
<1> USE DEF KInv
<1>1. KeyTypes'
  BY DEF KeyTypes
<1>2. Reachable'
  BY DEF Reachable
<1>3. KeysFollowFocus'
  BY DEF KeysFollowFocus
<1> QED
  BY <1>1, <1>2, <1>3

LEMMA KeysWorld == KInv /\ World => KInv'
<1> SUFFICES ASSUME KInv, World PROVE KInv'
  OBVIOUS
<1>1. ASSUME NEW t \in Seats, handle_seat_create(t) PROVE KInv'
  <2>1. /\ seat_list' = seat_list \cup {t}
        /\ UNCHANGED <<list_surface, keyboard, focus, entered, held, pressed>>
    BY <1>1 DEF handle_seat_create, apps
  <2> QED
    BY <2>1, KeysScene DEF KInv, KeyTypes
<1>2. ASSUME NEW t \in Seats, destroy_seat(t) PROVE KInv'
  <2>1. /\ t \notin keyboard /\ seat_list' = seat_list \ {t}
        /\ UNCHANGED <<list_surface, keyboard, focus, entered, held, pressed>>
    BY <1>2 DEF destroy_seat, apps
  <2> QED
    BY <2>1, KeysScene DEF KInv, KeyTypes
<1>3. ASSUME NEW t \in Seats, handle_seat_updated_caps(t) PROVE KInv'
  BY <1>3, KeysCaps
<1>4. ASSUME NEW s \in Surfaces, surface_created(s) PROVE KInv'
  <2>1. /\ list_surface' = list_surface \cup {s}
        /\ UNCHANGED <<seat_list, keyboard, focus, entered, held, pressed>>
    BY <1>4 DEF surface_created, apps
  <2> QED
    BY <2>1, KeysScene DEF KInv, KeyTypes
<1>5. ASSUME NEW s \in Surfaces, surface_destroyed(s) PROVE KInv'
  BY <1>5, KeysSurfaceGone
<1>6. ASSUME NEW s \in Surfaces, NEW t \in Seats, NEW on \in BOOLEAN,
             others_set_acceptance(s, t, on)
      PROVE  KInv'
  BY <1>6, KeysAcceptance DEF others_set_acceptance
<1>7. ASSUME NEW s \in Surfaces, NEW on \in BOOLEAN, others_set_focus(s, on)
      PROVE  KInv'
  BY <1>7, KeysFocus DEF others_set_focus
<1> QED
  BY <1>1, <1>2, <1>3, <1>4, <1>5, <1>6, <1>7 DEF World

\* Calls, events in the library and a finished run touch no keyboard.
LEMMA KeysLibrary ==
    ASSUME KInv,
           \/ CallLibrary
           \/ ilm_setInputAcceptanceOn \/ ilm_setInputFocus \/ GetterReturns
           \/ Dispatch \/ Finished \/ UNCHANGED vars
    PROVE  KInv'
<1>1. CallLibrary => UNCHANGED <<world, apps>>
  BY DEF CallLibrary, Begin
<1>2. ilm_setInputAcceptanceOn => UNCHANGED <<world, apps>>
  BY DEF ilm_setInputAcceptanceOn, Return
<1>3. ilm_setInputFocus => UNCHANGED <<world, apps>>
  BY DEF ilm_setInputFocus, Return
<1>4. GetterReturns => UNCHANGED <<world, apps>>
  BY DEF GetterReturns, Return
<1>5. Dispatch => UNCHANGED <<world, apps>>
  BY DEF Dispatch
<1>6. Finished \/ UNCHANGED vars => UNCHANGED <<world, apps>>
  BY DEF Finished, vars
<1>7. UNCHANGED <<world, apps>>
  BY <1>1, <1>2, <1>3, <1>4, <1>5, <1>6
<1> QED
  BY <1>7, KeysUnchanged DEF keys, world, apps

LEMMA KeysNext == KInv /\ [Next]_vars => KInv'
<1> SUFFICES ASSUME KInv, [Next]_vars PROVE KInv'
  OBVIOUS
<1>1. CASE HandleRequest
  BY <1>1, KeysRequest
<1>2. CASE World
  BY <1>2, KeysWorld
<1>3. CASE Typing
  <2>1. PICK t \in Seats : PassOn(t, "key") \/ PassOn(t, "modifier")
    BY <1>3 DEF Typing, keyboard_grab_key, keyboard_grab_modifiers
  <2> QED
    BY <2>1, KeysPassOn DEF Keys
<1> QED
  BY <1>1, <1>2, <1>3, KeysLibrary DEF Next

\* The keyboard of a seat has entered just the surfaces with its focus flag,
\* and their applications know exactly the keys that are down, for any number
\* of surfaces, seats, clients' calls and keyboards that come and go
\* (setup_input_focus, input_ctrl_kbd_leave_surf, keyboard_grab_key).
THEOREM KeysFollowFocusAlways == Spec => []KeysFollowFocus
<1>1. KInv => KeysFollowFocus
  BY DEF KInv
<1> QED
  BY <1>1, KeysInit, KeysNext, PTL DEF Spec

-----------------------------------------------------------------------------
(* What the answers of the library and the acceptance rest on.             *)

\* What the mirror's one focus flag of a surface says: a keyboard has entered
\* it, and none has left it since.
HasFocus(s) == focus[s] # {} /\ s \notin parted

Known == seat_list \cup gone

\* The compositor.
SeatsKept ==
    /\ accepted \in [Surfaces -> SUBSET seat_list]
    /\ keyboard \subseteq KeyboardSeats
    /\ gone \subseteq Seats
    /\ \A s \in Surfaces : s \in parted => focus[s] # {}

\* The library and its connection.
Requests ==
    [op : {"sync"}]
      \cup [op : {"acceptance"}, surf : Surfaces, seat : Seats, on : BOOLEAN]
      \cup [op : {"focus"}, surf : Surfaces, on : BOOLEAN]
Events ==
    [ev : {"seat_created", "seat_destroyed"}, seat : Seats]
      \cup [ev : {"seat_capabilities"}, seat : Seats, keyboard : BOOLEAN]
      \cup [ev : {"surface", "input_focus"}, surf : Surfaces, on : BOOLEAN]
      \cup [ev : {"input_acceptance"}, surf : Surfaces, seat : Seats, on : BOOLEAN]
      \cup [ev : {"done"}]
Calls ==
    [op : {"setAcceptance"}, surf : Surfaces, seats : SUBSET Seats, synced : BOOLEAN]
      \cup [op : {"setFocus"}, surfaces : FocusLists, on : BOOLEAN, synced : BOOLEAN]
      \cup [op : {"get"}, synced : BOOLEAN]

Wired ==
    /\ wire \in Seq(Requests) /\ inbox \in Seq(Events)
    /\ call = NoCall \/ call \in Calls
    /\ quiet \in BOOLEAN

\* A sync is the last request of the call that waits for it, and its answer
\* the last event until something else happens.
NoSync(w) == \A i \in 1 .. Len(w) : w[i].op # "sync"
NoDone(b) == \A i \in 1 .. Len(b) : b[i].ev # "done"
SyncLast(w) == /\ Len(w) > 0 /\ w[Len(w)].op = "sync"
               /\ \A i \in 1 .. Len(w) : i < Len(w) => w[i].op # "sync"
OneDone(b) == \E i \in 1 .. Len(b) : /\ b[i].ev = "done"
                                     /\ \A j \in 1 .. Len(b) : b[j].ev = "done" => j = i
Synced(c, w, b) ==
    IF c = NoCall THEN NoSync(w) /\ NoDone(b)
    ELSE IF c.synced THEN w = <<>> /\ NoDone(b)
    ELSE (SyncLast(w) /\ NoDone(b)) \/ (w = <<>> /\ OneDone(b))
Quiet(q, c, w, b) ==
    q => /\ c # NoCall /\ w = <<>>
         /\ IF c.synced THEN b = <<>> ELSE Len(b) > 0 /\ b[Len(b)].ev = "done"

\* The mirror after an event.
After(m, e) ==
    CASE e.ev = "seat_created" -> [m EXCEPT !.seats = @ \cup {e.seat}, !.keyboards = @ \ {e.seat}]
      [] e.ev = "seat_capabilities" /\ e.seat \in m.seats ->
             [m EXCEPT !.keyboards = IF e.keyboard THEN @ \cup {e.seat} ELSE @ \ {e.seat}]
      [] e.ev = "seat_destroyed" -> [m EXCEPT !.seats = @ \ {e.seat}, !.keyboards = @ \ {e.seat}]
      [] e.ev = "input_focus" /\ e.surf \in m.surfaces ->
             [m EXCEPT !.focus = IF e.on THEN @ \cup {e.surf} ELSE @ \ {e.surf}]
      [] e.ev = "input_acceptance" /\ e.surf \in m.surfaces ->
             [m EXCEPT !.accepted[e.surf] = IF e.on THEN @ \cup {e.seat} ELSE @ \ {e.seat}]
      [] e.ev = "surface" /\ e.on # (e.surf \in m.surfaces) ->
             [m EXCEPT !.surfaces = IF e.on THEN @ \cup {e.surf} ELSE @ \ {e.surf},
                       !.accepted[e.surf] = {}, !.focus = @ \ {e.surf}]
      [] OTHER -> m

Mirrors(K) ==
    [seats : SUBSET K, keyboards : SUBSET K, surfaces : SUBSET Surfaces,
     accepted : [Surfaces -> SUBSET K], focus : SUBSET Surfaces]

\* The events b lead from the mirror x to y, by mirrors of the seats K.
Leads(K, x, b, y) ==
    \E m \in [0 .. Len(b) -> Mirrors(K)] :
        /\ m[0] = x /\ m[Len(b)] = y
        /\ \A i \in 1 .. Len(b) : m[i] = After(m[i - 1], b[i])

\* A mirror is exact but for the seats a surface accepted that are gone.
Exact(y) ==
    /\ y.surfaces = list_surface
    /\ y.seats = seat_list
    /\ y.keyboards = keyboard
    /\ y.focus = {s \in list_surface : HasFocus(s)}
    /\ \A s \in list_surface : /\ accepted[s] \subseteq y.accepted[s]
                               /\ y.accepted[s] \subseteq accepted[s] \cup gone

\* Every change is on its way to the mirror.
Informed == \E y \in Mirrors(Known) : Leads(Known, mirror, inbox, y) /\ Exact(y)

\* What was asked for is accepted, or asked for in wire, but for seats that
\* came back.
Asks(r, s, t) == r.op = "acceptance" /\ r.surf = s /\ r.seat = t
Settling(w, A, s, W) ==
    /\ s \in list_surface /\ W \subseteq seat_list
    /\ \A t \in seat_list \ gone :
         /\ \A i \in 1 .. Len(w) : Asks(w[i], s, t) => w[i].on <=> (t \in W)
         /\ (\A i \in 1 .. Len(w) : ~Asks(w[i], s, t)) => (t \in A) <=> (t \in W)
KnownAsked(w) == \A i \in 1 .. Len(w) : w[i].op = "acceptance" => w[i].seat \in Known
Asked ==
    /\ want = [s \in Surfaces |-> want[s]]
    /\ KnownAsked(wire)
    /\ \A s \in Surfaces : want[s] # None => Settling(wire, accepted[s], s, want[s])

-----------------------------------------------------------------------------
(* Sequences of a set, and events one after the other.                     *)

LEMMA ImageFinite ==
    ASSUME NEW f, IsFiniteSet(DOMAIN f)
    PROVE  IsFiniteSet({f[x] : x \in DOMAIN f})
<1>1. f \in Surjection(DOMAIN f, {f[x] : x \in DOMAIN f}) \/ f # [x \in DOMAIN f |-> f[x]]
  BY DEF Surjection
<1>2. PICK g : g = [x \in DOMAIN f |-> f[x]]
  OBVIOUS
<1>3. g \in Surjection(DOMAIN f, {f[x] : x \in DOMAIN f})
  BY <1>2 DEF Surjection
<1> QED BY <1>3, FS_Surjection

LEMMA SeqOfSet ==
    ASSUME NEW S, IsFiniteSet(S), NEW E, S \subseteq E
    PROVE  /\ SetToSeq(S) \in Seq(E)
           /\ \A i \in 1 .. Len(SetToSeq(S)) : SetToSeq(S)[i] \in S
           /\ \A e \in S : \E i \in 1 .. Len(SetToSeq(S)) : SetToSeq(S)[i] = e
<1>1. PICK n \in Nat : n = Cardinality(S) /\ ExistsBijection(1 .. n, S)
  BY FS_CardinalityType
<1>2. \E f \in [1 .. n -> S] : IsInjective(f)
  BY <1>1 DEF ExistsBijection, Bijection, Injection
<1>3. PICK q : q = SetToSeq(S)
  OBVIOUS
<1>4. q \in [1 .. n -> S] /\ IsInjective(q)
  BY <1>1, <1>2, <1>3 DEF SetToSeq
<1>5. q \in Injection(1 .. n, S)
  BY <1>4 DEF Injection
<1>6. Cardinality(1 .. n) = n
  BY <1>1, FS_Interval
<1>7. q \in Surjection(1 .. n, S)
  BY <1>1, <1>5, <1>6, FS_Injection
<1>8. \A e \in S : \E i \in 1 .. n : q[i] = e
  BY <1>7 DEF Surjection
<1>9. q \in Seq(E) /\ Len(q) = n
  BY <1>1, <1>4
<1> QED BY <1>3, <1>4, <1>8, <1>9

LEMMA LeadsNowhere == ASSUME NEW K, NEW x \in Mirrors(K) PROVE Leads(K, x, <<>>, x)
<1> DEFINE m == [i \in 0 .. 0 |-> x]
<1>1. m \in [0 .. 0 -> Mirrors(K)] /\ m[0] = x
  OBVIOUS
<1>2. Len(<<>>) = 0 /\ 1 .. 0 = {}
  OBVIOUS
<1> HIDE DEF m
<1>3. \A i \in 1 .. 0 : m[i] = After(m[i - 1], <<>>[i])
  BY <1>2
<1> QED BY <1>1, <1>2, <1>3 DEF Leads

LEMMA LeadsOn ==
    ASSUME NEW K, NEW p \in Seq(Events), NEW q \in Seq(Events), NEW x, NEW y, NEW z,
           Leads(K, x, p, y), Leads(K, y, q, z)
    PROVE  Leads(K, x, p \o q, z)
<1>1. Len(p) \in Nat /\ Len(q) \in Nat
  OBVIOUS
<1>2. /\ p \o q \in Seq(Events) /\ Len(p \o q) = Len(p) + Len(q)
      /\ \A i \in 1 .. Len(p) + Len(q) :
            (p \o q)[i] = IF i <= Len(p) THEN p[i] ELSE q[i - Len(p)]
  BY ConcatProperties
<1>3. PICK a \in [0 .. Len(p) -> Mirrors(K)] :
        /\ a[0] = x /\ a[Len(p)] = y
        /\ \A i \in 1 .. Len(p) : a[i] = After(a[i - 1], p[i])
  BY DEF Leads
<1>4. PICK b \in [0 .. Len(q) -> Mirrors(K)] :
        /\ b[0] = y /\ b[Len(q)] = z
        /\ \A i \in 1 .. Len(q) : b[i] = After(b[i - 1], q[i])
  BY DEF Leads
<1> DEFINE m == [i \in 0 .. Len(p) + Len(q) |-> IF i <= Len(p) THEN a[i] ELSE b[i - Len(p)]]
<1>5. m \in [0 .. Len(p \o q) -> Mirrors(K)]
  BY <1>1, <1>2, <1>3, <1>4
<1>6. m[0] = x
  BY <1>1, <1>3
<1>7. m[Len(p \o q)] = z
  <2>1. CASE Len(q) = 0
    BY <1>1, <1>2, <1>3, <1>4, <2>1
  <2>2. CASE Len(q) # 0
    BY <1>1, <1>2, <1>4, <2>2
  <2> QED BY <2>1, <2>2
<1>8. ASSUME NEW i \in 1 .. Len(p \o q) PROVE m[i] = After(m[i - 1], (p \o q)[i])
  <2>1. CASE i <= Len(p)
    <3>1. i \in 1 .. Len(p) /\ m[i] = a[i] /\ m[i - 1] = a[i - 1] /\ (p \o q)[i] = p[i]
      BY <1>1, <1>2, <2>1
    <3> QED BY <1>3, <3>1
  <2>2. CASE i > Len(p)
    <3>1. /\ i - Len(p) \in 1 .. Len(q) /\ m[i] = b[i - Len(p)] /\ (p \o q)[i] = q[i - Len(p)]
      BY <1>1, <1>2, <2>2
    <3>2. m[i - 1] = b[i - Len(p) - 1]
      <4>1. CASE i - 1 = Len(p)
        BY <1>1, <1>2, <1>3, <1>4, <4>1
      <4>2. CASE i - 1 > Len(p)
        BY <1>1, <1>2, <4>2
      <4>3. i \in 1 .. Len(p) + Len(q)
        BY <1>2
      <4>4. i - 1 = Len(p) \/ i - 1 > Len(p)
        BY ONLY <1>1, <2>2, <4>3
      <4> QED BY <4>1, <4>2, <4>4
    <3> QED BY <1>4, <3>1, <3>2
  <2> QED BY <1>1, <1>2, <2>1, <2>2
<1> HIDE DEF m
<1> QED BY <1>5, <1>6, <1>7, <1>8 DEF Leads

LEMMA LeadsOne ==
    ASSUME NEW K, NEW x \in Mirrors(K), NEW e, NEW y \in Mirrors(K), y = After(x, e)
    PROVE  Leads(K, x, <<e>>, y)
<1> DEFINE m == [i \in 0 .. 1 |-> IF i = 0 THEN x ELSE y]
<1>1. m \in [0 .. 1 -> Mirrors(K)] /\ m[0] = x /\ m[1] = y
  OBVIOUS
<1>2. Len(<<e>>) = 1 /\ <<e>>[1] = e /\ 1 - 1 = 0 /\ \A i \in 1 .. 1 : i = 1
  OBVIOUS
<1> HIDE DEF m
<1>3. \A i \in 1 .. 1 : m[i] = After(m[i - 1], <<e>>[i])
  BY <1>1, <1>2
<1> QED BY <1>1, <1>2, <1>3 DEF Leads

\* The first event is dispatched.
LEMMA LeadsTail ==
    ASSUME NEW K, NEW b \in Seq(Events), b # <<>>, NEW x, NEW y, Leads(K, x, b, y)
    PROVE  Leads(K, After(x, Head(b)), Tail(b), y)
<1>1. /\ Tail(b) \in Seq(Events) /\ Len(b) \in Nat \ {0} /\ Len(Tail(b)) = Len(b) - 1
      /\ Head(b) = b[1] /\ \A i \in 1 .. Len(b) - 1 : Tail(b)[i] = b[i + 1]
  BY HeadTailProperties
<1>2. PICK a \in [0 .. Len(b) -> Mirrors(K)] :
        /\ a[0] = x /\ a[Len(b)] = y
        /\ \A i \in 1 .. Len(b) : a[i] = After(a[i - 1], b[i])
  BY DEF Leads
<1> DEFINE m == [i \in 0 .. Len(b) - 1 |-> a[i + 1]]
<1>3. m \in [0 .. Len(Tail(b)) -> Mirrors(K)]
  BY <1>1, <1>2
<1>4. m[0] = After(x, Head(b)) /\ m[Len(Tail(b))] = y
  <2>1. 1 \in 1 .. Len(b) /\ 1 - 1 = 0 /\ 0 + 1 = 1 /\ Len(b) - 1 + 1 = Len(b)
        /\ 0 \in 0 .. Len(b) - 1 /\ Len(b) - 1 \in 0 .. Len(b) - 1
    BY <1>1
  <2>2. a[1] = After(a[0], b[1])
    BY <1>2, <2>1
  <2> QED BY <1>1, <1>2, <2>1, <2>2
<1>5. ASSUME NEW i \in 1 .. Len(Tail(b)) PROVE m[i] = After(m[i - 1], Tail(b)[i])
  <2>1. /\ i + 1 \in 1 .. Len(b) /\ i + 1 - 1 = i /\ i - 1 + 1 = i
        /\ m[i] = a[i + 1] /\ m[i - 1] = a[i] /\ Tail(b)[i] = b[i + 1]
    BY <1>1
  <2>2. a[i + 1] = After(a[i], b[i + 1])
    BY <1>2, <2>1
  <2> QED BY <2>1, <2>2
<1> HIDE DEF m
<1> QED BY <1>3, <1>4, <1>5 DEF Leads

LEMMA LeadsMore ==
    ASSUME NEW K, NEW K2, K \subseteq K2
    PROVE  /\ Mirrors(K) \subseteq Mirrors(K2)
           /\ \A x, b, y : Leads(K, x, b, y) => Leads(K2, x, b, y)
<1>1. Mirrors(K) \subseteq Mirrors(K2)
  BY DEF Mirrors
<1>2. ASSUME NEW x, NEW b, NEW y, Leads(K, x, b, y) PROVE Leads(K2, x, b, y)
  <2>1. PICK m \in [0 .. Len(b) -> Mirrors(K)] :
          /\ m[0] = x /\ m[Len(b)] = y
          /\ \A i \in 1 .. Len(b) : m[i] = After(m[i - 1], b[i])
    BY <1>2 DEF Leads
  <2>2. m \in [0 .. Len(b) -> Mirrors(K2)]
    BY <1>1
  <2> QED BY <2>1, <2>2 DEF Leads
<1> QED BY <1>1, <1>2

-----------------------------------------------------------------------------
(* What each event does to a mirror.                                       *)

Mirror(S, B, W, A, F) == [seats |-> S, keyboards |-> B, surfaces |-> W, accepted |-> A, focus |-> F]

LEMMA MirrorOf ==
    ASSUME NEW K, NEW x \in Mirrors(K)
    PROVE  /\ x = Mirror(x.seats, x.keyboards, x.surfaces, x.accepted, x.focus)
           /\ x.seats \subseteq K /\ x.keyboards \subseteq K /\ x.surfaces \subseteq Surfaces
           /\ x.accepted \in [Surfaces -> SUBSET K] /\ x.focus \subseteq Surfaces
  BY DEF Mirrors, Mirror

LEMMA AfterSeat ==
    ASSUME NEW K, NEW x \in Mirrors(K), NEW t
    PROVE  /\ After(x, SeatCreated(t)) = Mirror(x.seats \cup {t}, x.keyboards \ {t}, x.surfaces,
                                                x.accepted, x.focus)
           /\ After(x, SeatDestroyed(t)) = Mirror(x.seats \ {t}, x.keyboards \ {t}, x.surfaces,
                                                  x.accepted, x.focus)
<1>1. SeatCreated(t).ev = "seat_created" /\ SeatCreated(t).seat = t
  BY DEF SeatCreated
<1>2. SeatDestroyed(t).ev = "seat_destroyed" /\ SeatDestroyed(t).seat = t
  BY DEF SeatDestroyed
<1> QED BY <1>1, <1>2 DEF After, Mirrors, Mirror

LEMMA AfterCapabilities ==
    ASSUME NEW K, NEW x \in Mirrors(K), NEW t \in x.seats, NEW k
    PROVE  After(x, SeatCapabilities(t, k)) =
               Mirror(x.seats, IF k THEN x.keyboards \cup {t} ELSE x.keyboards \ {t}, x.surfaces,
                      x.accepted, x.focus)
<1>1. /\ SeatCapabilities(t, k).ev = "seat_capabilities" /\ SeatCapabilities(t, k).seat = t
      /\ SeatCapabilities(t, k).keyboard = k
  BY DEF SeatCapabilities
<1> QED BY <1>1 DEF After, Mirrors, Mirror

LEMMA AfterFocus ==
    ASSUME NEW K, NEW x \in Mirrors(K), NEW s \in x.surfaces, NEW on
    PROVE  After(x, InputFocus(s, on)) =
               Mirror(x.seats, x.keyboards, x.surfaces, x.accepted,
                      IF on THEN x.focus \cup {s} ELSE x.focus \ {s})
<1>1. /\ InputFocus(s, on).ev = "input_focus" /\ InputFocus(s, on).surf = s
      /\ InputFocus(s, on).on = on
  BY DEF InputFocus
<1> QED BY <1>1 DEF After, Mirrors, Mirror

LEMMA AfterAcceptance ==
    ASSUME NEW K, NEW x \in Mirrors(K), NEW s \in x.surfaces, NEW t, NEW on
    PROVE  After(x, InputAcceptance(s, t, on)) =
               Mirror(x.seats, x.keyboards, x.surfaces,
                      [x.accepted EXCEPT ![s] = IF on THEN @ \cup {t} ELSE @ \ {t}], x.focus)
<1>1. /\ InputAcceptance(s, t, on).ev = "input_acceptance" /\ InputAcceptance(s, t, on).surf = s
      /\ InputAcceptance(s, t, on).on = on /\ InputAcceptance(s, t, on).seat = t
  BY DEF InputAcceptance
<1> QED BY <1>1 DEF After, Mirrors, Mirror

LEMMA AfterSurface ==
    ASSUME NEW K, NEW x \in Mirrors(K), NEW s, NEW on \in BOOLEAN, on # (s \in x.surfaces)
    PROVE  After(x, SurfaceEvent(s, on)) =
               Mirror(x.seats, x.keyboards,
                      IF on THEN x.surfaces \cup {s} ELSE x.surfaces \ {s},
                      [x.accepted EXCEPT ![s] = {}], x.focus \ {s})
<1>1. /\ SurfaceEvent(s, on).ev = "surface" /\ SurfaceEvent(s, on).surf = s
      /\ SurfaceEvent(s, on).on = on
  BY DEF SurfaceEvent
<1> QED BY <1>1 DEF After, Mirrors, Mirror

LEMMA EventTypes ==
    /\ \A t \in Seats : SeatCreated(t) \in Events /\ SeatDestroyed(t) \in Events
    /\ \A t \in Seats, on \in BOOLEAN : SeatCapabilities(t, on) \in Events
    /\ \A s \in Surfaces, on \in BOOLEAN :
           SurfaceEvent(s, on) \in Events /\ InputFocus(s, on) \in Events
    /\ \A s \in Surfaces, t \in Seats, on \in BOOLEAN : InputAcceptance(s, t, on) \in Events
<1>1. ASSUME NEW t \in Seats PROVE SeatCreated(t) \in Events /\ SeatDestroyed(t) \in Events
  BY DEF SeatCreated, SeatDestroyed, Events
<1>2. ASSUME NEW t \in Seats, NEW on \in BOOLEAN PROVE SeatCapabilities(t, on) \in Events
  <2>1. SeatCapabilities(t, on) \in [ev : {"seat_capabilities"}, seat : Seats, keyboard : BOOLEAN]
    BY DEF SeatCapabilities
  <2> QED BY <2>1 DEF Events
<1>3. ASSUME NEW s \in Surfaces, NEW on \in BOOLEAN
      PROVE  SurfaceEvent(s, on) \in Events /\ InputFocus(s, on) \in Events
  <2>1. /\ SurfaceEvent(s, on) \in [ev : {"surface", "input_focus"}, surf : Surfaces, on : BOOLEAN]
        /\ InputFocus(s, on) \in [ev : {"surface", "input_focus"}, surf : Surfaces, on : BOOLEAN]
    BY DEF SurfaceEvent, InputFocus
  <2> QED BY <2>1 DEF Events
<1>4. ASSUME NEW s \in Surfaces, NEW t \in Seats, NEW on \in BOOLEAN
      PROVE  InputAcceptance(s, t, on) \in Events
  <2>1. InputAcceptance(s, t, on)
            \in [ev : {"input_acceptance"}, surf : Surfaces, seat : Seats, on : BOOLEAN]
    BY DEF InputAcceptance
  <2> QED BY <2>1 DEF Events
<1> QED BY <1>1, <1>2, <1>3, <1>4

Accepting(s, t) == InputAcceptance(s, t, TRUE)

LEMMA OneAccepting ==
    /\ \A s, t, u, v : Accepting(s, t) = Accepting(u, v) <=> s = u /\ t = v
    /\ \A s \in Surfaces, t \in Seats : Accepting(s, t) \in Events
<1>1. \A s, t : Accepting(s, t).surf = s /\ Accepting(s, t).seat = t
  BY DEF Accepting, InputAcceptance
<1>2. \A s \in Surfaces, t \in Seats : Accepting(s, t) \in Events
  BY EventTypes DEF Accepting
<1>3. ASSUME NEW s, NEW t, NEW u, NEW v PROVE Accepting(s, t) = Accepting(u, v) <=> s = u /\ t = v
  BY <1>1
<1> QED BY <1>2, <1>3

\* Surfaces lose the focus one by one.
LEMMA LeadsFocus ==
    ASSUME NEW K, NEW x \in Mirrors(K), NEW S \in SUBSET x.surfaces, IsFiniteSet(S)
    PROVE  /\ FocusEvents(S, FALSE) \in Seq(Events)
           /\ Leads(K, x, FocusEvents(S, FALSE),
                    Mirror(x.seats, x.keyboards, x.surfaces, x.accepted, x.focus \ S))
<1> DEFINE E == {InputFocus(s, FALSE) : s \in S}
           f == [s \in S |-> InputFocus(s, FALSE)]
<1>1. E = {f[s] : s \in DOMAIN f} /\ IsFiniteSet(DOMAIN f)
  OBVIOUS
<1>2. IsFiniteSet(E)
  BY <1>1, ImageFinite
<1>3. S \subseteq Surfaces
  BY DEF Mirrors
<1>4. E \subseteq Events
  BY <1>3, EventTypes DEF E
<1>5. PICK q : q = FocusEvents(S, FALSE)
  OBVIOUS
<1> HIDE DEF E, f
<1>6. /\ q \in Seq(Events) /\ \A i \in 1 .. Len(q) : q[i] \in E
      /\ \A e \in E : \E i \in 1 .. Len(q) : q[i] = e
  BY <1>2, <1>4, <1>5, SeqOfSet DEF FocusEvents, E
<1> DEFINE gone_(i) == {s \in S : \E j \in 1 .. i : q[j].surf = s}
           m == [i \in 0 .. Len(q) |-> Mirror(x.seats, x.keyboards, x.surfaces, x.accepted,
                                              x.focus \ gone_(i))]
<1>7. gone_(0) = {} /\ gone_(Len(q)) = S
  <2>1. \A s \in S : InputFocus(s, FALSE) \in E /\ InputFocus(s, FALSE).surf = s
    BY DEF E, InputFocus
  <2>2. gone_(0) = {}
    OBVIOUS
  <2>3. \A s \in S : \E i \in 1 .. Len(q) : q[i].surf = s
    BY <1>6, <2>1
  <2> QED BY <2>2, <2>3
<1>8. \A i \in 1 .. Len(q) : gone_(i) = gone_(i - 1) \cup {q[i].surf} /\ q[i].surf \in S
                             /\ q[i] = InputFocus(q[i].surf, FALSE)
  <2> SUFFICES ASSUME NEW i \in 1 .. Len(q)
               PROVE  gone_(i) = gone_(i - 1) \cup {q[i].surf} /\ q[i].surf \in S
                      /\ q[i] = InputFocus(q[i].surf, FALSE)
    OBVIOUS
  <2>1. PICK s \in S : q[i] = InputFocus(s, FALSE)
    BY <1>6 DEF E
  <2>2. q[i].surf = s
    BY <2>1 DEF InputFocus
  <2>3. Len(q) \in Nat
    BY <1>6
  <2>4. \A j : j \in 1 .. i <=> j \in 1 .. (i - 1) \/ j = i
    BY <2>3
  <2> QED BY <2>1, <2>2, <2>4
<1> HIDE DEF gone_
<1>9. \A i : gone_(i) \subseteq S
  BY DEF gone_
<1>10. m \in [0 .. Len(q) -> Mirrors(K)]
  BY MirrorOf DEF Mirror, Mirrors
<1>11. Len(q) \in Nat
  BY <1>6
<1>12. /\ m[0] = x
       /\ m[Len(q)] = Mirror(x.seats, x.keyboards, x.surfaces, x.accepted, x.focus \ S)
  <2>1. /\ m[0] = Mirror(x.seats, x.keyboards, x.surfaces, x.accepted, x.focus \ gone_(0))
        /\ m[Len(q)] = Mirror(x.seats, x.keyboards, x.surfaces, x.accepted,
                              x.focus \ gone_(Len(q)))
    BY <1>11
  <2>2. x.focus \ gone_(0) = x.focus
    BY <1>7
  <2> HIDE DEF m
  <2> QED BY <1>7, <2>1, <2>2, MirrorOf
<1>13. ASSUME NEW i \in 1 .. Len(q) PROVE m[i] = After(m[i - 1], q[i])
  <2>1. i \in 0 .. Len(q) /\ i - 1 \in 0 .. Len(q)
    BY <1>11
  <2>2. PICK y : y = m[i - 1]
    OBVIOUS
  <2>3. y = Mirror(x.seats, x.keyboards, x.surfaces, x.accepted, x.focus \ gone_(i - 1))
    BY <2>1, <2>2
  <2>4. /\ y.seats = x.seats /\ y.keyboards = x.keyboards /\ y.surfaces = x.surfaces
        /\ y.accepted = x.accepted /\ y.focus = x.focus \ gone_(i - 1)
    BY <2>3 DEF Mirror
  <2>5. y \in Mirrors(K)
    BY <1>10, <2>1, <2>2
  <2>6. After(y, InputFocus(q[i].surf, FALSE)) =
            Mirror(x.seats, x.keyboards, x.surfaces, x.accepted,
                   (x.focus \ gone_(i - 1)) \ {q[i].surf})
    <3>1. q[i].surf \in y.surfaces
      BY <1>8, <2>4
    <3>2. After(y, InputFocus(q[i].surf, FALSE)) =
              Mirror(y.seats, y.keyboards, y.surfaces, y.accepted, y.focus \ {q[i].surf})
      BY ONLY <2>5, <3>1, AfterFocus
    <3> QED BY ONLY <2>4, <3>2
  <2>7. (x.focus \ gone_(i - 1)) \ {q[i].surf} = x.focus \ gone_(i)
    BY <1>8
  <2>8. m[i] = Mirror(x.seats, x.keyboards, x.surfaces, x.accepted, x.focus \ gone_(i))
    BY <2>1
  <2> HIDE DEF m
  <2>9. q[i] = InputFocus(q[i].surf, FALSE)
    BY <1>8
  <2> QED BY <2>2, <2>6, <2>7, <2>8, <2>9
<1> HIDE DEF m
<1>14. Leads(K, x, q, Mirror(x.seats, x.keyboards, x.surfaces, x.accepted, x.focus \ S))
  BY <1>10, <1>12, <1>13 DEF Leads
<1> QED BY <1>5, <1>6, <1>14

\* Surfaces come to accept seats one by one.
Gain(A, S, T) == [s \in Surfaces |-> IF s \in S THEN A[s] \cup T ELSE A[s]]

LEMMA LeadsAccept ==
    ASSUME NEW K, NEW x \in Mirrors(K), NEW S \in SUBSET x.surfaces, NEW T \in SUBSET (K \cap Seats),
           NEW E, IsFiniteSet(E), E = {Accepting(p[1], p[2]) : p \in S \X T}
    PROVE  /\ SetToSeq(E) \in Seq(Events)
           /\ Leads(K, x, SetToSeq(E),
                    Mirror(x.seats, x.keyboards, x.surfaces, Gain(x.accepted, S, T), x.focus))
<1>1. S \subseteq Surfaces
  BY DEF Mirrors
<1>2. E \subseteq Events
  BY <1>1, OneAccepting
<1>3. PICK q : q = SetToSeq(E)
  OBVIOUS
<1>4. /\ q \in Seq(Events) /\ \A i \in 1 .. Len(q) : q[i] \in E
      /\ \A e \in E : \E i \in 1 .. Len(q) : q[i] = e
  <2>1. IsFiniteSet(E)
    OBVIOUS
  <2> QED BY ONLY <1>2, <1>3, <2>1, SeqOfSet
<1>5. Len(q) \in Nat
  BY <1>4
<1> DEFINE new(i, s) == {t \in T : \E j \in 1 .. i : q[j] = Accepting(s, t)}
           acc(i) == [s \in Surfaces |-> x.accepted[s] \cup new(i, s)]
           m == [i \in 0 .. Len(q) |-> Mirror(x.seats, x.keyboards, x.surfaces, acc(i), x.focus)]
<1>7. \A s \in S, t \in T : Accepting(s, t) \in E
  <2> SUFFICES ASSUME NEW s \in S, NEW t \in T PROVE Accepting(s, t) \in E
    OBVIOUS
  <2>1. <<s, t>> \in S \X T /\ <<s, t>>[1] = s /\ <<s, t>>[2] = t
    OBVIOUS
  <2> QED BY <2>1
<1>8. \A e \in E : \E s \in S, t \in T : e = Accepting(s, t)
  OBVIOUS
<1>9. \A s \in Surfaces : /\ new(0, s) = {}
                          /\ new(Len(q), s) = IF s \in S THEN T ELSE {}
  <2>1. \A s \in Surfaces : new(0, s) = {}
    OBVIOUS
  <2>2. ASSUME NEW s \in S PROVE new(Len(q), s) = T
    BY <1>4, <1>7
  <2>3. ASSUME NEW s \in Surfaces, s \notin S PROVE new(Len(q), s) = {}
    <3>1. ASSUME NEW i \in 1 .. Len(q), NEW t PROVE q[i] # Accepting(s, t)
      <4>1. PICK u \in S, v \in T : q[i] = Accepting(u, v)
        BY <1>4, <1>8
      <4>2. Accepting(s, t) = Accepting(u, v) <=> s = u /\ t = v
        BY OneAccepting
      <4>3. u \in S
        OBVIOUS
      <4> QED BY ONLY <2>3, <4>1, <4>2, <4>3
    <3> QED BY <3>1
  <2> QED BY <2>1, <2>2, <2>3
<1>10. ASSUME NEW i \in 1 .. Len(q), NEW u \in S, NEW v \in T, q[i] = Accepting(u, v),
              NEW s \in Surfaces
       PROVE  new(i, s) = IF s = u THEN new(i - 1, s) \cup {v} ELSE new(i - 1, s)
  <2>1. \A j : j \in 1 .. i <=> j \in 1 .. (i - 1) \/ j = i
    BY <1>5
  <2>2. \A t : q[i] = Accepting(s, t) <=> s = u /\ t = v
    <3> SUFFICES ASSUME NEW t
                 PROVE  q[i] = Accepting(s, t) <=> s = u /\ t = v
      OBVIOUS
    <3>1. Accepting(s, t) = Accepting(u, v) <=> s = u /\ t = v
      BY OneAccepting
    <3> QED BY ONLY <1>10, <3>1
  <2> QED BY <2>1, <2>2
<1> HIDE DEF new
<1>11. \A i, s : new(i, s) \subseteq T
  BY DEF new
<1>12. \A i : acc(i) \in [Surfaces -> SUBSET K]
  BY <1>11, MirrorOf
<1>13. \A i \in 0 .. Len(q) :
            m[i] = Mirror(x.seats, x.keyboards, x.surfaces, acc(i), x.focus)
  OBVIOUS
<1> HIDE DEF acc
<1>14. m \in [0 .. Len(q) -> Mirrors(K)]
  BY <1>12, MirrorOf DEF Mirror, Mirrors
<1>15. acc(0) = x.accepted /\ acc(Len(q)) = Gain(x.accepted, S, T)
  <2>1. \A s \in Surfaces : acc(0)[s] = x.accepted[s]
    BY <1>9 DEF acc
  <2>2. \A s \in Surfaces : acc(Len(q))[s] = Gain(x.accepted, S, T)[s]
    BY <1>9 DEF acc, Gain
  <2>3. /\ x.accepted = [s \in Surfaces |-> x.accepted[s]]
        /\ acc(0) = [s \in Surfaces |-> acc(0)[s]]
        /\ acc(Len(q)) = [s \in Surfaces |-> acc(Len(q))[s]]
        /\ Gain(x.accepted, S, T) = [s \in Surfaces |-> Gain(x.accepted, S, T)[s]]
    BY <1>12, MirrorOf DEF Gain
  <2> QED BY <2>1, <2>2, <2>3
<1>16. /\ m[0] = x
       /\ m[Len(q)] = Mirror(x.seats, x.keyboards, x.surfaces, Gain(x.accepted, S, T), x.focus)
  <2>1. 0 \in 0 .. Len(q) /\ Len(q) \in 0 .. Len(q)
    BY <1>5
  <2> HIDE DEF m
  <2> QED BY <1>13, <1>15, <2>1, MirrorOf
<1>17. ASSUME NEW i \in 1 .. Len(q) PROVE m[i] = After(m[i - 1], q[i])
  <2>1. i \in 0 .. Len(q) /\ i - 1 \in 0 .. Len(q)
    BY <1>5
  <2>2. PICK u \in S, v \in T : q[i] = Accepting(u, v)
    BY <1>4, <1>8
  <2> HIDE DEF m
  <2>3. PICK y : y = m[i - 1]
    OBVIOUS
  <2>4. y = Mirror(x.seats, x.keyboards, x.surfaces, acc(i - 1), x.focus)
    BY <1>13, <2>1, <2>3
  <2>5. /\ y.seats = x.seats /\ y.keyboards = x.keyboards /\ y.surfaces = x.surfaces
        /\ y.accepted = acc(i - 1) /\ y.focus = x.focus
    BY <2>4 DEF Mirror
  <2>6. y \in Mirrors(K)
    BY <1>14, <2>1, <2>3
  <2>7. After(y, Accepting(u, v)) =
            Mirror(x.seats, x.keyboards, x.surfaces, [acc(i - 1) EXCEPT ![u] = @ \cup {v}], x.focus)
    <3>1. u \in y.surfaces
      BY <2>5
    <3>2. After(y, Accepting(u, v)) =
              Mirror(y.seats, y.keyboards, y.surfaces,
                     [y.accepted EXCEPT ![u] = @ \cup {v}], y.focus)
      BY <2>6, <3>1, AfterAcceptance DEF Accepting
    <3> QED BY ONLY <2>5, <3>2
  <2>8. [acc(i - 1) EXCEPT ![u] = @ \cup {v}] = acc(i)
    <3>1. \A s \in Surfaces : acc(i)[s] = IF s = u THEN acc(i - 1)[s] \cup {v} ELSE acc(i - 1)[s]
      <4>1. \A s \in Surfaces :
                new(i, s) = IF s = u THEN new(i - 1, s) \cup {v} ELSE new(i - 1, s)
        BY <1>10, <2>2
      <4>2. \A s \in Surfaces : /\ acc(i)[s] = x.accepted[s] \cup new(i, s)
                                /\ acc(i - 1)[s] = x.accepted[s] \cup new(i - 1, s)
        BY DEF acc
      <4> QED BY ONLY <4>1, <4>2
    <3>2. acc(i) = [s \in Surfaces |-> acc(i)[s]] /\ acc(i - 1) = [s \in Surfaces |-> acc(i - 1)[s]]
      BY <1>12
    <3> QED BY <3>1, <3>2
  <2> QED BY <1>13, <2>1, <2>2, <2>3, <2>7, <2>8
<1> HIDE DEF m
<1>18. Leads(K, x, q, Mirror(x.seats, x.keyboards, x.surfaces, Gain(x.accepted, S, T), x.focus))
  BY <1>14, <1>16, <1>17 DEF Leads
<1> QED BY <1>3, <1>4, <1>18

-----------------------------------------------------------------------------
(* What the compositor tells of its changes.                               *)

\* The events evs are sent, and lead from where the mirror was on its way to
\* to what there is now.
Follows(y, evs) == \E z \in Mirrors(Known') : Leads(Known', y, evs, z) /\ Exact(z)'
Tells(evs) ==
    /\ evs \in Seq(Events) /\ NoDone(evs)
    /\ inbox' = inbox \o evs
    /\ \A y \in Mirrors(Known) : Exact(y) => Follows(y, evs)

LEMMA OneEvent == ASSUME NEW e \in Events PROVE <<e>> \in Seq(Events)
  OBVIOUS

LEMMA NoDoneOne == ASSUME NEW e, e.ev # "done" PROVE NoDone(<<e>>)
<1>1. Len(<<e>>) = 1 /\ <<e>>[1] = e /\ \A i \in 1 .. 1 : i = 1
  OBVIOUS
<1> QED BY <1>1 DEF NoDone

LEMMA NoDoneOn ==
    ASSUME NEW p \in Seq(Events), NEW q \in Seq(Events)
    PROVE  NoDone(p \o q) <=> NoDone(p) /\ NoDone(q)
<1>1. Len(p) \in Nat /\ Len(q) \in Nat
  OBVIOUS
<1>2. /\ Len(p \o q) = Len(p) + Len(q)
      /\ \A i \in 1 .. Len(p) + Len(q) :
            (p \o q)[i] = IF i <= Len(p) THEN p[i] ELSE q[i - Len(p)]
  BY ConcatProperties
<1>3. ASSUME NoDone(p), NoDone(q) PROVE NoDone(p \o q)
  <2> SUFFICES ASSUME NEW i \in 1 .. Len(p \o q) PROVE (p \o q)[i].ev # "done"
    BY DEF NoDone
  <2>1. CASE i <= Len(p)
    BY <1>1, <1>2, <1>3, <2>1 DEF NoDone
  <2>2. CASE ~(i <= Len(p))
    <3>1. i - Len(p) \in 1 .. Len(q) /\ (p \o q)[i] = q[i - Len(p)]
      BY <1>1, <1>2, <2>2
    <3> QED BY <1>3, <3>1 DEF NoDone
  <2> QED BY <2>1, <2>2
<1>4. ASSUME NoDone(p \o q) PROVE NoDone(p) /\ NoDone(q)
  <2>1. ASSUME NEW i \in 1 .. Len(p) PROVE p[i].ev # "done"
    BY <1>1, <1>2, <1>4 DEF NoDone
  <2>2. ASSUME NEW i \in 1 .. Len(q) PROVE q[i].ev # "done"
    <3>1. i + Len(p) \in 1 .. Len(p) + Len(q) /\ ~(i + Len(p) <= Len(p)) /\ i + Len(p) - Len(p) = i
      BY <1>1
    <3>2. (p \o q)[i + Len(p)] = q[i]
      BY <1>2, <3>1
    <3> QED BY <1>2, <1>4, <3>1, <3>2 DEF NoDone
  <2> QED BY <2>1, <2>2 DEF NoDone
<1> QED BY <1>3, <1>4

\* No event of a surface or a seat is an answer to a sync.
LEMMA NoDoneEvents ==
    ASSUME NEW q, NEW E, \A i \in 1 .. Len(q) : q[i] \in E, \A e \in E : e.ev # "done"
    PROVE  NoDone(q)
  BY DEF NoDone

LEMMA NoDoneFocus ==
    ASSUME NEW S \in SUBSET Surfaces, IsFiniteSet(S)
    PROVE  NoDone(FocusEvents(S, FALSE))
<1> DEFINE E == {InputFocus(s, FALSE) : s \in S}
           f == [s \in S |-> InputFocus(s, FALSE)]
<1>1. E = {f[s] : s \in DOMAIN f} /\ IsFiniteSet(DOMAIN f)
  OBVIOUS
<1>2. IsFiniteSet(E)
  BY <1>1, ImageFinite
<1>3. \A e \in E : e.ev # "done"
  BY DEF InputFocus
<1>4. FocusEvents(S, FALSE) = SetToSeq(E)
  BY DEF FocusEvents
<1> HIDE DEF E
<1>5. \A i \in 1 .. Len(SetToSeq(E)) : SetToSeq(E)[i] \in E
  BY <1>2, SeqOfSet
<1> QED BY <1>3, <1>4, <1>5 DEF NoDone

LEMMA NoDoneAccept ==
    ASSUME NEW E, IsFiniteSet(E), NEW S, NEW T, E = {Accepting(p[1], p[2]) : p \in S \X T}
    PROVE  NoDone(SetToSeq(E))
<1>1. \A e \in E : e.ev # "done"
  BY DEF Accepting, InputAcceptance
<1>2. \A i \in 1 .. Len(SetToSeq(E)) : SetToSeq(E)[i] \in E
  BY SeqOfSet
<1> QED BY <1>1, <1>2 DEF NoDone

LEMMA NoDoneEmpty == NoDone(<<>>)
<1>1. 1 .. Len(<<>>) = {}
  OBVIOUS
<1> QED BY <1>1 DEF NoDone

\* How the focus a client hears of follows the keyboards.
LEMMA FocusHeard ==
    ASSUME SeatsKept, Parting, NEW s \in Surfaces
    PROVE  /\ focus'[s] = focus[s] => (HasFocus(s)' <=> HasFocus(s))
           /\ focus'[s] \subseteq focus[s] /\ focus'[s] # focus[s] => ~HasFocus(s)'
           /\ ~(focus'[s] \subseteq focus[s]) => HasFocus(s)'
           /\ s \in parted' => focus'[s] # {}
<1>1. s \in parted' <=> /\ focus'[s] # {} /\ focus'[s] \subseteq focus[s]
                        /\ (s \in parted \/ focus'[s] # focus[s])
  BY DEF Parting
<1>2. s \in parted => focus[s] # {}
  BY DEF SeatsKept
<1>3. HasFocus(s)' <=> focus'[s] # {} /\ s \notin parted'
  BY DEF HasFocus
<1>4. HasFocus(s) <=> focus[s] # {} /\ s \notin parted
  BY DEF HasFocus
<1> QED BY <1>1, <1>2, <1>3, <1>4

LEMMA FocusKept ==
    ASSUME SeatsKept, Parting, UNCHANGED focus
    PROVE  /\ \A s \in Surfaces : HasFocus(s)' <=> HasFocus(s)
           /\ \A s \in Surfaces : s \in parted' => focus'[s] # {}
  BY FocusHeard

\* What nobody is told of.
LEMMA TellsNothing ==
    ASSUME KInv, SeatsKept, UNCHANGED world, UNCHANGED inbox, Wired, Parting
    PROVE  SeatsKept' /\ Tells(<<>>)
<1>0. /\ \A s \in Surfaces : HasFocus(s)' <=> HasFocus(s)
      /\ \A s \in Surfaces : s \in parted' => focus'[s] # {}
  BY FocusKept DEF world
<1>1. SeatsKept'
  BY <1>0 DEF SeatsKept, world
<1>2. NoDone(<<>>)
  BY NoDoneEmpty
<1>3. inbox' = inbox \o <<>>
  BY DEF Wired
<1>4. ASSUME NEW y \in Mirrors(Known), Exact(y) PROVE Follows(y, <<>>)
  <2>1. Known' = Known
    BY DEF Known, world
  <2>2. Exact(y)'
    BY <1>0, <1>4 DEF Exact, world, KInv, KeyTypes
  <2>3. Leads(Known, y, <<>>, y)
    BY LeadsNowhere
  <2> QED BY <2>1, <2>2, <2>3 DEF Follows
<1>5. <<>> \in Seq(Events)
  OBVIOUS
<1> QED BY <1>1, <1>2, <1>3, <1>4, <1>5 DEF Tells

\* A surface that is not there has no focus.
LEMMA NoFocus ==
    ASSUME KInv, NEW s \in Surfaces
    PROVE  s \notin list_surface => focus[s] = {}
  BY DEF KInv, KeyTypes, Reachable

\* Accepting and refusing a seat.
LEMMA AcceptanceTells ==
    ASSUME KInv, SeatsKept, Wired, Parting, NEW s \in Surfaces, NEW t \in Seats, NEW on \in BOOLEAN,
           setup_input_acceptance(s, t, on)
    PROVE  SeatsKept' /\ \E evs : Tells(evs)
<1>0. \A r \in Surfaces : r \in parted' => focus'[r] # {}
  BY FocusHeard
<1>1. UNCHANGED <<list_surface, seat_list, gone, keyboard>> /\ Known' = Known
  BY DEF setup_input_acceptance, Known
<1>2. CASE t \notin seat_list \/ s \notin list_surface \/ (~on /\ t \notin accepted[s])
  <2>1. UNCHANGED world /\ UNCHANGED inbox
    BY <1>2, <1>1 DEF setup_input_acceptance, world
  <2> QED BY <2>1, TellsNothing
<1>3. CASE t \in seat_list /\ s \in list_surface /\ on
  <2>1. Accept(s, t)
    BY <1>3 DEF setup_input_acceptance
  <2>2. /\ accepted' = [accepted EXCEPT ![s] = @ \cup {t}] /\ UNCHANGED focus
        /\ inbox' = inbox \o <<InputAcceptance(s, t, TRUE)>>
    BY <2>1 DEF Accept, Sent
  <2>3. SeatsKept'
    BY <1>0, <1>1, <1>3, <2>2 DEF SeatsKept
  <2>4. <<InputAcceptance(s, t, TRUE)>> \in Seq(Events)
    <3>1. InputAcceptance(s, t, TRUE) \in Events
      BY EventTypes
    <3> QED BY <3>1, OneEvent
  <2>5. NoDone(<<InputAcceptance(s, t, TRUE)>>)
    BY NoDoneOne DEF InputAcceptance
  <2>6. ASSUME NEW y \in Mirrors(Known), Exact(y) PROVE Follows(y, <<InputAcceptance(s, t, TRUE)>>)
    <3> DEFINE z == Mirror(y.seats, y.keyboards, y.surfaces, [y.accepted EXCEPT ![s] = @ \cup {t}],
                           y.focus)
    <3>1. s \in y.surfaces
      BY <1>3, <2>6 DEF Exact
    <3>2. z \in Mirrors(Known)
      BY <1>3, MirrorOf DEF Mirror, Mirrors, Known
    <3>3. z = After(y, InputAcceptance(s, t, TRUE))
      BY <3>1, AfterAcceptance
    <3>4. Exact(z)'
      <4>1. y.accepted \in [Surfaces -> SUBSET Known] /\ accepted \in [Surfaces -> SUBSET seat_list]
        BY MirrorOf DEF SeatsKept
      <4>2. ASSUME NEW r \in list_surface
            PROVE  accepted'[r] \subseteq z.accepted[r] /\ z.accepted[r] \subseteq accepted'[r] \cup gone
        <5>1. r \in Surfaces /\ accepted[r] \subseteq y.accepted[r]
              /\ y.accepted[r] \subseteq accepted[r] \cup gone
          BY <2>6 DEF Exact, KInv, KeyTypes
        <5>2. z.accepted[r] = IF r = s THEN y.accepted[r] \cup {t} ELSE y.accepted[r]
          BY <4>1, <5>1 DEF Mirror
        <5>3. accepted'[r] = IF r = s THEN accepted[r] \cup {t} ELSE accepted[r]
          BY <2>2, <4>1, <5>1
        <5> QED BY <5>1, <5>2, <5>3
      <4>3. /\ z.seats = y.seats /\ z.keyboards = y.keyboards /\ z.surfaces = y.surfaces
            /\ z.focus = y.focus
        BY DEF Mirror
      <4>4. z.focus = {r \in list_surface : HasFocus(r)'}
        <5>1. \A r \in list_surface : HasFocus(r)' <=> HasFocus(r)
          BY <2>2, FocusKept DEF KInv, KeyTypes
        <5> QED BY <2>6, <4>3, <5>1 DEF Exact
      <4> HIDE DEF z
      <4> QED BY <1>1, <2>2, <2>6, <4>2, <4>3, <4>4 DEF Exact
    <3> HIDE DEF z
    <3> QED BY <1>1, <3>2, <3>3, <3>4, LeadsOne DEF Follows
  <2> QED BY <2>2, <2>3, <2>4, <2>5, <2>6 DEF Tells
<1>4. CASE t \in seat_list /\ s \in list_surface /\ ~on /\ t \in accepted[s]
  <2>1. Refuse(s, t)
    BY <1>4 DEF setup_input_acceptance
  <2> DEFINE p == IF s \in Focused(t) THEN <<InputFocus(s, FALSE)>> ELSE <<>>
             e == InputAcceptance(s, t, FALSE)
  <2>0. PICK F : F = {s} \cap Focused(t)
    OBVIOUS
  <2>2. /\ accepted' = [accepted EXCEPT ![s] = @ \ {t}]
        /\ focus' = [r \in Surfaces |-> IF r \in F THEN focus[r] \ {t} ELSE focus[r]]
        /\ inbox' = inbox \o (p \o <<e>>)
    BY <2>0, <2>1 DEF Refuse, Leave, Sent
  <2>3. SeatsKept'
    BY <1>0, <1>1, <1>4, <2>2 DEF SeatsKept
  <2>4. p \in Seq(Events) /\ <<e>> \in Seq(Events)
    <3>1. e \in Events /\ InputFocus(s, FALSE) \in Events
      BY EventTypes
    <3>2. <<InputFocus(s, FALSE)>> \in Seq(Events)
      BY <3>1, OneEvent
    <3>3. p \in Seq(Events)
      <4>1. <<>> \in Seq(Events)
        OBVIOUS
      <4> QED BY <3>2, <4>1, Zenon
    <3> HIDE DEF p, e
    <3> QED BY <3>1, <3>3, OneEvent
  <2>5. NoDone(p \o <<e>>)
    <3>1. NoDone(<<e>>)
      BY NoDoneOne DEF InputAcceptance
    <3>2. NoDone(<<InputFocus(s, FALSE)>>)
      BY NoDoneOne DEF InputFocus
    <3>3. NoDone(<<>>)
      BY NoDoneEmpty
    <3>4. NoDone(p)
      BY <3>2, <3>3
    <3> HIDE DEF p, e
    <3> QED BY <2>4, <3>1, <3>4, NoDoneOn
  <2>6. \A r \in Surfaces : HasFocus(r)' <=> r \notin F /\ HasFocus(r)
    <3>1. \A r \in Surfaces : r \in F => t \in focus[r]
      BY <2>0 DEF Focused
    <3>2. \A r \in Surfaces : r \in F => focus'[r] = focus[r] \ {t}
      BY <2>2
    <3>3. \A r \in Surfaces : r \notin F => focus'[r] = focus[r]
      BY <2>2
    <3> QED BY <3>1, <3>2, <3>3, FocusHeard
  <2>7. ASSUME NEW y \in Mirrors(Known), Exact(y) PROVE Follows(y, p \o <<e>>)
    <3> DEFINE x == Mirror(y.seats, y.keyboards, y.surfaces, y.accepted, y.focus \ F)
               z == Mirror(y.seats, y.keyboards, y.surfaces, [y.accepted EXCEPT ![s] = @ \ {t}],
                           y.focus \ F)
    <3>1. s \in y.surfaces
      BY <1>4, <2>7 DEF Exact
    <3>2. x \in Mirrors(Known) /\ z \in Mirrors(Known)
      BY MirrorOf DEF Mirror, Mirrors
    <3>3. Leads(Known, y, p, x)
      <4>1. CASE s \in Focused(t)
        <5>1. F = {s} /\ p = <<InputFocus(s, FALSE)>>
          BY <2>0, <4>1
        <5>2. x = After(y, InputFocus(s, FALSE))
          <6>1. After(y, InputFocus(s, FALSE)) =
                    Mirror(y.seats, y.keyboards, y.surfaces, y.accepted, y.focus \ {s})
            BY <3>1, AfterFocus
          <6> QED BY <5>1, <6>1
        <5> HIDE DEF x, p
        <5> QED BY <3>2, <5>1, <5>2, LeadsOne
      <4>2. CASE s \notin Focused(t)
        <5>1. F = {} /\ p = <<>>
          BY <2>0, <4>2
        <5>2. x = y
          <6>1. y.focus \ F = y.focus
            BY <5>1
          <6> QED BY <6>1, MirrorOf
        <5> HIDE DEF x, p
        <5> QED BY <5>1, <5>2, LeadsNowhere
      <4> QED BY <4>1, <4>2
    <3>4. Leads(Known, x, <<e>>, z)
      <4>1. /\ x.seats = y.seats /\ x.keyboards = y.keyboards /\ x.surfaces = y.surfaces
            /\ x.accepted = y.accepted /\ x.focus = y.focus \ F
        BY DEF Mirror
      <4> HIDE DEF x
      <4>2. After(x, e) = Mirror(x.seats, x.keyboards, x.surfaces, [x.accepted EXCEPT ![s] = @ \ {t}],
                                 x.focus)
        <5>1. s \in x.surfaces
          BY <3>1, <4>1
        <5> QED BY <3>2, <5>1, AfterAcceptance
      <4>3. z = After(x, e)
        BY <4>1, <4>2
      <4> HIDE DEF z, e
      <4> QED BY <3>2, <4>3, LeadsOne
    <3>5. Leads(Known, y, p \o <<e>>, z)
      <4> HIDE DEF p, e, x, z
      <4> QED BY <2>4, <3>3, <3>4, LeadsOn
    <3>6. Exact(z)'
      <4>1. y.accepted \in [Surfaces -> SUBSET Known] /\ accepted \in [Surfaces -> SUBSET seat_list]
        BY MirrorOf DEF SeatsKept
      <4>2. ASSUME NEW r \in list_surface
            PROVE  accepted'[r] \subseteq z.accepted[r] /\ z.accepted[r] \subseteq accepted'[r] \cup gone
        <5>1. r \in Surfaces /\ accepted[r] \subseteq y.accepted[r]
              /\ y.accepted[r] \subseteq accepted[r] \cup gone
          BY <2>7 DEF Exact, KInv, KeyTypes
        <5>2. z.accepted[r] = IF r = s THEN y.accepted[r] \ {t} ELSE y.accepted[r]
          BY <4>1, <5>1 DEF Mirror
        <5>3. accepted'[r] = IF r = s THEN accepted[r] \ {t} ELSE accepted[r]
          BY <2>2, <4>1, <5>1
        <5> QED BY <5>1, <5>2, <5>3
      <4>3. /\ z.seats = y.seats /\ z.keyboards = y.keyboards /\ z.surfaces = y.surfaces
            /\ z.focus = y.focus \ F
        BY DEF Mirror
      <4>4. y.focus \ F = {r \in list_surface : HasFocus(r)'}
        <5>1. y.focus = {r \in list_surface : HasFocus(r)}
          BY <2>7 DEF Exact
        <5>2. \A r \in list_surface : HasFocus(r)' <=> r \notin F /\ HasFocus(r)
          BY <2>6 DEF KInv, KeyTypes
        <5> QED BY <5>1, <5>2
      <4> HIDE DEF z
      <4> QED BY <1>1, <2>7, <4>2, <4>3, <4>4 DEF Exact
    <3> HIDE DEF z, p, e
    <3> QED BY <1>1, <3>2, <3>5, <3>6 DEF Follows
  <2>8. p \o <<e>> \in Seq(Events)
    BY <2>4, ConcatProperties
  <2> QED BY <2>2, <2>3, <2>5, <2>7, <2>8 DEF Tells
<1> QED BY <1>2, <1>3, <1>4

\* The keyboard enters or leaves a surface.
LEMMA FocusTells ==
    ASSUME KInv, SeatsKept, Wired, Parting, NEW s \in Surfaces, NEW on \in BOOLEAN,
           setup_input_focus(s, on)
    PROVE  SeatsKept' /\ \E evs : Tells(evs)
<1>0. PICK T : T = {t \in keyboard : s \in list_surface /\ t \in accepted[s]
                                         /\ (t \in focus[s]) # on}
  OBVIOUS
<1>1. /\ UNCHANGED <<list_surface, seat_list, gone, keyboard, accepted>> /\ Known' = Known
      /\ focus' = [focus EXCEPT ![s] = IF on THEN @ \cup T ELSE @ \ T]
      /\ inbox' = inbox \o [i \in 1 .. (IF T = {} THEN 0 ELSE 1) |-> InputFocus(s, on)]
  BY <1>0 DEF setup_input_focus, Sent, Known
<1>2. CASE T = {}
  <2>1. focus' = focus
    BY <1>1, <1>2 DEF KInv, KeyTypes
  <2>2. [i \in 1 .. (IF T = {} THEN 0 ELSE 1) |-> InputFocus(s, on)] = <<>>
    BY <1>2
  <2>3. inbox' = inbox
    BY <1>1, <2>2 DEF Wired
  <2> QED BY <1>1, <2>1, <2>3, TellsNothing DEF world
<1>3. CASE T # {}
  <2>1. PICK t : t \in T
    BY <1>3
  <2>2. /\ t \in keyboard /\ s \in list_surface /\ (t \in focus[s]) # on
        /\ T \subseteq keyboard
    BY <1>0, <2>1
  <2>3. focus'[s] = IF on THEN focus[s] \cup T ELSE focus[s] \ T
    BY <1>1 DEF KInv, KeyTypes
  <2>4. HasFocus(s)' <=> on
    <3>1. CASE on
      <4>1. ~(focus'[s] \subseteq focus[s])
        BY <2>1, <2>2, <2>3, <3>1
      <4> QED BY <3>1, <4>1, FocusHeard
    <3>2. CASE ~on
      <4>1. focus'[s] \subseteq focus[s] /\ focus'[s] # focus[s]
        BY <2>1, <2>2, <2>3, <3>2
      <4> QED BY <3>2, <4>1, FocusHeard
    <3> QED BY <3>1, <3>2
  <2>5. \A r \in Surfaces : r # s => (HasFocus(r)' <=> HasFocus(r))
    <3>1. \A r \in Surfaces : r # s => focus'[r] = focus[r]
      BY <1>1 DEF KInv, KeyTypes
    <3> QED BY <3>1, FocusHeard
  <2>6. [i \in 1 .. (IF T = {} THEN 0 ELSE 1) |-> InputFocus(s, on)] = <<InputFocus(s, on)>>
    BY <1>3
  <2>7. inbox' = inbox \o <<InputFocus(s, on)>>
    BY <1>1, <2>6
  <2>8. NoDone(<<InputFocus(s, on)>>)
    BY NoDoneOne DEF InputFocus
  <2>9. <<InputFocus(s, on)>> \in Seq(Events)
    BY EventTypes, OneEvent
  <2>10. ASSUME NEW y \in Mirrors(Known), Exact(y) PROVE Follows(y, <<InputFocus(s, on)>>)
    <3> DEFINE z == Mirror(y.seats, y.keyboards, y.surfaces, y.accepted,
                           IF on THEN y.focus \cup {s} ELSE y.focus \ {s})
    <3>1. s \in y.surfaces
      BY <2>2, <2>10 DEF Exact
    <3>2. z \in Mirrors(Known)
      BY MirrorOf DEF Mirror, Mirrors
    <3>3. z = After(y, InputFocus(s, on))
      BY <3>1, AfterFocus
    <3>4. Exact(z)'
      <4>1. /\ z.seats = y.seats /\ z.keyboards = y.keyboards /\ z.surfaces = y.surfaces
            /\ z.accepted = y.accepted
            /\ z.focus = IF on THEN y.focus \cup {s} ELSE y.focus \ {s}
        BY DEF Mirror
      <4>2. z.focus = {r \in list_surface : HasFocus(r)'}
        <5>1. y.focus = {r \in list_surface : HasFocus(r)}
          BY <2>10 DEF Exact
        <5>2. \A r \in list_surface : r \in Surfaces
          BY DEF KInv, KeyTypes
        <5> HIDE DEF z
        <5>3. CASE on
          BY <2>2, <2>4, <2>5, <4>1, <5>1, <5>2, <5>3
        <5>4. CASE ~on
          BY <2>2, <2>4, <2>5, <4>1, <5>1, <5>2, <5>4
        <5> QED BY <5>3, <5>4
      <4> HIDE DEF z
      <4> QED BY <1>1, <2>10, <4>1, <4>2 DEF Exact
    <3> HIDE DEF z
    <3> QED BY <1>1, <3>2, <3>3, <3>4, LeadsOne DEF Follows
  <2>11. SeatsKept'
    BY <1>1, FocusHeard DEF SeatsKept
  <2> QED BY <2>7, <2>8, <2>9, <2>10, <2>11 DEF Tells
<1> QED BY <1>2, <1>3

\* A surface that comes with the default seat, and one that goes.
LEMMA SurfaceTells ==
    ASSUME KInv, SeatsKept, Wired, Parting, NEW s \in Surfaces, surface_created(s)
    PROVE  SeatsKept' /\ \E evs : Tells(evs)
<1>0. PICK D : D = Defaults
  OBVIOUS
<1> DEFINE E == {InputAcceptance(s, t, TRUE) : t \in D}
           e == SurfaceEvent(s, TRUE)
<1>1. /\ s \notin list_surface /\ list_surface' = list_surface \cup {s}
      /\ accepted' = [accepted EXCEPT ![s] = D]
      /\ UNCHANGED <<seat_list, gone, keyboard, focus>> /\ Known' = Known
      /\ inbox' = inbox \o (<<e>> \o SetToSeq(E))
  BY <1>0 DEF surface_created, Sent, Known
<1>2. D \subseteq seat_list /\ IsFiniteSet(D)
  <2>1. Defaults = {} \/ Defaults = {DefaultSeat}
    BY DEF Defaults
  <2> QED BY <1>0, <2>1, FS_EmptySet, FS_Singleton DEF Defaults
<1>3. D \subseteq Known /\ D \subseteq Seats
  BY <1>2 DEF Known, KInv, KeyTypes
<1>4. SeatsKept'
  BY <1>1, <1>2, FocusKept DEF SeatsKept
<1>5. IsFiniteSet(E) /\ E = {Accepting(p[1], p[2]) : p \in {s} \X D}
  <2> DEFINE f == [t \in D |-> InputAcceptance(s, t, TRUE)]
  <2>1. E = {f[t] : t \in DOMAIN f} /\ IsFiniteSet(DOMAIN f)
    BY <1>2
  <2>2. IsFiniteSet(E)
    BY <2>1, ImageFinite
  <2>3. ASSUME NEW x \in E PROVE x \in {Accepting(p[1], p[2]) : p \in {s} \X D}
    <3>1. PICK t \in D : x = Accepting(s, t)
      BY DEF Accepting
    <3>2. <<s, t>> \in {s} \X D /\ <<s, t>>[1] = s /\ <<s, t>>[2] = t
      OBVIOUS
    <3> QED BY <3>1, <3>2
  <2>4. ASSUME NEW x \in {Accepting(p[1], p[2]) : p \in {s} \X D} PROVE x \in E
    <3>1. PICK p \in {s} \X D : x = Accepting(p[1], p[2])
      OBVIOUS
    <3>2. p[1] = s /\ p[2] \in D
      OBVIOUS
    <3> QED BY <3>1, <3>2 DEF Accepting
  <2> HIDE DEF E
  <2> QED BY <2>2, <2>3, <2>4
<1> HIDE DEF E
<1>6. NoDone(<<e>> \o SetToSeq(E)) /\ <<e>> \o SetToSeq(E) \in Seq(Events)
  <2>1. e \in Events
    BY EventTypes
  <2>2. NoDone(<<e>>)
    BY NoDoneOne DEF SurfaceEvent
  <2> HIDE DEF e
  <2>3. <<e>> \in Seq(Events)
    BY <2>1, OneEvent
  <2>4. E \subseteq Events
    BY <1>3, <1>5, OneAccepting
  <2>5. SetToSeq(E) \in Seq(Events)
    BY <1>5, <2>4, SeqOfSet
  <2>6. NoDone(SetToSeq(E))
    BY <1>5, NoDoneAccept
  <2> QED BY <2>2, <2>3, <2>5, <2>6, NoDoneOn, ConcatProperties
<1>7. ASSUME NEW y \in Mirrors(Known), Exact(y) PROVE Follows(y, <<e>> \o SetToSeq(E))
  <2> DEFINE x == Mirror(y.seats, y.keyboards, y.surfaces \cup {s}, [y.accepted EXCEPT ![s] = {}],
                         y.focus \ {s})
             z == Mirror(y.seats, y.keyboards, y.surfaces \cup {s},
                         Gain([y.accepted EXCEPT ![s] = {}], {s}, D), y.focus \ {s})
  <2>1. s \notin y.surfaces
    BY <1>1, <1>7 DEF Exact
  <2>2. x \in Mirrors(Known)
    BY MirrorOf DEF Mirror, Mirrors
  <2>3. z \in Mirrors(Known)
    BY <1>3, MirrorOf DEF Mirror, Mirrors, Gain
  <2>4. x = After(y, e)
    <3>1. After(y, SurfaceEvent(s, TRUE)) =
              Mirror(y.seats, y.keyboards, IF TRUE THEN y.surfaces \cup {s} ELSE y.surfaces \ {s},
                     [y.accepted EXCEPT ![s] = {}], y.focus \ {s})
      BY <2>1, AfterSurface
    <3> QED BY <3>1
  <2>5. /\ x.seats = y.seats /\ x.keyboards = y.keyboards /\ x.surfaces = y.surfaces \cup {s}
        /\ x.accepted = [y.accepted EXCEPT ![s] = {}] /\ x.focus = y.focus \ {s}
    BY DEF Mirror
  <2>6. Exact(z)'
    <3>1. y.accepted \in [Surfaces -> SUBSET Known] /\ accepted \in [Surfaces -> SUBSET seat_list]
      BY MirrorOf DEF SeatsKept
    <3>2. ASSUME NEW r \in list_surface'
          PROVE  accepted'[r] \subseteq z.accepted[r] /\ z.accepted[r] \subseteq accepted'[r] \cup gone
      <4>1. r \in Surfaces
        BY <1>1 DEF KInv, KeyTypes
      <4>2. z.accepted[r] = IF r = s THEN D ELSE y.accepted[r]
        BY <3>1, <4>1 DEF Mirror, Gain
      <4>3. accepted'[r] = IF r = s THEN D ELSE accepted[r]
        BY <1>1, <3>1, <4>1
      <4>4. r # s => accepted[r] \subseteq y.accepted[r] /\ y.accepted[r] \subseteq accepted[r] \cup gone
        BY <1>1, <1>7 DEF Exact
      <4> QED BY <4>2, <4>3, <4>4
    <3>3. /\ z.seats = y.seats /\ z.keyboards = y.keyboards /\ z.surfaces = y.surfaces \cup {s}
          /\ z.focus = y.focus \ {s}
      BY DEF Mirror
    <3>4. y.focus \ {s} = {r \in list_surface' : HasFocus(r)'}
      <4>1. y.focus = {r \in list_surface : HasFocus(r)}
        BY <1>7 DEF Exact
      <4>2. ~HasFocus(s)
        BY <1>1, NoFocus DEF HasFocus
      <4>3. \A r \in list_surface' : r \in Surfaces
        BY <1>1 DEF KInv, KeyTypes
      <4>4. \A r \in Surfaces : HasFocus(r)' <=> HasFocus(r)
        BY <1>1, FocusKept
      <4> QED BY <1>1, <4>1, <4>2, <4>3, <4>4
    <3> HIDE DEF z
    <3> QED BY <1>1, <1>7, <3>2, <3>3, <3>4 DEF Exact
  <2> HIDE DEF x
  <2>7. Leads(Known, x, SetToSeq(E), z)
    <3>1. {s} \in SUBSET x.surfaces /\ D \in SUBSET (Known \cap Seats)
      BY <1>3, <2>5
    <3>2. Leads(Known, x, SetToSeq(E),
                Mirror(x.seats, x.keyboards, x.surfaces, Gain(x.accepted, {s}, D), x.focus))
      BY <1>5, <2>2, <3>1, LeadsAccept
    <3> QED BY <2>5, <3>2
  <2>8. Leads(Known, y, <<e>>, x)
    BY <2>2, <2>4, LeadsOne
  <2>9. Leads(Known, y, <<e>> \o SetToSeq(E), z)
    <3>1. <<e>> \in Seq(Events) /\ SetToSeq(E) \in Seq(Events)
      <4>1. e \in Events
        BY EventTypes
      <4>2. E \subseteq Events
        BY <1>3, <1>5, OneAccepting
      <4> HIDE DEF e
      <4> QED BY <1>5, <4>1, <4>2, OneEvent, SeqOfSet
    <3> HIDE DEF z, e
    <3> QED BY <2>7, <2>8, <3>1, LeadsOn
  <2> HIDE DEF z, e
  <2> QED BY <1>1, <2>3, <2>6, <2>9 DEF Follows
<1> HIDE DEF e
<1> QED BY <1>1, <1>4, <1>6, <1>7 DEF Tells

LEMMA SurfaceGoneTells ==
    ASSUME KInv, SeatsKept, Wired, Parting, NEW s \in Surfaces, surface_destroyed(s)
    PROVE  SeatsKept' /\ \E evs : Tells(evs)
<1> DEFINE e == SurfaceEvent(s, FALSE)
<1>1. /\ s \in list_surface /\ list_surface' = list_surface \ {s}
      /\ accepted' = [accepted EXCEPT ![s] = {}] /\ focus' = [focus EXCEPT ![s] = {}]
      /\ UNCHANGED <<seat_list, gone, keyboard>> /\ Known' = Known
      /\ inbox' = inbox \o <<e>>
  BY DEF surface_destroyed, Sent, Known
<1>2. SeatsKept'
  BY <1>1, FocusHeard DEF SeatsKept
<1>3. NoDone(<<e>>) /\ <<e>> \in Seq(Events)
  <2>1. e \in Events
    BY EventTypes
  <2>2. NoDone(<<e>>)
    BY NoDoneOne DEF SurfaceEvent
  <2> HIDE DEF e
  <2> QED BY <2>1, <2>2, OneEvent
<1>4. ASSUME NEW y \in Mirrors(Known), Exact(y) PROVE Follows(y, <<e>>)
  <2> DEFINE z == Mirror(y.seats, y.keyboards, y.surfaces \ {s}, [y.accepted EXCEPT ![s] = {}],
                         y.focus \ {s})
  <2>1. s \in y.surfaces
    BY <1>1, <1>4 DEF Exact
  <2>2. z \in Mirrors(Known)
    BY MirrorOf DEF Mirror, Mirrors
  <2>3. z = After(y, e)
    <3>1. After(y, SurfaceEvent(s, FALSE)) =
              Mirror(y.seats, y.keyboards, IF FALSE THEN y.surfaces \cup {s} ELSE y.surfaces \ {s},
                     [y.accepted EXCEPT ![s] = {}], y.focus \ {s})
      BY <2>1, AfterSurface
    <3> QED BY <3>1
  <2>4. Exact(z)'
    <3>1. y.accepted \in [Surfaces -> SUBSET Known] /\ accepted \in [Surfaces -> SUBSET seat_list]
      BY MirrorOf DEF SeatsKept
    <3>2. ASSUME NEW r \in list_surface'
          PROVE  accepted'[r] \subseteq z.accepted[r] /\ z.accepted[r] \subseteq accepted'[r] \cup gone
      <4>1. r \in Surfaces /\ r \in list_surface /\ r # s
        BY <1>1 DEF KInv, KeyTypes
      <4>2. z.accepted[r] = y.accepted[r]
        BY <3>1, <4>1 DEF Mirror
      <4>3. accepted'[r] = accepted[r]
        BY <1>1, <3>1, <4>1
      <4> QED BY <1>4, <4>1, <4>2, <4>3 DEF Exact
    <3>3. /\ z.seats = y.seats /\ z.keyboards = y.keyboards /\ z.surfaces = y.surfaces \ {s}
          /\ z.focus = y.focus \ {s}
      BY DEF Mirror
    <3>4. y.focus \ {s} = {r \in list_surface' : HasFocus(r)'}
      <4>1. y.focus = {r \in list_surface : HasFocus(r)}
        BY <1>4 DEF Exact
      <4>2. \A r \in Surfaces : r # s => focus'[r] = focus[r]
        BY <1>1 DEF KInv, KeyTypes
      <4>3. \A r \in Surfaces : r # s => (HasFocus(r)' <=> HasFocus(r))
        BY <4>2, FocusHeard
      <4>4. list_surface \subseteq Surfaces
        BY DEF KInv, KeyTypes
      <4> QED BY <1>1, <4>1, <4>3, <4>4
    <3> HIDE DEF z
    <3> QED BY <1>1, <1>4, <3>2, <3>3, <3>4 DEF Exact
  <2> HIDE DEF z
  <2>5. Leads(Known, y, <<e>>, z)
    BY <2>2, <2>3, LeadsOne
  <2> HIDE DEF e
  <2> QED BY <1>1, <2>2, <2>4, <2>5 DEF Follows
<1> HIDE DEF e
<1> QED BY <1>1, <1>2, <1>3, <1>4 DEF Tells

\* A seat that comes, which every surface accepts if it is the default one.
LEMMA SeatTells ==
    ASSUME KInv, SeatsKept, Wired, Parting, NEW t \in Seats, handle_seat_create(t)
    PROVE  SeatsKept' /\ \E evs : Tells(evs)
<1>0. PICK S : S = {s \in list_surface : t = DefaultSeat}
  OBVIOUS
<1> DEFINE E == {InputAcceptance(s, t, TRUE) : s \in S}
           e == SeatCreated(t)
<1>1. /\ t \notin seat_list /\ seat_list' = seat_list \cup {t}
      /\ accepted' = [s \in Surfaces |-> IF s \in S THEN accepted[s] \cup {t} ELSE accepted[s]]
      /\ UNCHANGED <<list_surface, gone, keyboard, focus>> /\ Known' = Known \cup {t}
      /\ inbox' = inbox \o (<<e>> \o SetToSeq(E))
  BY <1>0 DEF handle_seat_create, Sent, Known
<1>2. S \subseteq list_surface /\ S \subseteq Surfaces /\ IsFiniteSet(S)
  <2>1. S \subseteq list_surface /\ S \subseteq Surfaces
    BY <1>0 DEF KInv, KeyTypes
  <2> QED BY <2>1, FS_Subset, IlmInputAssumption
<1>3. t \in Known' /\ {t} \subseteq Seats /\ Known \subseteq Known'
  BY <1>1
<1>4. SeatsKept'
  BY <1>1, FocusKept DEF SeatsKept
<1>5. IsFiniteSet(E) /\ E = {Accepting(p[1], p[2]) : p \in S \X {t}}
  <2> DEFINE f == [s \in S |-> InputAcceptance(s, t, TRUE)]
  <2>1. E = {f[s] : s \in DOMAIN f} /\ IsFiniteSet(DOMAIN f)
    BY <1>2
  <2>2. IsFiniteSet(E)
    BY <2>1, ImageFinite
  <2>3. ASSUME NEW x \in E PROVE x \in {Accepting(p[1], p[2]) : p \in S \X {t}}
    <3>1. PICK s \in S : x = Accepting(s, t)
      BY DEF Accepting
    <3>2. <<s, t>> \in S \X {t} /\ <<s, t>>[1] = s /\ <<s, t>>[2] = t
      OBVIOUS
    <3> QED BY <3>1, <3>2
  <2>4. ASSUME NEW x \in {Accepting(p[1], p[2]) : p \in S \X {t}} PROVE x \in E
    <3>1. PICK p \in S \X {t} : x = Accepting(p[1], p[2])
      OBVIOUS
    <3>2. p[1] \in S /\ p[2] = t
      OBVIOUS
    <3> QED BY <3>1, <3>2 DEF Accepting
  <2> HIDE DEF E
  <2> QED BY <2>2, <2>3, <2>4
<1> HIDE DEF E
<1>6. <<e>> \in Seq(Events) /\ SetToSeq(E) \in Seq(Events)
  <2>1. e \in Events
    BY EventTypes
  <2>2. E \subseteq Events
    BY <1>2, <1>5, OneAccepting
  <2> HIDE DEF e
  <2> QED BY <1>5, <2>1, <2>2, OneEvent, SeqOfSet
<1>7. NoDone(<<e>> \o SetToSeq(E)) /\ <<e>> \o SetToSeq(E) \in Seq(Events)
  <2>1. NoDone(<<e>>)
    BY NoDoneOne DEF SeatCreated
  <2> HIDE DEF e
  <2>2. NoDone(SetToSeq(E))
    BY <1>5, NoDoneAccept
  <2> QED BY <1>6, <2>1, <2>2, NoDoneOn, ConcatProperties
<1>8. ASSUME NEW y \in Mirrors(Known), Exact(y) PROVE Follows(y, <<e>> \o SetToSeq(E))
  <2>0. PICK K : K = Known'
    OBVIOUS
  <2>1. y \in Mirrors(K)
    BY <1>3, <2>0, LeadsMore
  <2> DEFINE x == Mirror(y.seats \cup {t}, y.keyboards \ {t}, y.surfaces, y.accepted, y.focus)
             z == Mirror(y.seats \cup {t}, y.keyboards \ {t}, y.surfaces,
                         Gain(y.accepted, S, {t}), y.focus)
  <2>2. x \in Mirrors(K)
    BY <1>3, <2>0, <2>1, MirrorOf DEF Mirror, Mirrors
  <2>3. z \in Mirrors(K)
    BY <1>3, <2>0, <2>1, MirrorOf DEF Mirror, Mirrors, Gain
  <2>4. x = After(y, e)
    BY <2>1, AfterSeat
  <2>5. /\ x.seats = y.seats \cup {t} /\ x.keyboards = y.keyboards \ {t}
        /\ x.surfaces = y.surfaces /\ x.accepted = y.accepted /\ x.focus = y.focus
    BY DEF Mirror
  <2>6. Exact(z)'
    <3>1. y.accepted \in [Surfaces -> SUBSET K] /\ accepted \in [Surfaces -> SUBSET seat_list]
      BY <2>1, MirrorOf DEF SeatsKept
    <3>2. ASSUME NEW r \in list_surface
          PROVE  accepted'[r] \subseteq z.accepted[r] /\ z.accepted[r] \subseteq accepted'[r] \cup gone
      <4>1. r \in Surfaces
        BY DEF KInv, KeyTypes
      <4>2. z.accepted[r] = IF r \in S THEN y.accepted[r] \cup {t} ELSE y.accepted[r]
        BY <3>1, <4>1 DEF Mirror, Gain
      <4>3. accepted'[r] = IF r \in S THEN accepted[r] \cup {t} ELSE accepted[r]
        BY <1>1, <4>1
      <4>4. accepted[r] \subseteq y.accepted[r] /\ y.accepted[r] \subseteq accepted[r] \cup gone
        BY <1>8 DEF Exact
      <4> QED BY <4>2, <4>3, <4>4
    <3>3. /\ z.seats = y.seats \cup {t} /\ z.keyboards = y.keyboards \ {t}
          /\ z.surfaces = y.surfaces /\ z.focus = y.focus
      BY DEF Mirror
    <3>4. y.keyboards \ {t} = keyboard
      BY <1>1, <1>8 DEF Exact, KInv, KeyTypes
    <3>5. z.focus = {r \in list_surface : HasFocus(r)'}
      <4>1. \A r \in list_surface : HasFocus(r)' <=> HasFocus(r)
        BY <1>1, FocusKept DEF KInv, KeyTypes
      <4> QED BY <1>8, <3>3, <4>1 DEF Exact
    <3> HIDE DEF z
    <3> QED BY <1>1, <1>8, <3>2, <3>3, <3>4, <3>5 DEF Exact
  <2> HIDE DEF x
  <2>7. Leads(K, x, SetToSeq(E), z)
    <3>1. S \in SUBSET x.surfaces /\ {t} \in SUBSET (K \cap Seats)
      BY <1>2, <1>3, <1>8, <2>0, <2>5 DEF Exact
    <3>2. Leads(K, x, SetToSeq(E),
                Mirror(x.seats, x.keyboards, x.surfaces, Gain(x.accepted, S, {t}), x.focus))
      BY <1>5, <2>2, <3>1, LeadsAccept
    <3> QED BY <2>5, <3>2
  <2>8. Leads(K, y, <<e>>, x)
    BY <2>1, <2>2, <2>4, LeadsOne
  <2> HIDE DEF z, e
  <2>9. Leads(K, y, <<e>> \o SetToSeq(E), z)
    BY <1>6, <2>7, <2>8, LeadsOn
  <2> QED BY <2>0, <2>3, <2>6, <2>9 DEF Follows
<1> HIDE DEF e
<1> QED BY <1>1, <1>4, <1>7, <1>8 DEF Tells

\* The keyboard of a seat comes, or goes and leaves every surface.
LEMMA CapsTells ==
    ASSUME KInv, SeatsKept, Wired, Parting, NEW t \in Seats, handle_seat_updated_caps(t)
    PROVE  SeatsKept' /\ \E evs : Tells(evs)
<1>1. /\ t \in seat_list /\ t \in KeyboardSeats
      /\ UNCHANGED <<list_surface, seat_list, gone, accepted>> /\ Known' = Known
  BY DEF handle_seat_updated_caps, Known
<1>2. SeatsKept'
  <2>1. keyboard' \subseteq KeyboardSeats
    BY <1>1 DEF handle_seat_updated_caps, SeatsKept
  <2> QED BY <1>1, <2>1, FocusHeard DEF SeatsKept
<1>3. CASE t \notin keyboard
  <2> DEFINE e == SeatCapabilities(t, TRUE)
  <2>1. keyboard' = keyboard \cup {t} /\ inbox' = inbox \o <<e>> /\ UNCHANGED focus
    BY <1>3 DEF handle_seat_updated_caps, Sent
  <2>2. NoDone(<<e>>) /\ <<e>> \in Seq(Events)
    <3>1. e \in Events
      BY EventTypes
    <3>2. NoDone(<<e>>)
      BY NoDoneOne DEF SeatCapabilities
    <3> HIDE DEF e
    <3> QED BY <3>1, <3>2, OneEvent
  <2>3. ASSUME NEW y \in Mirrors(Known), Exact(y) PROVE Follows(y, <<e>>)
    <3> DEFINE z == Mirror(y.seats, y.keyboards \cup {t}, y.surfaces, y.accepted, y.focus)
    <3>1. t \in y.seats
      BY <1>1, <2>3 DEF Exact
    <3>2. z \in Mirrors(Known)
      BY <1>1, MirrorOf DEF Mirror, Mirrors, Known
    <3>3. z = After(y, e)
      <4>1. After(y, SeatCapabilities(t, TRUE)) =
                Mirror(y.seats, IF TRUE THEN y.keyboards \cup {t} ELSE y.keyboards \ {t}, y.surfaces,
                       y.accepted, y.focus)
        BY <3>1, AfterCapabilities
      <4> QED BY <4>1
    <3>4. Exact(z)'
      <4>1. /\ z.seats = y.seats /\ z.keyboards = y.keyboards \cup {t}
            /\ z.surfaces = y.surfaces /\ z.accepted = y.accepted /\ z.focus = y.focus
        BY DEF Mirror
      <4>2. z.focus = {r \in list_surface : HasFocus(r)'}
        <5>1. \A r \in list_surface : HasFocus(r)' <=> HasFocus(r)
          BY <2>1, FocusKept DEF KInv, KeyTypes
        <5> QED BY <2>3, <4>1, <5>1 DEF Exact
      <4> HIDE DEF z
      <4> QED BY <1>1, <2>1, <2>3, <4>1, <4>2 DEF Exact
    <3> HIDE DEF z
    <3>5. Leads(Known, y, <<e>>, z)
      BY <3>2, <3>3, LeadsOne
    <3> HIDE DEF e
    <3> QED BY <1>1, <3>2, <3>4, <3>5 DEF Follows
  <2> HIDE DEF e
  <2> QED BY <1>2, <2>1, <2>2, <2>3 DEF Tells
<1>4. CASE t \in keyboard
  <2>0. PICK F : F = Focused(t)
    OBVIOUS
  <2> DEFINE e == SeatCapabilities(t, FALSE)
             p == FocusEvents(F, FALSE)
  <2>1. /\ keyboard' = keyboard \ {t} /\ inbox' = inbox \o (p \o <<e>>)
        /\ focus' = [s \in Surfaces |-> IF s \in F THEN focus[s] \ {t} ELSE focus[s]]
    BY <1>4, <2>0 DEF handle_seat_updated_caps, Leave, Sent
  <2>2. F \subseteq list_surface /\ F \subseteq Surfaces /\ IsFiniteSet(F)
    <3>1. F \subseteq list_surface /\ F \subseteq Surfaces
      BY <2>0 DEF Focused, KInv, KeyTypes
    <3> QED BY <3>1, FS_Subset, IlmInputAssumption
  <2>3. \A s \in Surfaces : HasFocus(s)' <=> s \notin F /\ HasFocus(s)
    <3>1. \A s \in Surfaces : s \in F => t \in focus[s] /\ focus'[s] = focus[s] \ {t}
      BY <2>0, <2>1 DEF Focused
    <3>2. \A s \in Surfaces : s \notin F => focus'[s] = focus[s]
      BY <2>1
    <3> QED BY <3>1, <3>2, FocusHeard
  <2>4. p \in Seq(Events) /\ NoDone(p) /\ <<e>> \in Seq(Events) /\ NoDone(<<e>>)
    <3>1. e \in Events
      BY EventTypes
    <3>2. NoDone(<<e>>)
      BY NoDoneOne DEF SeatCapabilities
    <3>3. NoDone(p)
      BY <2>2, NoDoneFocus
    <3>4. PICK x : x = Mirror({}, {}, F, [s \in Surfaces |-> {}], {})
      OBVIOUS
    <3>5. x \in Mirrors({}) /\ x.surfaces = F
      BY <2>2, <3>4 DEF Mirror, Mirrors
    <3>6. F \in SUBSET x.surfaces
      BY <3>5
    <3>7. p \in Seq(Events)
      BY <2>2, <3>5, <3>6, LeadsFocus
    <3> HIDE DEF e, p
    <3> QED BY <3>1, <3>2, <3>3, <3>7, OneEvent
  <2>5. ASSUME NEW y \in Mirrors(Known), Exact(y) PROVE Follows(y, p \o <<e>>)
    <3> DEFINE x == Mirror(y.seats, y.keyboards, y.surfaces, y.accepted, y.focus \ F)
               z == Mirror(y.seats, y.keyboards \ {t}, y.surfaces, y.accepted, y.focus \ F)
    <3>1. t \in y.seats /\ F \in SUBSET y.surfaces
      BY <1>1, <2>2, <2>5 DEF Exact
    <3>2. x \in Mirrors(Known) /\ z \in Mirrors(Known)
      BY MirrorOf DEF Mirror, Mirrors
    <3>3. Leads(Known, y, p, x)
      BY <2>2, <3>1, LeadsFocus
    <3>4. Leads(Known, x, <<e>>, z)
      <4>1. /\ x.seats = y.seats /\ x.keyboards = y.keyboards /\ x.surfaces = y.surfaces
            /\ x.accepted = y.accepted /\ x.focus = y.focus \ F
        BY DEF Mirror
      <4> HIDE DEF x
      <4>2. t \in x.seats
        BY <3>1, <4>1
      <4>3. After(x, SeatCapabilities(t, FALSE)) =
                Mirror(x.seats, IF FALSE THEN x.keyboards \cup {t} ELSE x.keyboards \ {t}, x.surfaces,
                       x.accepted, x.focus)
        BY <3>2, <4>2, AfterCapabilities
      <4>4. z = After(x, e)
        BY <4>1, <4>3
      <4> HIDE DEF z, e
      <4> QED BY <3>2, <4>4, LeadsOne
    <3>5. Exact(z)'
      <4>1. /\ z.seats = y.seats /\ z.keyboards = y.keyboards \ {t}
            /\ z.surfaces = y.surfaces /\ z.accepted = y.accepted /\ z.focus = y.focus \ F
        BY DEF Mirror
      <4> HIDE DEF z
      <4>2. z.focus = {s \in list_surface : HasFocus(s)'}
        <5>1. \A s \in list_surface : HasFocus(s)' <=> s \notin F /\ HasFocus(s)
          BY <2>3 DEF KInv, KeyTypes
        <5> QED BY <2>5, <4>1, <5>1 DEF Exact
      <4> QED BY <1>1, <2>1, <2>5, <4>1, <4>2 DEF Exact
    <3> HIDE DEF x, z, e, p
    <3>6. Leads(Known, y, p \o <<e>>, z)
      BY <2>4, <3>3, <3>4, LeadsOn
    <3> QED BY <1>1, <3>2, <3>5, <3>6 DEF Follows
  <2> HIDE DEF e, p
  <2>6. p \o <<e>> \in Seq(Events) /\ NoDone(p \o <<e>>)
    BY <2>4, NoDoneOn, ConcatProperties
  <2> QED BY <1>2, <2>1, <2>5, <2>6 DEF Tells
<1> QED BY <1>3, <1>4

\* A seat that goes: no surface is told.
LEMMA SeatGoneTells ==
    ASSUME KInv, SeatsKept, Wired, Parting, NEW t \in Seats, destroy_seat(t)
    PROVE  SeatsKept' /\ \E evs : Tells(evs)
<1> DEFINE e == SeatDestroyed(t)
<1>1. /\ t \in seat_list /\ t \notin keyboard /\ seat_list' = seat_list \ {t}
      /\ gone' = gone \cup {t}
      /\ accepted' = [s \in Surfaces |-> accepted[s] \ {t}]
      /\ UNCHANGED <<list_surface, keyboard, focus>>
      /\ inbox' = inbox \o <<e>>
  BY DEF destroy_seat, Sent
<1>2. Known' = Known
  BY <1>1 DEF Known
<1>3. SeatsKept'
  BY <1>1, FocusKept DEF SeatsKept
<1>4. NoDone(<<e>>) /\ <<e>> \in Seq(Events)
  <2>1. e \in Events
    BY EventTypes
  <2>2. NoDone(<<e>>)
    BY NoDoneOne DEF SeatDestroyed
  <2> HIDE DEF e
  <2> QED BY <2>1, <2>2, OneEvent
<1>5. ASSUME NEW y \in Mirrors(Known), Exact(y) PROVE Follows(y, <<e>>)
  <2> DEFINE z == Mirror(y.seats \ {t}, y.keyboards \ {t}, y.surfaces, y.accepted, y.focus)
  <2>1. z \in Mirrors(Known)
    BY MirrorOf DEF Mirror, Mirrors
  <2>2. z = After(y, e)
    BY AfterSeat
  <2>3. Exact(z)'
    <3>1. /\ z.seats = y.seats \ {t} /\ z.keyboards = y.keyboards \ {t}
          /\ z.surfaces = y.surfaces /\ z.accepted = y.accepted /\ z.focus = y.focus
      BY DEF Mirror
    <3>2. y.keyboards \ {t} = keyboard
      BY <1>1, <1>5 DEF Exact
    <3>3. ASSUME NEW r \in list_surface
          PROVE  /\ accepted'[r] \subseteq z.accepted[r]
                 /\ z.accepted[r] \subseteq accepted'[r] \cup gone'
      <4>1. accepted'[r] = accepted[r] \ {t}
        BY <1>1 DEF KInv, KeyTypes
      <4> QED BY <1>1, <1>5, <3>1, <4>1 DEF Exact
    <3>4. z.focus = {r \in list_surface : HasFocus(r)'}
      <4>1. \A r \in list_surface : HasFocus(r)' <=> HasFocus(r)
        BY <1>1, FocusKept DEF KInv, KeyTypes
      <4> QED BY <1>5, <3>1, <4>1 DEF Exact
    <3> HIDE DEF z
    <3> QED BY <1>1, <1>5, <3>1, <3>2, <3>3, <3>4 DEF Exact
  <2> HIDE DEF z
  <2>4. Leads(Known, y, <<e>>, z)
    BY <2>1, <2>2, LeadsOne
  <2> HIDE DEF e
  <2> QED BY <1>2, <2>1, <2>3, <2>4 DEF Follows
<1> HIDE DEF e
<1> QED BY <1>1, <1>3, <1>4, <1>5 DEF Tells

-----------------------------------------------------------------------------
(* A call waits for its sync.                                              *)

LEMMA TailFacts ==
    ASSUME NEW R, NEW w \in Seq(R), w # <<>>
    PROVE  /\ Tail(w) \in Seq(R) /\ Head(w) \in R /\ Head(w) = w[1]
           /\ Len(w) \in Nat \ {0} /\ Len(Tail(w)) = Len(w) - 1
           /\ \A i \in 1 .. Len(Tail(w)) : Tail(w)[i] = w[i + 1] /\ i + 1 \in 1 .. Len(w)
           /\ \A j \in 2 .. Len(w) : Tail(w)[j - 1] = w[j] /\ j - 1 \in 1 .. Len(Tail(w))
           /\ 1 \in 1 .. Len(w)
<1>1. /\ Tail(w) \in Seq(R) /\ Len(w) \in Nat \ {0} /\ Len(Tail(w)) = Len(w) - 1
      /\ Head(w) = w[1] /\ \A i \in 1 .. Len(w) - 1 : Tail(w)[i] = w[i + 1]
  BY HeadTailProperties
<1>2. ASSUME NEW j \in 2 .. Len(w) PROVE Tail(w)[j - 1] = w[j] /\ j - 1 \in 1 .. Len(Tail(w))
  <2>1. j - 1 \in 1 .. Len(w) - 1 /\ j - 1 + 1 = j
    BY <1>1
  <2> QED BY <1>1, <2>1
<1> QED BY <1>1, <1>2

LEMMA CallKinds == \A c \in Calls : c # NoCall /\ c.synced \in BOOLEAN
  BY DEF Calls, NoCall

LEMMA SyncedMore ==
    ASSUME NEW c, NEW w, NEW b \in Seq(Events), NEW evs \in Seq(Events), NoDone(evs),
           Synced(c, w, b)
    PROVE  Synced(c, w, b \o evs)
<1>1. NoDone(b) => NoDone(b \o evs)
  BY NoDoneOn
<1>2. ASSUME OneDone(b) PROVE OneDone(b \o evs)
  <2>1. Len(b) \in Nat /\ Len(evs) \in Nat
    OBVIOUS
  <2>2. /\ Len(b \o evs) = Len(b) + Len(evs)
        /\ \A i \in 1 .. Len(b) + Len(evs) :
              (b \o evs)[i] = IF i <= Len(b) THEN b[i] ELSE evs[i - Len(b)]
    BY ConcatProperties
  <2>3. PICK i \in 1 .. Len(b) : b[i].ev = "done" /\ \A j \in 1 .. Len(b) : b[j].ev = "done" => j = i
    BY <1>2 DEF OneDone
  <2>4. i \in 1 .. Len(b \o evs) /\ (b \o evs)[i] = b[i]
    BY <2>1, <2>2
  <2>5. ASSUME NEW j \in 1 .. Len(b \o evs), (b \o evs)[j].ev = "done" PROVE j = i
    <3>1. CASE j <= Len(b)
      BY <2>1, <2>2, <2>3, <2>5, <3>1
    <3>2. CASE ~(j <= Len(b))
      <4>1. j - Len(b) \in 1 .. Len(evs) /\ (b \o evs)[j] = evs[j - Len(b)]
        BY <2>1, <2>2, <3>2
      <4> QED BY <2>5, <4>1 DEF NoDone
    <3> QED BY <3>1, <3>2
  <2> QED BY <2>3, <2>4, <2>5 DEF OneDone
<1> QED BY <1>1, <1>2 DEF Synced

\* The compositor answers the sync, or handles another request.
LEMMA SyncedAnswered ==
    ASSUME NEW c, NEW w \in Seq(Requests), w # <<>>, NEW b \in Seq(Events), NEW q, Head(w).op = "sync",
           Synced(c, w, b)
    PROVE  LET d == b \o <<[ev |-> "done"]>> IN
               /\ d \in Seq(Events)
               /\ Synced(c, Tail(w), d) /\ Quiet(q, c, Tail(w), d)
<1> DEFINE e == [ev |-> "done"]
<1>1. e \in Events /\ e.ev = "done"
  BY DEF Events
<1> HIDE DEF e
<1>2. PICK d : d = b \o <<e>>
  OBVIOUS
<1>3. /\ d \in Seq(Events) /\ Len(b) \in Nat /\ Len(d) = Len(b) + 1
      /\ d[Len(d)] = e /\ \A i \in 1 .. Len(b) : d[i] = b[i]
  <2>1. d = Append(b, e)
    BY <1>1, <1>2
  <2> QED BY <1>1, <2>1, AppendProperties
<1>4. w[1].op = "sync" /\ 1 \in 1 .. Len(w)
  BY TailFacts
<1>5. c # NoCall /\ ~c.synced
  BY <1>4 DEF Synced, NoSync
<1>6. SyncLast(w) /\ NoDone(b)
  BY <1>5 DEF Synced
<1>7. Tail(w) = <<>>
  <2>1. Len(w) \in Nat \ {0} /\ Tail(w) \in Seq(Requests) /\ Len(Tail(w)) = Len(w) - 1
    BY TailFacts
  <2>2. Len(w) = 1
    BY <1>4, <1>6, <2>1 DEF SyncLast
  <2>3. PICK v : v = Tail(w)
    OBVIOUS
  <2>4. v \in Seq(Requests) /\ Len(v) = 0
    BY <2>1, <2>2, <2>3
  <2>5. v = <<>>
    BY ONLY <2>4, EmptySeq
  <2> QED BY <2>3, <2>5
<1>8. OneDone(d)
  <2>1. Len(d) \in 1 .. Len(d) /\ d[Len(d)].ev = "done"
    BY <1>1, <1>3
  <2>2. ASSUME NEW j \in 1 .. Len(d), d[j].ev = "done" PROVE j = Len(d)
    <3>1. j \in 1 .. Len(b) \/ j = Len(d)
      BY <1>3
    <3> QED BY <1>3, <1>6, <2>2, <3>1 DEF NoDone
  <2> QED BY <2>1, <2>2 DEF OneDone
<1>9. Synced(c, Tail(w), d)
  BY <1>5, <1>7, <1>8 DEF Synced
<1>10. Quiet(q, c, Tail(w), d)
  BY <1>1, <1>3, <1>5, <1>7 DEF Quiet
<1> QED BY <1>2, <1>3, <1>9, <1>10 DEF e

LEMMA SyncedHandled ==
    ASSUME NEW c, NEW w \in Seq(Requests), w # <<>>, NEW b, Head(w).op # "sync", Synced(c, w, b)
    PROVE  Synced(c, Tail(w), b)
<1>1. NoSync(w) => NoSync(Tail(w))
  BY TailFacts DEF NoSync
<1>2. ASSUME SyncLast(w) PROVE SyncLast(Tail(w))
  <2>1. Len(w) # 1
    BY <1>2, TailFacts DEF SyncLast
  <2>2. Len(Tail(w)) > 0 /\ Tail(w)[Len(Tail(w))] = w[Len(w)]
    <3>1. Len(w) \in Nat \ {0} /\ Len(Tail(w)) = Len(w) - 1
      BY TailFacts
    <3>2. Len(w) \in 2 .. Len(w)
      BY <2>1, <3>1
    <3> QED BY <3>1, <3>2, TailFacts
  <2>3. ASSUME NEW i \in 1 .. Len(Tail(w)), i < Len(Tail(w)) PROVE Tail(w)[i].op # "sync"
    <3>1. i + 1 \in 1 .. Len(w) /\ i + 1 < Len(w) /\ Tail(w)[i] = w[i + 1]
      BY <2>3, TailFacts
    <3> QED BY <1>2, <3>1 DEF SyncLast
  <2> QED BY <1>2, <2>2, <2>3 DEF SyncLast
<1> QED BY <1>1, <1>2 DEF Synced

\* The library is given the answer, or another event.
LEMMA SyncedDone ==
    ASSUME NEW c \in Calls \cup {NoCall}, NEW w, NEW b \in Seq(Events), b # <<>>, NEW q, Head(b).ev = "done",
           Synced(c, w, b), Quiet(q, c, w, b)
    PROVE  LET d == [c EXCEPT !.synced = TRUE] IN
               /\ c \in Calls /\ d \in Calls /\ d.synced
               /\ Synced(d, w, Tail(b)) /\ Quiet(q, d, w, Tail(b))
<1>1. b[1].ev = "done" /\ 1 \in 1 .. Len(b)
  BY TailFacts
<1>2. c # NoCall /\ ~c.synced /\ w = <<>> /\ OneDone(b)
  BY <1>1 DEF Synced, NoDone
<1>3. PICK d : d = [c EXCEPT !.synced = TRUE]
  OBVIOUS
<1>4. c \in Calls /\ d \in Calls /\ d.synced
  BY <1>2, <1>3 DEF Calls
<1>5. d # NoCall
  BY <1>4, CallKinds
<1>6. \A j \in 1 .. Len(b) : b[j].ev = "done" => j = 1
  BY <1>1, <1>2 DEF OneDone
<1>7. NoDone(Tail(b))
  <2> SUFFICES ASSUME NEW i \in 1 .. Len(Tail(b)) PROVE Tail(b)[i].ev # "done"
    BY DEF NoDone
  <2>1. i + 1 \in 1 .. Len(b) /\ Tail(b)[i] = b[i + 1] /\ i + 1 # 1
    BY TailFacts
  <2> QED BY <1>6, <2>1
<1>8. q => Tail(b) = <<>>
  <2>1. q => b[Len(b)].ev = "done" /\ Len(b) \in 1 .. Len(b)
    BY <1>2, TailFacts DEF Quiet
  <2>2. q => Len(b) = 1
    BY <1>6, <2>1
  <2>3. Tail(b) \in Seq(Events) /\ Len(Tail(b)) = Len(b) - 1
    BY TailFacts
  <2> QED BY <2>2, <2>3
<1>9. Synced(d, w, Tail(b))
  BY <1>2, <1>4, <1>5, <1>7 DEF Synced
<1>10. Quiet(q, d, w, Tail(b))
  BY <1>2, <1>4, <1>5, <1>8 DEF Quiet
<1> QED BY <1>3, <1>4, <1>9, <1>10

LEMMA SyncedDispatched ==
    ASSUME NEW c, NEW w, NEW b \in Seq(Events), b # <<>>, NEW q, Head(b).ev # "done",
           Synced(c, w, b), Quiet(q, c, w, b)
    PROVE  Synced(c, w, Tail(b)) /\ Quiet(q, c, w, Tail(b))
<1>1. NoDone(b) => NoDone(Tail(b))
  BY TailFacts DEF NoDone
<1>2. ASSUME OneDone(b) PROVE OneDone(Tail(b))
  <2>1. PICK i \in 1 .. Len(b) : b[i].ev = "done" /\ \A j \in 1 .. Len(b) : b[j].ev = "done" => j = i
    BY <1>2 DEF OneDone
  <2>2. i # 1
    BY <2>1, TailFacts
  <2>3. i \in 2 .. Len(b)
    BY <2>2, TailFacts
  <2>4. i - 1 \in 1 .. Len(Tail(b)) /\ Tail(b)[i - 1] = b[i]
    BY <2>3, TailFacts
  <2>5. ASSUME NEW j \in 1 .. Len(Tail(b)), Tail(b)[j].ev = "done" PROVE j = i - 1
    <3>1. j + 1 \in 1 .. Len(b) /\ Tail(b)[j] = b[j + 1]
      BY TailFacts
    <3>2. j + 1 = i
      BY <2>1, <2>5, <3>1
    <3> QED BY <3>2
  <2> QED BY <2>1, <2>4, <2>5 DEF OneDone
<1>3. Synced(c, w, Tail(b))
  BY <1>1, <1>2 DEF Synced
<1>4. ASSUME q PROVE Quiet(q, c, w, Tail(b))
  <2>1. /\ c # NoCall /\ w = <<>> /\ ~c.synced /\ b[Len(b)].ev = "done"
    BY <1>4 DEF Quiet
  <2>2. Len(b) # 1
    BY <2>1, TailFacts
  <2>3. Len(Tail(b)) > 0 /\ Len(b) \in 2 .. Len(b) /\ Len(Tail(b)) = Len(b) - 1
    <3>1. Len(b) \in Nat \ {0} /\ Len(Tail(b)) = Len(b) - 1
      BY TailFacts
    <3> QED BY <2>2, <3>1
  <2>4. Tail(b)[Len(Tail(b))] = b[Len(b)]
    BY <2>3, TailFacts
  <2> QED BY <2>1, <2>3, <2>4 DEF Quiet
<1>5. ASSUME ~q PROVE Quiet(q, c, w, Tail(b))
  BY <1>5 DEF Quiet
<1> QED BY <1>3, <1>4, <1>5

\* A call begins with a sync, and returns with requests.
LEMMA SyncedBegin ==
    ASSUME NEW c \in Calls, ~c.synced, NEW w \in Seq(Requests), NEW b, Synced(NoCall, w, b)
    PROVE  LET v == Append(w, [op |-> "sync"]) IN v \in Seq(Requests) /\ Synced(c, v, b)
<1>1. NoSync(w) /\ NoDone(b) /\ c # NoCall
  BY CallKinds DEF Synced
<1> DEFINE r == [op |-> "sync"]
<1>2. r \in Requests /\ r.op = "sync"
  BY DEF Requests
<1> HIDE DEF r
<1>3. PICK v : v = Append(w, r)
  OBVIOUS
<1>4. /\ v \in Seq(Requests) /\ Len(w) \in Nat /\ Len(v) = Len(w) + 1 /\ v[Len(v)] = r
      /\ \A i \in 1 .. Len(w) : v[i] = w[i]
  BY <1>2, <1>3, AppendProperties
<1>5. SyncLast(v)
  <2>1. ASSUME NEW i \in 1 .. Len(v), i < Len(v) PROVE v[i].op # "sync"
    <3>1. i \in 1 .. Len(w)
      BY <1>4, <2>1
    <3> QED BY <1>1, <1>4, <3>1 DEF NoSync
  <2> QED BY <1>2, <1>4, <2>1 DEF SyncLast
<1>6. Synced(c, v, b)
  BY <1>1, <1>5 DEF Synced
<1> QED BY <1>3, <1>4, <1>6 DEF r

LEMMA SyncedReturn ==
    ASSUME NEW c \in Calls, c.synced, NEW w, NEW b, Synced(c, w, b), NEW reqs, NoSync(reqs)
    PROVE  w = <<>> /\ Synced(NoCall, reqs, b)
<1>1. w = <<>> /\ NoDone(b)
  BY CallKinds DEF Synced
<1> QED BY <1>1 DEF Synced

-----------------------------------------------------------------------------
(* The library hears of everything.                                        *)

\* The library: its connection, its calls and its mirror.
Heard == Wired /\ Synced(call, wire, inbox) /\ Quiet(quiet, call, wire, inbox) /\ Informed

LEMMA TellsInforms ==
    ASSUME Heard, NEW evs, Tells(evs), Known \subseteq Known', UNCHANGED mirror
    PROVE  /\ inbox' \in Seq(Events) /\ Informed'
           /\ \A c, w : Synced(c, w, inbox) => Synced(c, w, inbox')
<1>1. inbox \in Seq(Events) /\ evs \in Seq(Events) /\ NoDone(evs) /\ inbox' = inbox \o evs
  BY DEF Heard, Wired, Tells
<1>2. inbox' \in Seq(Events)
  BY <1>1, ConcatProperties
<1>3. \A c, w : Synced(c, w, inbox) => Synced(c, w, inbox')
  BY <1>1, SyncedMore
<1>4. PICK y \in Mirrors(Known) : Leads(Known, mirror, inbox, y) /\ Exact(y)
  BY DEF Heard, Informed
<1>5. PICK z \in Mirrors(Known') : Leads(Known', y, evs, z) /\ Exact(z)'
  BY <1>4 DEF Tells, Follows
<1>6. Leads(Known', mirror, inbox, y)
  BY <1>4, LeadsMore
<1>7. Leads(Known', mirror, inbox', z)
  BY <1>1, <1>5, <1>6, LeadsOn
<1>8. mirror' = mirror
  OBVIOUS
<1>9. Informed'
  BY <1>5, <1>7, <1>8 DEF Informed
<1> QED BY <1>2, <1>3, <1>9

LEMMA HeardWorld ==
    ASSUME KInv, SeatsKept, Heard, World, Parting
    PROVE  SeatsKept' /\ Heard'
<1>1. Wired
  BY DEF Heard
<1>2. /\ UNCHANGED <<wire, mirror, call>> /\ quiet' = FALSE
      /\ Known \subseteq Known' /\ SeatsKept' /\ \E evs : Tells(evs)
  <2>1. ASSUME NEW t \in Seats, handle_seat_create(t)
        PROVE  UNCHANGED <<wire, mirror, call>> /\ Known \subseteq Known' /\ SeatsKept'
               /\ \E evs : Tells(evs)
    BY <1>1, <2>1, SeatTells DEF handle_seat_create, Known
  <2>2. ASSUME NEW t \in Seats, destroy_seat(t)
        PROVE  UNCHANGED <<wire, mirror, call>> /\ Known \subseteq Known' /\ SeatsKept'
               /\ \E evs : Tells(evs)
    BY <1>1, <2>2, SeatGoneTells DEF destroy_seat, Known
  <2>3. ASSUME NEW t \in Seats, handle_seat_updated_caps(t)
        PROVE  UNCHANGED <<wire, mirror, call>> /\ Known \subseteq Known' /\ SeatsKept'
               /\ \E evs : Tells(evs)
    BY <1>1, <2>3, CapsTells DEF handle_seat_updated_caps, Known
  <2>4. ASSUME NEW s \in Surfaces, surface_created(s)
        PROVE  UNCHANGED <<wire, mirror, call>> /\ Known \subseteq Known' /\ SeatsKept'
               /\ \E evs : Tells(evs)
    BY <1>1, <2>4, SurfaceTells DEF surface_created, Known
  <2>5. ASSUME NEW s \in Surfaces, surface_destroyed(s)
        PROVE  UNCHANGED <<wire, mirror, call>> /\ Known \subseteq Known' /\ SeatsKept'
               /\ \E evs : Tells(evs)
    BY <1>1, <2>5, SurfaceGoneTells DEF surface_destroyed, Known
  <2>6. ASSUME NEW s \in Surfaces, NEW t \in Seats, NEW on \in BOOLEAN, others_set_acceptance(s, t, on)
        PROVE  UNCHANGED <<wire, mirror, call>> /\ Known \subseteq Known' /\ SeatsKept'
               /\ \E evs : Tells(evs)
    BY <1>1, <2>6, AcceptanceTells DEF others_set_acceptance, setup_input_acceptance, Known
  <2>7. ASSUME NEW s \in Surfaces, NEW on \in BOOLEAN, others_set_focus(s, on)
        PROVE  UNCHANGED <<wire, mirror, call>> /\ Known \subseteq Known' /\ SeatsKept'
               /\ \E evs : Tells(evs)
    <3>1. setup_input_focus(s, on) /\ UNCHANGED <<wire, mirror, call>>
      BY <2>7 DEF others_set_focus
    <3>2. Known' = Known
      BY <3>1 DEF setup_input_focus, Known
    <3> QED BY <1>1, <3>1, <3>2, FocusTells
  <2>8. quiet' = FALSE
    BY DEF World
  <2> QED BY <2>1, <2>2, <2>3, <2>4, <2>5, <2>6, <2>7, <2>8 DEF World
<1>3. /\ inbox' \in Seq(Events) /\ Informed'
      /\ \A c, w : Synced(c, w, inbox) => Synced(c, w, inbox')
  BY <1>2, TellsInforms
<1>4. Wired'
  BY <1>1, <1>2, <1>3 DEF Wired
<1>5. Synced(call, wire, inbox)' /\ Quiet(quiet, call, wire, inbox)'
  <2>1. Synced(call', wire', inbox')
    BY <1>2, <1>3 DEF Heard
  <2>2. Quiet(quiet', call', wire', inbox')
    BY <1>2 DEF Quiet
  <2> QED BY <2>1, <2>2
<1> QED BY <1>2, <1>3, <1>4, <1>5 DEF Heard

LEMMA RequestKinds ==
    ASSUME NEW r \in Requests
    PROVE  /\ r.op \in {"sync", "acceptance", "focus"}
           /\ r.op = "acceptance" => r.surf \in Surfaces /\ r.seat \in Seats /\ r.on \in BOOLEAN
           /\ r.op = "focus" => r.surf \in Surfaces /\ r.on \in BOOLEAN
  BY DEF Requests

LEMMA HeardRequest ==
    ASSUME KInv, SeatsKept, Heard, HandleRequest, Parting
    PROVE  SeatsKept' /\ Heard'
<1>0. PICK r : r = Head(wire)
  OBVIOUS
<1>1. /\ Wired /\ wire \in Seq(Requests) /\ inbox \in Seq(Events)
      /\ call \in Calls \cup {NoCall} /\ Synced(call, wire, inbox) /\ wire # <<>>
      /\ wire' = Tail(wire) /\ UNCHANGED <<mirror, call>> /\ quiet \in BOOLEAN
  BY DEF Heard, Wired, HandleRequest
<1>2. r \in Requests /\ Tail(wire) \in Seq(Requests)
  BY <1>0, <1>1, TailFacts
<1>3. CASE r.op = "sync"
  <2>1. /\ UNCHANGED world /\ quiet' = TRUE
        /\ inbox' = inbox \o <<[ev |-> "done"]>>
    BY <1>0, <1>3 DEF HandleRequest, Sent
  <2>2. SeatsKept' /\ Known' = Known
    BY <2>1, FocusKept DEF SeatsKept, world, Known
  <2>3. /\ inbox' \in Seq(Events)
        /\ Synced(call, Tail(wire), inbox') /\ Quiet(TRUE, call, Tail(wire), inbox')
    BY <1>0, <1>1, <1>3, <2>1, SyncedAnswered
  <2>4. Wired'
    BY <1>1, <1>2, <2>1, <2>3 DEF Wired
  <2>5. PICK y \in Mirrors(Known) : Leads(Known, mirror, inbox, y) /\ Exact(y)
    BY DEF Heard, Informed
  <2>6. y = After(y, [ev |-> "done"])
    BY DEF After
  <2>7. <<[ev |-> "done"]>> \in Seq(Events) /\ Leads(Known, y, <<[ev |-> "done"]>>, y)
    <3>1. [ev |-> "done"] \in Events
      BY DEF Events
    <3> QED BY <2>6, <3>1, LeadsOne, OneEvent
  <2>8. Leads(Known, mirror, inbox', y)
    BY <1>1, <2>1, <2>5, <2>7, LeadsOn
  <2>9. Exact(y)'
    BY <2>1, <2>5, FocusKept DEF Exact, world, KInv, KeyTypes
  <2>10. Informed'
    BY <1>1, <2>2, <2>8, <2>9 DEF Informed
  <2>11. Synced(call, wire, inbox)' /\ Quiet(quiet, call, wire, inbox)'
    <3>1. Synced(call', wire', inbox') /\ Quiet(quiet', call', wire', inbox')
      BY <1>1, <2>1, <2>3
    <3> QED BY <3>1
  <2> QED BY <2>2, <2>4, <2>10, <2>11 DEF Heard
<1>4. CASE r.op # "sync"
  <2>1. /\ quiet' = quiet /\ Known' = Known /\ SeatsKept' /\ \E evs : Tells(evs)
    <3>1. CASE r.op = "acceptance"
      <4>1. setup_input_acceptance(r.surf, r.seat, r.on) /\ quiet' = quiet
        BY <1>0, <3>1 DEF HandleRequest
      <4>2. Known' = Known
        BY <4>1 DEF setup_input_acceptance, Known
      <4> QED BY <1>1, <1>2, <3>1, <4>1, <4>2, RequestKinds, AcceptanceTells
    <3>2. CASE r.op = "focus"
      <4>1. setup_input_focus(r.surf, r.on) /\ quiet' = quiet
        BY <1>0, <3>2 DEF HandleRequest
      <4>2. Known' = Known
        BY <4>1 DEF setup_input_focus, Known
      <4> QED BY <1>1, <1>2, <3>2, <4>1, <4>2, RequestKinds, FocusTells
    <3> QED BY <1>2, <1>4, <3>1, <3>2, RequestKinds
  <2>2. ~quiet
    BY <1>1 DEF Heard, Quiet
  <2>3. Synced(call, Tail(wire), inbox)
    BY <1>0, <1>1, <1>4, SyncedHandled
  <2>4. inbox' \in Seq(Events) /\ Informed' /\ Synced(call, Tail(wire), inbox')
    BY <1>1, <2>1, <2>3, TellsInforms
  <2>5. Wired'
    BY <1>1, <1>2, <2>1, <2>4 DEF Wired
  <2>6. Synced(call, wire, inbox)' /\ Quiet(quiet, call, wire, inbox)'
    <3>1. Synced(call', wire', inbox')
      BY <1>1, <2>4
    <3>2. Quiet(quiet', call', wire', inbox')
      BY <2>1, <2>2 DEF Quiet
    <3> QED BY <3>1, <3>2
  <2> QED BY <2>1, <2>4, <2>5, <2>6 DEF Heard
<1> QED BY <1>3, <1>4

\* An event is dispatched: the mirror takes the next step of its way.
LEMMA DispatchAfter ==
    ASSUME Dispatch, NEW e, e = Head(inbox), e \in Events
    PROVE  /\ mirror' = After(mirror, e)
           /\ e.ev # "done" => call' = call
           /\ e.ev = "done" => call' = [call EXCEPT !.synced = TRUE]
<1>1. e.ev \in {"seat_created", "seat_destroyed", "seat_capabilities", "surface", "input_focus",
                "input_acceptance", "done"}
  BY DEF Events
<1>2. e.ev = "surface" => e.on \in BOOLEAN
  BY DEF Events
<1>3. CASE e.ev = "seat_created"
  BY <1>3 DEF Dispatch, After, input_listener_seat_created
<1>4. CASE e.ev = "seat_destroyed"
  BY <1>4 DEF Dispatch, After, input_listener_seat_destroyed
<1>5. CASE e.ev = "seat_capabilities"
  BY <1>5 DEF Dispatch, After, input_listener_seat_capabilities
<1>6. CASE e.ev = "input_focus"
  BY <1>6 DEF Dispatch, After, input_listener_input_focus
<1>7. CASE e.ev = "input_acceptance"
  BY <1>7 DEF Dispatch, After, input_listener_input_acceptance
<1>8. CASE e.ev = "surface"
  BY <1>2, <1>8 DEF Dispatch, After, wm_listener_surface
<1>9. CASE e.ev = "done"
  BY <1>9 DEF Dispatch, After
<1> QED BY <1>1, <1>3, <1>4, <1>5, <1>6, <1>7, <1>8, <1>9

LEMMA HeardDispatch ==
    ASSUME KInv, SeatsKept, Heard, Dispatch, Parting
    PROVE  SeatsKept' /\ Heard'
<1>0. PICK e : e = Head(inbox)
  OBVIOUS
<1>1. /\ inbox \in Seq(Events) /\ inbox # <<>> /\ inbox' = Tail(inbox)
      /\ UNCHANGED <<world, wire, quiet>> /\ wire \in Seq(Requests) /\ quiet \in BOOLEAN
      /\ call \in Calls \cup {NoCall}
      /\ Synced(call, wire, inbox) /\ Quiet(quiet, call, wire, inbox)
  BY DEF Heard, Wired, Dispatch, ghost
<1>2. e \in Events /\ Tail(inbox) \in Seq(Events)
  BY <1>0, <1>1, TailFacts
<1>3. /\ mirror' = After(mirror, e)
      /\ e.ev # "done" => call' = call
      /\ e.ev = "done" => call' = [call EXCEPT !.synced = TRUE]
  BY <1>0, <1>2, DispatchAfter
<1>4. Known' = Known /\ SeatsKept'
  BY <1>1, FocusKept DEF Known, SeatsKept, world
<1>5. Informed'
  <2>1. PICK y \in Mirrors(Known) : Leads(Known, mirror, inbox, y) /\ Exact(y)
    BY DEF Heard, Informed
  <2>2. Leads(Known, mirror', inbox', y)
    BY <1>0, <1>1, <1>3, <2>1, LeadsTail
  <2>3. Exact(y)'
    BY <1>1, <2>1, FocusKept DEF Exact, world, KInv, KeyTypes
  <2> QED BY <1>4, <2>2, <2>3 DEF Informed
<1>6. /\ call' \in Calls \cup {NoCall}
      /\ Synced(call', wire, Tail(inbox)) /\ Quiet(quiet, call', wire, Tail(inbox))
  <2>1. CASE e.ev = "done"
    BY <1>0, <1>1, <1>3, <2>1, SyncedDone
  <2>2. CASE e.ev # "done"
    BY <1>0, <1>1, <1>3, <2>2, SyncedDispatched
  <2> QED BY <2>1, <2>2
<1>7. Wired'
  BY <1>1, <1>2, <1>6 DEF Wired
<1>8. Synced(call, wire, inbox)' /\ Quiet(quiet, call, wire, inbox)'
  <2>1. Synced(call', wire', inbox') /\ Quiet(quiet', call', wire', inbox')
    BY <1>1, <1>6
  <2> QED BY <2>1
<1> QED BY <1>4, <1>5, <1>7, <1>8 DEF Heard

\* What is sent to the compositor changes nothing in it.
LEMMA HeardSending ==
    ASSUME KInv, SeatsKept, Heard, Parting, UNCHANGED <<world, inbox, mirror>>,
           wire' \in Seq(Requests), call' \in Calls \cup {NoCall}, quiet' = FALSE,
           Synced(call', wire', inbox)
    PROVE  SeatsKept' /\ Heard'
<1>1. Known' = Known /\ SeatsKept'
  BY FocusKept DEF Known, SeatsKept, world
<1>2. Informed'
  <2>1. PICK y \in Mirrors(Known) : Leads(Known, mirror, inbox, y) /\ Exact(y)
    BY DEF Heard, Informed
  <2>2. Exact(y)' /\ mirror' = mirror /\ inbox' = inbox
    BY <2>1, FocusKept DEF Exact, world, KInv, KeyTypes
  <2> QED BY <1>1, <2>1, <2>2 DEF Informed
<1>3. Wired'
  BY DEF Heard, Wired
<1>4. Synced(call, wire, inbox)' /\ Quiet(quiet, call, wire, inbox)'
  <2>1. Synced(call', wire', inbox') /\ Quiet(quiet', call', wire', inbox')
    BY DEF Quiet
  <2> QED BY <2>1
<1> QED BY <1>1, <1>2, <1>3, <1>4 DEF Heard

LEMMA HeardCall ==
    ASSUME KInv, SeatsKept, Heard, CallLibrary, Parting
    PROVE  SeatsKept' /\ Heard'
<1>1. PICK c \in Calls : ~c.synced /\ Begin /\ call' = c
  <2>1. CASE \E s \in Surfaces, T \in SUBSET Seats :
                call' = [op |-> "setAcceptance", surf |-> s, seats |-> T, synced |-> FALSE]
    <3>1. PICK s \in Surfaces, T \in SUBSET Seats :
                call' = [op |-> "setAcceptance", surf |-> s, seats |-> T, synced |-> FALSE]
      BY <2>1
    <3> DEFINE c == [op |-> "setAcceptance", surf |-> s, seats |-> T, synced |-> FALSE]
    <3>2. c \in Calls /\ ~c.synced
      BY DEF Calls
    <3> QED BY <3>1, <3>2 DEF CallLibrary
  <2>2. CASE \E q \in FocusLists, on \in BOOLEAN :
                call' = [op |-> "setFocus", surfaces |-> q, on |-> on, synced |-> FALSE]
    <3>1. PICK q \in FocusLists, on \in BOOLEAN :
                call' = [op |-> "setFocus", surfaces |-> q, on |-> on, synced |-> FALSE]
      BY <2>2
    <3> DEFINE c == [op |-> "setFocus", surfaces |-> q, on |-> on, synced |-> FALSE]
    <3>2. c \in Calls /\ ~c.synced
      BY DEF Calls
    <3> QED BY <3>1, <3>2 DEF CallLibrary
  <2>3. CASE call' = [op |-> "get", synced |-> FALSE]
    <3>1. [op |-> "get", synced |-> FALSE] \in Calls
      BY DEF Calls
    <3> QED BY <2>3, <3>1 DEF CallLibrary
  <2> QED BY <2>1, <2>2, <2>3 DEF CallLibrary
<1>2. /\ call = NoCall /\ call' = c /\ wire' = Append(wire, [op |-> "sync"]) /\ quiet' = FALSE
      /\ UNCHANGED <<world, inbox, mirror>>
  BY <1>1 DEF Begin
<1>3. wire \in Seq(Requests) /\ Synced(NoCall, wire, inbox)
  BY <1>2 DEF Heard, Wired
<1>4. wire' \in Seq(Requests) /\ Synced(c, wire', inbox)
  BY <1>1, <1>2, <1>3, SyncedBegin
<1> QED BY <1>1, <1>2, <1>4, HeardSending

LEMMA HeardReturn ==
    ASSUME KInv, SeatsKept, Heard, Parting, call \in Calls, call.synced, NEW reqs \in Seq(Requests), NoSync(reqs),
           Return(reqs)
    PROVE  SeatsKept' /\ Heard' /\ wire = <<>> /\ wire' = reqs
<1>1. wire = <<>> /\ Synced(NoCall, reqs, inbox)
  BY SyncedReturn DEF Heard
<1>2. /\ call' = NoCall /\ wire' = reqs /\ quiet' = FALSE /\ UNCHANGED <<world, inbox, mirror>>
  BY <1>1 DEF Return
<1> QED BY <1>1, <1>2, HeardSending

-----------------------------------------------------------------------------
(* Acceptance as it was asked for.                                         *)

\* Nothing that was asked for is touched.
LEMMA AskedUnchanged ==
    ASSUME Asked, UNCHANGED <<want, wire, accepted, list_surface, seat_list, gone>>
    PROVE  Asked'
  BY DEF Asked, Settling, KnownAsked, Known

\* Seats and surfaces come and go, or others change a surface, of which the
\* client then expects nothing.
LEMMA AskedOthers ==
    ASSUME Asked, NEW s \in Surfaces, want' = [want EXCEPT ![s] = None],
           UNCHANGED <<wire, seat_list, gone>>,
           \A r \in Surfaces : r # s => accepted'[r] = accepted[r]
                                        /\ (r \in list_surface => r \in list_surface')
    PROVE  Asked'
<1>1. want' = [r \in Surfaces |-> want'[r]]
  BY DEF Asked
<1>2. KnownAsked(wire)'
  BY DEF Asked, KnownAsked, Known
<1>3. ASSUME NEW r \in Surfaces, want'[r] # None
      PROVE  Settling(wire, accepted[r], r, want[r])'
  <2>1. r # s /\ want'[r] = want[r]
    BY <1>3 DEF Asked
  <2>2. Settling(wire, accepted[r], r, want[r])
    BY <1>3, <2>1 DEF Asked
  <2> QED BY <2>1, <2>2 DEF Settling
<1> QED BY <1>1, <1>2, <1>3 DEF Asked

LEMMA AskedSeat ==
    ASSUME KInv, SeatsKept, Asked, NEW t \in Seats, handle_seat_create(t)
    PROVE  Asked'
<1>0. PICK S : S = {s \in list_surface : t = DefaultSeat}
  OBVIOUS
<1>1. /\ t \notin seat_list /\ seat_list' = seat_list \cup {t}
      /\ accepted' = [s \in Surfaces |-> IF s \in S THEN accepted[s] \cup {t} ELSE accepted[s]]
      /\ want' = [s \in Surfaces |-> IF want[s] = None THEN None
                                     ELSE IF s \in S THEN want[s] \cup {t} ELSE want[s]]
      /\ UNCHANGED <<list_surface, gone, wire>>
  BY <1>0 DEF handle_seat_create, Expect
<1>2. want' = [s \in Surfaces |-> want'[s]]
  BY <1>1
<1>3. /\ KnownAsked(wire)'
      /\ t \notin gone => \A i \in 1 .. Len(wire) : wire[i].op = "acceptance" => wire[i].seat # t
  <2>1. KnownAsked(wire)
    BY DEF Asked
  <2> QED BY <1>1, <2>1 DEF KnownAsked, Known
<1>4. ASSUME NEW s \in Surfaces, want'[s] # None
      PROVE  Settling(wire, accepted[s], s, want[s])'
  <2>1. want[s] # None /\ want'[s] = IF s \in S THEN want[s] \cup {t} ELSE want[s]
    BY <1>1, <1>4
  <2>2. accepted'[s] = IF s \in S THEN accepted[s] \cup {t} ELSE accepted[s]
    BY <1>1
  <2>3. Settling(wire, accepted[s], s, want[s])
    BY <2>1 DEF Asked
  <2>4. t \notin accepted[s] /\ t \notin want[s]
    BY <1>1, <2>3 DEF SeatsKept, Settling
  <2>5. t \notin gone => \A i \in 1 .. Len(wire) : ~Asks(wire[i], s, t)
    BY <1>3 DEF Asks
  <2>6. ASSUME NEW u \in seat_list \ gone
        PROVE  /\ \A i \in 1 .. Len(wire) : Asks(wire[i], s, u) => wire[i].on <=> (u \in want'[s])
               /\ (\A i \in 1 .. Len(wire) : ~Asks(wire[i], s, u))
                      => (u \in accepted'[s]) <=> (u \in want'[s])
    <3>1. u # t
      BY <1>1
    <3>2. (u \in want'[s] <=> u \in want[s]) /\ (u \in accepted'[s] <=> u \in accepted[s])
      BY <2>1, <2>2, <3>1
    <3> QED BY <2>3, <3>2 DEF Settling
  <2>7. (t \in accepted'[s]) <=> (t \in want'[s])
    BY <2>1, <2>2, <2>4
  <2>8. s \in list_surface /\ want'[s] \subseteq seat_list \cup {t}
    BY <2>1, <2>3 DEF Settling
  <2> QED BY <1>1, <2>5, <2>6, <2>7, <2>8 DEF Settling
<1> QED BY <1>2, <1>3, <1>4 DEF Asked

LEMMA AskedSeatGone ==
    ASSUME Asked, NEW t \in Seats, destroy_seat(t)
    PROVE  Asked'
<1>1. /\ t \in seat_list /\ seat_list' = seat_list \ {t} /\ gone' = gone \cup {t}
      /\ accepted' = [s \in Surfaces |-> accepted[s] \ {t}]
      /\ want' = [s \in Surfaces |-> IF want[s] = None THEN None ELSE want[s] \ {t}]
      /\ UNCHANGED <<list_surface, wire>>
  BY DEF destroy_seat, Expect
<1>2. want' = [s \in Surfaces |-> want'[s]]
  BY <1>1
<1>3. KnownAsked(wire)'
  <2>1. Known' = Known
    BY <1>1 DEF Known
  <2> QED BY <1>1, <2>1 DEF Asked, KnownAsked
<1>4. ASSUME NEW s \in Surfaces, want'[s] # None
      PROVE  Settling(wire, accepted[s], s, want[s])'
  <2>1. want[s] # None /\ want'[s] = want[s] \ {t} /\ accepted'[s] = accepted[s] \ {t}
    BY <1>1, <1>4
  <2>2. Settling(wire, accepted[s], s, want[s])
    BY <2>1 DEF Asked
  <2>3. ASSUME NEW u \in seat_list' \ gone'
        PROVE  /\ \A i \in 1 .. Len(wire) : Asks(wire[i], s, u) => wire[i].on <=> (u \in want'[s])
               /\ (\A i \in 1 .. Len(wire) : ~Asks(wire[i], s, u))
                      => (u \in accepted'[s]) <=> (u \in want'[s])
    <3>1. u # t /\ u \in seat_list \ gone
      BY <1>1
    <3>2. (u \in want'[s] <=> u \in want[s]) /\ (u \in accepted'[s] <=> u \in accepted[s])
      BY <2>1, <3>1
    <3> QED BY <2>2, <3>1, <3>2 DEF Settling
  <2>4. s \in list_surface /\ want'[s] \subseteq seat_list'
    BY <1>1, <2>1, <2>2 DEF Settling
  <2> QED BY <1>1, <2>3, <2>4 DEF Settling
<1> QED BY <1>2, <1>3, <1>4 DEF Asked

LEMMA AskedWorld ==
    ASSUME KInv, SeatsKept, Asked, World
    PROVE  Asked'
<1>1. ASSUME NEW t \in Seats, handle_seat_updated_caps(t) PROVE Asked'
  BY <1>1, AskedUnchanged DEF handle_seat_updated_caps
<1>2. ASSUME NEW s \in Surfaces, surface_created(s) PROVE Asked'
  <2>1. \A r \in Surfaces : r # s => accepted'[r] = accepted[r] /\ (r \in list_surface => r \in list_surface')
    BY <1>2 DEF surface_created, SeatsKept
  <2> QED BY <1>2, <2>1, AskedOthers DEF surface_created, Unsettled
<1>3. ASSUME NEW s \in Surfaces, surface_destroyed(s) PROVE Asked'
  <2>1. \A r \in Surfaces : r # s => accepted'[r] = accepted[r] /\ (r \in list_surface => r \in list_surface')
    BY <1>3 DEF surface_destroyed, SeatsKept
  <2> QED BY <1>3, <2>1, AskedOthers DEF surface_destroyed, Unsettled
<1>4. ASSUME NEW s \in Surfaces, NEW t \in Seats, NEW on \in BOOLEAN, others_set_acceptance(s, t, on)
      PROVE  Asked'
  <2>1. \/ accepted' = accepted \/ accepted' = [accepted EXCEPT ![s] = @ \cup {t}]
        \/ accepted' = [accepted EXCEPT ![s] = @ \ {t}]
    BY <1>4 DEF others_set_acceptance, setup_input_acceptance, Accept, Refuse
  <2>2. \A r \in Surfaces : r # s => accepted'[r] = accepted[r]
    BY <2>1 DEF SeatsKept
  <2>3. UNCHANGED <<list_surface, seat_list, gone, wire>> /\ Unsettled(s)
    BY <1>4 DEF others_set_acceptance, setup_input_acceptance
  <2> QED BY <2>2, <2>3, AskedOthers DEF Unsettled
<1>5. ASSUME NEW s \in Surfaces, NEW on \in BOOLEAN, others_set_focus(s, on) PROVE Asked'
  <2>1. setup_input_focus(s, on) /\ UNCHANGED <<wire, want>>
    BY <1>5 DEF others_set_focus
  <2>2. UNCHANGED <<list_surface, seat_list, gone, accepted>>
    BY <2>1 DEF setup_input_focus
  <2> QED BY <2>1, <2>2, AskedUnchanged
<1> QED BY <1>1, <1>2, <1>3, <1>4, <1>5, AskedSeat, AskedSeatGone DEF World

\* A request is handled: what it asked for is so.
LEMMA AskedRequest ==
    ASSUME KInv, SeatsKept, Heard, Asked, HandleRequest
    PROVE  Asked'
<1>0. PICK r : r = Head(wire)
  OBVIOUS
<1>1. wire \in Seq(Requests) /\ wire # <<>> /\ wire' = Tail(wire) /\ UNCHANGED want
  BY DEF Heard, Wired, HandleRequest
<1>2. /\ r \in Requests /\ r = wire[1] /\ 1 \in 1 .. Len(wire) /\ Len(wire) \in Nat \ {0}
      /\ \A i \in 1 .. Len(wire') : wire'[i] = wire[i + 1] /\ i + 1 \in 1 .. Len(wire)
      /\ \A j \in 2 .. Len(wire) : wire'[j - 1] = wire[j] /\ j - 1 \in 1 .. Len(wire')
  BY <1>0, <1>1, TailFacts
<1>3. UNCHANGED <<list_surface, seat_list, gone>>
  <2>1. \/ UNCHANGED world \/ setup_input_acceptance(r.surf, r.seat, r.on)
        \/ setup_input_focus(r.surf, r.on)
    BY <1>0 DEF HandleRequest
  <2> QED BY <2>1 DEF world, setup_input_acceptance, setup_input_focus
<1>4. KnownAsked(wire)'
  <2>1. Known' = Known
    BY <1>3 DEF Known
  <2> QED BY <1>2, <2>1 DEF Asked, KnownAsked
<1>5. ASSUME NEW s \in Surfaces, NEW t \in seat_list
      PROVE  /\ ~Asks(r, s, t) => (t \in accepted'[s]) <=> (t \in accepted[s])
             /\ Asks(r, s, t) /\ s \in list_surface => (t \in accepted'[s]) <=> r.on
  <2>1. CASE r.op = "acceptance"
    <3>1. setup_input_acceptance(r.surf, r.seat, r.on)
      BY <1>0, <2>1 DEF HandleRequest
    <3>2. r.surf \in Surfaces /\ r.seat \in Seats /\ r.on \in BOOLEAN
      BY <1>2, <2>1, RequestKinds
    <3>3. accepted \in [Surfaces -> SUBSET seat_list]
      BY DEF SeatsKept
    <3>4. CASE r.seat \notin seat_list \/ r.surf \notin list_surface
      BY <3>1, <3>4 DEF setup_input_acceptance, Asks
    <3>5. CASE r.seat \in seat_list /\ r.surf \in list_surface /\ r.on
      <4>1. accepted' = [accepted EXCEPT ![r.surf] = @ \cup {r.seat}]
        BY <3>1, <3>5 DEF setup_input_acceptance, Accept
      <4>2. accepted'[s] = IF s = r.surf THEN accepted[s] \cup {r.seat} ELSE accepted[s]
        BY <3>2, <3>3, <4>1
      <4>3. r.on = TRUE
        BY <3>2, <3>5
      <4>4. CASE s = r.surf /\ t = r.seat
        <5>1. t \in accepted'[s] /\ Asks(r, s, t)
          BY <2>1, <4>2, <4>4 DEF Asks
        <5> QED BY <4>3, <5>1
      <4>5. CASE ~(s = r.surf /\ t = r.seat)
        BY <4>2, <4>5 DEF Asks
      <4> QED BY <4>4, <4>5
    <3>6. CASE r.seat \in seat_list /\ r.surf \in list_surface /\ ~r.on
      <4>1. \/ accepted' = [accepted EXCEPT ![r.surf] = @ \ {r.seat}]
            \/ accepted' = accepted /\ r.seat \notin accepted[r.surf]
        BY <3>1, <3>6 DEF setup_input_acceptance, Refuse
      <4> QED BY <2>1, <3>2, <3>3, <3>6, <4>1 DEF Asks
    <3> QED BY <3>2, <3>4, <3>5, <3>6
  <2>2. CASE r.op # "acceptance"
    <3>1. accepted' = accepted
      <4>1. CASE r.op = "sync"
        BY <1>0, <4>1 DEF HandleRequest, world
      <4>2. CASE r.op = "focus"
        <5>1. setup_input_focus(r.surf, r.on)
          BY <1>0, <4>2 DEF HandleRequest
        <5> QED BY <5>1 DEF setup_input_focus
      <4> QED BY <1>2, <2>2, <4>1, <4>2, RequestKinds
    <3> QED BY <2>2, <3>1 DEF Asks
  <2> QED BY <2>1, <2>2
<1>6. ASSUME NEW s \in Surfaces, want[s] # None
      PROVE  Settling(wire, accepted[s], s, want[s])'
  <2>1. Settling(wire, accepted[s], s, want[s])
    BY <1>6 DEF Asked
  <2>2. ASSUME NEW t \in seat_list \ gone
        PROVE  /\ \A i \in 1 .. Len(wire') : Asks(wire'[i], s, t) => wire'[i].on <=> (t \in want[s])
               /\ (\A i \in 1 .. Len(wire') : ~Asks(wire'[i], s, t))
                      => (t \in accepted'[s]) <=> (t \in want[s])
    <3>1. \A i \in 1 .. Len(wire') : Asks(wire'[i], s, t) => wire'[i].on <=> (t \in want[s])
      BY <1>2, <2>1 DEF Settling
    <3>2. ASSUME \A i \in 1 .. Len(wire') : ~Asks(wire'[i], s, t)
          PROVE  (t \in accepted'[s]) <=> (t \in want[s])
      <4>1. CASE Asks(r, s, t)
        <5>1. (r.on <=> t \in want[s]) /\ s \in list_surface
          BY <1>2, <2>1, <4>1 DEF Settling
        <5> QED BY <1>5, <4>1, <5>1
      <4>2. CASE ~Asks(r, s, t)
        <5>1. ASSUME NEW i \in 1 .. Len(wire) PROVE ~Asks(wire[i], s, t)
          <6>1. CASE i = 1
            BY <1>2, <4>2, <6>1
          <6>2. CASE i # 1
            <7>1. i \in 2 .. Len(wire)
              BY <1>2, <6>2
            <7> QED BY <1>2, <3>2, <7>1
          <6> QED BY <6>1, <6>2
        <5>2. (t \in accepted[s]) <=> (t \in want[s])
          BY <2>1, <5>1 DEF Settling
        <5> QED BY <1>5, <4>2, <5>2
      <4> QED BY <4>1, <4>2
    <3> QED BY <3>1, <3>2
  <2>3. s \in list_surface /\ want[s] \subseteq seat_list
    BY <2>1 DEF Settling
  <2> QED BY <1>1, <1>3, <2>2, <2>3 DEF Settling
<1>7. want' = [s \in Surfaces |-> want'[s]]
  BY <1>1 DEF Asked
<1> QED BY <1>1, <1>4, <1>6, <1>7 DEF Asked

\* Requests that ask for nothing of the seats.
LEMMA AskedNothing ==
    ASSUME Asked, UNCHANGED <<want, accepted, list_surface, seat_list, gone>>,
           \A i \in 1 .. Len(wire') : wire'[i].op = "acceptance" => \E j \in 1 .. Len(wire) : wire[j] = wire'[i],
           \A j \in 1 .. Len(wire) : wire[j].op = "acceptance" => \E i \in 1 .. Len(wire') : wire[j] = wire'[i]
    PROVE  Asked'
<1>1. KnownAsked(wire)'
  BY DEF Asked, KnownAsked, Known
<1>2. ASSUME NEW s \in Surfaces, want[s] # None
      PROVE  Settling(wire, accepted[s], s, want[s])'
  <2>1. Settling(wire, accepted[s], s, want[s])
    BY <1>2 DEF Asked
  <2>2. ASSUME NEW t \in seat_list \ gone
        PROVE  /\ \A i \in 1 .. Len(wire') : Asks(wire'[i], s, t) => wire'[i].on <=> (t \in want[s])
               /\ (\A i \in 1 .. Len(wire') : ~Asks(wire'[i], s, t))
                      => (t \in accepted[s]) <=> (t \in want[s])
    <3>1. ASSUME NEW i \in 1 .. Len(wire'), Asks(wire'[i], s, t) PROVE wire'[i].on <=> (t \in want[s])
      <4>1. PICK j \in 1 .. Len(wire) : wire[j] = wire'[i]
        BY <3>1 DEF Asks
      <4> QED BY <2>1, <3>1, <4>1 DEF Settling
    <3>2. ASSUME \A i \in 1 .. Len(wire') : ~Asks(wire'[i], s, t)
          PROVE  \A j \in 1 .. Len(wire) : ~Asks(wire[j], s, t)
      BY <3>2 DEF Asks
    <3> QED BY <2>1, <3>1, <3>2 DEF Settling
  <2> QED BY <2>1, <2>2 DEF Settling
<1> QED BY <1>1, <1>2 DEF Asked

\* The requests for the seats T of one surface.
LEMMA AcceptanceSeq ==
    ASSUME NEW s \in Surfaces, NEW T \in SUBSET Seats, IsFiniteSet(T), NEW on \in BOOLEAN,
           NEW q, q = Acceptance(s, T, on)
    PROVE  /\ q \in Seq(Requests)
           /\ \A i \in 1 .. Len(q) : /\ q[i].op = "acceptance" /\ q[i].surf = s /\ q[i].seat \in T
                                     /\ q[i].on = on
           /\ \A t \in T : \E i \in 1 .. Len(q) : q[i].seat = t
<1> DEFINE E == {[op |-> "acceptance", surf |-> s, seat |-> t, on |-> on] : t \in T}
           f == [t \in T |-> [op |-> "acceptance", surf |-> s, seat |-> t, on |-> on]]
<1>1. E = {f[t] : t \in DOMAIN f} /\ IsFiniteSet(DOMAIN f)
  OBVIOUS
<1>2. IsFiniteSet(E)
  BY <1>1, ImageFinite
<1>3. E \subseteq [op : {"acceptance"}, surf : Surfaces, seat : Seats, on : BOOLEAN]
  OBVIOUS
<1>4. E \subseteq Requests
  BY <1>3 DEF Requests
<1>5. /\ \A e \in E : e.op = "acceptance" /\ e.surf = s /\ e.seat \in T /\ e.on = on
      /\ \A t \in T : \E e \in E : e.seat = t
  <2>1. \A e \in E : e.op = "acceptance" /\ e.surf = s /\ e.seat \in T /\ e.on = on
    OBVIOUS
  <2>2. ASSUME NEW t \in T PROVE \E e \in E : e.seat = t
    <3>1. PICK e : e = [op |-> "acceptance", surf |-> s, seat |-> t, on |-> on]
      OBVIOUS
    <3>2. e \in E /\ e.seat = t
      BY <3>1
    <3> QED BY <3>2
  <2> QED BY <2>1, <2>2
<1>7. q = SetToSeq(E)
  BY DEF Acceptance
<1> HIDE DEF E
<1>8. /\ q \in Seq(Requests) /\ \A i \in 1 .. Len(q) : q[i] \in E
      /\ \A e \in E : \E i \in 1 .. Len(q) : q[i] = e
  BY <1>2, <1>4, <1>7, SeqOfSet
<1>9. /\ \A i \in 1 .. Len(q) : q[i].op = "acceptance" /\ q[i].surf = s /\ q[i].seat \in T /\ q[i].on = on
      /\ \A t \in T : \E i \in 1 .. Len(q) : q[i].seat = t
  BY <1>5, <1>8
<1> QED BY <1>8, <1>9

\* The difference between what is asked for and the mirror.
LEMMA DifferenceSeq ==
    ASSUME NEW s \in Surfaces, NEW T \in SUBSET Seats, NEW M \in SUBSET Seats, M = mirror.accepted[s],
           IsFiniteSet(Seats), NEW d, d = Difference(s, T)
    PROVE  /\ d \in Seq(Requests)
           /\ \A i \in 1 .. Len(d) :
                 /\ d[i].op = "acceptance" /\ d[i].surf = s
                 /\ ((d[i].on /\ d[i].seat \in T \ M) \/ (~d[i].on /\ d[i].seat \in M \ T))
           /\ \A t \in (T \ M) \cup (M \ T) : \E i \in 1 .. Len(d) : d[i].seat = t
<1>1. /\ T \ M \in SUBSET Seats /\ IsFiniteSet(T \ M)
      /\ M \ T \in SUBSET Seats /\ IsFiniteSet(M \ T)
  <2>1. T \ M \subseteq Seats /\ M \ T \subseteq Seats
    OBVIOUS
  <2> QED BY <2>1, FS_Subset
<1>2. PICK p : p = Acceptance(s, T \ M, TRUE)
  OBVIOUS
<1>3. PICK q : q = Acceptance(s, M \ T, FALSE)
  OBVIOUS
<1>4. /\ p \in Seq(Requests)
      /\ \A i \in 1 .. Len(p) : p[i].op = "acceptance" /\ p[i].surf = s /\ p[i].seat \in T \ M
                                /\ p[i].on
      /\ \A t \in T \ M : \E i \in 1 .. Len(p) : p[i].seat = t
  <2>1. PICK b \in BOOLEAN : b = TRUE
    OBVIOUS
  <2>0. PICK U : U = T \ M
    OBVIOUS
  <2>2. p = Acceptance(s, U, b) /\ U \in SUBSET Seats /\ IsFiniteSet(U)
    BY <1>1, <1>2, <2>0, <2>1
  <2>3. /\ p \in Seq(Requests)
        /\ \A i \in 1 .. Len(p) : /\ p[i].op = "acceptance" /\ p[i].surf = s
                                  /\ p[i].seat \in U /\ p[i].on = b
        /\ \A t \in U : \E i \in 1 .. Len(p) : p[i].seat = t
    BY <2>2, AcceptanceSeq
  <2> QED BY <2>0, <2>1, <2>3
<1>5. /\ q \in Seq(Requests)
      /\ \A i \in 1 .. Len(q) : q[i].op = "acceptance" /\ q[i].surf = s /\ q[i].seat \in M \ T
                                /\ ~q[i].on
      /\ \A t \in M \ T : \E i \in 1 .. Len(q) : q[i].seat = t
  <2>1. PICK b \in BOOLEAN : b = FALSE
    OBVIOUS
  <2>0. PICK U : U = M \ T
    OBVIOUS
  <2>2. q = Acceptance(s, U, b) /\ U \in SUBSET Seats /\ IsFiniteSet(U)
    BY <1>1, <1>3, <2>0, <2>1
  <2>3. /\ q \in Seq(Requests)
        /\ \A i \in 1 .. Len(q) : /\ q[i].op = "acceptance" /\ q[i].surf = s
                                  /\ q[i].seat \in U /\ q[i].on = b
        /\ \A t \in U : \E i \in 1 .. Len(q) : q[i].seat = t
    BY <2>2, AcceptanceSeq
  <2> QED BY <2>0, <2>1, <2>3
<1>7. d = p \o q
  BY <1>2, <1>3 DEF Difference
<1>8. /\ d \in Seq(Requests) /\ Len(d) = Len(p) + Len(q) /\ Len(p) \in Nat /\ Len(q) \in Nat
      /\ \A i \in 1 .. Len(p) + Len(q) : d[i] = IF i <= Len(p) THEN p[i] ELSE q[i - Len(p)]
  BY <1>4, <1>5, <1>7, ConcatProperties
<1>9. ASSUME NEW i \in 1 .. Len(d)
      PROVE  /\ d[i].op = "acceptance" /\ d[i].surf = s
             /\ ((d[i].on /\ d[i].seat \in T \ M) \/ (~d[i].on /\ d[i].seat \in M \ T))
  <2>1. CASE i <= Len(p)
    <3>1. i \in 1 .. Len(p) /\ d[i] = p[i]
      BY <1>8, <2>1
    <3>2. p[i].op = "acceptance" /\ p[i].surf = s /\ p[i].seat \in T \ M /\ p[i].on
      BY <1>4, <3>1
    <3>3. d[i].op = "acceptance" /\ d[i].surf = s /\ d[i].seat \in T \ M /\ d[i].on
      BY <3>1, <3>2, Zenon
    <3> QED BY <3>3, Zenon
  <2>2. CASE ~(i <= Len(p))
    <3>1. i - Len(p) \in 1 .. Len(q) /\ d[i] = q[i - Len(p)]
      BY <1>8, <2>2
    <3> QED BY <1>5, <3>1
  <2> QED BY <2>1, <2>2
<1>10. ASSUME NEW t \in (T \ M) \cup (M \ T) PROVE \E i \in 1 .. Len(d) : d[i].seat = t
  <2>1. CASE t \in T \ M
    <3>1. PICK i \in 1 .. Len(p) : p[i].seat = t
      BY <1>4, <2>1
    <3>2. i \in 1 .. Len(d) /\ d[i] = p[i]
      BY <1>8
    <3> QED BY <3>1, <3>2
  <2>2. CASE t \in M \ T
    <3>1. PICK i \in 1 .. Len(q) : q[i].seat = t
      BY <1>5, <2>2
    <3>2. i + Len(p) \in 1 .. Len(p) + Len(q) /\ ~(i + Len(p) <= Len(p)) /\ i + Len(p) - Len(p) = i
      BY <1>8
    <3>3. i + Len(p) \in 1 .. Len(d) /\ d[i + Len(p)] = q[i]
      BY <1>8, <3>2
    <3> QED BY <3>1, <3>3
  <2> QED BY <2>1, <2>2
<1> QED BY <1>8, <1>9, <1>10

\* A call that met no change since its sync decides from an exact mirror.
LEMMA QuietExact ==
    ASSUME Heard, quiet, call # NoCall, call.synced
    PROVE  Exact(mirror)
<1>1. inbox = <<>>
  BY DEF Heard, Quiet
<1>2. PICK y \in Mirrors(Known) : Leads(Known, mirror, inbox, y) /\ Exact(y)
  BY DEF Heard, Informed
<1>3. Len(inbox) = 0
  BY <1>1
<1>4. mirror = y
  BY <1>2, <1>3 DEF Leads
<1> QED BY <1>2, <1>4

LEMMA MirrorKnown == Heard => mirror \in Mirrors(Known)
<1> SUFFICES ASSUME Heard PROVE mirror \in Mirrors(Known)
  OBVIOUS
<1>1. inbox \in Seq(Events)
  BY DEF Heard, Wired
<1>2. Len(inbox) \in Nat
  BY <1>1
<1>3. PICK m \in [0 .. Len(inbox) -> Mirrors(Known)] : m[0] = mirror
  BY DEF Heard, Informed, Leads
<1> QED BY <1>2, <1>3

LEMMA CallFields ==
    ASSUME NEW c \in Calls
    PROVE  /\ c.op = "setAcceptance" => c.surf \in Surfaces /\ c.seats \in SUBSET Seats
           /\ c.op = "setFocus" => c.surfaces \in FocusLists /\ c.on \in BOOLEAN
           /\ c.op # "none"
  BY DEF Calls

LEMMA CallIsIn == Heard /\ call.op # "none" => call \in Calls
  BY DEF Heard, Wired, NoCall

\* ilm_setInputAcceptanceOn asks for the difference.
LEMMA AskedCall ==
    ASSUME KInv, SeatsKept, Heard, Asked, Parting, ilm_setInputAcceptanceOn
    PROVE  SeatsKept' /\ Heard' /\ Asked'
<1>1. call \in Calls /\ call.synced /\ call.op = "setAcceptance"
  BY CallIsIn DEF ilm_setInputAcceptanceOn
<1>2. PICK s, T : s = call.surf /\ T = call.seats
  OBVIOUS
<1>3. s \in Surfaces /\ T \in SUBSET Seats
  BY <1>1, <1>2, CallFields
<1>4. PICK M : M = mirror.accepted[s]
  OBVIOUS
<1>5. M \subseteq Known /\ M \subseteq Seats /\ mirror.seats \subseteq Known
  BY <1>3, <1>4, MirrorKnown, MirrorOf DEF Known, KInv, KeyTypes, SeatsKept
<1>6. CASE s \in mirror.surfaces /\ T \subseteq mirror.seats
  <2>1. PICK d : d = Difference(s, T)
    OBVIOUS
  <2>2. Return(d) /\ want' = [want EXCEPT ![s] = IF quiet THEN T ELSE None]
    BY <1>2, <1>6, <2>1 DEF ilm_setInputAcceptanceOn
  <2>3. /\ d \in Seq(Requests)
        /\ \A i \in 1 .. Len(d) : /\ d[i].op = "acceptance" /\ d[i].surf = s
                                  /\ ((d[i].on /\ d[i].seat \in T \ M) \/ (~d[i].on /\ d[i].seat \in M \ T))
        /\ \A t \in (T \ M) \cup (M \ T) : \E i \in 1 .. Len(d) : d[i].seat = t
    <3>1. IsFiniteSet(Seats) /\ M \subseteq Seats
      BY <1>5, IlmInputAssumption
    <3> QED BY ONLY <1>3, <1>4, <2>1, <3>1, DifferenceSeq
  <2>4. NoSync(d)
    BY <2>3 DEF NoSync
  <2>5. SeatsKept' /\ Heard' /\ wire = <<>> /\ wire' = d
    BY <1>1, <2>2, <2>3, <2>4, HeardReturn
  <2>6. UNCHANGED <<list_surface, seat_list, gone, accepted>>
    BY <2>2 DEF Return, world
  <2>7. KnownAsked(wire)'
    BY <1>5, <1>6, <2>3, <2>5, <2>6 DEF KnownAsked, Known
  <2>8. ASSUME NEW r \in Surfaces, want'[r] # None
        PROVE  Settling(wire, accepted[r], r, want[r])'
    <3>1. CASE r # s
      <4>1. want'[r] = want[r]
        BY <2>2, <3>1 DEF Asked
      <4>2. Settling(wire, accepted[r], r, want[r])
        BY <2>8, <4>1 DEF Asked
      <4>3. Len(wire) = 0
        BY <2>5
      <4>4. \A t \in seat_list \ gone : (t \in accepted[r]) <=> (t \in want[r])
        BY <4>2, <4>3 DEF Settling
      <4>5. \A t : \A i \in 1 .. Len(wire') : ~Asks(wire'[i], r, t)
        BY <2>3, <2>5, <3>1 DEF Asks
      <4> QED BY <2>6, <4>1, <4>2, <4>4, <4>5 DEF Settling
    <3>2. CASE r = s
      <4>1. want'[s] = IF quiet THEN T ELSE None
        BY <1>3, <2>2 DEF Asked
      <4>2. quiet /\ want'[s] = T
        BY <2>8, <3>2, <4>1
      <4>3. Exact(mirror)
        BY <1>1, <4>2, QuietExact, CallKinds
      <4>4. s \in list_surface /\ T \subseteq seat_list
        BY <1>6, <4>3 DEF Exact
      <4>5. \A t \in seat_list \ gone : (t \in M) <=> (t \in accepted[s])
        BY <1>4, <4>3, <4>4 DEF Exact, SeatsKept
      <4>6. ASSUME NEW t \in seat_list \ gone
            PROVE  /\ \A i \in 1 .. Len(d) : Asks(d[i], s, t) => d[i].on <=> (t \in T)
                   /\ (\A i \in 1 .. Len(d) : ~Asks(d[i], s, t)) => (t \in accepted[s]) <=> (t \in T)
        <5>1. ASSUME NEW i \in 1 .. Len(d), Asks(d[i], s, t) PROVE d[i].on <=> (t \in T)
          <6>1. ((d[i].on /\ d[i].seat \in T \ M) \/ (~d[i].on /\ d[i].seat \in M \ T))
            BY <2>3
          <6>2. d[i].seat = t
            BY <5>1 DEF Asks
          <6> QED BY <6>1, <6>2
        <5>2. (\A i \in 1 .. Len(d) : ~Asks(d[i], s, t)) => t \notin (T \ M) \cup (M \ T)
          BY <2>3 DEF Asks
        <5> QED BY <4>5, <5>1, <5>2
      <4> QED BY <2>5, <2>6, <3>2, <4>2, <4>4, <4>6 DEF Settling
    <3> QED BY <3>1, <3>2
  <2>9. want' = [r \in Surfaces |-> want'[r]]
    BY <2>2 DEF Asked
  <2> QED BY <2>5, <2>7, <2>8, <2>9 DEF Asked
<1>7. CASE ~(s \in mirror.surfaces /\ T \subseteq mirror.seats)
  <2>1. Return(<<>>) /\ UNCHANGED want
    BY <1>2, <1>7 DEF ilm_setInputAcceptanceOn
  <2>2. <<>> \in Seq(Requests) /\ NoSync(<<>>) /\ Len(<<>>) = 0
    BY DEF NoSync
  <2>3. SeatsKept' /\ Heard' /\ wire = <<>> /\ wire' = <<>>
    BY <1>1, <2>1, <2>2, HeardReturn
  <2>4. UNCHANGED <<list_surface, seat_list, gone, accepted>>
    BY <2>1 DEF Return, world
  <2> QED BY <2>1, <2>3, <2>4, AskedUnchanged
<1> QED BY <1>6, <1>7

LEMMA OtherCalls ==
    ASSUME KInv, SeatsKept, Heard, Asked, Parting, ilm_setInputFocus \/ GetterReturns
    PROVE  SeatsKept' /\ Heard' /\ Asked'
<1>1. call \in Calls /\ call.synced /\ UNCHANGED want
  BY CallIsIn DEF ilm_setInputFocus, GetterReturns
<1>2. PICK reqs \in Seq(Requests) :
          Return(reqs) /\ NoSync(reqs) /\ \A i \in 1 .. Len(reqs) : reqs[i].op # "acceptance"
  <2>1. CASE GetterReturns
    <3>1. Return(<<>>) /\ <<>> \in Seq(Requests) /\ 1 .. Len(<<>>) = {}
      BY <2>1 DEF GetterReturns
    <3> QED BY <3>1 DEF NoSync
  <2>2. CASE ilm_setInputFocus
    <3>1. call.surfaces \in Seq(Surfaces) /\ call.on \in BOOLEAN
      BY <1>1, <2>2, CallFields, IlmInputAssumption DEF ilm_setInputFocus
    <3>2. PICK n \in 0 .. Len(call.surfaces) :
            Return([i \in 1 .. n |-> [op |-> "focus", surf |-> call.surfaces[i], on |-> call.on]])
      BY <2>2 DEF ilm_setInputFocus
    <3>3. PICK reqs : reqs = [i \in 1 .. n |-> [op |-> "focus", surf |-> call.surfaces[i], on |-> call.on]]
      OBVIOUS
    <3>4. n \in Nat /\ \A i \in 1 .. n : call.surfaces[i] \in Surfaces
      BY <3>1
    <3>5. \A i \in 1 .. n : /\ reqs[i] \in [op : {"focus"}, surf : Surfaces, on : BOOLEAN]
                            /\ reqs[i].op = "focus"
      BY <3>1, <3>3, <3>4
    <3>6. reqs \in [1 .. n -> Requests]
      BY <3>3, <3>5 DEF Requests
    <3>7. reqs \in Seq(Requests) /\ Len(reqs) = n
      BY <3>4, <3>6
    <3> QED BY <3>2, <3>3, <3>5, <3>7 DEF NoSync
  <2> QED BY <2>1, <2>2
<1>3. SeatsKept' /\ Heard' /\ wire = <<>> /\ wire' = reqs
  BY <1>1, <1>2, HeardReturn
<1>4. UNCHANGED <<list_surface, seat_list, gone, accepted>>
  BY <1>2 DEF Return, world
<1>5. Len(wire) = 0
  BY <1>3
<1>6. Asked'
  BY <1>1, <1>2, <1>3, <1>4, <1>5, AskedNothing
<1> QED BY <1>3, <1>6

-----------------------------------------------------------------------------
(* The theorems.                                                           *)

Base == KInv /\ SeatsKept /\ Heard /\ Asked

LEMMA BaseInit == Init => Base
<1> SUFFICES ASSUME Init PROVE Base
  OBVIOUS
<1>1. KInv
  BY KeysInit
<1>2. SeatsKept
  BY DEF Init, SeatsKept, Clear, Defaults, KInv, KeyTypes
<1>3. wire = <<>> /\ inbox = <<>> /\ call = NoCall /\ quiet = FALSE
  BY DEF Init
<1>4. Wired
  <2>1. <<>> \in Seq(Requests)
    OBVIOUS
  <2>2. <<>> \in Seq(Events)
    OBVIOUS
  <2>3. quiet \in BOOLEAN
    BY <1>3
  <2> QED BY <1>3, <2>1, <2>2, <2>3 DEF Wired
<1>5. Synced(call, wire, inbox) /\ Quiet(quiet, call, wire, inbox)
  <2>1. 1 .. Len(<<>>) = {}
    OBVIOUS
  <2> QED BY <1>3, <2>1 DEF Synced, Quiet, NoSync, NoDone
<1>6. Informed
  <2>1. mirror \in Mirrors(Known)
    BY <1>1, <1>2 DEF Init, Mirrors, Known, KInv, KeyTypes, SeatsKept
  <2>2. Exact(mirror)
    BY DEF Init, Exact, Clear, HasFocus
  <2>3. Leads(Known, mirror, <<>>, mirror)
    BY <2>1, LeadsNowhere
  <2> QED BY <1>3, <2>1, <2>2, <2>3 DEF Informed
<1>7. Asked
  <2>1. 1 .. Len(<<>>) = {} /\ want = [s \in Surfaces |-> None]
    BY DEF Init
  <2> QED BY <1>3, <2>1 DEF Asked, KnownAsked
<1> QED BY <1>1, <1>2, <1>4, <1>5, <1>6, <1>7 DEF Base, Heard

LEMMA BaseUnchanged == Base /\ UNCHANGED vars => Base'
<1> SUFFICES ASSUME Base, UNCHANGED vars PROVE Base'
  OBVIOUS
<1>1. KInv'
  BY KeysLibrary DEF Base
<1>2. UNCHANGED <<parted, world, wire, inbox, mirror, call, quiet, want>>
  BY DEF vars, ghost
<1>3. SeatsKept' /\ Known' = Known
  BY <1>2 DEF Base, SeatsKept, Known, world
<1>4. Heard'
  <2>1. Informed'
    <3>1. PICK y \in Mirrors(Known) : Leads(Known, mirror, inbox, y) /\ Exact(y)
      BY DEF Base, Heard, Informed
    <3>2. Exact(y)'
      BY <1>2, <3>1 DEF Exact, world, HasFocus
    <3> QED BY <1>2, <1>3, <3>1, <3>2 DEF Informed
  <2>2. Wired'
    BY <1>2 DEF Base, Heard, Wired
  <2>3. Synced(call', wire', inbox') /\ Quiet(quiet', call', wire', inbox')
    BY <1>2 DEF Base, Heard
  <2>4. Synced(call, wire, inbox)' /\ Quiet(quiet, call, wire, inbox)'
    BY <2>3
  <2> QED BY <2>1, <2>2, <2>4 DEF Heard
<1>5. Asked'
  BY <1>2, AskedUnchanged DEF Base, world
<1> QED BY <1>1, <1>3, <1>4, <1>5 DEF Base

LEMMA BaseTyping == Base /\ Typing /\ Parting => Base'
<1> SUFFICES ASSUME Base, Typing, Parting PROVE Base'
  OBVIOUS
<1>1. KInv'
  BY KeysNext DEF Base, Next
<1>2. UNCHANGED <<world, wire, inbox, mirror, call, quiet, want>>
  BY DEF Typing, keyboard_grab_key, keyboard_grab_modifiers, PassOn, ghost
<1>3. SeatsKept' /\ Known' = Known
  BY <1>2, FocusKept DEF Base, SeatsKept, Known, world
<1>4. Heard'
  <2>1. Informed'
    <3>1. PICK y \in Mirrors(Known) : Leads(Known, mirror, inbox, y) /\ Exact(y)
      BY DEF Base, Heard, Informed
    <3>2. Exact(y)'
      BY <1>2, <3>1, FocusKept DEF Exact, world, Base, KInv, KeyTypes
    <3> QED BY <1>2, <1>3, <3>1, <3>2 DEF Informed
  <2>2. Wired'
    BY <1>2 DEF Base, Heard, Wired
  <2>3. Synced(call', wire', inbox') /\ Quiet(quiet', call', wire', inbox')
    BY <1>2 DEF Base, Heard
  <2>4. Synced(call, wire, inbox)' /\ Quiet(quiet, call, wire, inbox)'
    BY <2>3
  <2> QED BY <2>1, <2>2, <2>4 DEF Heard
<1>5. Asked'
  BY <1>2, AskedUnchanged DEF Base, world
<1> QED BY <1>1, <1>3, <1>4, <1>5 DEF Base

LEMMA BaseNext == Base /\ [Next]_vars => Base'
<1> SUFFICES ASSUME Base, [Next]_vars PROVE Base'
  OBVIOUS
<1>1. KInv'
  BY KeysNext DEF Base
<1>2. CASE CallLibrary /\ Parting
  <2>1. SeatsKept' /\ Heard'
    BY <1>2, HeardCall DEF Base
  <2>2. UNCHANGED <<want, accepted, list_surface, seat_list, gone>>
        /\ wire' = Append(wire, [op |-> "sync"])
    BY <1>2 DEF CallLibrary, Begin, world
  <2>3. Asked'
    <3>1. PICK r : r = [op |-> "sync"]
      OBVIOUS
    <3>2. r \in Requests /\ r.op # "acceptance" /\ wire \in Seq(Requests)
      BY <3>1 DEF Requests, Base, Heard, Wired
    <3>3. /\ Len(wire) \in Nat /\ Len(wire') = Len(wire) + 1 /\ wire'[Len(wire')] = r
          /\ \A i \in 1 .. Len(wire) : wire'[i] = wire[i]
      BY <2>2, <3>1, <3>2, AppendProperties
    <3>4. ASSUME NEW i \in 1 .. Len(wire'), wire'[i].op = "acceptance"
          PROVE  \E j \in 1 .. Len(wire) : wire[j] = wire'[i]
      <4>1. i \in 1 .. Len(wire)
        BY <3>2, <3>3, <3>4
      <4> QED BY <3>3, <4>1
    <3>5. ASSUME NEW j \in 1 .. Len(wire) PROVE \E i \in 1 .. Len(wire') : wire[j] = wire'[i]
      <4>1. j \in 1 .. Len(wire')
        BY <3>3
      <4> QED BY <3>3, <4>1
    <3> QED BY <2>2, <3>4, <3>5, AskedNothing DEF Base
  <2> QED BY <1>1, <2>1, <2>3 DEF Base
<1>3. CASE ilm_setInputAcceptanceOn /\ Parting
  BY <1>1, <1>3, AskedCall DEF Base
<1>4. CASE (ilm_setInputFocus \/ GetterReturns) /\ Parting
  BY <1>1, <1>4, OtherCalls DEF Base
<1>5. CASE HandleRequest /\ Parting
  BY <1>1, <1>5, HeardRequest, AskedRequest DEF Base
<1>6. CASE Dispatch /\ Parting
  <2>1. UNCHANGED <<want, wire, accepted, list_surface, seat_list, gone>>
    BY <1>6 DEF Dispatch, world, ghost
  <2> QED BY <1>1, <1>6, <2>1, HeardDispatch, AskedUnchanged DEF Base
<1>7. CASE World /\ Parting
  BY <1>1, <1>7, HeardWorld, AskedWorld DEF Base
<1>8. CASE Typing /\ Parting
  BY <1>8, BaseTyping
<1>9. CASE Finished \/ UNCHANGED vars
  BY <1>9, BaseUnchanged DEF Finished
<1> QED BY <1>2, <1>3, <1>4, <1>5, <1>6, <1>7, <1>8, <1>9 DEF Next

\* What was asked for is accepted when nothing is left on its way.
LEMMA BaseAccepts == Base => AcceptanceAsAsked
<1> SUFFICES ASSUME Base, NEW s \in Surfaces, want[s] # None,
                    \A i \in DOMAIN wire : wire[i].op # "acceptance"
             PROVE  accepted[s] \ gone = want[s] \ gone
  BY DEF AcceptanceAsAsked
<1>1. DOMAIN wire = 1 .. Len(wire)
  BY DEF Base, Heard, Wired
<1>2. Settling(wire, accepted[s], s, want[s])
  BY DEF Base, Asked
<1>3. \A t \in seat_list \ gone : \A i \in 1 .. Len(wire) : ~Asks(wire[i], s, t)
  BY <1>1 DEF Asks
<1>4. accepted[s] \subseteq seat_list
  BY DEF Base, SeatsKept
<1> QED BY <1>2, <1>3, <1>4 DEF Settling

LEMMA BaseAnswers == Base => AnswersAreCurrent
<1> SUFFICES ASSUME Base, quiet, call # NoCall, call.synced PROVE
        /\ mirror.surfaces = list_surface
        /\ \A s \in list_surface : /\ accepted[s] \subseteq ilm_getInputAcceptanceOn(s)
                                   /\ ilm_getInputAcceptanceOn(s) \ accepted[s] \subseteq gone
        /\ ilm_getInputDevices(POINTER) = seat_list
        /\ ilm_getInputDevices(KEYBOARD) = keyboard
        /\ \A t \in seat_list : (KEYBOARD \in ilm_getInputDeviceCapabilities(t)) = (t \in keyboard)
        /\ ilm_getInputFocus = [s \in list_surface |-> focus[s] # {} /\ s \notin parted]
        /\ ilm_getDefaultSeat = seat_list \cap {DefaultSeat}
  BY DEF AnswersAreCurrent
<1>1. Exact(mirror)
  BY QuietExact DEF Base
<1>2. mirror.surfaces = list_surface /\ mirror.seats = seat_list /\ mirror.keyboards = keyboard
  BY <1>1 DEF Exact
<1>3. \A s \in list_surface : /\ accepted[s] \subseteq ilm_getInputAcceptanceOn(s)
                              /\ ilm_getInputAcceptanceOn(s) \ accepted[s] \subseteq gone
  BY <1>1 DEF Exact, ilm_getInputAcceptanceOn
<1>4. POINTER # KEYBOARD
  BY DEF POINTER, KEYBOARD
<1>5. ilm_getInputDevices(POINTER) = seat_list /\ ilm_getInputDevices(KEYBOARD) = keyboard
  BY <1>2, <1>4 DEF ilm_getInputDevices
<1>6. \A t \in seat_list : (KEYBOARD \in ilm_getInputDeviceCapabilities(t)) = (t \in keyboard)
  BY <1>5 DEF ilm_getInputDeviceCapabilities
<1>7. ilm_getInputFocus = [s \in list_surface |-> focus[s] # {} /\ s \notin parted]
  <2>1. mirror.focus = {s \in list_surface : focus[s] # {} /\ s \notin parted}
    BY <1>1 DEF Exact, HasFocus
  <2> QED BY <1>2, <2>1 DEF ilm_getInputFocus
<1>8. ilm_getDefaultSeat = seat_list \cap {DefaultSeat}
  BY <1>2 DEF ilm_getDefaultSeat
<1> QED BY <1>2, <1>3, <1>5, <1>6, <1>7, <1>8

\* Once the requests of ilm_setInputAcceptanceOn are handled the surface
\* accepts just the seats it was given, however seats, surfaces and other
\* clients come between, for any number of them: the library asks for the
\* difference to a mirror that is exact but for seats that went, and in wire
\* and accepted together nothing else is asked for of any other seat; of one
\* that went and came back under its name nothing is said
\* (setup_input_acceptance, destroy_seat).
THEOREM AcceptanceAlwaysAsAsked == Spec => []AcceptanceAsAsked
<1>1. Init => Base
  BY BaseInit
<1>2. Base /\ [Next]_vars => Base'
  BY BaseNext
<1> QED BY <1>1, <1>2, BaseAccepts, PTL DEF Spec

\* What a call answers is exact when nothing happened since its sync, for any
\* number of seats with a keyboard and of seats that go and come back: the
\* events on their way always lead from the mirror to the compositor
\* (sync_and_acquire_instance, the listeners of ilm_input.c).  Exact, that is,
\* but for what the events leave out: a surface goes on listing a seat that
\* went, and has the focus until the first of its keyboards leaves.
THEOREM AnswersAlwaysCurrent == Spec => []AnswersAreCurrent
<1>1. Init => Base
  BY BaseInit
<1>2. Base /\ [Next]_vars => Base'
  BY BaseNext
<1> QED BY <1>1, <1>2, BaseAnswers, PTL DEF Spec
=============================================================================
