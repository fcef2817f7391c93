--------------------------- MODULE IviInputProofs ---------------------------
(***************************************************************************)
(* Theorems about IviInput for any surfaces, seats, clients and masks.     *)
(***************************************************************************)
EXTENDS IviInput, TLAPS

USE InputAssumption

\* A view in focus is of a surface there is, and its seat has the device:
\* what FocusIsAccepted needs to be inductive.
Listed ==
    \A t \in Seats : /\ pointer_focus[t] \in Surfaces => pointer_focus[t] \in list_surface
                     /\ touch_focus[t] \in Surfaces => touch_focus[t] \in list_surface
Capable ==
    \A t \in Seats : /\ pointer_focus[t] # None => POINTER \in caps[t]
                     /\ touch_focus[t] # None => TOUCH \in caps[t]

IInv == TypeOK /\ FocusIsAccepted /\ Listed /\ Capable

LEMMA DevicesDiffer ==
    /\ {POINTER, KEYBOARD, TOUCH} = Devices
    /\ POINTER # KEYBOARD /\ POINTER # TOUCH /\ KEYBOARD # TOUCH
BY DEF POINTER, KEYBOARD, TOUCH, Devices

-----------------------------------------------------------------------------
(* Flags.                                                                  *)

LEMMA FlaggedType ==
    ASSUME focus \in [Surfaces -> [Seats -> SUBSET Devices]], NEW L, NEW G
    PROVE  /\ Flagged(L, G) \in [Surfaces -> [Seats -> SUBSET Devices]]
           /\ \A s \in Surfaces, t \in Seats, d \in Devices :
                 d \in Flagged(L, G)[s][t] <=> \/ d \in focus[s][t] /\ <<s, t, d>> \notin L
                                               \/ <<s, t, d>> \in G
BY DEF Flagged

LEMMA SendFocusType ==
    ASSUME told_focus \in [Clients -> [Surfaces -> SUBSET Devices]], NEW L, NEW G,
           SendFocus(L, G)
    PROVE  told_focus' \in [Clients -> [Surfaces -> SUBSET Devices]]
BY DEF SendFocus

LEMMA SendAcceptanceType ==
    ASSUME told_accepted \in [Clients -> [Surfaces -> SUBSET Seats]],
           NEW S, NEW t \in Seats, NEW accept, SendAcceptance(S, t, accept)
    PROVE  told_accepted' \in [Clients -> [Surfaces -> SUBSET Seats]]
BY DEF SendAcceptance

LEMMA PointerPairs ==
    ASSUME NEW T, NEW out
    PROVE  /\ \A s, t, d : <<s, t, d>> \in PointerLost(T, out)
                             <=> t \in T /\ d = POINTER /\ s \in out[t].lose
           /\ \A s, t, d : <<s, t, d>> \in PointerGained(T, out)
                             <=> t \in T /\ d = POINTER /\ s \in out[t].gain
BY DEF PointerLost, PointerGained

-----------------------------------------------------------------------------
(* What a handler makes of a pointer.                                      *)

\* The new focus is of a surface that gains it, accepting the seat, or had it
\* before and does not lose it.
IsOutcome(acc, t, o) ==
    /\ o.at \in Views /\ (o.at \in Surfaces => o.at \in list_surface)
    /\ o.forced \in Surfaces \cup {None}
    /\ o.lose \subseteq list_surface
    /\ o.gain \subseteq {s \in list_surface : t \in acc[s]}
    /\ \A s \in list_surface :
          o.at = s => s \in o.gain \/ (s = pointer_focus[t] /\ s \notin o.lose)

LEMMA StayOutcome ==
    ASSUME TypeOK, Listed, NEW acc, NEW t \in Seats, NEW f \in Surfaces \cup {None}, NEW en
    PROVE  IsOutcome(acc, t, Stay(t, f, en))
BY DEF IsOutcome, Stay, Outcome, TypeOK, Listed

LEMMA LeaveOutcome ==
    ASSUME TypeOK, Listed, NEW acc, NEW t \in Seats, NEW f \in Surfaces \cup {None}, NEW en
    PROVE  IsOutcome(acc, t, LeaveWestFocus(t, f, en))
BY DEF IsOutcome, LeaveWestFocus, Outcome, TypeOK, Listed, Accepting, Views

LEMMA SetOutcome ==
    ASSUME TypeOK, Listed, NEW acc, NEW t \in Seats, NEW f \in Surfaces \cup {None}, NEW en,
           NEW v \in list_surface \cup {None, Elsewhere}
    PROVE  IsOutcome(acc, t, SetWestFocus(acc, t, v, f, en))
<1>1. CASE v = pointer_focus[t]
  BY <1>1, StayOutcome DEF SetWestFocus
<1>2. CASE v # pointer_focus[t]
  BY <1>2 DEF IsOutcome, SetWestFocus, Outcome, TypeOK, Listed, Accepting, Views
<1> QED BY <1>1, <1>2

LEMMA GrabOutcome ==
    ASSUME TypeOK, Listed, NEW acc, NEW t \in Seats, NEW f \in Surfaces \cup {None},
           NEW en \in BOOLEAN, NEW o \in GrabFocus(acc, t, f, en)
    PROVE  IsOutcome(acc, t, o)
<1>1. \/ o = Stay(t, f, en)
      \/ o = Stay(t, None, en)
      \/ o = LeaveWestFocus(t, None, en)
      \/ \E v \in list_surface \cup {None, Elsewhere} : o = SetWestFocus(acc, t, v, f, en)
  BY DEF GrabFocus, ForcedViews
<1> QED BY <1>1, StayOutcome, LeaveOutcome, SetOutcome

LEMMA ClearOutcome ==
    ASSUME TypeOK, Listed, NEW acc, NEW t \in Seats
    PROVE  IsOutcome(acc, t, ClearFocus(t)) /\ ClearFocus(t).at = None
<1>1. forced[t] \in Surfaces \cup {None}
  BY DEF TypeOK
<1>2. IsOutcome(acc, t, ClearFocus(t))
  BY <1>1, StayOutcome, LeaveOutcome DEF ClearFocus
<1>3. ClearFocus(t).at = None
  BY DEF ClearFocus, Stay, LeaveWestFocus, Outcome
<1> QED BY <1>2, <1>3

LEMMA SurfOutcome ==
    ASSUME TypeOK, Listed, NEW t \in Seats, NEW s \in Surfaces, NEW enabled \in BOOLEAN,
           NEW o \in SetFocusSurf(t, s, enabled)
    PROVE  IsOutcome(accepted, t, o)
<1>1. forced[t] \in Surfaces \cup {None}
  BY DEF TypeOK
<1>2. CASE o = Stay(t, forced[t], t \in forced_enabled)
  BY <1>1, <1>2, StayOutcome
<1>3. CASE \E en \in BOOLEAN : o \in GrabFocus(accepted, t, s, en)
  BY <1>3, GrabOutcome
<1> QED BY <1>2, <1>3 DEF SetFocusSurf

-----------------------------------------------------------------------------
(* A step of the pointers of seats T.  L and G are the flags it changes.    *)

\* What the flags of a surface need of a change.
FlagsFit(L, G) ==
    /\ \A s \in Surfaces, t \in Seats, d \in Devices : <<s, t, d>> \in G => t \in accepted'[s]
    /\ \A s \in Surfaces, t \in Seats : accepted[s] \subseteq accepted'[s]

\* Flags that are set by a surface that accepts the seat leave the others empty.
LEMMA FlagsEmpty ==
    ASSUME TypeOK, NEW L, NEW G, FlagsFit(L, G), focus' = Flagged(L, G)
    PROVE  /\ focus' \in [Surfaces -> [Seats -> SUBSET Devices]]
           /\ \A s \in Surfaces, t \in Seats : t \notin accepted'[s] => focus'[s][t] = {}
<1>1. focus \in [Surfaces -> [Seats -> SUBSET Devices]]
  BY DEF TypeOK
<1>2. /\ focus' \in [Surfaces -> [Seats -> SUBSET Devices]]
      /\ \A s \in Surfaces, t \in Seats, d \in Devices :
            d \in focus'[s][t] => d \in focus[s][t] \/ <<s, t, d>> \in G
  BY <1>1, FlaggedType
<1>3. ASSUME NEW s \in Surfaces, NEW t \in Seats, t \notin accepted'[s]
      PROVE  focus'[s][t] = {}
  <2>1. focus[s][t] = {}
    BY <1>3 DEF TypeOK, FlagsFit
  <2>2. \A d \in Devices : d \notin focus'[s][t]
    BY <1>2, <1>3, <2>1 DEF FlagsFit
  <2>3. focus'[s][t] \subseteq Devices
    BY <1>2
  <2> QED BY <2>2, <2>3
<1> QED BY <1>2, <1>3

PointerChange(T, out, L, G) ==
    /\ T \subseteq Seats
    /\ \A t \in T : IsOutcome(accepted', t, out[t])
    /\ MovePointers(T, out)
    /\ focus' = Flagged(L, G) /\ FlagsFit(L, G)
    /\ \A s \in Surfaces, t \in Seats :
          /\ <<s, t, POINTER>> \in L => t \in T /\ s \in out[t].lose
          /\ <<s, t, TOUCH>> \notin L
    /\ \A t \in T : \A s \in out[t].gain : <<s, t, POINTER>> \in G
    /\ list_surface' = list_surface /\ touch_focus' = touch_focus

LEMMA PointersMoved ==
    ASSUME IInv, NEW T, NEW out, NEW L, NEW G, PointerChange(T, out, L, G)
    PROVE  /\ pointer_focus' \in [Seats -> Views]
           /\ forced' \in [Seats -> Surfaces \cup {None}]
           /\ forced_enabled' \subseteq Seats
           /\ FocusIsAccepted' /\ Listed'
           /\ focus' \in [Surfaces -> [Seats -> SUBSET Devices]]
           /\ \A s \in Surfaces, t \in Seats : t \notin accepted'[s] => focus'[s][t] = {}
<1>1. /\ pointer_focus' \in [Seats -> Views]
      /\ forced' \in [Seats -> Surfaces \cup {None}]
      /\ forced_enabled' \subseteq Seats
      /\ \A t \in Seats : pointer_focus'[t] = IF t \in T THEN out[t].at ELSE pointer_focus[t]
  BY DEF IInv, TypeOK, MovePointers, IsOutcome, PointerChange
<1>2. Listed'
  <2>1. list_surface' = list_surface /\ touch_focus' = touch_focus
    BY DEF PointerChange
  <2> QED BY <1>1, <2>1 DEF IInv, Listed, IsOutcome, PointerChange
<1>3. \A s \in Surfaces, t \in Seats, d \in Devices :
        d \in focus'[s][t] <=> \/ d \in focus[s][t] /\ <<s, t, d>> \notin L
                              \/ <<s, t, d>> \in G
  BY FlaggedType DEF IInv, TypeOK, PointerChange
<1>4. ASSUME NEW t \in Seats, NEW s \in list_surface, pointer_focus'[t] = s
      PROVE  t \in accepted'[s] /\ POINTER \in focus'[s][t]
  <2>1. s \in Surfaces /\ POINTER \in Devices
    BY DevicesDiffer DEF IInv, TypeOK
  <2>2. CASE t \in T /\ s \in out[t].gain
    BY <1>3, <2>1, <2>2 DEF IsOutcome, PointerChange
  <2>3. CASE s = pointer_focus[t] /\ <<s, t, POINTER>> \notin L
    BY <1>3, <2>1, <2>3 DEF IInv, FocusIsAccepted, FlagsFit, PointerChange
  <2>4. CASE t \notin T
    BY <1>1, <1>4, <2>1, <2>3, <2>4 DEF PointerChange
  <2>5. CASE t \in T /\ s = pointer_focus[t] /\ s \notin out[t].lose
    BY <2>1, <2>3, <2>5 DEF PointerChange
  <2> QED BY <1>1, <1>4, <2>2, <2>4, <2>5 DEF IsOutcome, PointerChange
<1>5. ASSUME NEW t \in Seats, NEW s \in list_surface, touch_focus'[t] = s
      PROVE  t \in accepted'[s] /\ TOUCH \in focus'[s][t]
  <2>1. s \in Surfaces /\ TOUCH \in Devices
    BY DevicesDiffer DEF IInv, TypeOK
  <2> QED BY <1>3, <1>5, <2>1 DEF IInv, FocusIsAccepted, FlagsFit, PointerChange
<1>6. FocusIsAccepted'
  BY <1>4, <1>5 DEF FocusIsAccepted, PointerChange
<1>7. /\ focus' \in [Surfaces -> [Seats -> SUBSET Devices]]
      /\ \A s \in Surfaces, t \in Seats : t \notin accepted'[s] => focus'[s][t] = {}
  <2>1. TypeOK /\ FlagsFit(L, G) /\ focus' = Flagged(L, G)
    BY DEF PointerChange, IInv
  <2> QED BY <2>1, FlagsEmpty
<1> QED BY <1>1, <1>2, <1>6, <1>7

-----------------------------------------------------------------------------
(* The grab of the pointer.                                                *)

\* The pointer of seat t takes outcome o, with flags L and G, while the surfaces
\* accept no less.
FlagsOf(t, o, L, G) ==
    /\ FlagsFit(L, G)
    /\ \A s \in Surfaces, u \in Seats :
          /\ <<s, u, POINTER>> \in L => u = t /\ s \in o.lose
          /\ <<s, u, TOUCH>> \notin L
    /\ \A s \in o.gain : <<s, t, POINTER>> \in G

OneChange(t, o, L, G) ==
    /\ IsOutcome(accepted', t, o) /\ MovePointers({t}, [u \in {t} |-> o])
    /\ focus' = Flagged(L, G) /\ FlagsOf(t, o, L, G)
    /\ list_surface' = list_surface /\ touch_focus' = touch_focus

LEMMA OneIsChange ==
    ASSUME NEW t \in Seats, NEW o, NEW L, NEW G, OneChange(t, o, L, G)
    PROVE  \E T, out : PointerChange(T, out, L, G)
<1>1. PICK T, out : T = {t} /\ out = [u \in T |-> o]
  OBVIOUS
<1>2. T \subseteq Seats /\ \A u \in T : u = t /\ out[u] = o
  BY <1>1
<1>3. MovePointers(T, out)
  BY <1>1 DEF OneChange
<1>4. PointerChange(T, out, L, G)
  BY <1>1, <1>2, <1>3 DEF PointerChange, OneChange, FlagsOf
<1> QED BY <1>4

PairsOf(t, o, L, G) ==
    /\ \A s, u, d : <<s, u, d>> \in L <=> u = t /\ d = POINTER /\ s \in o.lose
    /\ \A s, u, d : <<s, u, d>> \in G <=> u = t /\ d = POINTER /\ s \in o.gain

LEMMA OnePairs ==
    ASSUME NEW t, NEW o
    PROVE  PairsOf(t, o, PointerLost({t}, [v \in {t} |-> o]), PointerGained({t}, [v \in {t} |-> o]))
<1>1. PICK T, out : T = {t} /\ out = [v \in T |-> o]
  OBVIOUS
<1>2. out[t] = o /\ \A u : u \in T <=> u = t
  BY <1>1
<1>3. /\ \A s, u, d : <<s, u, d>> \in PointerLost(T, out)
                         <=> u = t /\ d = POINTER /\ s \in o.lose
      /\ \A s, u, d : <<s, u, d>> \in PointerGained(T, out)
                         <=> u = t /\ d = POINTER /\ s \in o.gain
  BY <1>2, PointerPairs
<1> QED BY <1>1, <1>3 DEF PairsOf

LEMMA OneFlags ==
    ASSUME NEW t \in Seats, NEW o, IsOutcome(accepted', t, o), NEW L, NEW G,
           \A s \in Surfaces : accepted[s] \subseteq accepted'[s],
           PairsOf(t, o, L, G)
    PROVE  FlagsOf(t, o, L, G)
<1>1. FlagsFit(L, G)
  <2> SUFFICES ASSUME NEW s \in Surfaces, NEW u \in Seats, NEW d \in Devices, <<s, u, d>> \in G
               PROVE  u \in accepted'[s]
    BY DEF FlagsFit
  <2>1. u = t /\ s \in o.gain
    BY DEF PairsOf
  <2> QED BY <2>1 DEF IsOutcome
<1>2. \A s \in Surfaces, u \in Seats :
        /\ <<s, u, POINTER>> \in L => u = t /\ s \in o.lose
        /\ <<s, u, TOUCH>> \notin L
  BY DevicesDiffer DEF PairsOf
<1>3. \A s \in o.gain : <<s, t, POINTER>> \in G
  BY DEF PairsOf
<1> QED BY <1>1, <1>2, <1>3 DEF FlagsOf

LEMMA MovePointerStep ==
    ASSUME IInv, NEW t \in Seats, POINTER \in caps[t],
           NEW o, IsOutcome(accepted, t, o), MovePointer(t, o),
           button_down' \subseteq Seats
    PROVE  IInv'
<1>1. PICK L, G : /\ L = PointerLost({t}, [u \in {t} |-> o])
                  /\ G = PointerGained({t}, [u \in {t} |-> o])
  OBVIOUS
<1>1a. PairsOf(t, o, L, G)
  BY <1>1, OnePairs
<1>2. /\ MovePointers({t}, [u \in {t} |-> o])
      /\ focus' = Flagged(L, G)
      /\ told_focus' \in [Clients -> [Surfaces -> SUBSET Devices]]
      /\ UNCHANGED <<list_surface, seat_list, caps, accepted, touch_focus, num_tp,
                     resource_list, told_seats, told_accepted>>
  BY <1>1, SendFocusType DEF MovePointer, SetFlags, lists, touch, told, IInv, TypeOK
<1>3. IsOutcome(accepted', t, o)
  BY <1>2
<1>4. FlagsOf(t, o, L, G)
  BY <1>1a, <1>2, <1>3, OneFlags
<1>5. PICK T, out : PointerChange(T, out, L, G)
  BY <1>2, <1>3, <1>4, OneIsChange DEF OneChange
<1>6. TypeOK'
  BY <1>2, <1>5, PointersMoved DEF IInv, TypeOK
<1>7. Capable'
  BY <1>2 DEF IInv, Capable, MovePointers
<1> QED BY <1>5, <1>6, <1>7, PointersMoved DEF IInv

LEMMA GrabStep ==
    ASSUME IInv, NEW t \in Seats,
           pointer_grab_focus(t) \/ pointer_grab_motion(t) \/ pointer_grab_button(t)
    PROVE  IInv'
<1>1. /\ TypeOK /\ Listed /\ POINTER \in caps[t]
      /\ button_down' \subseteq Seats
      /\ forced[t] \in Surfaces \cup {None} /\ None \in Surfaces \cup {None}
  BY DEF IInv, TypeOK, pointer_grab_focus, pointer_grab_motion, pointer_grab_button
<1>2. CASE \E f \in Surfaces \cup {None}, en \in BOOLEAN :
             \E o \in GrabFocus(accepted, t, f, en) : MovePointer(t, o)
  BY <1>1, <1>2, GrabOutcome, MovePointerStep
<1>3. CASE MovePointer(t, Stay(t, forced[t], t \in forced_enabled))
  <2>1. PICK o : o = Stay(t, forced[t], t \in forced_enabled)
    OBVIOUS
  <2>2. IsOutcome(accepted, t, o)
    BY <1>1, <2>1, StayOutcome
  <2> QED BY <1>1, <1>3, <2>1, <2>2, MovePointerStep
<1>4. (t \in forced_enabled) \in BOOLEAN
  OBVIOUS
<1>5. CASE pointer_grab_focus(t)
  BY <1>1, <1>2, <1>4, <1>5 DEF pointer_grab_focus
<1>6. CASE pointer_grab_motion(t)
  BY <1>1, <1>2, <1>4, <1>6 DEF pointer_grab_motion
<1>7. CASE pointer_grab_button(t)
  BY <1>1, <1>2, <1>3, <1>4, <1>7 DEF pointer_grab_button
<1> QED BY <1>5, <1>6, <1>7

-----------------------------------------------------------------------------
(* The grab of the touch.                                                  *)

LEMMA TouchStep ==
    ASSUME IInv, NEW t \in Seats, NEW L, NEW G, SetFlags(L, G),
           \A s \in Surfaces, u \in Seats : <<s, u, POINTER>> \notin L,
           \A s \in Surfaces, u \in Seats, d \in Devices : <<s, u, d>> \in G => u \in accepted[s],
           \A s \in Surfaces, u \in Seats : <<s, u, TOUCH>> \in L => touch_focus'[u] # s,
           NEW v \in Views, touch_focus' = [touch_focus EXCEPT ![t] = v],
           v \in Surfaces => /\ v \in list_surface /\ t \in accepted[v]
                            /\ (v = touch_focus[t] \/ <<v, t, TOUCH>> \in G),
           num_tp' \in [Seats -> 0 .. MaxTouch],
           caps' \in [Seats -> SUBSET Devices],
           \A u \in Seats : /\ POINTER \in caps[u] => POINTER \in caps'[u]
                            /\ (TOUCH \in caps[u] /\ u # t) => TOUCH \in caps'[u],
           v # None => TOUCH \in caps'[t],
           UNCHANGED <<list_surface, seat_list, accepted, pointer, resource_list, told>>
    PROVE  IInv'
<1>1. /\ TypeOK /\ focus' = Flagged(L, G)
      /\ told_focus' \in [Clients -> [Surfaces -> SUBSET Devices]]
      /\ UNCHANGED <<list_surface, seat_list, accepted, forced, forced_enabled,
                     pointer_focus, button_down, resource_list, told_seats, told_accepted>>
  BY SendFocusType DEF SetFlags, pointer, told, IInv, TypeOK
<1>2. FlagsFit(L, G)
  BY <1>1 DEF FlagsFit
<1>3. /\ focus' \in [Surfaces -> [Seats -> SUBSET Devices]]
      /\ \A s \in Surfaces, u \in Seats : u \notin accepted'[s] => focus'[s][u] = {}
  BY <1>1, <1>2, FlagsEmpty
<1>4. \A s \in Surfaces, u \in Seats, d \in Devices :
        d \in focus'[s][u] <=> \/ d \in focus[s][u] /\ <<s, u, d>> \notin L
                              \/ <<s, u, d>> \in G
  BY <1>1, FlaggedType DEF TypeOK
<1>5. touch_focus \in [Seats -> Views] /\ touch_focus' \in [Seats -> Views]
  BY <1>1 DEF TypeOK
<1>6. TypeOK'
  BY <1>1, <1>3, <1>5 DEF TypeOK
<1>6a. \A u \in Seats : touch_focus'[u] = IF u = t THEN v ELSE touch_focus[u]
  BY <1>5
<1>7a. Listed'
  <2> SUFFICES ASSUME NEW u \in Seats
               PROVE  /\ pointer_focus'[u] \in Surfaces => pointer_focus'[u] \in list_surface'
                      /\ touch_focus'[u] \in Surfaces => touch_focus'[u] \in list_surface'
    BY DEF Listed
  <2>1. /\ pointer_focus[u] \in Surfaces => pointer_focus[u] \in list_surface
        /\ touch_focus[u] \in Surfaces => touch_focus[u] \in list_surface
    BY DEF IInv, Listed
  <2>2. CASE u = t
    BY <1>1, <1>6a, <2>1, <2>2
  <2>3. CASE u # t
    BY <1>1, <1>6a, <2>1, <2>3
  <2> QED BY <2>2, <2>3
<1>7b. Capable'
  BY <1>1, <1>6a DEF IInv, Capable
<1>8. ASSUME NEW u \in Seats, NEW s \in list_surface
      PROVE  /\ pointer_focus'[u] = s => u \in accepted'[s] /\ POINTER \in focus'[s][u]
             /\ touch_focus'[u] = s => u \in accepted'[s] /\ TOUCH \in focus'[s][u]
  <2>1. s \in Surfaces /\ POINTER \in Devices /\ TOUCH \in Devices
    BY <1>1, DevicesDiffer DEF TypeOK
  <2>2. pointer_focus'[u] = s => u \in accepted'[s] /\ POINTER \in focus'[s][u]
    BY <1>1, <1>4, <2>1 DEF IInv, FocusIsAccepted
  <2>3. touch_focus'[u] = s => u \in accepted'[s] /\ TOUCH \in focus'[s][u]
    <3> SUFFICES ASSUME touch_focus'[u] = s
                 PROVE  u \in accepted'[s] /\ TOUCH \in focus'[s][u]
      OBVIOUS
    <3>1. <<s, u, TOUCH>> \notin L
      BY <2>1
    <3>2. CASE touch_focus[u] = s
      BY <1>1, <1>4, <2>1, <3>1, <3>2 DEF IInv, FocusIsAccepted
    <3>3. CASE touch_focus[u] # s
      <4>1. u = t /\ v = s
        BY <1>5, <3>3
      <4> QED BY <1>1, <1>4, <2>1, <3>3, <4>1
    <3> QED BY <3>2, <3>3
  <2> QED BY <2>2, <2>3
<1>9. FocusIsAccepted'
  BY <1>1, <1>8 DEF FocusIsAccepted
<1> QED BY <1>6, <1>7a, <1>7b, <1>9 DEF IInv

LEMMA TouchDownStep ==
    ASSUME IInv, NEW t \in Seats, touch_grab_down(t)
    PROVE  IInv'
<1>1. TypeOK /\ TOUCH \in caps[t] /\ MaxTouch \in Nat /\ num_tp[t] \in 0 .. MaxTouch
  BY DEF touch_grab_down, IInv, TypeOK
<1>2. PICK v \in IF num_tp[t] = 0 THEN list_surface \cup {None, Elsewhere}
                 ELSE {touch_focus[t]} :
        /\ touch_focus' = [touch_focus EXCEPT ![t] =
                               IF v \in list_surface /\ t \notin accepted[v] THEN None ELSE v]
        /\ SetFlags({}, {<<s, t, TOUCH>> : s \in IF num_tp[t] = 0
                                                 THEN Accepting(accepted, v, t) ELSE {}})
  BY DEF touch_grab_down
<1> DEFINE S == IF num_tp[t] = 0 THEN Accepting(accepted, v, t) ELSE {}
           G == {<<s, t, TOUCH>> : s \in S}
           w == IF v \in list_surface /\ t \notin accepted[v] THEN None ELSE v
<1>3. /\ \A s, u, d : <<s, u, d>> \in G => u = t /\ s \in S
      /\ \A s \in S : <<s, t, TOUCH>> \in G
  OBVIOUS
<1>4. \A s \in S : s = v /\ s \in list_surface /\ t \in accepted[s]
  BY DEF Accepting
<1>5. /\ w \in Views
      /\ w \in Surfaces => /\ w \in list_surface /\ t \in accepted[w]
                           /\ (w = touch_focus[t] \/ w \in S)
  <2>1. CASE num_tp[t] = 0
    BY <1>1, <1>2, <2>1 DEF TypeOK, Views, Accepting
  <2>2. CASE num_tp[t] # 0
    BY <1>1, <1>2, <2>2 DEF TypeOK, Views, IInv, Listed
  <2> QED BY <2>1, <2>2
<1>6. num_tp' \in [Seats -> 0 .. MaxTouch]
  BY <1>1 DEF touch_grab_down, TypeOK
<1>7. UNCHANGED <<lists, pointer, resource_list, told>>
  BY DEF touch_grab_down
<1>8. SetFlags({}, G) /\ touch_focus' = [touch_focus EXCEPT ![t] = w]
  BY <1>2
<1> HIDE DEF S, G, w
<1>9. \A s \in Surfaces, u \in Seats, d \in Devices : <<s, u, d>> \in G => u \in accepted[s]
  BY <1>3, <1>4
<1>10. w \in Surfaces => /\ w \in list_surface /\ t \in accepted[w]
                        /\ (w = touch_focus[t] \/ <<w, t, TOUCH>> \in G)
  BY <1>3, <1>5
<1>11. PICK L : L = {}
  OBVIOUS
<1>12. \A s, u, d : <<s, u, d>> \notin L
  BY <1>11
<1>13. SetFlags(L, G)
  BY <1>8, <1>11
<1>14. /\ UNCHANGED <<list_surface, seat_list, accepted, pointer, resource_list, told>>
       /\ caps' = caps /\ caps' \in [Seats -> SUBSET Devices]
  BY <1>1, <1>7 DEF lists, TypeOK
<1> QED BY <1>1, <1>5, <1>6, <1>8, <1>9, <1>10, <1>12, <1>13, <1>14, TouchStep

LEMMA TouchUpStep ==
    ASSUME IInv, NEW t \in Seats, touch_grab_up(t)
    PROVE  IInv'
<1>1. /\ TypeOK /\ TOUCH \in caps[t] /\ MaxTouch \in Nat /\ num_tp[t] \in 0 .. MaxTouch
      /\ num_tp[t] > 0 /\ num_tp' = [num_tp EXCEPT ![t] = @ - 1]
      /\ UNCHANGED <<lists, pointer, resource_list, told>>
  BY DEF touch_grab_up, IInv, TypeOK
<1>2. num_tp' \in [Seats -> 0 .. MaxTouch]
  BY <1>1 DEF TypeOK
<1>3. CASE num_tp[t] = 1
  <2> DEFINE L == {<<s, t, TOUCH>> : s \in Accepting(accepted, touch_focus[t], t)}
  <2>1. SetFlags(L, {}) /\ touch_focus' = [touch_focus EXCEPT ![t] = None]
    BY <1>3 DEF touch_grab_up
  <2>2. \A s, u, d : <<s, u, d>> \in L => u = t /\ d = TOUCH
    OBVIOUS
  <2> HIDE DEF L
  <2>3. /\ \A s \in Surfaces, u \in Seats : <<s, u, POINTER>> \notin L
        /\ \A s \in Surfaces, u \in Seats : <<s, u, TOUCH>> \in L => touch_focus'[u] # s
    BY <1>1, <2>1, <2>2, DevicesDiffer DEF TypeOK
  <2>4. None \in Views /\ None \notin Surfaces
    BY DEF Views
  <2>5. PICK G : G = {}
    OBVIOUS
  <2>6. SetFlags(L, G) /\ \A s, u, d : <<s, u, d>> \notin G
    BY <2>1, <2>5
  <2>7. /\ UNCHANGED <<list_surface, seat_list, accepted, pointer, resource_list, told>>
        /\ caps' = caps /\ caps' \in [Seats -> SUBSET Devices]
    BY <1>1 DEF lists, TypeOK
  <2> QED BY <1>1, <1>2, <2>1, <2>3, <2>4, <2>6, <2>7, TouchStep
<1>4. CASE num_tp[t] # 1
  <2>1. UNCHANGED <<list_surface, seat_list, caps, accepted, focus, forced, forced_enabled,
                   pointer_focus, button_down, touch_focus, resource_list, told_seats,
                   told_accepted, told_focus>>
    BY <1>1, <1>4 DEF touch_grab_up, lists, pointer, told
  <2> QED BY <1>1, <1>2, <2>1 DEF IInv, TypeOK, FocusIsAccepted, Listed, Capable
<1> QED BY <1>3, <1>4

-----------------------------------------------------------------------------
(* Seats and their devices.                                                *)

LEMMA SeatCreateStep ==
    ASSUME IInv, NEW t \in Seats, handle_seat_create(t)
    PROVE  IInv'
<1>1. /\ TypeOK /\ seat_list' = seat_list \cup {t}
      /\ UNCHANGED <<list_surface, caps, focus, forced, forced_enabled, pointer_focus,
                     button_down, touch_focus, num_tp, resource_list, told_focus>>
  BY DEF handle_seat_create, pointer, touch, IInv
<1>2. told_seats' \in [Clients -> SUBSET Seats]
  BY DEF handle_seat_create, IInv, TypeOK
<1>3. /\ accepted' \in [Surfaces -> SUBSET seat_list']
      /\ \A s \in Surfaces : accepted[s] \subseteq accepted'[s]
      /\ \A s \in Surfaces : s \notin list_surface => accepted'[s] = {}
      /\ told_accepted' \in [Clients -> [Surfaces -> SUBSET Seats]]
  <2>1. CASE t = DefaultSeat
    <3>1. /\ accepted' = [s \in Surfaces |->
                 IF s \in list_surface THEN accepted[s] \cup {t} ELSE accepted[s]]
          /\ SendAcceptance(list_surface, t, TRUE)
      BY <2>1 DEF handle_seat_create
    <3>2. told_accepted' \in [Clients -> [Surfaces -> SUBSET Seats]]
      BY <1>1, <3>1 DEF SendAcceptance, TypeOK
    <3>3. list_surface \subseteq Surfaces /\ accepted \in [Surfaces -> SUBSET seat_list]
          /\ \A s \in Surfaces : s \notin list_surface => accepted[s] = {}
      BY <1>1 DEF TypeOK
    <3> QED BY <1>1, <3>1, <3>2, <3>3
  <2>2. CASE t # DefaultSeat
    BY <1>1, <2>2 DEF handle_seat_create, TypeOK
  <2> QED BY <2>1, <2>2
<1>4. TypeOK'
  BY <1>1, <1>2, <1>3 DEF TypeOK
<1>5. FocusIsAccepted'
  BY <1>1, <1>3 DEF IInv, TypeOK, FocusIsAccepted
<1>6. Listed' /\ Capable'
  BY <1>1 DEF IInv, Listed, Capable
<1> QED BY <1>4, <1>5, <1>6 DEF IInv

LEMMA DeviceAddedStep ==
    ASSUME IInv, NEW t \in Seats, NEW d \in Devices, DeviceAdded(t, d)
    PROVE  IInv'
<1>1. /\ TypeOK /\ Listed /\ caps' = [caps EXCEPT ![t] = @ \cup {d}]
      /\ UNCHANGED <<list_surface, seat_list, accepted, button_down, touch_focus, num_tp,
                     resource_list, told_seats, told_accepted>>
      /\ forced[t] \in Surfaces \cup {None} /\ (t \in forced_enabled) \in BOOLEAN
  BY DEF DeviceAdded, touch, told, IInv, TypeOK
<1>2. PICK o : /\ o \in IF d = POINTER
                        THEN GrabFocus(accepted, t, forced[t], t \in forced_enabled)
                        ELSE {Stay(t, forced[t], t \in forced_enabled)}
               /\ MovePointers({t}, [u \in {t} |-> o])
               /\ SetFlags(PointerLost({t}, [u \in {t} |-> o]), PointerGained({t}, [u \in {t} |-> o]))
  BY DEF DeviceAdded
<1>3. IsOutcome(accepted', t, o) /\ (d # POINTER => o.at = pointer_focus[t])
  <2>1. CASE d = POINTER
    BY <1>1, <1>2, <2>1, GrabOutcome
  <2>2. CASE d # POINTER
    <3>1. o = Stay(t, forced[t], t \in forced_enabled)
      BY <1>2, <2>2
    <3>2. IsOutcome(accepted', t, o)
      BY <1>1, <3>1, StayOutcome
    <3> QED BY <3>1, <3>2 DEF Stay, Outcome
  <2> QED BY <2>1, <2>2
<1>4. PICK L, G : /\ L = PointerLost({t}, [u \in {t} |-> o])
                  /\ G = PointerGained({t}, [u \in {t} |-> o])
  OBVIOUS
<1>4a. PairsOf(t, o, L, G)
  BY <1>4, OnePairs
<1>5. /\ focus' = Flagged(L, G)
      /\ told_focus' \in [Clients -> [Surfaces -> SUBSET Devices]]
  BY <1>1, <1>2, <1>4, SendFocusType DEF SetFlags, TypeOK
<1>6. FlagsOf(t, o, L, G)
  BY <1>1, <1>3, <1>4a, OneFlags
<1>7. PICK T, out : PointerChange(T, out, L, G)
  BY <1>1, <1>2, <1>3, <1>5, <1>6, OneIsChange DEF OneChange
<1>8. TypeOK'
  BY <1>1, <1>5, <1>7, PointersMoved DEF TypeOK
<1>9. Capable'
  BY <1>1, <1>2, <1>3 DEF IInv, TypeOK, Capable, MovePointers
<1> QED BY <1>7, <1>8, <1>9, PointersMoved DEF IInv

LEMMA DeviceRemovedStep ==
    ASSUME IInv, NEW t \in Seats, NEW d \in Devices, DeviceRemoved(t, d)
    PROVE  IInv'
<1>1. /\ TypeOK /\ Listed
      /\ caps' = [caps EXCEPT ![t] = @ \ {d}] /\ caps' \in [Seats -> SUBSET Devices]
      /\ UNCHANGED <<list_surface, seat_list, accepted, resource_list, told>>
      /\ UNCHANGED <<told_seats, told_accepted>>
  BY DEF DeviceRemoved, told, IInv, TypeOK
<1>2. CASE d = POINTER
  <2>1. PICK o \in {ClearFocus(t), Outcome(None, {}, {}, forced[t], t \in forced_enabled)} :
          /\ MovePointers({t}, [u \in {t} |-> o])
          /\ SetFlags(PointerLost({t}, [u \in {t} |-> o]), {})
    BY <1>2, DevicesDiffer, Zenon DEF DeviceRemoved
  <2>3. PICK L, G : L = PointerLost({t}, [u \in {t} |-> o]) /\ G = {}
    OBVIOUS
  <2>4. MovePointers({t}, [u \in {t} |-> o]) /\ SetFlags(L, G)
    BY <2>1, <2>3
  <2>5. IsOutcome(accepted', t, o) /\ o.at = None /\ o.gain = {}
    <3>1. CASE o = ClearFocus(t)
      <4>1. ClearFocus(t).gain = {}
        BY DEF ClearFocus, Stay, LeaveWestFocus, Outcome
      <4> QED BY <1>1, <3>1, <4>1, ClearOutcome
    <3>2. CASE o = Outcome(None, {}, {}, forced[t], t \in forced_enabled)
      BY <1>1, <3>2 DEF Outcome, IsOutcome, TypeOK, Views
    <3> QED BY <3>1, <3>2
  <2>6. /\ focus' = Flagged(L, G)
        /\ told_focus' \in [Clients -> [Surfaces -> SUBSET Devices]]
    BY <1>1, <2>4, SendFocusType DEF SetFlags, TypeOK
  <2>7. PairsOf(t, o, L, G)
    BY <2>3, <2>5, OnePairs DEF PairsOf
  <2>8. FlagsOf(t, o, L, G)
    BY <1>1, <2>5, <2>7, OneFlags
  <2>9. button_down' = button_down \ {t} /\ UNCHANGED <<touch_focus, num_tp>>
    BY <1>2, DevicesDiffer DEF DeviceRemoved, touch
  <2>10. PICK T, out : PointerChange(T, out, L, G)
    BY <1>1, <2>4, <2>5, <2>6, <2>8, <2>9, OneIsChange DEF OneChange
  <2>11. TypeOK'
    BY <1>1, <2>6, <2>9, <2>10, PointersMoved DEF TypeOK
  <2>12. Capable'
    BY <1>1, <1>2, <2>4, <2>5, <2>9, DevicesDiffer DEF IInv, TypeOK, Capable, MovePointers
  <2> QED BY <2>10, <2>11, <2>12, PointersMoved DEF IInv
<1>3. CASE d = TOUCH
  <2>1. PICK seen \in BOOLEAN :
          SetFlags({<<s, t, TOUCH>> : s \in IF seen
                        THEN Accepting(accepted, touch_focus[t], t) ELSE {}}, {})
    BY <1>3, DevicesDiffer DEF DeviceRemoved
  <2>2. PICK L, G : /\ L = {<<s, t, TOUCH>> : s \in IF seen
                                THEN Accepting(accepted, touch_focus[t], t) ELSE {}}
                    /\ G = {}
    OBVIOUS
  <2>3. SetFlags(L, G)
    BY <2>1, <2>2
  <2>4. /\ \A s, u, e : <<s, u, e>> \in L => u = t /\ e = TOUCH
        /\ \A s, u, e : <<s, u, e>> \notin G
    BY <2>2
  <2>5. /\ touch_focus' = [touch_focus EXCEPT ![t] = None]
        /\ num_tp' = [num_tp EXCEPT ![t] = 0]
        /\ UNCHANGED pointer
    BY <1>3, DevicesDiffer DEF DeviceRemoved
  <2>5a. num_tp' \in [Seats -> 0 .. MaxTouch]
    BY <1>1, <2>5 DEF TypeOK
  <2>6. /\ None \in Views /\ None \notin Surfaces
        /\ \A s \in Surfaces, u \in Seats : <<s, u, POINTER>> \notin L
        /\ \A s \in Surfaces, u \in Seats : <<s, u, TOUCH>> \in L => touch_focus'[u] # s
    BY <1>1, <2>4, <2>5, DevicesDiffer DEF Views, TypeOK
  <2>7. \A u \in Seats : /\ POINTER \in caps[u] => POINTER \in caps'[u]
                         /\ (TOUCH \in caps[u] /\ u # t) => TOUCH \in caps'[u]
    BY <1>1, <1>3, DevicesDiffer DEF TypeOK
  <2> QED BY <1>1, <2>3, <2>4, <2>5, <2>5a, <2>6, <2>7, TouchStep
<1>4. CASE d = KEYBOARD
  <2>1. PICK L, G : /\ L = {<<s, t, KEYBOARD>> : s \in
                                {x \in list_surface : KEYBOARD \in focus[x][t]}}
                    /\ G = {}
    OBVIOUS
  <2>2. SetFlags(L, G) /\ UNCHANGED <<pointer, touch>>
    BY <1>4, <2>1, DevicesDiffer DEF DeviceRemoved
  <2>3. /\ \A s, u, e : <<s, u, e>> \in L => e = KEYBOARD
        /\ \A s, u, e : <<s, u, e>> \notin G
    BY <2>1
  <2>4. /\ \A s \in Surfaces, u \in Seats : <<s, u, POINTER>> \notin L
        /\ \A s \in Surfaces, u \in Seats : <<s, u, TOUCH>> \notin L
    BY <2>3, DevicesDiffer
  <2>5. PICK v : v = touch_focus[t]
    OBVIOUS
  <2>6. /\ v \in Views /\ touch_focus' = [touch_focus EXCEPT ![t] = v]
        /\ num_tp' \in [Seats -> 0 .. MaxTouch]
    BY <1>1, <2>2, <2>5 DEF touch, TypeOK
  <2>7. v \in Surfaces => v \in list_surface /\ t \in accepted[v]
    BY <2>5 DEF IInv, Listed, FocusIsAccepted
  <2>8. /\ \A u \in Seats : /\ POINTER \in caps[u] => POINTER \in caps'[u]
                            /\ TOUCH \in caps[u] => TOUCH \in caps'[u]
        /\ v # None => TOUCH \in caps'[t]
    BY <1>1, <1>4, <2>5, DevicesDiffer DEF IInv, TypeOK, Capable
  <2> QED BY <1>1, <2>2, <2>3, <2>4, <2>5, <2>6, <2>7, <2>8, TouchStep
<1> QED BY <1>2, <1>3, <1>4, DevicesDiffer

LEMMA DestroySeatStep ==
    ASSUME IInv, NEW t \in Seats, destroy_seat(t)
    PROVE  IInv'
<1>1. PICK L, G : L = Surfaces \X {t} \X Devices /\ G = {}
  OBVIOUS
<1>2. /\ \A s \in Surfaces, u \in Seats, d \in Devices : <<s, u, d>> \in L <=> u = t
      /\ \A s, u, d : <<s, u, d>> \notin G
  BY <1>1
<1>3. TypeOK /\ focus' = Flagged(L, G)
  BY <1>1 DEF destroy_seat, IInv
<1>4. /\ focus' \in [Surfaces -> [Seats -> SUBSET Devices]]
      /\ \A s \in Surfaces, u \in Seats, d \in Devices :
            d \in focus'[s][u] <=> d \in focus[s][u] /\ u # t
  <2>1. /\ focus' \in [Surfaces -> [Seats -> SUBSET Devices]]
        /\ \A s \in Surfaces, u \in Seats, d \in Devices :
              d \in focus'[s][u] <=> \/ d \in focus[s][u] /\ <<s, u, d>> \notin L
                                    \/ <<s, u, d>> \in G
    BY <1>3, FlaggedType DEF TypeOK
  <2>2. focus' \in [Surfaces -> [Seats -> SUBSET Devices]]
    BY <2>1
  <2>3. ASSUME NEW s \in Surfaces, NEW u \in Seats, NEW d \in Devices
        PROVE  d \in focus'[s][u] <=> d \in focus[s][u] /\ u # t
    <3>1. d \in focus'[s][u] <=> \/ d \in focus[s][u] /\ <<s, u, d>> \notin L
                                \/ <<s, u, d>> \in G
      BY <2>1
    <3>2. (<<s, u, d>> \in L <=> u = t) /\ <<s, u, d>> \notin G
      BY <1>2
    <3> QED BY <3>1, <3>2
  <2> QED BY <2>2, <2>3
<1>5. /\ seat_list' = seat_list \ {t}
      /\ accepted' = [s \in Surfaces |-> accepted[s] \ {t}]
      /\ caps' = [caps EXCEPT ![t] = {}]
      /\ forced' = [forced EXCEPT ![t] = None]
      /\ forced_enabled' = forced_enabled \ {t}
      /\ pointer_focus' = [pointer_focus EXCEPT ![t] = None]
      /\ button_down' = button_down \ {t}
      /\ touch_focus' = [touch_focus EXCEPT ![t] = None]
      /\ num_tp' = [num_tp EXCEPT ![t] = 0]
      /\ UNCHANGED <<list_surface, resource_list, told_accepted, told_focus>>
  BY DEF destroy_seat
<1>6. told_seats' \in [Clients -> SUBSET Seats]
  BY <1>3 DEF destroy_seat, TypeOK
<1>7. \A s \in Surfaces, u \in Seats : u \notin accepted'[s] => focus'[s][u] = {}
  <2> SUFFICES ASSUME NEW s \in Surfaces, NEW u \in Seats, u \notin accepted'[s]
               PROVE  \A d \in Devices : d \notin focus'[s][u]
    BY <1>4
  <2> QED BY <1>3, <1>4, <1>5 DEF TypeOK
<1>8. TypeOK'
  BY <1>3, <1>4, <1>5, <1>6, <1>7 DEF TypeOK, Views
<1>9. FocusIsAccepted'
  BY <1>3, <1>4, <1>5, DevicesDiffer DEF IInv, FocusIsAccepted, TypeOK
<1>10. Listed' /\ Capable'
  BY <1>3, <1>5 DEF IInv, Listed, Capable, TypeOK
<1> QED BY <1>8, <1>9, <1>10 DEF IInv

-----------------------------------------------------------------------------
(* Surfaces.                                                               *)

LEMMA SurfaceCreateStep ==
    ASSUME IInv, NEW s \in Surfaces, handle_surface_create(s)
    PROVE  IInv'
<1>1. /\ TypeOK /\ s \notin list_surface /\ list_surface' = list_surface \cup {s}
      /\ accepted' = [accepted EXCEPT ![s] = seat_list \cap {DefaultSeat}]
      /\ UNCHANGED <<seat_list, caps, focus, forced, forced_enabled, pointer_focus, button_down,
                     touch_focus, num_tp, resource_list, told_seats, told_focus>>
  BY DEF handle_surface_create, pointer, touch, IInv
<1>2. told_accepted' \in [Clients -> [Surfaces -> SUBSET Seats]]
  BY <1>1 DEF handle_surface_create, TypeOK
<1>3. accepted[s] = {} /\ \A x \in Surfaces : accepted[x] \subseteq accepted'[x]
  BY <1>1 DEF TypeOK
<1>4. TypeOK'
  BY <1>1, <1>2, <1>3 DEF TypeOK
<1>5. FocusIsAccepted'
  BY <1>1, <1>3 DEF IInv, TypeOK, Listed, FocusIsAccepted
<1>6. Listed' /\ Capable'
  BY <1>1 DEF IInv, Listed, Capable
<1> QED BY <1>4, <1>5, <1>6 DEF IInv

LEMMA SurfaceDestroyStep ==
    ASSUME IInv, NEW s \in Surfaces, handle_surface_destroy(s)
    PROVE  IInv'
<1>1. PICK L, G : L = {s} \X Seats \X Devices /\ G = {}
  OBVIOUS
<1>2. /\ \A x \in Surfaces, t \in Seats, d \in Devices : <<x, t, d>> \in L <=> x = s
      /\ \A x, t, d : <<x, t, d>> \notin G
  BY <1>1
<1>3. /\ TypeOK /\ focus' = Flagged(L, G)
      /\ list_surface' = list_surface \ {s}
      /\ accepted' = [accepted EXCEPT ![s] = {}]
      /\ pointer_focus' = [t \in Seats |-> IF pointer_focus[t] = s THEN None ELSE pointer_focus[t]]
      /\ touch_focus' = [t \in Seats |-> IF touch_focus[t] = s THEN None ELSE touch_focus[t]]
      /\ UNCHANGED <<seat_list, caps, forced_enabled, button_down, num_tp, resource_list,
                     told_seats>>
  BY <1>1 DEF handle_surface_destroy, IInv
<1>4. /\ focus' \in [Surfaces -> [Seats -> SUBSET Devices]]
      /\ \A x \in Surfaces, t \in Seats, d \in Devices :
            d \in focus'[x][t] <=> d \in focus[x][t] /\ x # s
  <2>1. /\ focus' \in [Surfaces -> [Seats -> SUBSET Devices]]
        /\ \A x \in Surfaces, t \in Seats, d \in Devices :
              d \in focus'[x][t] <=> \/ d \in focus[x][t] /\ <<x, t, d>> \notin L
                                    \/ <<x, t, d>> \in G
    BY <1>3, FlaggedType DEF TypeOK
  <2> QED BY <1>2, <2>1
<1>5. /\ forced' \in [Seats -> Surfaces \cup {None}]
      /\ told_accepted' \in [Clients -> [Surfaces -> SUBSET Seats]]
      /\ told_focus' \in [Clients -> [Surfaces -> SUBSET Devices]]
  BY <1>3 DEF handle_surface_destroy, TypeOK
<1>6. \A x \in Surfaces, t \in Seats : t \notin accepted'[x] => focus'[x][t] = {}
  <2> SUFFICES ASSUME NEW x \in Surfaces, NEW t \in Seats, t \notin accepted'[x]
               PROVE  \A d \in Devices : d \notin focus'[x][t]
    BY <1>4
  <2> QED BY <1>3, <1>4 DEF TypeOK
<1>6a. /\ accepted' \in [Surfaces -> SUBSET seat_list']
       /\ \A x \in Surfaces : x \notin list_surface' => accepted'[x] = {}
       /\ pointer_focus' \in [Seats -> Views] /\ touch_focus' \in [Seats -> Views]
  BY <1>3 DEF TypeOK, Views
<1>7. TypeOK'
  BY <1>3, <1>4, <1>5, <1>6, <1>6a DEF TypeOK
<1>8. FocusIsAccepted'
  BY <1>3, <1>4, DevicesDiffer DEF IInv, FocusIsAccepted, TypeOK
<1>9. Listed' /\ Capable'
  BY <1>3 DEF IInv, Listed, Capable
<1> QED BY <1>7, <1>8, <1>9 DEF IInv

LEMMA SurfaceUnmappedStep ==
    ASSUME IInv, NEW s \in Surfaces, surface_unmapped(s)
    PROVE  IInv'
<1>1. /\ TypeOK
      /\ pointer_focus' = [t \in Seats |-> IF pointer_focus[t] = s THEN None ELSE pointer_focus[t]]
      /\ touch_focus' = [t \in Seats |-> IF touch_focus[t] = s THEN None ELSE touch_focus[t]]
      /\ UNCHANGED <<list_surface, seat_list, caps, accepted, focus, forced, forced_enabled,
                     button_down, num_tp, resource_list, told_seats, told_accepted, told_focus>>
  BY DEF surface_unmapped, lists, told, IInv
<1>2. TypeOK'
  BY <1>1 DEF TypeOK, Views
<1>3. FocusIsAccepted' /\ Listed' /\ Capable'
  BY <1>1 DEF IInv, TypeOK, FocusIsAccepted, Listed, Capable
<1> QED BY <1>2, <1>3 DEF IInv

-----------------------------------------------------------------------------
(* Clients.                                                                *)

LEMMA BindStep ==
    ASSUME IInv, NEW c \in Clients, bind_ivi_input(c) \/ unbind_resource_controller(c)
    PROVE  IInv'
<1>1. /\ TypeOK
      /\ UNCHANGED <<list_surface, seat_list, caps, accepted, focus, forced, forced_enabled,
                     pointer_focus, button_down, touch_focus, num_tp>>
  BY DEF bind_ivi_input, unbind_resource_controller, lists, pointer, touch, IInv
<1>2. /\ resource_list' \subseteq Clients
      /\ told_seats' \in [Clients -> SUBSET Seats]
      /\ told_accepted' \in [Clients -> [Surfaces -> SUBSET Seats]]
      /\ told_focus' \in [Clients -> [Surfaces -> SUBSET Devices]]
  <2>1. CASE bind_ivi_input(c)
    <3>1. accepted \in [Surfaces -> SUBSET Seats]
      BY <1>1 DEF TypeOK
    <3>2. [s \in Surfaces |-> UNION {focus[s][t] : t \in accepted[s]}]
            \in [Surfaces -> SUBSET Devices]
      <4> SUFFICES ASSUME NEW s \in Surfaces
                   PROVE  UNION {focus[s][t] : t \in accepted[s]} \subseteq Devices
        OBVIOUS
      <4> QED BY <1>1, <3>1 DEF TypeOK
    <3>3. resource_list' \subseteq Clients /\ told_seats' \in [Clients -> SUBSET Seats]
      BY <1>1, <2>1 DEF bind_ivi_input, TypeOK
    <3>4. told_accepted' \in [Clients -> [Surfaces -> SUBSET Seats]]
      BY <1>1, <2>1, <3>1 DEF bind_ivi_input, TypeOK
    <3>5. told_focus' \in [Clients -> [Surfaces -> SUBSET Devices]]
      BY <1>1, <2>1, <3>2 DEF bind_ivi_input, TypeOK
    <3> QED BY <3>3, <3>4, <3>5
  <2>2. CASE unbind_resource_controller(c)
    BY <1>1, <2>2 DEF unbind_resource_controller, TypeOK
  <2> QED BY <2>1, <2>2
<1>3. TypeOK'
  BY <1>1, <1>2 DEF TypeOK
<1>4. FocusIsAccepted' /\ Listed' /\ Capable'
  BY <1>1 DEF IInv, FocusIsAccepted, Listed, Capable
<1> QED BY <1>3, <1>4 DEF IInv

LEMMA SetFocusStep ==
    ASSUME IInv, NEW s \in Surfaces, NEW devices, NEW enabled \in BOOLEAN,
           input_set_input_focus(s, devices, enabled)
    PROVE  IInv'
<1> DEFINE pointers == {t \in accepted[s] : POINTER \in devices \cap caps[t]}
           keyboards == {t \in accepted[s] : KEYBOARD \in devices \cap caps[t]}
           entered == {t \in keyboards : KEYBOARD \notin focus[s][t]}
           left == keyboards \ entered
           masks == IF TOUCH \in devices /\ accepted[s] # {} THEN {s} \X devices ELSE {}
<1>1. /\ TypeOK /\ Listed /\ s \in list_surface
      /\ UNCHANGED <<list_surface, seat_list, caps, accepted, button_down, touch_focus, num_tp,
                     resource_list, told_seats, told_accepted>>
  BY DEF input_set_input_focus, lists, touch, told, IInv
<1>2. PICK out \in [pointers -> UNION {SetFocusSurf(t, s, enabled) : t \in pointers}] :
        /\ \A t \in pointers : out[t] \in SetFocusSurf(t, s, enabled)
        /\ MovePointers(pointers, out)
        /\ LET L == PointerLost(pointers, out) \cup
                    (IF enabled THEN {} ELSE {<<s, t, KEYBOARD>> : t \in left})
               G == PointerGained(pointers, out) \cup
                    (IF enabled THEN {<<s, t, KEYBOARD>> : t \in entered} ELSE {})
           IN  /\ focus' = Flagged(L, G)
               /\ SendFocus({<<f[1], f[3]>> : f \in L} \cup (IF enabled THEN {} ELSE masks),
                            {<<f[1], f[3]>> : f \in G} \cup (IF enabled THEN masks ELSE {}))
  BY DEF input_set_input_focus
<1>3. PICK T, L, G : /\ T = pointers
                     /\ L = PointerLost(pointers, out) \cup
                              (IF enabled THEN {} ELSE {<<s, t, KEYBOARD>> : t \in left})
                     /\ G = PointerGained(pointers, out) \cup
                              (IF enabled THEN {<<s, t, KEYBOARD>> : t \in entered} ELSE {})
  OBVIOUS
<1>4. /\ T \subseteq Seats /\ \A t \in T : t \in accepted[s] /\ POINTER \in caps[t]
      /\ \A t \in keyboards : t \in accepted[s]
  BY <1>1, <1>3 DEF TypeOK
<1>5. \A t \in T : IsOutcome(accepted', t, out[t])
  BY <1>1, <1>2, <1>3, <1>4, SurfOutcome
<1>6. /\ MovePointers(T, out) /\ focus' = Flagged(L, G)
      /\ \E A, B : SendFocus(A, B)
  BY <1>2, <1>3
<1>7. told_focus' \in [Clients -> [Surfaces -> SUBSET Devices]]
  BY <1>1, <1>6, SendFocusType DEF TypeOK
<1>8. /\ \A x, t, d : <<x, t, d>> \in L =>
            (t \in T /\ d = POINTER /\ x \in out[t].lose) \/ d = KEYBOARD
      /\ \A x, t, d : <<x, t, d>> \in G =>
            (t \in T /\ x \in out[t].gain) \/ (x = s /\ t \in accepted[s])
      /\ \A t \in T : \A x \in out[t].gain : <<x, t, POINTER>> \in G
  <2>1. /\ \A x, t, d : <<x, t, d>> \in PointerLost(T, out)
                             <=> t \in T /\ d = POINTER /\ x \in out[t].lose
        /\ \A x, t, d : <<x, t, d>> \in PointerGained(T, out)
                             <=> t \in T /\ d = POINTER /\ x \in out[t].gain
    BY PointerPairs
  <2>2. PICK K : K = IF enabled THEN {} ELSE {<<s, t, KEYBOARD>> : t \in left}
    OBVIOUS
  <2>3. PICK M : M = IF enabled THEN {<<s, t, KEYBOARD>> : t \in entered} ELSE {}
    OBVIOUS
  <2>4. L = PointerLost(T, out) \cup K /\ G = PointerGained(T, out) \cup M
    BY <1>3, <2>2, <2>3
  <2>5. \A x, t, d : <<x, t, d>> \in K => d = KEYBOARD
    BY <2>2
  <2>6. \A x, t, d : <<x, t, d>> \in M => x = s /\ t \in accepted[s]
    BY <1>4, <2>3
  <2> HIDE DEF pointers, keyboards, entered, left, masks
  <2> QED BY <2>1, <2>4, <2>5, <2>6
<1> HIDE DEF pointers, keyboards, entered, left, masks
<1>9. FlagsFit(L, G)
  <2> SUFFICES ASSUME NEW x \in Surfaces, NEW t \in Seats, NEW d \in Devices, <<x, t, d>> \in G
               PROVE  t \in accepted'[x]
    BY <1>1 DEF FlagsFit
  <2>1. CASE t \in T /\ x \in out[t].gain
    BY <1>5, <2>1 DEF IsOutcome
  <2>2. CASE x = s /\ t \in accepted[s]
    BY <1>1, <2>2
  <2> QED BY <1>8, <2>1, <2>2
<1>10. \A x \in Surfaces, t \in Seats :
          /\ <<x, t, POINTER>> \in L => t \in T /\ x \in out[t].lose
          /\ <<x, t, TOUCH>> \notin L
  BY <1>8, DevicesDiffer
<1>11. PointerChange(T, out, L, G)
  BY <1>1, <1>4, <1>5, <1>6, <1>8, <1>9, <1>10 DEF PointerChange
<1>12. TypeOK'
  BY <1>1, <1>7, <1>11, PointersMoved DEF TypeOK
<1>13. Capable'
  BY <1>1, <1>4, <1>6 DEF IInv, Capable, MovePointers
<1> QED BY <1>11, <1>12, <1>13, PointersMoved DEF IInv

LEMMA AcceptStep ==
    ASSUME IInv, NEW s \in Surfaces, NEW t \in Seats, input_set_input_acceptance(s, t, TRUE)
    PROVE  IInv'
<1>1. /\ TypeOK /\ Listed /\ t \in seat_list /\ s \in list_surface
      /\ accepted' = [accepted EXCEPT ![s] = @ \cup {t}]
      /\ forced[t] \in Surfaces \cup {None} /\ (t \in forced_enabled) \in BOOLEAN
      /\ UNCHANGED <<list_surface, seat_list, caps, button_down, touch_focus, num_tp,
                     resource_list, told_seats>>
  BY DEF input_set_input_acceptance, AcceptSeat, IInv, TypeOK
<1>2. PICK o : /\ o \in IF POINTER \in caps[t] /\ pointer_focus[t] = None
                        THEN GrabFocus(accepted', t, forced[t], t \in forced_enabled)
                        ELSE {Stay(t, forced[t], t \in forced_enabled)}
               /\ MovePointers({t}, [u \in {t} |-> o])
               /\ SetFlags(PointerLost({t}, [u \in {t} |-> o]), PointerGained({t}, [u \in {t} |-> o]))
  BY DEF input_set_input_acceptance, AcceptSeat
<1>3. /\ IsOutcome(accepted', t, o)
      /\ o.at = pointer_focus[t] \/ POINTER \in caps[t]
  <2>1. CASE POINTER \in caps[t] /\ pointer_focus[t] = None
    BY <1>1, <1>2, <2>1, GrabOutcome
  <2>2. CASE ~(POINTER \in caps[t] /\ pointer_focus[t] = None)
    <3>1. o = Stay(t, forced[t], t \in forced_enabled)
      BY <1>2, <2>2
    <3>2. IsOutcome(accepted', t, o)
      BY <1>1, <3>1, StayOutcome
    <3> QED BY <3>1, <3>2 DEF Stay, Outcome
  <2> QED BY <2>1, <2>2
<1>4. PICK L, G : /\ L = PointerLost({t}, [u \in {t} |-> o])
                  /\ G = PointerGained({t}, [u \in {t} |-> o])
  OBVIOUS
<1>5. PairsOf(t, o, L, G)
  BY <1>4, OnePairs
<1>6. /\ focus' = Flagged(L, G)
      /\ told_focus' \in [Clients -> [Surfaces -> SUBSET Devices]]
  BY <1>1, <1>2, <1>4, SendFocusType DEF SetFlags, TypeOK
<1>7. /\ accepted' \in [Surfaces -> SUBSET seat_list']
      /\ \A x \in Surfaces : accepted[x] \subseteq accepted'[x]
      /\ \A x \in Surfaces : x \notin list_surface' => accepted'[x] = {}
  BY <1>1 DEF TypeOK
<1>8. FlagsOf(t, o, L, G)
  BY <1>3, <1>5, <1>7, OneFlags
<1>9. PICK T, out : PointerChange(T, out, L, G)
  BY <1>1, <1>2, <1>3, <1>6, <1>8, OneIsChange DEF OneChange
<1>10. told_accepted' \in [Clients -> [Surfaces -> SUBSET Seats]]
  <2>1. SendAcceptance({s}, t, TRUE)
    BY DEF input_set_input_acceptance, AcceptSeat
  <2> QED BY <1>1, <2>1 DEF SendAcceptance, TypeOK
<1>11. TypeOK'
  BY <1>1, <1>6, <1>7, <1>9, <1>10, PointersMoved DEF TypeOK
<1>12. Capable'
  BY <1>1, <1>2, <1>3 DEF IInv, TypeOK, Capable, MovePointers
<1> QED BY <1>9, <1>11, <1>12, PointersMoved DEF IInv

LEMMA RefuseStep ==
    ASSUME IInv, NEW s \in Surfaces, NEW t \in Seats, input_set_input_acceptance(s, t, FALSE)
    PROVE  IInv'
<1> DEFINE flags == focus[s][t] \cap caps[t]
           touched == IF TOUCH \in flags THEN Accepting(accepted, touch_focus[t], t) ELSE {}
<1>1. /\ TypeOK /\ Listed /\ s \in list_surface
      /\ accepted' = [accepted EXCEPT ![s] = @ \ {t}]
      /\ UNCHANGED <<list_surface, seat_list, caps, button_down, num_tp, resource_list,
                     told_seats>>
      /\ touch_focus' = IF TOUCH \in flags THEN [touch_focus EXCEPT ![t] = None] ELSE touch_focus
      /\ SendAcceptance({s}, t, FALSE)
      /\ RefuseSeat(s, t)
  BY DEF input_set_input_acceptance, RefuseSeat, IInv
<1>2. PICK o : o = IF POINTER \in flags THEN ClearFocus(t)
                   ELSE Stay(t, forced[t], t \in forced_enabled)
  OBVIOUS
<1>3. /\ IsOutcome(accepted, t, o)
      /\ POINTER \in flags => o.at = None
      /\ POINTER \notin flags => o.at = pointer_focus[t] /\ o.lose = {}
  <2>1. CASE POINTER \in flags
    BY <1>1, <1>2, <2>1, ClearOutcome
  <2>2. CASE POINTER \notin flags
    <3>1. o = Stay(t, forced[t], t \in forced_enabled)
      BY <1>2, <2>2
    <3>2. forced[t] \in Surfaces \cup {None}
      BY <1>1 DEF TypeOK
    <3>3. IsOutcome(accepted, t, o)
      BY <1>1, <3>1, <3>2, StayOutcome
    <3> QED BY <2>2, <3>1, <3>3 DEF Stay, Outcome
  <2> QED BY <2>1, <2>2
<1>4. PICK P, Q, K, A : /\ P = PointerLost({t}, [u \in {t} |-> o])
                        /\ Q = {<<x, t, TOUCH>> : x \in touched}
                        /\ K = {<<x, t, KEYBOARD>> : x \in IF KEYBOARD \in flags THEN {s} ELSE {}}
                        /\ A = {<<s, t, d>> : d \in Devices}
  OBVIOUS
<1>5. /\ MovePointers({t}, [u \in {t} |-> o])
      /\ focus' = Flagged((P \cup Q \cup K) \cup A, {})
      /\ \E L, G : SendFocus(L, G)
  BY <1>1, <1>2, <1>4 DEF RefuseSeat
<1>6. \A x \in Surfaces, u \in Seats, d \in Devices :
        d \in focus'[x][u] <=> /\ d \in focus[x][u]
                              /\ <<x, u, d>> \notin (P \cup Q \cup K) \cup A
  <2>1. PICK L, G : L = (P \cup Q \cup K) \cup A /\ G = {}
    OBVIOUS
  <2>2. focus' = Flagged(L, G) /\ \A x, u, d : <<x, u, d>> \notin G
    BY <1>5, <2>1
  <2>3. \A x \in Surfaces, u \in Seats, d \in Devices :
          d \in focus'[x][u] <=> \/ d \in focus[x][u] /\ <<x, u, d>> \notin L
                                \/ <<x, u, d>> \in G
    BY <1>1, <2>2, FlaggedType DEF TypeOK
  <2> QED BY <2>1, <2>2, <2>3
<1>7. focus' \in [Surfaces -> [Seats -> SUBSET Devices]]
  BY <1>1, <1>5, FlaggedType DEF TypeOK
<1>8. told_focus' \in [Clients -> [Surfaces -> SUBSET Devices]]
  BY <1>1, <1>5, SendFocusType DEF TypeOK
<1>9. /\ \A x, u, d : <<x, u, d>> \in P => u = t /\ d = POINTER /\ x \in o.lose
      /\ \A x, u, d : <<x, u, d>> \in Q => u = t /\ d = TOUCH /\ x \in touched
      /\ \A x, u, d : <<x, u, d>> \in K => u = t /\ d = KEYBOARD
      /\ \A x, u, d : <<x, u, d>> \in A => u = t /\ x = s
      /\ \A d \in Devices : <<s, t, d>> \in A
  <2>1. \A x, u, d : <<x, u, d>> \in P => u = t /\ d = POINTER /\ x \in o.lose
    BY <1>4, OnePairs DEF PairsOf
  <2>2. \A x, u, d : <<x, u, d>> \in Q => u = t /\ d = TOUCH /\ x \in touched
    BY <1>4
  <2>3. \A x, u, d : <<x, u, d>> \in K => u = t /\ d = KEYBOARD
    BY <1>4
  <2>4. /\ \A x, u, d : <<x, u, d>> \in A => u = t /\ x = s
        /\ \A d \in Devices : <<s, t, d>> \in A
    BY <1>4
  <2> QED BY <2>1, <2>2, <2>3, <2>4
<1>10. /\ accepted' \in [Surfaces -> SUBSET seat_list']
       /\ \A x \in Surfaces : x \notin list_surface' => accepted'[x] = {}
       /\ \A x \in Surfaces, u \in Seats :
             u \in accepted'[x] <=> u \in accepted[x] /\ ~(x = s /\ u = t)
  BY <1>1 DEF TypeOK
<1>11. /\ pointer_focus' \in [Seats -> Views]
       /\ forced' \in [Seats -> Surfaces \cup {None}]
       /\ forced_enabled' \subseteq Seats
       /\ \A u \in Seats : pointer_focus'[u] = IF u = t THEN o.at ELSE pointer_focus[u]
  BY <1>1, <1>3, <1>5 DEF MovePointers, IsOutcome, TypeOK
<1>12. /\ touch_focus' \in [Seats -> Views]
       /\ \A u \in Seats : touch_focus'[u] = IF u = t /\ TOUCH \in flags THEN None
                                              ELSE touch_focus[u]
  BY <1>1 DEF TypeOK, Views
<1>13. told_accepted' \in [Clients -> [Surfaces -> SUBSET Seats]]
  BY <1>1 DEF SendAcceptance, TypeOK
<1>14. \A x \in Surfaces, u \in Seats : u \notin accepted'[x] => focus'[x][u] = {}
  <2> SUFFICES ASSUME NEW x \in Surfaces, NEW u \in Seats, u \notin accepted'[x]
               PROVE  \A d \in Devices : d \notin focus'[x][u]
    BY <1>7
  <2>1. CASE u \notin accepted[x]
    BY <1>1, <1>6, <2>1 DEF TypeOK
  <2>2. CASE x = s /\ u = t
    BY <1>6, <1>9, <2>2
  <2> QED BY <1>10, <2>1, <2>2
<1>15. TypeOK'
  BY <1>1, <1>7, <1>8, <1>10, <1>11, <1>12, <1>13, <1>14 DEF TypeOK
<1>16. Listed'
  BY <1>1, <1>3, <1>11, <1>12 DEF Listed, IsOutcome
<1>17. Capable'
  BY <1>1, <1>3, <1>11, <1>12 DEF IInv, Capable
<1>18. ASSUME NEW u \in Seats, NEW x \in list_surface, pointer_focus'[u] = x
       PROVE  u \in accepted'[x] /\ POINTER \in focus'[x][u]
  <2>1. x \in Surfaces /\ POINTER \in Devices /\ x # None
    BY <1>1, DevicesDiffer DEF TypeOK
  <2>2. pointer_focus[u] = x /\ (u = t => POINTER \notin flags)
    BY <1>3, <1>11, <1>18, <2>1
  <2>3. u \in accepted[x] /\ POINTER \in focus[x][u] /\ POINTER \in caps[u]
    BY <2>1, <2>2 DEF IInv, FocusIsAccepted, Capable
  <2>4. ~(x = s /\ u = t)
    BY <2>2, <2>3
  <2>5. <<x, u, POINTER>> \notin (P \cup Q \cup K) \cup A
    <3>1. <<x, u, POINTER>> \notin P
      BY <1>3, <1>9, <2>2
    <3>2. <<x, u, POINTER>> \notin Q /\ <<x, u, POINTER>> \notin K
      BY <1>9, DevicesDiffer
    <3>3. <<x, u, POINTER>> \notin A
      BY <1>9, <2>4
    <3> QED BY <3>1, <3>2, <3>3
  <2> QED BY <1>6, <1>10, <2>1, <2>3, <2>4, <2>5
<1>19. ASSUME NEW u \in Seats, NEW x \in list_surface, touch_focus'[u] = x
       PROVE  u \in accepted'[x] /\ TOUCH \in focus'[x][u]
  <2>1. x \in Surfaces /\ TOUCH \in Devices /\ x # None
    BY <1>1, DevicesDiffer DEF TypeOK
  <2>2. touch_focus[u] = x /\ (u = t => TOUCH \notin flags)
    BY <1>12, <1>19, <2>1
  <2>3. u \in accepted[x] /\ TOUCH \in focus[x][u] /\ TOUCH \in caps[u]
    BY <2>1, <2>2 DEF IInv, FocusIsAccepted, Capable
  <2>4. ~(x = s /\ u = t)
    BY <2>2, <2>3
  <2>5. <<x, u, TOUCH>> \notin (P \cup Q \cup K) \cup A
    <3>1. <<x, u, TOUCH>> \notin Q
      BY <1>9, <2>2
    <3>2. <<x, u, TOUCH>> \notin P /\ <<x, u, TOUCH>> \notin K
      BY <1>9, DevicesDiffer
    <3>3. <<x, u, TOUCH>> \notin A
      BY <1>9, <2>4
    <3> QED BY <3>1, <3>2, <3>3
  <2> QED BY <1>6, <1>10, <2>1, <2>3, <2>4, <2>5
<1>20. FocusIsAccepted'
  BY <1>1, <1>18, <1>19 DEF FocusIsAccepted
<1> QED BY <1>15, <1>16, <1>17, <1>20 DEF IInv

-----------------------------------------------------------------------------
(* Every step.                                                             *)

LEMMA Initially == Init => IInv
BY DEF Init, IInv, TypeOK, FocusIsAccepted, Listed, Capable, Views

LEMMA EveryStep == IInv /\ [Next]_vars => IInv'
<1> SUFFICES ASSUME IInv, [Next]_vars PROVE IInv'
  OBVIOUS
<1>1. CASE \E t \in Seats : SeatStep(t)
  BY <1>1, GrabStep, TouchDownStep, TouchUpStep, SeatCreateStep, DestroySeatStep,
     DeviceAddedStep, DeviceRemovedStep DEF SeatStep, handle_seat_updated_caps
<1>2. CASE \E s \in Surfaces : SurfaceStep(s)
  BY <1>2, SurfaceCreateStep, SurfaceDestroyStep, SurfaceUnmappedStep DEF SurfaceStep
<1>3. CASE ClientStep
  <2>1. CASE \E c \in Clients : bind_ivi_input(c) \/ unbind_resource_controller(c)
    BY <2>1, BindStep
  <2>2. CASE \E s \in Surfaces, devices \in Masks, enabled \in BOOLEAN :
               input_set_input_focus(s, devices, enabled)
    BY <2>2, SetFocusStep
  <2>3. CASE \E s \in Surfaces, t \in Seats, accept \in BOOLEAN :
               input_set_input_acceptance(s, t, accept)
    BY <2>3, AcceptStep, RefuseStep
  <2> QED BY <1>3, <2>1, <2>2, <2>3 DEF ClientStep
<1>4. CASE UNCHANGED vars
  BY <1>4 DEF vars, lists, pointer, touch, told, IInv, TypeOK, FocusIsAccepted, Listed, Capable
<1> QED BY <1>1, <1>2, <1>3, <1>4 DEF Next

\* The variables of the module have their types; what is said of a surface
\* or seat that does not exist is empty.
THEOREM TypesAreRight == Spec => []TypeOK
<1>1. IInv => TypeOK
  BY DEF IInv
<1> QED BY <1>1, Initially, EveryStep, PTL DEF Spec

\* The ivi surface in the pointer or touch focus of a seat accepts that seat
\* and has its flag (input_ctrl_ptr_set_west_focus, touch_grab_down), so that
\* a refusal by setup_input_acceptance takes the focus away.
THEOREM FocusIsAlwaysAccepted == Spec => []FocusIsAccepted
<1>1. IInv => FocusIsAccepted
  BY DEF IInv
<1> QED BY <1>1, Initially, EveryStep, PTL DEF Spec

-----------------------------------------------------------------------------
(* What clients know.                                                      *)

\* Every event that adds a seat, or a seat to a surface, is sent to the bound
\* clients, and bind_ivi_input sends what there is to a new one.
KnownInv == TypeOK /\ AcceptedIsKnown

LEMMA KnownUnchanged ==
    ASSUME AcceptedIsKnown,
           UNCHANGED <<seat_list, accepted, resource_list, told_seats, told_accepted>>
    PROVE  AcceptedIsKnown'
BY DEF AcceptedIsKnown

LEMMA KnownSeat ==
    ASSUME TypeOK, AcceptedIsKnown, NEW t \in Seats, SeatStep(t)
    PROVE  AcceptedIsKnown'
<1>1. CASE UNCHANGED <<seat_list, accepted, resource_list, told_seats, told_accepted>>
  BY <1>1, KnownUnchanged
<1>2. CASE handle_seat_create(t)
  <2>1. CASE t = DefaultSeat
    <3>1. /\ resource_list' = resource_list
          /\ \A c \in resource_list : told_seats'[c] = seat_list'
      BY <1>2 DEF handle_seat_create, TypeOK, AcceptedIsKnown
    <3>2. ASSUME NEW c \in resource_list, NEW s \in Surfaces
          PROVE  accepted'[s] \subseteq told_accepted'[c][s]
      <4>1. accepted'[s] = IF s \in list_surface THEN accepted[s] \cup {t} ELSE accepted[s]
        BY <1>2, <2>1 DEF handle_seat_create
      <4>2. told_accepted'[c][s] = IF s \in list_surface THEN told_accepted[c][s] \cup {t}
                                   ELSE told_accepted[c][s]
        <5>1. SendAcceptance(list_surface, t, TRUE)
          BY <1>2, <2>1, Zenon DEF handle_seat_create
        <5> QED BY <5>1 DEF SendAcceptance, TypeOK
      <4> QED BY <4>1, <4>2 DEF AcceptedIsKnown
    <3> QED BY <3>1, <3>2 DEF AcceptedIsKnown
  <2>2. CASE t # DefaultSeat
    BY <1>2, <2>2 DEF handle_seat_create, TypeOK, AcceptedIsKnown
  <2> QED BY <2>1, <2>2
<1>3. CASE destroy_seat(t)
  BY <1>3 DEF destroy_seat, TypeOK, AcceptedIsKnown
<1>4. \/ UNCHANGED <<seat_list, accepted, resource_list, told_seats, told_accepted>>
      \/ handle_seat_create(t) \/ destroy_seat(t)
  BY DEF SeatStep, pointer_grab_focus, pointer_grab_motion, pointer_grab_button, touch_grab_down,
         touch_grab_up, handle_seat_updated_caps, DeviceAdded, DeviceRemoved, MovePointer,
         lists, told
<1> QED BY <1>1, <1>2, <1>3, <1>4

LEMMA KnownSurface ==
    ASSUME TypeOK, AcceptedIsKnown, NEW s \in Surfaces, SurfaceStep(s)
    PROVE  AcceptedIsKnown'
<1>1. CASE handle_surface_create(s)
  BY <1>1 DEF handle_surface_create, TypeOK, AcceptedIsKnown
<1>2. CASE handle_surface_destroy(s)
  BY <1>2 DEF handle_surface_destroy, TypeOK, AcceptedIsKnown
<1>3. CASE surface_unmapped(s)
  BY <1>3, KnownUnchanged DEF surface_unmapped, lists, told
<1> QED BY <1>1, <1>2, <1>3 DEF SurfaceStep

LEMMA KnownClient ==
    ASSUME TypeOK, AcceptedIsKnown, ClientStep
    PROVE  AcceptedIsKnown'
<1>1. ASSUME NEW c \in Clients, bind_ivi_input(c)
      PROVE  AcceptedIsKnown'
  BY <1>1 DEF bind_ivi_input, lists, TypeOK, AcceptedIsKnown
<1>2. ASSUME NEW c \in Clients, unbind_resource_controller(c)
      PROVE  AcceptedIsKnown'
  BY <1>2 DEF unbind_resource_controller, lists, TypeOK, AcceptedIsKnown
<1>3. ASSUME NEW s \in Surfaces, NEW devices, NEW enabled \in BOOLEAN,
             input_set_input_focus(s, devices, enabled)
      PROVE  AcceptedIsKnown'
  BY <1>3, KnownUnchanged DEF input_set_input_focus, lists, told
<1>4. ASSUME NEW s \in Surfaces, NEW t \in Seats, input_set_input_acceptance(s, t, TRUE)
      PROVE  AcceptedIsKnown'
  <2>1. /\ accepted' = [accepted EXCEPT ![s] = @ \cup {t}]
        /\ SendAcceptance({s}, t, TRUE)
        /\ UNCHANGED <<seat_list, resource_list, told_seats>>
    BY <1>4 DEF input_set_input_acceptance, AcceptSeat
  <2> QED BY <2>1 DEF SendAcceptance, TypeOK, AcceptedIsKnown
<1>5. ASSUME NEW s \in Surfaces, NEW t \in Seats, input_set_input_acceptance(s, t, FALSE)
      PROVE  AcceptedIsKnown'
  <2>1. /\ accepted' = [accepted EXCEPT ![s] = @ \ {t}]
        /\ SendAcceptance({s}, t, FALSE)
        /\ UNCHANGED <<seat_list, resource_list, told_seats>>
    BY <1>5 DEF input_set_input_acceptance, RefuseSeat
  <2> QED BY <2>1 DEF SendAcceptance, TypeOK, AcceptedIsKnown
<1> QED BY <1>1, <1>2, <1>3, <1>4, <1>5 DEF ClientStep

\* A bound client knows every seat, and every seat a surface accepts
\* (bind_ivi_input, send_input_acceptance, handle_seat_create).
THEOREM AcceptedIsAlwaysKnown == Spec => []AcceptedIsKnown
<1>1. Init => AcceptedIsKnown
  BY DEF Init, AcceptedIsKnown
<1>2. TypeOK /\ AcceptedIsKnown /\ [Next]_vars => AcceptedIsKnown'
  <2> SUFFICES ASSUME TypeOK, AcceptedIsKnown, [Next]_vars PROVE AcceptedIsKnown'
    OBVIOUS
  <2>1. CASE UNCHANGED vars
    BY <2>1, KnownUnchanged DEF vars, lists, told
  <2> QED BY <2>1, KnownSeat, KnownSurface, KnownClient DEF Next
<1>3. Spec => []TypeOK
  BY TypesAreRight
<1> QED BY <1>1, <1>2, <1>3, PTL DEF Spec

-----------------------------------------------------------------------------
(* The forced focus of the pointer.                                        *)

\* Seat t keeps its pointer focus, has it forced or loses it, if the focus is
\* forced to a surface there is before the step and to the same surface after it.
Stays(t) ==
    (forced[t] \in list_surface /\ t \in forced_enabled /\ forced'[t] = forced[t])
        => pointer_focus'[t] \in {pointer_focus[t], forced[t], None}

StaysWith(t, o) ==
    (forced[t] \in list_surface /\ t \in forced_enabled /\ o.forced = forced[t])
        => o.at \in {pointer_focus[t], forced[t], None}

LEMMA StayStays ==
    ASSUME NEW t \in Seats, NEW f, NEW en PROVE StaysWith(t, Stay(t, f, en))
BY DEF StaysWith, Stay, Outcome

LEMMA SetStays ==
    ASSUME NEW t \in Seats, NEW acc, NEW v, NEW f, NEW en, v \in {f, None} \/ f # forced[t] \/ f \notin list_surface
    PROVE  StaysWith(t, SetWestFocus(acc, t, v, f, en))
BY DEF StaysWith, SetWestFocus, Stay, Outcome

LEMMA LeaveStays ==
    ASSUME NEW t \in Seats, NEW f, NEW en PROVE StaysWith(t, LeaveWestFocus(t, f, en))
BY DEF StaysWith, LeaveWestFocus, Outcome

\* The focus is evaluated: as it is forced, or to change that.
LEMMA GrabStays ==
    ASSUME TypeOK, NEW t \in Seats, NEW acc, NEW f, NEW en \in BOOLEAN,
           f = forced[t] => en = TRUE \/ t \notin forced_enabled \/ f = None,
           NEW o \in GrabFocus(acc, t, f, en)
    PROVE  StaysWith(t, o)
<1>1. CASE t \in button_down
  BY <1>1, StayStays DEF GrabFocus
<1>2. CASE t \notin button_down /\ f = None
  BY <1>2, InputAssumption DEF GrabFocus, StaysWith, SetWestFocus, Stay, Outcome, TypeOK
<1>3. CASE t \notin button_down /\ f # None /\ en = TRUE
  <2>1. \/ o = Stay(t, f, en)
        \/ \E v \in ForcedViews(f) : o = SetWestFocus(acc, t, v, f, en)
    BY <1>3 DEF GrabFocus
  <2>2. \A v \in ForcedViews(f) : v = f \/ f \notin list_surface
    BY DEF ForcedViews
  <2> QED BY <2>1, <2>2, StayStays, SetStays
<1>4. CASE t \notin button_down /\ f # None /\ en = FALSE
  BY <1>4, StayStays, LeaveStays DEF GrabFocus
<1> QED BY <1>1, <1>2, <1>3, <1>4

LEMMA SurfStays ==
    ASSUME TypeOK, NEW t \in Seats, NEW s \in Surfaces, NEW enabled \in BOOLEAN,
           NEW o \in SetFocusSurf(t, s, enabled)
    PROVE  StaysWith(t, o)
<1>1. CASE enabled /\ forced[t] # s
  BY <1>1, GrabStays DEF SetFocusSurf
<1>2. CASE ~enabled /\ forced[t] = s
  <2>1. o \in GrabFocus(accepted, t, s, FALSE)
    BY <1>2 DEF SetFocusSurf
  <2>2. s # None
    OBVIOUS
  <2>3. \/ o = Stay(t, s, FALSE) \/ o = Stay(t, None, FALSE)
        \/ o = LeaveWestFocus(t, None, FALSE)
    BY <2>1, <2>2 DEF GrabFocus
  <2> QED BY <2>3, StayStays, LeaveStays
<1>3. CASE o = Stay(t, forced[t], t \in forced_enabled)
  BY <1>3 DEF StaysWith, Stay, Outcome
<1> QED BY <1>1, <1>2, <1>3 DEF SetFocusSurf

LEMMA MoveStays ==
    ASSUME NEW T, NEW out, MovePointers(T, out), \A t \in T : StaysWith(t, out[t])
    PROVE  \A t \in Seats : Stays(t)
BY DEF MovePointers, Stays, StaysWith

LEMMA OneMoveStays ==
    ASSUME NEW t, NEW o, MovePointers({t}, [u \in {t} |-> o]), StaysWith(t, o)
    PROVE  \A u \in Seats : Stays(u)
<1>1. PICK T, out : T = {t} /\ out = [u \in T |-> o]
  OBVIOUS
<1>2. MovePointers(T, out) /\ \A u \in T : StaysWith(u, out[u])
  BY <1>1
<1> QED BY <1>2, MoveStays

LEMMA NoMoveStays ==
    ASSUME \A t \in Seats : pointer_focus'[t] \in {pointer_focus[t], None}
    PROVE  \A t \in Seats : Stays(t)
BY DEF Stays

LEMMA SeatStays ==
    ASSUME TypeOK, NEW t \in Seats, SeatStep(t)
    PROVE  \A u \in Seats : Stays(u)
<1>1. (t \in forced_enabled) \in BOOLEAN
  OBVIOUS
<1>2. StaysWith(t, Stay(t, forced[t], t \in forced_enabled))
  BY DEF StaysWith, Stay, Outcome
<1>3. \A acc : \A o \in GrabFocus(acc, t, forced[t], t \in forced_enabled) : StaysWith(t, o)
  BY <1>1, GrabStays
<1>4. \A o \in GrabFocus(accepted, t, None, t \in forced_enabled) : StaysWith(t, o)
  BY <1>1, GrabStays
<1>5. CASE pointer_grab_focus(t) \/ pointer_grab_motion(t) \/ pointer_grab_button(t)
  <2>1. PICK o : /\ MovePointers({t}, [u \in {t} |-> o])
                 /\ \/ o \in GrabFocus(accepted, t, forced[t], t \in forced_enabled)
                    \/ o \in GrabFocus(accepted, t, None, t \in forced_enabled)
                    \/ o = Stay(t, forced[t], t \in forced_enabled)
    BY <1>5, Zenon DEF pointer_grab_focus, pointer_grab_motion, pointer_grab_button, MovePointer
  <2>2. StaysWith(t, o)
    BY <1>2, <1>3, <1>4, <2>1
  <2> QED BY <2>1, <2>2, OneMoveStays
<1>6. CASE \E d \in Devices : DeviceAdded(t, d)
  <2>1. PICK o : /\ MovePointers({t}, [u \in {t} |-> o])
                 /\ \/ o \in GrabFocus(accepted, t, forced[t], t \in forced_enabled)
                    \/ o = Stay(t, forced[t], t \in forced_enabled)
    BY <1>6 DEF DeviceAdded
  <2>2. StaysWith(t, o)
    BY <1>2, <1>3, <2>1
  <2> QED BY <2>1, <2>2, OneMoveStays
<1>7. CASE \E d \in Devices : DeviceRemoved(t, d)
  <2> PICK d \in Devices : DeviceRemoved(t, d)
    BY <1>7
  <2>1. CASE d = POINTER
    <3>1. PICK o \in {ClearFocus(t), Outcome(None, {}, {}, forced[t], t \in forced_enabled)} :
            MovePointers({t}, [u \in {t} |-> o])
      BY <2>1, DevicesDiffer, Zenon DEF DeviceRemoved
    <3>2. o.at = None
      BY <3>1 DEF ClearFocus, Stay, LeaveWestFocus, Outcome
    <3>3. StaysWith(t, o)
      BY <3>2 DEF StaysWith
    <3> QED BY <3>1, <3>3, OneMoveStays
  <2>2. CASE d # POINTER
    <3>1. UNCHANGED pointer
      BY <2>2, DevicesDiffer DEF DeviceRemoved
    <3> QED BY <3>1, NoMoveStays DEF pointer
  <2> QED BY <2>1, <2>2
<1>8. CASE touch_grab_down(t) \/ touch_grab_up(t) \/ handle_seat_create(t)
  <2>1. UNCHANGED pointer
    BY <1>8 DEF touch_grab_down, touch_grab_up, handle_seat_create
  <2> QED BY <2>1, NoMoveStays DEF pointer
<1>9. CASE destroy_seat(t)
  <2>1. \A u \in Seats : pointer_focus'[u] \in {pointer_focus[u], None}
    BY <1>9 DEF destroy_seat, TypeOK
  <2> QED BY <2>1, NoMoveStays
<1> QED BY <1>5, <1>6, <1>7, <1>8, <1>9 DEF SeatStep, handle_seat_updated_caps

LEMMA SurfaceStays ==
    ASSUME TypeOK, NEW s \in Surfaces, SurfaceStep(s)
    PROVE  \A u \in Seats : Stays(u)
<1>1. \A u \in Seats : pointer_focus'[u] \in {pointer_focus[u], None}
  BY DEF SurfaceStep, handle_surface_create, handle_surface_destroy, surface_unmapped, pointer
<1> QED BY <1>1, NoMoveStays

LEMMA ClientStays ==
    ASSUME TypeOK, ClientStep
    PROVE  \A u \in Seats : Stays(u)
<1>1. CASE \E c \in Clients : bind_ivi_input(c) \/ unbind_resource_controller(c)
  <2>1. UNCHANGED pointer
    BY <1>1 DEF bind_ivi_input, unbind_resource_controller
  <2> QED BY <2>1, NoMoveStays DEF pointer
<1>2. ASSUME NEW s \in Surfaces, NEW devices, NEW enabled \in BOOLEAN,
             input_set_input_focus(s, devices, enabled)
      PROVE  \A u \in Seats : Stays(u)
  <2>1. PICK T, out : /\ T \subseteq accepted[s]
                      /\ MovePointers(T, out)
                      /\ \A t \in T : out[t] \in SetFocusSurf(t, s, enabled)
    BY <1>2 DEF input_set_input_focus
  <2>2. \A t \in T : StaysWith(t, out[t])
    <3>1. T \subseteq Seats
      BY <1>2, <2>1 DEF TypeOK
    <3> QED BY <1>2, <2>1, <3>1, SurfStays
  <2> QED BY <2>1, <2>2, MoveStays
<1>3. ASSUME NEW s \in Surfaces, NEW t \in Seats, NEW accept \in BOOLEAN,
             input_set_input_acceptance(s, t, accept)
      PROVE  \A u \in Seats : Stays(u)
  <2>1. StaysWith(t, Stay(t, forced[t], t \in forced_enabled))
    BY DEF StaysWith, Stay, Outcome
  <2>2. StaysWith(t, ClearFocus(t))
    BY DEF StaysWith, ClearFocus, Stay, LeaveWestFocus, Outcome
  <2>3. \A acc : \A o \in GrabFocus(acc, t, forced[t], t \in forced_enabled) : StaysWith(t, o)
    <3>1. (t \in forced_enabled) \in BOOLEAN
      OBVIOUS
    <3> QED BY <3>1, GrabStays
  <2>4. CASE AcceptSeat(s, t)
    <3>1. PICK o : /\ MovePointers({t}, [u \in {t} |-> o])
                   /\ \/ o \in GrabFocus(accepted', t, forced[t], t \in forced_enabled)
                      \/ o = Stay(t, forced[t], t \in forced_enabled)
      BY <2>4 DEF AcceptSeat
    <3>2. StaysWith(t, o)
      BY <2>1, <2>3, <3>1
    <3> QED BY <3>1, <3>2, OneMoveStays
  <2>5. CASE RefuseSeat(s, t)
    <3>1. PICK o : /\ MovePointers({t}, [u \in {t} |-> o])
                   /\ o = ClearFocus(t) \/ o = Stay(t, forced[t], t \in forced_enabled)
      BY <2>5 DEF RefuseSeat
    <3>2. StaysWith(t, o)
      BY <2>1, <2>2, <3>1
    <3> QED BY <3>1, <3>2, OneMoveStays
  <2> QED BY <1>3, <2>4, <2>5 DEF input_set_input_acceptance
<1> QED BY <1>1, <1>2, <1>3 DEF ClientStep

\* While the pointer focus of a seat is forced to a surface there is, it moves to
\* no other (pointer_grab_focus, input_ctrl_ptr_set_focus_surf).
THEOREM ForcedFocusAlwaysStays == Spec => ForcedFocusStays
<1>1. TypeOK /\ [Next]_vars =>
        [\A t \in Seats :
            forced[t] \in list_surface /\ t \in forced_enabled /\ forced'[t] = forced[t]
                => pointer_focus'[t] \in {pointer_focus[t], forced[t], None}]_vars
  <2> SUFFICES ASSUME TypeOK, Next PROVE \A t \in Seats : Stays(t)
    BY DEF Stays
  <2> QED BY SeatStays, SurfaceStays, ClientStays DEF Next
<1>2. Spec => []TypeOK
  BY TypesAreRight
<1> QED BY <1>1, <1>2, PTL DEF Spec, ForcedFocusStays

-----------------------------------------------------------------------------
(* The keyboard focus clients know.                                        *)

\* A seat with the flag of the keyboard has a keyboard: its grab clears the
\* flags when the device goes.  KeyboardFocusIsKnown needs it where a request
\* takes the focus from the seats with a keyboard only.
KeyboardIsThere ==
    \A s \in Surfaces, t \in Seats : KEYBOARD \in focus[s][t] => KEYBOARD \in caps[t]

\* The step of KeyboardFocusIsKnown.
Knowing ==
    \A c \in resource_list', s \in Surfaces, t \in Seats :
        KEYBOARD \in focus'[s][t] /\ KEYBOARD \notin told_focus'[c][s] =>
            \/ /\ c \in resource_list
               /\ KEYBOARD \in focus[s][t] /\ KEYBOARD \notin told_focus[c][s]
            \/ \E u \in Seats \ {t} : KEYBOARD \in focus[s][u] \ focus'[s][u]

KeysKept == Knowing /\ KeyboardIsThere'

\* What the flags FL cleared and FG set, and the events L and G sent of them,
\* need to have in common about the keyboard.
KeysFit(FL, FG, L, G) ==
    \A s \in Surfaces, t \in Seats :
        /\ <<s, t, KEYBOARD>> \in FG => <<s, KEYBOARD>> \in G /\ KEYBOARD \in caps'[t]
        /\ KEYBOARD \in focus[s][t] /\ KEYBOARD \notin caps'[t] => <<s, t, KEYBOARD>> \in FL
        /\ KEYBOARD \in focus[s][t] /\ <<s, KEYBOARD>> \in L =>
               \/ <<s, t, KEYBOARD>> \in FL
               \/ \E u \in Seats \ {t} : /\ KEYBOARD \in focus[s][u]
                                         /\ <<s, u, KEYBOARD>> \in FL \ FG

LEMMA KeysStep ==
    ASSUME TypeOK, KeyboardIsThere, NEW FL, NEW FG, NEW L, NEW G,
           focus' = Flagged(FL, FG), SendFocus(L, G), resource_list' = resource_list,
           KeysFit(FL, FG, L, G)
    PROVE  KeysKept
<1>1. /\ focus \in [Surfaces -> [Seats -> SUBSET Devices]]
      /\ resource_list \subseteq Clients /\ KEYBOARD \in Devices
  BY DevicesDiffer DEF TypeOK
<1>2. \A s \in Surfaces, t \in Seats :
        KEYBOARD \in focus'[s][t] <=> \/ KEYBOARD \in focus[s][t] /\ <<s, t, KEYBOARD>> \notin FL
                                      \/ <<s, t, KEYBOARD>> \in FG
  BY <1>1, FlaggedType
<1>3. \A c \in resource_list, s \in Surfaces :
        \/ KEYBOARD \in told_focus[c][s] /\ <<s, KEYBOARD>> \notin L
        \/ <<s, KEYBOARD>> \in G
        => KEYBOARD \in told_focus'[c][s]
  BY <1>1 DEF SendFocus
<1>4. Knowing
  <2> SUFFICES ASSUME NEW c \in resource_list, NEW s \in Surfaces, NEW t \in Seats,
                      KEYBOARD \in focus'[s][t], KEYBOARD \notin told_focus'[c][s]
               PROVE  \/ KEYBOARD \in focus[s][t] /\ KEYBOARD \notin told_focus[c][s]
                      \/ \E u \in Seats \ {t} : KEYBOARD \in focus[s][u] \ focus'[s][u]
    BY DEF Knowing
  <2>1. KEYBOARD \in focus[s][t] /\ <<s, t, KEYBOARD>> \notin FL
    BY <1>2, <1>3 DEF KeysFit
  <2>2. CASE <<s, KEYBOARD>> \in L
    <3>1. PICK u \in Seats \ {t} : KEYBOARD \in focus[s][u] /\ <<s, u, KEYBOARD>> \in FL \ FG
      BY <2>1, <2>2 DEF KeysFit
    <3>2. KEYBOARD \notin focus'[s][u]
      BY <1>2, <3>1
    <3> QED BY <3>1, <3>2
  <2>3. CASE <<s, KEYBOARD>> \notin L
    BY <1>3, <2>1, <2>3
  <2> QED BY <2>2, <2>3
<1>5. KeyboardIsThere'
  <2> SUFFICES ASSUME NEW s \in Surfaces, NEW t \in Seats, KEYBOARD \in focus'[s][t]
               PROVE  KEYBOARD \in caps'[t]
    BY DEF KeyboardIsThere
  <2> QED BY <1>2 DEF KeysFit
<1> QED BY <1>4, <1>5 DEF KeysKept

\* Flags and events of the pointer and the touch say nothing of the keyboard.
NoKeyIn(L) == \A f \in L : f[3] # KEYBOARD

LEMMA QuietStep ==
    ASSUME TypeOK, KeyboardIsThere, NEW L, NEW G, SetFlags(L, G), NoKeyIn(L), NoKeyIn(G),
           resource_list' = resource_list,
           \A t \in Seats : KEYBOARD \in caps[t] => KEYBOARD \in caps'[t]
    PROVE  KeysKept
<1>1. PICK EL, EG : EL = {<<f[1], f[3]>> : f \in L} /\ EG = {<<f[1], f[3]>> : f \in G}
  OBVIOUS
<1>2. focus' = Flagged(L, G) /\ SendFocus(EL, EG)
  BY <1>1 DEF SetFlags
<1>3. \A s : <<s, KEYBOARD>> \notin EL
  BY <1>1 DEF NoKeyIn
<1>4. \A s, t : <<s, t, KEYBOARD>> \notin G
  BY DEF NoKeyIn
<1>5. KeysFit(L, G, EL, EG)
  BY <1>3, <1>4 DEF KeysFit, KeyboardIsThere
<1> QED BY <1>2, <1>5, KeysStep

LEMMA PointerHasNoKey ==
    ASSUME NEW T, NEW out PROVE NoKeyIn(PointerLost(T, out)) /\ NoKeyIn(PointerGained(T, out))
BY DevicesDiffer DEF PointerLost, PointerGained, NoKeyIn

LEMMA TouchHasNoKey ==
    ASSUME NEW S, NEW t PROVE NoKeyIn({<<s, t, TOUCH>> : s \in S})
BY DevicesDiffer DEF NoKeyIn

LEMMA NothingHasNoKey == NoKeyIn({})
BY DEF NoKeyIn

LEMMA KeysUnchanged ==
    ASSUME KeyboardIsThere, UNCHANGED <<focus, resource_list, told_focus>>,
           \A t \in Seats : KEYBOARD \in caps[t] => KEYBOARD \in caps'[t]
    PROVE  KeysKept
BY DEF KeysKept, Knowing, KeyboardIsThere

\* The flags P are cleared without an event.
LEMMA KeysCleared ==
    ASSUME TypeOK, KeyboardIsThere, NEW P, focus' = Flagged(P, {}), resource_list' = resource_list,
           \A s \in Surfaces, t \in Seats :
               KEYBOARD \in caps[t] => KEYBOARD \in caps'[t] \/ <<s, t, KEYBOARD>> \in P,
           \A c \in resource_list, s \in Surfaces, t \in Seats :
               KEYBOARD \in told_focus[c][s]
                   => KEYBOARD \in told_focus'[c][s] \/ <<s, t, KEYBOARD>> \in P
    PROVE  KeysKept
<1>1. focus \in [Surfaces -> [Seats -> SUBSET Devices]] /\ KEYBOARD \in Devices
  BY DevicesDiffer DEF TypeOK
<1>2. \A s \in Surfaces, t \in Seats :
        KEYBOARD \in focus'[s][t] => KEYBOARD \in focus[s][t] /\ <<s, t, KEYBOARD>> \notin P
  BY <1>1, FlaggedType
<1>3. Knowing
  BY <1>2 DEF Knowing
<1>4. KeyboardIsThere'
  BY <1>2 DEF KeyboardIsThere
<1> QED BY <1>3, <1>4 DEF KeysKept

LEMMA KeysMovePointer ==
    ASSUME TypeOK, KeyboardIsThere, NEW t \in Seats, NEW o, MovePointer(t, o)
    PROVE  KeysKept
<1>1. PICK L, G : /\ L = PointerLost({t}, [u \in {t} |-> o])
                  /\ G = PointerGained({t}, [u \in {t} |-> o])
  OBVIOUS
<1>2. NoKeyIn(L) /\ NoKeyIn(G)
  BY <1>1, PointerHasNoKey
<1>3. SetFlags(L, G) /\ resource_list' = resource_list /\ caps' = caps
  BY <1>1 DEF MovePointer, lists
<1> QED BY <1>2, <1>3, QuietStep

LEMMA KeysTouch ==
    ASSUME TypeOK, KeyboardIsThere, NEW t \in Seats, touch_grab_down(t) \/ touch_grab_up(t)
    PROVE  KeysKept
<1>1. resource_list' = resource_list /\ caps' = caps
  BY DEF touch_grab_down, touch_grab_up, lists
<1>2. \/ \E S : SetFlags({}, {<<s, t, TOUCH>> : s \in S})
      \/ \E S : SetFlags({<<s, t, TOUCH>> : s \in S}, {})
      \/ UNCHANGED <<focus, told_focus>>
  BY DEF touch_grab_down, touch_grab_up
<1>3. \A u \in Seats : KEYBOARD \in caps[u] => KEYBOARD \in caps'[u]
  BY <1>1
<1>4. CASE \E S : \/ SetFlags({}, {<<s, t, TOUCH>> : s \in S})
                  \/ SetFlags({<<s, t, TOUCH>> : s \in S}, {})
  <2>1. PICK S : \/ SetFlags({}, {<<s, t, TOUCH>> : s \in S})
                 \/ SetFlags({<<s, t, TOUCH>> : s \in S}, {})
    BY <1>4
  <2>2. PICK L : L = {<<s, t, TOUCH>> : s \in S}
    OBVIOUS
  <2>3. NoKeyIn(L) /\ NoKeyIn({})
    BY <2>2, TouchHasNoKey, NothingHasNoKey
  <2>4. SetFlags({}, L) \/ SetFlags(L, {})
    BY <2>1, <2>2, Zenon
  <2> QED BY <1>1, <1>3, <2>3, <2>4, QuietStep
<1>5. CASE UNCHANGED <<focus, told_focus>>
  BY <1>1, <1>5, KeysUnchanged
<1> QED BY <1>2, <1>4, <1>5

LEMMA KeysAdded ==
    ASSUME TypeOK, KeyboardIsThere, NEW t \in Seats, NEW d \in Devices, DeviceAdded(t, d)
    PROVE  KeysKept
<1>1. PICK o : SetFlags(PointerLost({t}, [u \in {t} |-> o]), PointerGained({t}, [u \in {t} |-> o]))
  BY DEF DeviceAdded
<1>2. resource_list' = resource_list
  BY DEF DeviceAdded
<1>3. \A u \in Seats : KEYBOARD \in caps[u] => KEYBOARD \in caps'[u]
  BY DEF DeviceAdded, TypeOK
<1> QED BY <1>1, <1>2, <1>3, QuietStep, PointerHasNoKey

\* keyboard_grab_cancel: every surface that has the focus of the seat loses it.
LEMMA KeysGone ==
    ASSUME TypeOK, KeyboardIsThere, NEW t \in Seats, DeviceRemoved(t, KEYBOARD)
    PROVE  KeysKept
<1>1. PICK S, L, E : /\ S = {x \in list_surface : KEYBOARD \in focus[x][t]}
                     /\ L = {<<s, t, KEYBOARD>> : s \in S}
                     /\ E = {<<f[1], f[3]>> : f \in L}
  OBVIOUS
<1>2. SetFlags(L, {}) /\ resource_list' = resource_list
  BY <1>1, DevicesDiffer DEF DeviceRemoved
<1>3. focus' = Flagged(L, {}) /\ SendFocus(E, {})
  <2>1. {<<f[1], f[3]>> : f \in {}} = {}
    OBVIOUS
  <2> QED BY <1>1, <1>2, <2>1 DEF SetFlags
<1>4. \A s \in Surfaces : KEYBOARD \in focus[s][t] => <<s, t, KEYBOARD>> \in L
  BY <1>1 DEF TypeOK
<1>5. \A s : <<s, KEYBOARD>> \in E => KEYBOARD \in focus[s][t] /\ <<s, t, KEYBOARD>> \in L
  BY <1>1
<1>6. \A u \in Seats \ {t} : KEYBOARD \in caps[u] => KEYBOARD \in caps'[u]
  BY DEF DeviceRemoved, TypeOK
<1>7. KeysFit(L, {}, E, {})
  BY <1>4, <1>5, <1>6 DEF KeysFit, KeyboardIsThere
<1> QED BY <1>2, <1>3, <1>7, KeysStep

LEMMA KeysRemoved ==
    ASSUME TypeOK, KeyboardIsThere, NEW t \in Seats, NEW d \in Devices, DeviceRemoved(t, d)
    PROVE  KeysKept
<1>1. CASE d = KEYBOARD
  BY <1>1, KeysGone
<1>2. CASE d # KEYBOARD
  <2>1. \A u \in Seats : KEYBOARD \in caps[u] => KEYBOARD \in caps'[u]
    BY <1>2 DEF DeviceRemoved, TypeOK
  <2>2. resource_list' = resource_list
    BY DEF DeviceRemoved
  <2>3. CASE d = POINTER
    <3>1. PICK o : SetFlags(PointerLost({t}, [u \in {t} |-> o]), {})
      BY <2>3, DevicesDiffer, Zenon DEF DeviceRemoved
    <3> QED BY <2>1, <2>2, <3>1, QuietStep, PointerHasNoKey, NothingHasNoKey
  <2>4. CASE d = TOUCH
    <3>1. PICK S : SetFlags({<<s, t, TOUCH>> : s \in S}, {})
      BY <2>4, DevicesDiffer DEF DeviceRemoved
    <3> QED BY <2>1, <2>2, <3>1, QuietStep, TouchHasNoKey, NothingHasNoKey
  <2> QED BY <1>2, <2>3, <2>4, DevicesDiffer
<1> QED BY <1>1, <1>2

LEMMA KeysSeat ==
    ASSUME TypeOK, KeyboardIsThere, NEW t \in Seats, SeatStep(t)
    PROVE  KeysKept
<1>1. CASE pointer_grab_focus(t) \/ pointer_grab_motion(t) \/ pointer_grab_button(t)
  <2>1. \E o : MovePointer(t, o)
    BY <1>1, Zenon DEF pointer_grab_focus, pointer_grab_motion, pointer_grab_button
  <2> QED BY <2>1, KeysMovePointer
<1>2. CASE touch_grab_down(t) \/ touch_grab_up(t)
  BY <1>2, KeysTouch
<1>3. CASE handle_seat_create(t)
  BY <1>3, KeysUnchanged DEF handle_seat_create
<1>4. CASE destroy_seat(t)
  <2>1. PICK P : P = Surfaces \X {t} \X Devices
    OBVIOUS
  <2>2. focus' = Flagged(P, {}) /\ UNCHANGED <<resource_list, told_focus>>
    BY <1>4, <2>1, Zenon DEF destroy_seat
  <2>3. \A s \in Surfaces : <<s, t, KEYBOARD>> \in P
    BY <2>1, DevicesDiffer
  <2>4. \A s \in Surfaces, u \in Seats :
          KEYBOARD \in caps[u] => KEYBOARD \in caps'[u] \/ <<s, u, KEYBOARD>> \in P
    BY <1>4, <2>3 DEF destroy_seat, TypeOK
  <2> QED BY <2>2, <2>4, KeysCleared
<1>5. CASE \E d \in Devices : handle_seat_updated_caps(t, d)
  BY <1>5, KeysAdded, KeysRemoved DEF handle_seat_updated_caps
<1> QED BY <1>1, <1>2, <1>3, <1>4, <1>5 DEF SeatStep

LEMMA KeysSurface ==
    ASSUME TypeOK, KeyboardIsThere, NEW s \in Surfaces, SurfaceStep(s)
    PROVE  KeysKept
<1>1. CASE handle_surface_create(s) \/ surface_unmapped(s)
  BY <1>1, KeysUnchanged DEF handle_surface_create, surface_unmapped, lists
<1>2. CASE handle_surface_destroy(s)
  <2>1. PICK P : P = {s} \X Seats \X Devices
    OBVIOUS
  <2>2. focus' = Flagged(P, {}) /\ UNCHANGED <<caps, resource_list>>
    BY <1>2, <2>1, Zenon DEF handle_surface_destroy
  <2>3. \A t \in Seats : <<s, t, KEYBOARD>> \in P
    BY <2>1, DevicesDiffer
  <2>4. \A c \in resource_list, x \in Surfaces, t \in Seats :
          KEYBOARD \in told_focus[c][x]
              => KEYBOARD \in told_focus'[c][x] \/ <<x, t, KEYBOARD>> \in P
    BY <1>2, <2>3 DEF handle_surface_destroy, TypeOK
  <2> QED BY <2>2, <2>4, KeysCleared
<1> QED BY <1>1, <1>2 DEF SurfaceStep

-----------------------------------------------------------------------------
(* Requests and the keyboard focus.                                        *)

\* The sets of input_set_input_focus: the flags L and G, and the events EL
\* and EG of them with the masks of a touch focus.
Forced(s, devices, enabled, L, G, EL, EG) ==
    \E pointers, out, left, entered, masks :
        /\ left \cup entered = {t \in accepted[s] : KEYBOARD \in devices \cap caps[t]}
        /\ \A t \in left : KEYBOARD \in focus[s][t]
        /\ \A t \in entered : KEYBOARD \notin focus[s][t]
        /\ masks = IF TOUCH \in devices /\ accepted[s] # {} THEN {s} \X devices ELSE {}
        /\ L = PointerLost(pointers, out) \cup
               (IF enabled THEN {} ELSE {<<s, t, KEYBOARD>> : t \in left})
        /\ G = PointerGained(pointers, out) \cup
               (IF enabled THEN {<<s, t, KEYBOARD>> : t \in entered} ELSE {})
        /\ EL = {<<f[1], f[3]>> : f \in L} \cup (IF enabled THEN {} ELSE masks)
        /\ EG = {<<f[1], f[3]>> : f \in G} \cup (IF enabled THEN masks ELSE {})

LEMMA KeysForced ==
    ASSUME TypeOK, KeyboardIsThere, NEW s \in Surfaces, NEW devices, NEW enabled \in BOOLEAN,
           NEW L, NEW G, NEW EL, NEW EG, Forced(s, devices, enabled, L, G, EL, EG),
           caps' = caps
    PROVE  KeysFit(L, G, EL, EG)
<1> PICK pointers, out, left, entered, masks :
        /\ left \cup entered = {t \in accepted[s] : KEYBOARD \in devices \cap caps[t]}
        /\ \A t \in left : KEYBOARD \in focus[s][t]
        /\ \A t \in entered : KEYBOARD \notin focus[s][t]
        /\ masks = IF TOUCH \in devices /\ accepted[s] # {} THEN {s} \X devices ELSE {}
        /\ L = PointerLost(pointers, out) \cup
               (IF enabled THEN {} ELSE {<<s, t, KEYBOARD>> : t \in left})
        /\ G = PointerGained(pointers, out) \cup
               (IF enabled THEN {<<s, t, KEYBOARD>> : t \in entered} ELSE {})
        /\ EL = {<<f[1], f[3]>> : f \in L} \cup (IF enabled THEN {} ELSE masks)
        /\ EG = {<<f[1], f[3]>> : f \in G} \cup (IF enabled THEN masks ELSE {})
  BY DEF Forced
<1> SUFFICES ASSUME NEW x \in Surfaces, NEW t \in Seats
             PROVE  /\ <<x, t, KEYBOARD>> \in G => <<x, KEYBOARD>> \in EG /\ KEYBOARD \in caps'[t]
                    /\ KEYBOARD \in focus[x][t] => KEYBOARD \in caps'[t]
                    /\ KEYBOARD \in focus[x][t] /\ <<x, KEYBOARD>> \in EL
                           => <<x, t, KEYBOARD>> \in L
  BY DEF KeysFit
<1>1. NoKeyIn(PointerLost(pointers, out)) /\ NoKeyIn(PointerGained(pointers, out))
  BY PointerHasNoKey
<1>2. ASSUME <<x, t, KEYBOARD>> \in G PROVE <<x, KEYBOARD>> \in EG /\ KEYBOARD \in caps'[t]
  <2>1. <<x, t, KEYBOARD>> \notin PointerGained(pointers, out)
    BY <1>1 DEF NoKeyIn
  <2>2. t \in entered
    BY <1>2, <2>1
  <2>3. <<<<x, t, KEYBOARD>>[1], <<x, t, KEYBOARD>>[3]>> \in EG
    BY <1>2
  <2> QED BY <2>2, <2>3
<1>3. ASSUME KEYBOARD \in focus[x][t], <<x, KEYBOARD>> \in EL
      PROVE  <<x, t, KEYBOARD>> \in L
  <2>1. t \in accepted[x] /\ KEYBOARD \in caps[t]
    BY <1>3 DEF TypeOK, KeyboardIsThere, KeyboardIsThere
  <2>2. x = s /\ ~enabled /\ (KEYBOARD \in devices \/ \E u \in left : TRUE)
    <3>1. CASE \E f \in L : <<x, KEYBOARD>> = <<f[1], f[3]>>
      <4>1. PICK f \in L : <<x, KEYBOARD>> = <<f[1], f[3]>>
        BY <3>1
      <4>2. f \notin PointerLost(pointers, out)
        BY <1>1, <4>1 DEF NoKeyIn
      <4>3. ~enabled /\ \E u \in left : f = <<s, u, KEYBOARD>>
        BY <4>1, <4>2
      <4> QED BY <4>1, <4>3
    <3>2. CASE ~enabled /\ <<x, KEYBOARD>> \in masks
      BY <3>2
    <3> QED BY <1>3, <3>1, <3>2
  <2>3. KEYBOARD \in devices
    BY <2>2
  <2>4. t \in left
    BY <1>3, <2>1, <2>2, <2>3
  <2> QED BY <2>2, <2>4
<1>4. KEYBOARD \in focus[x][t] => KEYBOARD \in caps'[t]
  BY DEF KeyboardIsThere
<1> QED BY <1>2, <1>3, <1>4

LEMMA KeysSetFocus ==
    ASSUME TypeOK, KeyboardIsThere, NEW s \in Surfaces, NEW devices, NEW enabled \in BOOLEAN,
           input_set_input_focus(s, devices, enabled)
    PROVE  KeysKept
<1>1. resource_list' = resource_list /\ caps' = caps
  BY DEF input_set_input_focus, lists
<1>2. \E L, G, EL, EG : /\ Forced(s, devices, enabled, L, G, EL, EG)
                        /\ focus' = Flagged(L, G) /\ SendFocus(EL, EG)
  <2>1. PICK T, pointers, keyboards, masks :
          /\ T = accepted[s]
          /\ pointers = {t \in T : POINTER \in devices \cap caps[t]}
          /\ keyboards = {t \in T : KEYBOARD \in devices \cap caps[t]}
          /\ masks = IF TOUCH \in devices /\ T # {} THEN {s} \X devices ELSE {}
    OBVIOUS
  <2>2. PICK out, entered, left, L, G :
          /\ entered = {t \in keyboards : KEYBOARD \notin focus[s][t]}
          /\ left = keyboards \ entered
          /\ L = PointerLost(pointers, out) \cup
                 (IF enabled THEN {} ELSE {<<s, t, KEYBOARD>> : t \in left})
          /\ G = PointerGained(pointers, out) \cup
                 (IF enabled THEN {<<s, t, KEYBOARD>> : t \in entered} ELSE {})
          /\ focus' = Flagged(L, G)
          /\ SendFocus({<<f[1], f[3]>> : f \in L} \cup (IF enabled THEN {} ELSE masks),
                       {<<f[1], f[3]>> : f \in G} \cup (IF enabled THEN masks ELSE {}))
    BY <2>1, Zenon DEF input_set_input_focus
  <2>3. PICK EL, EG :
          /\ EL = {<<f[1], f[3]>> : f \in L} \cup (IF enabled THEN {} ELSE masks)
          /\ EG = {<<f[1], f[3]>> : f \in G} \cup (IF enabled THEN masks ELSE {})
    OBVIOUS
  <2>4. SendFocus(EL, EG)
    BY <2>2, <2>3, Zenon
  <2>5. /\ left \cup entered = {t \in accepted[s] : KEYBOARD \in devices \cap caps[t]}
        /\ \A t \in left : KEYBOARD \in focus[s][t]
        /\ \A t \in entered : KEYBOARD \notin focus[s][t]
        /\ masks = IF TOUCH \in devices /\ accepted[s] # {} THEN {s} \X devices ELSE {}
    BY <2>1, <2>2
  <2>6. Forced(s, devices, enabled, L, G, EL, EG)
    BY <2>2, <2>3, <2>5, Zenon DEF Forced
  <2> QED BY <2>2, <2>4, <2>6, Zenon
<1> QED BY <1>1, <1>2, KeysForced, KeysStep

LEMMA KeysAccepted ==
    ASSUME TypeOK, KeyboardIsThere, NEW s \in Surfaces, NEW t \in Seats, AcceptSeat(s, t),
           UNCHANGED <<caps, resource_list>>
    PROVE  KeysKept
<1>1. PICK o : SetFlags(PointerLost({t}, [u \in {t} |-> o]), PointerGained({t}, [u \in {t} |-> o]))
  BY DEF AcceptSeat
<1> QED BY <1>1, QuietStep, PointerHasNoKey

LEMMA KeysRefused ==
    ASSUME TypeOK, KeyboardIsThere, NEW s \in Surfaces, NEW t \in Seats, RefuseSeat(s, t),
           UNCHANGED <<caps, resource_list>>
    PROVE  KeysKept
<1>1. PICK out, touched, A, B, C :
        /\ A = PointerLost({t}, out)
        /\ B = {<<x, t, TOUCH>> : x \in touched}
        /\ C = {<<x, t, KEYBOARD>> : x \in IF KEYBOARD \in focus[s][t] \cap caps[t] THEN {s} ELSE {}}
        /\ focus' = Flagged(A \cup B \cup C \cup {<<s, t, d>> : d \in Devices}, {})
        /\ SendFocus({<<f[1], f[3]>> : f \in A \cup B \cup C}, {})
  BY Zenon DEF RefuseSeat
<1>2. PICK L, E : /\ L = A \cup B \cup C \cup {<<s, t, d>> : d \in Devices}
                  /\ E = {<<f[1], f[3]>> : f \in A \cup B \cup C}
  OBVIOUS
<1>3. focus' = Flagged(L, {}) /\ SendFocus(E, {})
  BY <1>1, <1>2, Zenon
<1>4. \A x : <<x, KEYBOARD>> \in E => x = s /\ KEYBOARD \in focus[s][t]
  <2> SUFFICES ASSUME NEW x, <<x, KEYBOARD>> \in E PROVE x = s /\ KEYBOARD \in focus[s][t]
    OBVIOUS
  <2>1. PICK f \in A \cup B \cup C : <<x, KEYBOARD>> = <<f[1], f[3]>>
    BY <1>2
  <2>2. f \notin A /\ f \notin B
    BY <1>1, <2>1, PointerHasNoKey, TouchHasNoKey DEF NoKeyIn
  <2>3. f = <<s, t, KEYBOARD>> /\ KEYBOARD \in focus[s][t]
    BY <1>1, <2>1, <2>2
  <2> QED BY <2>1, <2>3
<1>5. KeysFit(L, {}, E, {})
  <2> SUFFICES ASSUME NEW x \in Surfaces, NEW u \in Seats,
                      KEYBOARD \in focus[x][u], <<x, KEYBOARD>> \in E
               PROVE  \/ <<x, u, KEYBOARD>> \in L
                      \/ u # t /\ KEYBOARD \in focus[x][t] /\ <<x, t, KEYBOARD>> \in L
    BY DEF KeysFit, KeyboardIsThere
  <2>1. x = s /\ KEYBOARD \in focus[s][t]
    BY <1>4
  <2>2. <<s, t, KEYBOARD>> \in L
    BY <1>2, DevicesDiffer
  <2> QED BY <2>1, <2>2
<1> QED BY <1>3, <1>5, KeysStep

LEMMA KeysBound ==
    ASSUME TypeOK, KeyboardIsThere, NEW c \in Clients, bind_ivi_input(c) \/ unbind_resource_controller(c)
    PROVE  KeysKept
<1>1. UNCHANGED <<focus, caps, accepted>>
  BY DEF bind_ivi_input, unbind_resource_controller, lists
<1>2. KeyboardIsThere'
  BY <1>1 DEF KeyboardIsThere
<1>3. ASSUME NEW x \in resource_list', NEW s \in Surfaces, NEW t \in Seats,
             KEYBOARD \in focus[s][t], KEYBOARD \notin told_focus'[x][s]
      PROVE  x \in resource_list /\ KEYBOARD \notin told_focus[x][s]
  <2>1. CASE bind_ivi_input(c) /\ x = c
    <3>1. told_focus'[c][s] = UNION {focus[s][u] : u \in accepted[s]}
      BY <2>1 DEF bind_ivi_input, TypeOK
    <3>2. t \in accepted[s]
      BY <1>3 DEF TypeOK
    <3> QED BY <1>3, <2>1, <3>1, <3>2
  <2>2. CASE x # c
    <3>1. x \in resource_list /\ told_focus'[x] = told_focus[x]
      BY <1>3, <2>2 DEF bind_ivi_input, unbind_resource_controller, TypeOK
    <3> QED BY <1>3, <3>1
  <2>3. x = c => bind_ivi_input(c)
    BY <1>3 DEF unbind_resource_controller
  <2> QED BY <2>1, <2>2, <2>3
<1>4. Knowing
  BY <1>1, <1>3 DEF Knowing
<1> QED BY <1>2, <1>4 DEF KeysKept

LEMMA KeysClient ==
    ASSUME TypeOK, KeyboardIsThere, ClientStep
    PROVE  KeysKept
<1>1. ASSUME NEW s \in Surfaces, NEW t \in Seats, NEW accept \in BOOLEAN,
             input_set_input_acceptance(s, t, accept)
      PROVE  KeysKept
  BY <1>1, KeysAccepted, KeysRefused DEF input_set_input_acceptance
<1> QED BY <1>1, KeysBound, KeysSetFocus DEF ClientStep

\* However many seats there are, a bound client knows of a surface that keyboard
\* events of a seat go to, unless another seat leaves the surface
\* (send_input_focus, and bind_ivi_input for a client that comes later).
THEOREM KeyboardFocusAlwaysKnown == Spec => KeyboardFocusIsKnown
<1>1. Init => KeyboardIsThere
  BY DEF Init, KeyboardIsThere
<1>2. TypeOK /\ KeyboardIsThere /\ [Next]_vars => KeysKept
  <2> SUFFICES ASSUME TypeOK, KeyboardIsThere, [Next]_vars PROVE KeysKept
    OBVIOUS
  <2>1. CASE UNCHANGED vars
    BY <2>1, KeysUnchanged DEF vars, lists
  <2> QED BY <2>1, KeysSeat, KeysSurface, KeysClient DEF Next
<1>3. KeysKept => KeyboardIsThere'
  BY DEF KeysKept
<1>4. KeysKept =>
        [\A c \in resource_list', s \in Surfaces, t \in Seats :
            KEYBOARD \in focus'[s][t] /\ KEYBOARD \notin told_focus'[c][s] =>
                \/ /\ c \in resource_list
                   /\ KEYBOARD \in focus[s][t] /\ KEYBOARD \notin told_focus[c][s]
                \/ \E u \in Seats \ {t} : KEYBOARD \in focus[s][u] \ focus'[s][u]]_vars
  BY DEF KeysKept, Knowing
<1>5. Spec => []TypeOK
  BY TypesAreRight
<1> QED BY <1>1, <1>2, <1>3, <1>4, <1>5, PTL DEF Spec, KeyboardFocusIsKnown

=============================================================================
