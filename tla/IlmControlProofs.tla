-------------------------- MODULE IlmControlProofs --------------------------
(***************************************************************************)
(* Theorems about IlmControl for any objects, addresses and bounds, and    *)
(* for callbacks that call the library or not. They rest on two inductive  *)
(* invariants. The first is Sound: the types, what a callback sits on in   *)
(* the stack (FramesSit), what the lists hold (Listings, LayersLeave), and *)
(* a History of the compositor's objects that the events on their way tell *)
(* of: its first set is what the lists show (Mirrored), and a layer that   *)
(* has a callback and is in all of them is kept informed of, or is going   *)
(* to be (Informed). A step is first reduced to what it does to the stack  *)
(* (which frames stay, and which one comes on top), to the lists (Kept,    *)
(* Added, Dropped) and to the requests (Grows, Sends). The second, Prompt, *)
(* is about the answers of the getters: each roundtrip has one end on its  *)
(* way (Outstanding), the contexts show the properties that the client was *)
(* told of so far (Shows), and what it is going to be told of by the end   *)
(* of a getter's roundtrip is one of its answers (Claim).                  *)
(***************************************************************************)
EXTENDS IlmControl, SequenceTheorems, FiniteSetTheorems, TLAPS

-----------------------------------------------------------------------------
(* Lists.                                                                  *)

LEMMA LeastNatural ==
    ASSUME NEW S, S \subseteq Nat, S # {}
    PROVE  \E m \in S : \A k \in S : m <= k
<1>1. IsWellFoundedOn(StrictSubsetOrdering(Nat), FiniteSubsetsOf(Nat))
  BY FS_StrictSubsetOrderingWellFounded
<1> DEFINE T == {0 .. n : n \in S}
<1>2. T \subseteq FiniteSubsetsOf(Nat)
  <2> SUFFICES ASSUME NEW n \in S PROVE 0 .. n \in FiniteSubsetsOf(Nat)
    OBVIOUS
  <2>1. IsFiniteSet(0 .. n)
    BY FS_Interval
  <2>2. 0 .. n \subseteq Nat
    OBVIOUS
  <2> QED BY <2>1, <2>2 DEF FiniteSubsetsOf
<1>3. T # {}
  OBVIOUS
<1>4. PICK U \in T : \A V \in T : <<V, U>> \notin StrictSubsetOrdering(Nat)
  <2> HIDE DEF T
  <2> QED BY <1>1, <1>2, <1>3, WFMin
<1>5. PICK m \in S : U = 0 .. m
  BY <1>4
<1>6. ASSUME NEW k \in S, ~(m <= k) PROVE FALSE
  <2>1. 0 .. k \in T
    OBVIOUS
  <2>2. <<0 .. k, 0 .. m>> \notin StrictSubsetOrdering(Nat)
    BY <1>4, <1>5, <2>1
  <2>3. 0 .. k \subseteq 0 .. m /\ m \in 0 .. m /\ m \notin 0 .. k
    BY <1>6
  <2> QED BY <2>2, <2>3, <1>2, <1>5 DEF StrictSubsetOrdering
<1> QED BY <1>6

LEMMA MinIn ==
    ASSUME NEW S, S \subseteq Nat, S # {}
    PROVE  Min(S) \in S /\ \A k \in S : Min(S) <= k
BY LeastNatural DEF Min

LEMMA SetOf ==
    ASSUME NEW E, NEW q \in Seq(E)
    PROVE  /\ \A i \in 1 .. Len(q) : q[i] \in ToSet(q)
           /\ \A x \in ToSet(q) : \E i \in 1 .. Len(q) : x = q[i]
           /\ ToSet(q) \subseteq E
<1>1. DOMAIN q = 1 .. Len(q) /\ \A i \in 1 .. Len(q) : q[i] \in E
  OBVIOUS
<1> QED BY <1>1 DEF ToSet

\* get_surface_context and its like find a context with the id when the list has
\* one.
LEMMA LookupIs ==
    ASSUME NEW id, NEW P, ListOf(id) \in Seq(P)
    PROVE  \/ Lookup(id) = Absent /\ \A p \in ToSet(ListOf(id)) : context[p].id # id
           \/ Lookup(id) \in ToSet(ListOf(id)) /\ context[Lookup(id)].id = id
<1> DEFINE q == ListOf(id)
           I == {i \in 1 .. Len(q) : context[q[i]].id = id}
<1>1. SelectInSeq(q, LAMBDA p : context[p].id = id) = IF I # {} THEN Min(I) ELSE 0
  BY DEF SelectInSeq
<1>2. Lookup(id) = LET n == IF I # {} THEN Min(I) ELSE 0 IN IF n = 0 THEN Absent ELSE q[n]
  BY <1>1 DEF Lookup
<1>3. q \in Seq(P)
  OBVIOUS
<1>4. /\ \A i \in 1 .. Len(q) : q[i] \in ToSet(q)
      /\ \A x \in ToSet(q) : \E i \in 1 .. Len(q) : x = q[i]
  <2> HIDE DEF q
  <2> QED BY <1>3, SetOf
<1>5. CASE I = {}
  <2>1. Lookup(id) = Absent
    BY <1>2, <1>5
  <2>2. \A i \in 1 .. Len(q) : context[q[i]].id # id
    BY <1>5
  <2> HIDE DEF I
  <2> QED BY <1>4, <2>1, <2>2
<1>6. CASE I # {}
  <2>1. I \subseteq Nat
    OBVIOUS
  <2>2. Min(I) \in I
    <3> HIDE DEF I
    <3> QED BY <2>1, <1>6, MinIn
  <2>3. PICK n : n = Min(I)
    OBVIOUS
  <2>4. n \in 1 .. Len(q) /\ context[q[n]].id = id /\ n # 0
    BY <2>2, <2>3
  <2>5. Lookup(id) = q[n]
    BY <1>2, <1>6, <2>3, <2>4
  <2>6. q[n] \in ToSet(q)
    BY <1>4, <2>4
  <2> QED BY <2>4, <2>5, <2>6
<1> QED BY <1>5, <1>6

\* q has no element twice.
Once(q) == \A i, j \in 1 .. Len(q) : q[i] = q[j] => i = j

\* wl_list_remove.
LEMMA RemovedIs ==
    ASSUME NEW P, NEW q \in Seq(P), NEW x
    PROVE  /\ RemoveFirst(q, x) \in Seq(P)
           /\ Once(q) => /\ Once(RemoveFirst(q, x))
                         /\ ToSet(RemoveFirst(q, x)) = ToSet(q) \ {x}
<1> DEFINE I == {i \in 1 .. Len(q) : q[i] = x}
<1>1. SelectInSeq(q, LAMBDA v : v = x) = IF I # {} THEN Min(I) ELSE 0
  BY DEF SelectInSeq
<1>2. RemoveFirst(q, x) = IF I # {} THEN RemoveAt(q, Min(I)) ELSE q
  BY <1>1 DEF RemoveFirst
<1>3. CASE I = {}
  <2>1. x \notin ToSet(q)
    BY <1>3, SetOf
  <2> QED BY <1>2, <1>3, <2>1
<1>4. CASE I # {}
  <2>1. PICK n : n = Min(I)
    OBVIOUS
  <2>2. n \in 1 .. Len(q) /\ q[n] = x
    <3>1. I \subseteq Nat
      OBVIOUS
    <3>2. Min(I) \in I
      <4> HIDE DEF I
      <4> QED BY <3>1, <1>4, MinIn
    <3> QED BY <3>2, <2>1
  <2>3. PICK r : r = RemoveFirst(q, x)
    OBVIOUS
  <2>4. r = SubSeq(q, 1, n - 1) \o SubSeq(q, n + 1, Len(q))
    BY <1>2, <1>4, <2>1, <2>3 DEF RemoveAt
  <2>5. PICK s, t : s = SubSeq(q, 1, n - 1) /\ t = SubSeq(q, n + 1, Len(q))
    OBVIOUS
  <2>6. /\ s \in Seq(P) /\ Len(s) = n - 1 /\ \A i \in 1 .. n - 1 : s[i] = q[i]
        /\ t \in Seq(P) /\ Len(t) = Len(q) - n /\ \A i \in 1 .. Len(q) - n : t[i] = q[n + i]
    <3>1. Len(q) \in Nat
      OBVIOUS
    <3>2. s \in Seq(P) /\ Len(s) = n - 1 /\ \A i \in 1 .. n - 1 : s[i] = q[i]
      BY <3>1, <2>2, <2>5
    <3>3. t \in Seq(P) /\ Len(t) = Len(q) - n /\ \A i \in 1 .. Len(q) - n : t[i] = q[n + i]
      BY <3>1, <2>2, <2>5
    <3> QED BY <3>2, <3>3
  <2>7. r \in Seq(P) /\ Len(r) = Len(q) - 1 /\ Len(q) \in Nat
    <3>1. r = s \o t /\ s \in Seq(P) /\ t \in Seq(P)
      BY <2>4, <2>5, <2>6
    <3>2. r \in Seq(P) /\ Len(r) = Len(s) + Len(t)
      BY <3>1
    <3> QED BY <3>2, <2>2, <2>6
  <2>8. \A i \in 1 .. Len(r) : r[i] = IF i < n THEN q[i] ELSE q[i + 1]
    <3> SUFFICES ASSUME NEW i \in 1 .. Len(r) PROVE r[i] = IF i < n THEN q[i] ELSE q[i + 1]
      OBVIOUS
    <3>1. r = s \o t
      BY <2>4, <2>5
    <3>2. CASE i < n
      <4>1. i \in 1 .. Len(s)
        BY <3>2, <2>2, <2>6, <2>7
      <4>2. r[i] = s[i]
        BY <3>1, <4>1, <2>6
      <4> QED BY <4>1, <4>2, <2>6, <3>2
    <3>3. CASE ~(i < n)
      <4>1. i - (n - 1) \in 1 .. Len(q) - n /\ i = Len(s) + (i - (n - 1))
        BY <3>3, <2>2, <2>6, <2>7
      <4>2. r[i] = t[i - (n - 1)]
        BY <3>1, <4>1, <2>6
      <4>3. t[i - (n - 1)] = q[n + (i - (n - 1))] /\ n + (i - (n - 1)) = i + 1
        BY <4>1, <2>2, <2>6
      <4> QED BY <4>2, <4>3, <3>3
    <3> QED BY <3>2, <3>3
  <2> HIDE DEF I
  <2>9. ASSUME Once(q) PROVE Once(r) /\ ToSet(r) = ToSet(q) \ {x}
    <3>1. Once(r)
      BY <2>2, <2>7, <2>8, <2>9 DEF Once
    <3>2. ASSUME NEW y \in ToSet(r) PROVE y \in ToSet(q) /\ y # x
      <4>1. PICK i \in 1 .. Len(r) : y = r[i]
        BY <2>7, SetOf
      <4>2. CASE i < n
        <5>1. y = q[i] /\ i \in 1 .. Len(q) /\ i # n
          BY <4>1, <4>2, <2>7, <2>8
        <5> QED BY <5>1, <2>2, <2>9, SetOf DEF Once
      <4>3. CASE ~(i < n)
        <5>1. y = q[i + 1] /\ i + 1 \in 1 .. Len(q) /\ i + 1 # n
          BY <4>1, <4>3, <2>2, <2>7, <2>8
        <5> QED BY <5>1, <2>2, <2>9, SetOf DEF Once
      <4> QED BY <4>2, <4>3
    <3>3. ASSUME NEW y \in ToSet(q), y # x PROVE y \in ToSet(r)
      <4>1. PICK j \in 1 .. Len(q) : y = q[j]
        BY SetOf
      <4>2. \A i \in 1 .. Len(r) : r[i] \in ToSet(r)
        BY <2>7, SetOf
      <4>3. CASE j < n
        <5>1. j \in 1 .. Len(r) /\ r[j] = q[j]
          BY <4>3, <2>2, <2>7, <2>8
        <5> QED BY <5>1, <4>1, <4>2
      <4>4. CASE n < j
        <5>1. j - 1 \in 1 .. Len(r) /\ r[j - 1] = q[j]
          BY <4>4, <2>2, <2>7, <2>8
        <5> QED BY <5>1, <4>1, <4>2
      <4>5. j # n
        BY <3>3, <4>1, <2>2
      <4> QED BY <4>3, <4>4, <4>5, <2>2
    <3> QED BY <3>1, <3>2, <3>3
  <2> QED BY <2>3, <2>7, <2>9
<1> QED BY <1>3, <1>4

LEMMA FrontIs ==
    ASSUME NEW F, NEW s \in Seq(F), s # <<>>
    PROVE  /\ Len(s) \in Nat \ {0} /\ Last(s) = s[Len(s)] /\ Last(s) \in F
           /\ Front(s) \in Seq(F) /\ Len(Front(s)) = Len(s) - 1
           /\ \A i \in 1 .. Len(s) - 1 : Front(s)[i] = s[i]
<1>1. Len(s) \in Nat \ {0} /\ Len(s) \in 1 .. Len(s)
  OBVIOUS
<1>2. Last(s) = s[Len(s)] /\ Last(s) \in F
  BY <1>1 DEF Last
<1>3. PICK n : n = Len(s)
  OBVIOUS
<1>4. PICK r : r = SubSeq(s, 1, n - 1)
  OBVIOUS
<1>5. n \in 1 .. Len(s) /\ Front(s) = r
  BY <1>1, <1>3, <1>4 DEF Front
<1>6. r \in Seq(F) /\ Len(r) = n - 1 /\ \A i \in 1 .. n - 1 : r[i] = s[i]
  BY <1>4, <1>5
<1> QED BY <1>1, <1>2, <1>3, <1>5, <1>6

LEMMA AppendIs ==
    ASSUME NEW F, NEW s \in Seq(F), NEW f \in F
    PROVE  /\ Append(s, f) \in Seq(F) /\ Len(Append(s, f)) = Len(s) + 1 /\ Len(s) \in Nat
           /\ \A i \in 1 .. Len(s) : Append(s, f)[i] = s[i]
           /\ Append(s, f)[Len(s) + 1] = f
OBVIOUS

-----------------------------------------------------------------------------
(* Types.                                                                  *)

IdOps    == {"ilm_getProperties", "ilm_addNotification", "ilm_removeNotification"}
LayerOps == {"ilm_getSurfaceIDsOnLayer", "ilm_layerCreateWithDimension", "ilm_layerRemove"}
PlainOps == {"ilm_getSurfaceIDs", "ilm_getLayerIDs", "ilm_registerNotification",
             "ilm_unregisterNotification", "ilm_commitChanges"}
AllOps   == IdOps \cup LayerOps \cup PlainOps \cup {"callback"}
Waits    == {"sync", "reply"}
Places   == Waits \cup {"return"} \cup Callbacks

Values == Props \cup {Zero, Absent} \cup (SUBSET Ids) \cup Seq(Surfaces)

Frames == [op : AllOps, id : Ids \cup {Absent}, pc : Places, ptr : Ptrs \cup {Absent},
           done : BOOLEAN, value : Values, answers : SUBSET Values]

\* The frames that hold a pointer to a context.
Points(f) ==
    \/ f.op = "ilm_getSurfaceIDsOnLayer"
    \/ f.op \in {"ilm_addNotification", "ilm_removeNotification"} /\ f.pc = "reply"
    \/ f.pc \in Callbacks \ {"added"}

FrameSound(f) ==
    /\ f.op \in IdOps => f.id \in Ids
    /\ f.op \in LayerOps => f.id \in Layers
    /\ f.op = "callback" <=> f.pc \in Callbacks
    /\ Points(f) => f.ptr # Absent

Requests == [type : {"sync", "commit"}, id : {Absent}, value : Nat]
              \cup [type : {"get", "sync_add", "sync_remove", "create", "destroy"}, id : Ids, value : Nat]
              \cup [type : {"get_order"}, id : Layers, value : Nat]
Events == [type : {"created", "destroyed"}, id : Ids, value : {Absent}]
            \cup [type : {"prop"}, id : Ids, value : Props]
            \cup [type : {"order"}, id : Layers, value : Seq(Surfaces)]
            \cup [type : {"done"}, id : {Absent}, value : Nat]

Scene ==
    /\ exists \subseteq Ids /\ prop \in [Ids -> Props]
    /\ on_layer \in [Layers -> Seq(Surfaces)] /\ synced \in [Ids -> Nat]
Mail == requests \in Seq(Requests) /\ events \in Seq(Events)
Mirror ==
    /\ list_surface \in Seq(SurfacePtrs) /\ list_layer \in Seq(LayerPtrs)
    /\ context \in [Ptrs -> Contexts \cup {Absent}]
Stack == stack \in Seq(Frames) /\ \A i \in 1 .. Len(stack) : FrameSound(stack[i])
CTypes == Scene /\ Mail /\ Mirror /\ Stack

LEMMA ValueKinds ==
    /\ \A a \in Props : a \in Values
    /\ \A a \in SUBSET Ids : a \in Values
    /\ \A a \in Seq(Surfaces) : a \in Values
    /\ Absent \in Values /\ Zero \in Values
<1>1. \A a \in Props : a \in Values
  BY DEF Values
<1>2. \A a \in SUBSET Ids : a \in Values
  BY DEF Values
<1>3. \A a \in Seq(Surfaces) : a \in Values
  BY DEF Values
<1>4. Absent \in Values /\ Zero \in Values
  BY DEF Values
<1> QED BY <1>1, <1>2, <1>3, <1>4

IsFrame(f, op, id, pc, ptr) ==
    /\ f \in Frames /\ f.op = op /\ f.id = id /\ f.pc = pc /\ f.ptr = ptr
    /\ f.done = FALSE /\ f.value = Absent /\ f.answers = {}

LEMMA FrameIs ==
    ASSUME NEW op \in AllOps, NEW id \in Ids \cup {Absent}, NEW pc \in Places,
           NEW ptr \in Ptrs \cup {Absent}, NEW f, f = Frame(op, id, pc, ptr)
    PROVE  IsFrame(f, op, id, pc, ptr)
<1>1. Absent \in Values
  BY DEF Values
<1> HIDE DEF Values
<1>2. /\ f.op = op /\ f.id = id /\ f.pc = pc /\ f.ptr = ptr
      /\ f.done = FALSE /\ f.value = Absent /\ f.answers = {}
  BY DEF Frame
<1>3. f = [op |-> op, id |-> id, pc |-> pc, ptr |-> ptr, done |-> FALSE, value |-> Absent, answers |-> {}]
  BY DEF Frame
<1>4. f \in Frames
  BY <1>1, <1>3 DEF Frames
<1> QED BY <1>2, <1>4 DEF IsFrame

LEMMA CallbackIs ==
    ASSUME NEW kind \in Callbacks, NEW ptr \in Ptrs \cup {Absent}, kind = "added" \/ ptr # Absent,
           NEW f, f = Callback(kind, ptr)
    PROVE  /\ f \in Frames /\ FrameSound(f)
           /\ f.op = "callback" /\ f.pc = kind /\ f.ptr = ptr /\ ~f.done
<1>1. f = Frame("callback", Absent, kind, ptr)
  BY DEF Callback
<1>2. f \in Frames /\ f.op = "callback" /\ f.pc = kind /\ f.ptr = ptr /\ f.done = FALSE
  <2>1. "callback" \in AllOps /\ Absent \in Ids \cup {Absent} /\ kind \in Places
    BY DEF AllOps, Places
  <2>2. IsFrame(f, "callback", Absent, kind, ptr)
    BY <1>1, <2>1, FrameIs
  <2> QED BY <2>2 DEF IsFrame
<1> QED BY <1>2 DEF FrameSound, IdOps, LayerOps, Points

\* What a call may be answered is a value.
LEMMA AnswerType ==
    ASSUME NEW f, FrameSound(f), NEW ex, ex \subseteq Ids, NEW pr \in [Ids -> Props],
           NEW ol \in [Layers -> Seq(Surfaces)]
    PROVE  AnswerIn(f, ex, pr, ol) \in Values
<1>1. CASE f.op = "ilm_getSurfaceIDs"
  <2>1. AnswerIn(f, ex, pr, ol) \in SUBSET Ids
    BY <1>1 DEF AnswerIn
  <2> QED BY <2>1, ValueKinds
<1>2. CASE f.op = "ilm_getLayerIDs"
  <2>1. AnswerIn(f, ex, pr, ol) \in SUBSET Ids
    BY <1>2 DEF AnswerIn
  <2> QED BY <2>1, ValueKinds
<1>3. CASE f.op = "ilm_getProperties"
  <2>1. pr[f.id] \in Props
    BY <1>3 DEF FrameSound, IdOps
  <2> QED BY <1>3, <2>1, ValueKinds DEF AnswerIn
<1>4. CASE f.op = "ilm_getSurfaceIDsOnLayer"
  <2>1. ol[f.id] \in Seq(Surfaces)
    BY <1>4 DEF FrameSound, LayerOps
  <2>2. ol[f.id] \in Values
    BY <2>1, ValueKinds, Zenon
  <2>3. AnswerIn(f, ex, pr, ol) = IF f.id \in ex THEN ol[f.id] ELSE Absent
    BY <1>4 DEF AnswerIn
  <2> QED BY <2>2, <2>3, ValueKinds, Zenon
<1>5. CASE f.op \notin {"ilm_getSurfaceIDs", "ilm_getLayerIDs", "ilm_getProperties", "ilm_getSurfaceIDsOnLayer"}
  BY <1>5, ValueKinds DEF AnswerIn
<1> QED BY <1>1, <1>2, <1>3, <1>4, <1>5

\* Two frames of one call.
Same(f, g) ==
    /\ g.op = f.op /\ g.id = f.id /\ g.pc = f.pc /\ g.ptr = f.ptr
    /\ g.done = f.done /\ g.value = f.value /\ f.answers \subseteq g.answers

LEMMA WitnessedIs ==
    ASSUME NEW f \in Frames, FrameSound(f), NEW ex, ex \subseteq Ids, NEW pr \in [Ids -> Props],
           NEW ol \in [Layers -> Seq(Surfaces)], NEW g, g = Witnessed(f, ex, pr, ol)
    PROVE  /\ g \in Frames /\ FrameSound(g) /\ Same(f, g)
           /\ AnswerIn(g, ex, pr, ol) \in g.answers
<1>1. PICK a : a = AnswerIn(f, ex, pr, ol)
  OBVIOUS
<1>2. a \in Values
  BY <1>1, AnswerType
<1>3. g = [f EXCEPT !.answers = f.answers \cup {a}]
  BY <1>1 DEF Witnessed
<1> HIDE DEF Values
<1>4. g \in Frames
  BY <1>2, <1>3 DEF Frames
<1>5. Same(f, g) /\ a \in g.answers
  BY <1>3 DEF Same, Frames
<1>6. FrameSound(g)
  BY <1>5 DEF FrameSound, Same, Points
<1>7. AnswerIn(g, ex, pr, ol) = a
  BY <1>1, <1>5 DEF AnswerIn, Same
<1> QED BY <1>4, <1>5, <1>6, <1>7

-----------------------------------------------------------------------------
(* The compositor.                                                         *)

\* What an event tells is so.
Effect(e) ==
    /\ e.type = "created" => e.id \notin exists /\ exists' = exists \cup {e.id}
    /\ e.type = "destroyed" => e.id \in exists /\ exists' = exists \ {e.id}
    /\ e.type = "prop" => e.id \in exists /\ exists' = exists /\ prop'[e.id] = e.value
    /\ e.type \in {"order", "done"} => exists' = exists

\* The client is told nothing, or of one event of a type in K.
Tells(K) ==
    \/ events' = events /\ exists' = exists
    \/ \E e \in Events : e.type \in K /\ events' = Append(events, e) /\ Effect(e)

Changes == {"created", "destroyed", "prop"}

\* The frames have seen what the compositor has become.
Observed ==
    /\ Len(stack') = Len(stack)
    /\ \A i \in 1 .. Len(stack) :
          /\ Same(stack[i], stack'[i])
          /\ AnswerIn(stack'[i], exists', prop', on_layer') \in stack'[i].answers

LEMMA BecomeIs ==
    ASSUME Scene, Stack, NEW ex, ex \subseteq Ids, NEW pr \in [Ids -> Props],
           NEW ol \in [Layers -> Seq(Surfaces)], NEW E, Become(ex, pr, ol, E)
    PROVE  /\ exists' = ex /\ prop' = pr /\ on_layer' = ol /\ events' = events \o E
           /\ Stack' /\ Observed
<1>1. /\ exists' = ex /\ prop' = pr /\ on_layer' = ol /\ events' = events \o E
      /\ stack' = [i \in DOMAIN stack |-> Witnessed(stack[i], ex, pr, ol)]
  BY DEF Become
<1>2. DOMAIN stack = 1 .. Len(stack) /\ Len(stack) \in Nat
  BY DEF Stack
<1>3. ASSUME NEW i \in 1 .. Len(stack)
      PROVE  /\ stack'[i] \in Frames /\ FrameSound(stack'[i]) /\ Same(stack[i], stack'[i])
             /\ AnswerIn(stack'[i], ex, pr, ol) \in stack'[i].answers
  <2>1. stack[i] \in Frames /\ FrameSound(stack[i])
    BY DEF Stack
  <2>2. PICK g : g = Witnessed(stack[i], ex, pr, ol)
    OBVIOUS
  <2>3. stack'[i] = g
    BY <1>1, <1>2, <2>2
  <2>4. /\ g \in Frames /\ FrameSound(g) /\ Same(stack[i], g)
        /\ AnswerIn(g, ex, pr, ol) \in g.answers
    BY <2>1, <2>2, WitnessedIs
  <2> QED BY <2>3, <2>4
<1>4. stack' \in Seq(Frames) /\ Len(stack') = Len(stack)
  <2>1. PICK n, s : n = Len(stack) /\ s = stack'
    OBVIOUS
  <2>2. s \in [1 .. n -> Frames] /\ n \in Nat
    BY <1>1, <1>2, <1>3, <2>1
  <2>3. s \in Seq(Frames) /\ Len(s) = n
    BY <2>2
  <2> QED BY <2>1, <2>3
<1>5. Stack'
  BY <1>2, <1>3, <1>4 DEF Stack
<1>6. Observed
  BY <1>1, <1>3, <1>4 DEF Observed
<1> QED BY <1>1, <1>5, <1>6

LEMMA OneEvent ==
    ASSUME events \in Seq(Events), NEW e \in Events, events' = events \o <<e>>
    PROVE  events' = Append(events, e) /\ events' \in Seq(Events)
OBVIOUS

World == Scene' /\ events' \in Seq(Events) /\ Stack' /\ Tells(Changes)

\* The notifications of the objects that are left do not become fewer.
SyncedKept == \A id \in exists' : synced'[id] >= synced[id]

LEMMA CreateIs ==
    ASSUME Scene, Mail, Stack, NEW id \in Ids, CreateObject(id)
    PROVE  World /\ Observed /\ SyncedKept
<1>1. PICK e : e = Event("created", id, Absent)
  OBVIOUS
<1>2. e \in Events /\ e.type = "created" /\ e.id = id
  BY <1>1 DEF Event, Events
<1>3. PICK ex, pr : ex = exists \cup {id} /\ pr = [prop EXCEPT ![id] = Initial]
  OBVIOUS
<1>4. ex \subseteq Ids /\ pr \in [Ids -> Props] /\ on_layer \in [Layers -> Seq(Surfaces)]
  BY <1>3, ControlAssumption DEF Scene
<1>5. Become(ex, pr, on_layer, <<e>>) /\ id \notin exists /\ synced' = synced
  BY <1>1, <1>3 DEF CreateObject
<1>6. /\ exists' = ex /\ prop' = pr /\ on_layer' = on_layer /\ events' = events \o <<e>>
      /\ Stack' /\ Observed
  BY <1>4, <1>5, BecomeIs
<1>7. events' = Append(events, e) /\ events' \in Seq(Events)
  BY <1>2, <1>6, OneEvent DEF Mail
<1>8. Effect(e)
  BY <1>2, <1>3, <1>5, <1>6 DEF Effect
<1>9. Tells(Changes)
  BY <1>2, <1>7, <1>8 DEF Tells, Changes
<1>10. Scene' /\ SyncedKept
  <2>1. synced \in [Ids -> Nat] /\ exists' \subseteq Ids
    BY <1>4, <1>6 DEF Scene
  <2>2. SyncedKept
    BY <1>5, <2>1 DEF SyncedKept
  <2> QED BY <1>4, <1>5, <1>6, <2>2 DEF Scene
<1> QED BY <1>6, <1>7, <1>9, <1>10 DEF World

LEMMA DestroyIs ==
    ASSUME Scene, Mail, Stack, NEW id \in Ids, DestroyObject(id)
    PROVE  World /\ Observed /\ SyncedKept
<1>1. PICK e : e = Event("destroyed", id, Absent)
  OBVIOUS
<1>2. e \in Events /\ e.type = "destroyed" /\ e.id = id
  BY <1>1 DEF Event, Events
<1>3. PICK ex, ol : ex = exists \ {id}
                    /\ ol = [l \in Layers |-> IF l = id THEN <<>> ELSE RemoveFirst(on_layer[l], id)]
  OBVIOUS
<1>4. ex \subseteq Ids /\ prop \in [Ids -> Props] /\ ol \in [Layers -> Seq(Surfaces)]
  <2>1. ASSUME NEW l \in Layers PROVE RemoveFirst(on_layer[l], id) \in Seq(Surfaces)
    <3>1. on_layer[l] \in Seq(Surfaces)
      BY DEF Scene
    <3> QED BY <3>1, RemovedIs
  <2> QED BY <1>3, <2>1 DEF Scene
<1>5. Become(ex, prop, ol, <<e>>) /\ id \in exists /\ synced' = [synced EXCEPT ![id] = 0]
  BY <1>1, <1>3 DEF DestroyObject
<1>6. /\ exists' = ex /\ prop' = prop /\ on_layer' = ol /\ events' = events \o <<e>>
      /\ Stack' /\ Observed
  BY <1>4, <1>5, BecomeIs
<1>7. events' = Append(events, e) /\ events' \in Seq(Events)
  BY <1>2, <1>6, OneEvent DEF Mail
<1>8. Effect(e)
  BY <1>2, <1>3, <1>5, <1>6 DEF Effect
<1>9. Tells(Changes)
  BY <1>2, <1>7, <1>8 DEF Tells, Changes
<1>10. Scene' /\ SyncedKept
  <2>1. synced \in [Ids -> Nat] /\ exists' \subseteq Ids \ {id}
    BY <1>3, <1>4, <1>6 DEF Scene
  <2>2. SyncedKept
    BY <1>5, <2>1 DEF SyncedKept
  <2>3. synced' \in [Ids -> Nat]
    BY <1>5, <2>1
  <2> QED BY <1>4, <1>6, <2>2, <2>3 DEF Scene
<1> QED BY <1>6, <1>7, <1>9, <1>10 DEF World

LEMMA ChangePropIs ==
    ASSUME Scene, Mail, Stack, NEW id \in Ids, NEW v \in Props, ChangeProp(id, v)
    PROVE  World /\ Observed /\ SyncedKept
<1>1. PICK e : e = Event("prop", id, v)
  OBVIOUS
<1>2. e \in Events /\ e.type = "prop" /\ e.id = id /\ e.value = v
  BY <1>1 DEF Event, Events
<1>3. PICK pr : pr = [prop EXCEPT ![id] = v]
  OBVIOUS
<1>4. exists \subseteq Ids /\ pr \in [Ids -> Props] /\ on_layer \in [Layers -> Seq(Surfaces)] /\ pr[id] = v
  BY <1>3 DEF Scene
<1>5. id \in exists /\ synced' = synced
      /\ Become(exists, pr, on_layer, IF synced[id] > 0 THEN <<e>> ELSE <<>>)
  BY <1>1, <1>3 DEF ChangeProp
<1>6. /\ exists' = exists /\ prop' = pr /\ on_layer' = on_layer /\ Stack' /\ Observed
      /\ events' = events \o (IF synced[id] > 0 THEN <<e>> ELSE <<>>)
  BY <1>4, <1>5, BecomeIs
<1>7. Effect(e)
  BY <1>2, <1>4, <1>5, <1>6 DEF Effect
<1>8. Tells(Changes) /\ events' \in Seq(Events)
  <2>1. CASE synced[id] > 0
    <3>1. events' = events \o <<e>>
      BY <1>6, <2>1
    <3>2. events' = Append(events, e) /\ events' \in Seq(Events)
      BY <1>2, <3>1, OneEvent DEF Mail
    <3> QED BY <1>2, <1>7, <3>2 DEF Tells, Changes
  <2>2. CASE ~(synced[id] > 0)
    <3>1. events' = events \o <<>>
      BY <1>6, <2>2
    <3>2. events' = events /\ events' \in Seq(Events)
      BY <3>1 DEF Mail
    <3> QED BY <1>6, <3>2 DEF Tells
  <2> QED BY <2>1, <2>2
<1>9. Scene' /\ SyncedKept
  <2>1. synced \in [Ids -> Nat] /\ exists' \subseteq Ids
    BY <1>4, <1>6 DEF Scene
  <2>2. SyncedKept
    BY <1>5, <2>1 DEF SyncedKept
  <2> QED BY <1>4, <1>5, <1>6, <2>2 DEF Scene
<1> QED BY <1>6, <1>8, <1>9 DEF World

LEMMA AddToLayerIs ==
    ASSUME Scene, Mail, Stack, NEW l \in Layers, NEW s \in Surfaces, AddToLayer(l, s)
    PROVE  World /\ Observed /\ SyncedKept
<1>1. PICK ol : ol = [on_layer EXCEPT ![l] = Append(on_layer[l], s)]
  OBVIOUS
<1>2. exists \subseteq Ids /\ prop \in [Ids -> Props] /\ ol \in [Layers -> Seq(Surfaces)]
  BY <1>1 DEF Scene
<1>3. Become(exists, prop, ol, <<>>) /\ synced' = synced
  BY <1>1 DEF AddToLayer
<1>4. /\ exists' = exists /\ prop' = prop /\ on_layer' = ol /\ events' = events \o <<>>
      /\ Stack' /\ Observed
  BY <1>2, <1>3, BecomeIs
<1>5. events' = events /\ events' \in Seq(Events)
  BY <1>4 DEF Mail
<1>6. Scene' /\ SyncedKept
  <2>1. synced \in [Ids -> Nat] /\ exists' \subseteq Ids
    BY <1>2, <1>4 DEF Scene
  <2>2. SyncedKept
    BY <1>3, <2>1 DEF SyncedKept
  <2> QED BY <1>2, <1>3, <1>4, <2>2 DEF Scene
<1>7. Tells(Changes)
  BY <1>4, <1>5 DEF Tells
<1> QED BY <1>4, <1>5, <1>6, <1>7 DEF World

LEMMA ChangeIs ==
    ASSUME Scene, Mail, Stack, Change
    PROVE  World /\ Observed /\ SyncedKept
<1>1. CASE \E id \in Ids : CreateObject(id) \/ DestroyObject(id)
  BY <1>1, CreateIs, DestroyIs
<1>2. CASE \E id \in Ids, v \in Props : ChangeProp(id, v)
  BY <1>2, ChangePropIs
<1>3. CASE \E l \in Layers, s \in Surfaces : AddToLayer(l, s)
  BY <1>3, AddToLayerIs
<1> QED BY <1>1, <1>2, <1>3 DEF Change

Unobserved == stack' = stack /\ exists' = exists /\ prop' = prop /\ on_layer' = on_layer

\* How the request r is handled.
HandledAs(r) ==
    \/ /\ r.type = "sync" /\ Unobserved /\ synced' = synced
       /\ \E e \in Events : e.type = "done" /\ e.value = r.value /\ events' = Append(events, e)
    \/ /\ r.type = "get" /\ Unobserved /\ synced' = synced
       /\ IF r.id \in exists
          THEN \E e \in Events : /\ e.type = "prop" /\ e.id = r.id /\ e.value = prop[r.id]
                                 /\ events' = Append(events, e)
          ELSE events' = events
    \/ r.type = "get_order" /\ Unobserved /\ synced' = synced /\ Tells({"order"})
    \/ /\ r.type = "sync_add" /\ Unobserved /\ events' = events
       /\ SyncedKept /\ (r.id \in exists => synced'[r.id] > 0)
    \/ /\ r.type = "sync_remove" /\ Unobserved /\ events' = events
       /\ \A id \in exists \ {r.id} : synced'[id] >= synced[id]
    \/ r.type \in {"create", "destroy", "commit"} /\ (Observed \/ Unobserved) /\ Tells(Changes) /\ SyncedKept

LEMMA ReplyIs ==
    ASSUME Scene, Mail, Stack, NEW E, Reply(E), E = <<>> \/ (\E e \in Events : E = <<e>>)
    PROVE  /\ Unobserved /\ Stack' /\ events' \in Seq(Events)
           /\ E = <<>> => events' = events
           /\ \A e : E = <<e>> => events' = Append(events, e)
<1>1. /\ events' = events \o E /\ exists' = exists /\ prop' = prop /\ on_layer' = on_layer
      /\ stack' = stack
  BY DEF Reply
<1>2. Unobserved /\ Stack'
  BY <1>1 DEF Unobserved, Stack
<1>3. CASE E = <<>>
  <2>1. events' = events
    BY <1>1, <1>3 DEF Mail
  <2>2. events' \in Seq(Events) /\ \A e : E # <<e>>
    BY <2>1, <1>3 DEF Mail
  <2> QED BY <1>2, <2>1, <2>2
<1>4. CASE \E e \in Events : E = <<e>>
  <2>1. PICK e \in Events : E = <<e>>
    BY <1>4
  <2>2. events' = events \o <<e>>
    BY <1>1, <2>1
  <2>3. events' = Append(events, e) /\ events' \in Seq(Events)
    BY <2>2, OneEvent DEF Mail
  <2>4. E # <<>> /\ \A d : E = <<d>> => d = e
    BY <2>1
  <2> QED BY <1>2, <2>3, <2>4
<1> QED BY <1>3, <1>4

LEMMA SameScene ==
    ASSUME Scene, Unobserved, synced' \in [Ids -> Nat]
    PROVE  Scene'
BY DEF Scene, Unobserved

LEMMA SyncedIs ==
    ASSUME Scene, Mail, Stack, NEW id \in Ids, NEW n \in Nat, Synced(id, n)
    PROVE  /\ Unobserved /\ Stack' /\ Scene' /\ events' = events /\ events' \in Seq(Events)
           /\ \A i \in exists : synced'[i] = IF i = id THEN n ELSE synced[i]
<1>1. Reply(<<>>) /\ synced' = IF id \in exists THEN [synced EXCEPT ![id] = n] ELSE synced
  BY DEF Synced
<1>2. Unobserved /\ Stack' /\ events' \in Seq(Events) /\ events' = events
  BY <1>1, ReplyIs
<1>3. synced \in [Ids -> Nat] /\ exists \subseteq Ids
  BY DEF Scene
<1>4. synced' \in [Ids -> Nat] /\ \A i \in exists : synced'[i] = IF i = id THEN n ELSE synced[i]
  BY <1>1, <1>3
<1> QED BY <1>2, <1>4, SameScene

LEMMA RequestKinds ==
    ASSUME NEW r \in Requests
    PROVE  /\ r.type \in {"get", "sync_add", "sync_remove", "create", "destroy"} => r.id \in Ids
           /\ r.type = "get_order" => r.id \in Layers
           /\ r.value \in Nat
           /\ r.type \in {"sync", "commit", "get", "get_order", "sync_add", "sync_remove", "create", "destroy"}
BY DEF Requests

LEMMA HandleIs ==
    ASSUME Scene, Mail, Stack, HandleRequest
    PROVE  /\ Scene' /\ events' \in Seq(Events) /\ Stack'
           /\ requests # <<>> /\ requests' = Tail(requests) /\ HandledAs(Head(requests))
<1>1. PICK r : r = Head(requests)
  OBVIOUS
<1>2. requests # <<>> /\ requests' = Tail(requests)
  BY DEF HandleRequest
<1>3. r \in Requests
  BY <1>1, <1>2 DEF Mail
<1>4. CASE /\ r.type = "sync"
           /\ Reply(<<Event("done", Absent, r.value)>>) /\ UNCHANGED synced
  <2>1. PICK e : e = Event("done", Absent, r.value)
    OBVIOUS
  <2>2. e \in Events /\ e.type = "done" /\ e.value = r.value
    BY <2>1, <1>3, RequestKinds DEF Event, Events
  <2>3. PICK E : E = <<e>>
    OBVIOUS
  <2>4. Reply(E)
    BY <1>4, <2>1, <2>3
  <2>5. Unobserved /\ Stack' /\ events' \in Seq(Events) /\ events' = Append(events, e)
    BY <2>2, <2>3, <2>4, ReplyIs
  <2>6. Scene'
    BY <1>4, <2>5, SameScene DEF Scene
  <2>7. HandledAs(r)
    BY <1>4, <2>2, <2>5 DEF HandledAs
  <2> QED BY <1>1, <1>2, <2>5, <2>6, <2>7
<1>5. CASE /\ r.type = "get"
           /\ Reply(IF r.id \in exists THEN <<Event("prop", r.id, prop[r.id])>> ELSE <<>>)
           /\ UNCHANGED synced
  <2>1. PICK e : e = Event("prop", r.id, prop[r.id])
    OBVIOUS
  <2>2. r.id \in Ids /\ prop[r.id] \in Props
    BY <1>3, <1>5, RequestKinds DEF Scene
  <2>3. e \in Events /\ e.type = "prop" /\ e.id = r.id /\ e.value = prop[r.id]
    BY <2>1, <2>2 DEF Event, Events
  <2>4. PICK E : E = IF r.id \in exists THEN <<e>> ELSE <<>>
    OBVIOUS
  <2>5. Reply(E)
    BY <1>5, <2>1, <2>4
  <2>6. /\ Unobserved /\ Stack' /\ events' \in Seq(Events)
        /\ events' = IF r.id \in exists THEN Append(events, e) ELSE events
    BY <2>3, <2>4, <2>5, ReplyIs
  <2>7. Scene'
    BY <1>5, <2>6, SameScene DEF Scene
  <2>8. HandledAs(r)
    BY <1>5, <2>3, <2>6 DEF HandledAs
  <2> QED BY <1>1, <1>2, <2>6, <2>7, <2>8
<1>6. CASE /\ r.type = "get_order"
           /\ Reply(IF r.id \in exists THEN <<Event("order", r.id, on_layer[r.id])>> ELSE <<>>)
           /\ UNCHANGED synced
  <2>1. PICK e : e = Event("order", r.id, on_layer[r.id])
    OBVIOUS
  <2>2. r.id \in Layers /\ on_layer[r.id] \in Seq(Surfaces)
    BY <1>3, <1>6, RequestKinds DEF Scene
  <2>3. e \in Events /\ e.type = "order"
    BY <2>1, <2>2 DEF Event, Events
  <2>4. PICK E : E = IF r.id \in exists THEN <<e>> ELSE <<>>
    OBVIOUS
  <2>5. Reply(E)
    BY <1>6, <2>1, <2>4
  <2>6. /\ Unobserved /\ Stack' /\ events' \in Seq(Events)
        /\ events' = IF r.id \in exists THEN Append(events, e) ELSE events
    BY <2>3, <2>4, <2>5, ReplyIs
  <2>7. Scene'
    BY <1>6, <2>6, SameScene DEF Scene
  <2>8. Tells({"order"})
    BY <2>3, <2>6 DEF Tells, Effect, Unobserved
  <2>9. HandledAs(r)
    BY <1>6, <2>6, <2>8 DEF HandledAs
  <2> QED BY <1>1, <1>2, <2>6, <2>7, <2>9
<1>7. CASE r.type = "sync_add" /\ Synced(r.id, synced[r.id] + 1)
  <2>1. r.id \in Ids /\ synced[r.id] \in Nat /\ synced \in [Ids -> Nat] /\ exists \subseteq Ids
    BY <1>3, <1>7, RequestKinds DEF Scene
  <2>2. /\ Unobserved /\ Stack' /\ Scene' /\ events' = events /\ events' \in Seq(Events)
        /\ \A i \in exists : synced'[i] = IF i = r.id THEN synced[r.id] + 1 ELSE synced[i]
    BY <1>7, <2>1, SyncedIs
  <2>3. SyncedKept /\ (r.id \in exists => synced'[r.id] > 0)
    BY <2>1, <2>2 DEF SyncedKept, Unobserved
  <2>4. HandledAs(r)
    BY <1>7, <2>2, <2>3 DEF HandledAs
  <2> QED BY <1>1, <1>2, <2>2, <2>4
<1>8. CASE r.type = "sync_remove" /\ Synced(r.id, IF synced[r.id] = 0 THEN 0 ELSE synced[r.id] - 1)
  <2>1. r.id \in Ids /\ synced[r.id] \in Nat /\ synced \in [Ids -> Nat] /\ exists \subseteq Ids
    BY <1>3, <1>8, RequestKinds DEF Scene
  <2>2. PICK n : n = IF synced[r.id] = 0 THEN 0 ELSE synced[r.id] - 1
    OBVIOUS
  <2>3. n \in Nat /\ Synced(r.id, n)
    BY <1>8, <2>1, <2>2
  <2>4. /\ Unobserved /\ Stack' /\ Scene' /\ events' = events /\ events' \in Seq(Events)
        /\ \A i \in exists : synced'[i] = IF i = r.id THEN n ELSE synced[i]
    BY <2>1, <2>3, SyncedIs
  <2>5. \A id \in exists \ {r.id} : synced'[id] >= synced[id]
    BY <2>1, <2>4
  <2>6. HandledAs(r)
    BY <1>8, <2>4, <2>5 DEF HandledAs
  <2> QED BY <1>1, <1>2, <2>4, <2>6
<1>9. CASE \/ r.type = "create" /\ CreateObject(r.id)
           \/ r.type = "destroy" /\ DestroyObject(r.id)
           \/ r.type = "commit" /\ \E id \in Ids, v \in Props : ChangeProp(id, v)
  <2>1. r.type \in {"create", "destroy"} => r.id \in Ids
    BY <1>3, RequestKinds
  <2>2. World /\ Observed /\ SyncedKept
    <3>1. CASE r.type = "create" /\ CreateObject(r.id)
      BY <3>1, <2>1, CreateIs
    <3>2. CASE r.type = "destroy" /\ DestroyObject(r.id)
      BY <3>2, <2>1, DestroyIs
    <3>3. CASE r.type = "commit" /\ \E id \in Ids, v \in Props : ChangeProp(id, v)
      BY <3>3, ChangePropIs
    <3> QED BY <1>9, <3>1, <3>2, <3>3
  <2>3. HandledAs(r)
    <3>1. r.type \in {"create", "destroy", "commit"}
      BY <1>9
    <3> QED BY <2>2, <3>1 DEF HandledAs, World
  <2> QED BY <1>1, <1>2, <2>2, <2>3 DEF World
<1>10. CASE r.type \in {"create", "destroy", "commit"} /\ Reply(<<>>) /\ UNCHANGED synced
  <2>1. Unobserved /\ Stack' /\ events' \in Seq(Events) /\ events' = events
    BY <1>10, ReplyIs
  <2>2. Scene' /\ SyncedKept
    <3>1. synced' = synced /\ synced \in [Ids -> Nat] /\ exists' \subseteq Ids
      BY <1>10, <2>1 DEF Scene, Unobserved
    <3> QED BY <3>1, <2>1, SameScene DEF SyncedKept
  <2>3. HandledAs(r)
    BY <1>10, <2>1, <2>2 DEF HandledAs, Tells, Unobserved
  <2> QED BY <1>1, <1>2, <2>1, <2>2, <2>3
<1> QED BY <1>1, <1>4, <1>5, <1>6, <1>7, <1>8, <1>9, <1>10 DEF HandleRequest

-----------------------------------------------------------------------------
(* The stack in a step: the frames that stay and the one that comes.       *)

SameCall(f, g) == g.op = f.op /\ g.id = f.id /\ g.pc = f.pc /\ g.ptr = f.ptr

\* Of the frames the first n stay.
Stay(n) ==
    /\ n \in Nat /\ n <= Len(stack)
    /\ \A i \in 1 .. n : SameCall(stack[i], stack'[i])

Stands(n) == Stack' /\ Stay(n) /\ Len(stack') = n
StandsOn(n, f) == Stack' /\ Stay(n) /\ Len(stack') = n + 1 /\ SameCall(f, stack'[n + 1])

LEMMA StackIs ==
    ASSUME Stack
    PROVE  Len(stack) \in Nat /\ \A i \in 1 .. Len(stack) : stack[i] \in Frames /\ FrameSound(stack[i])
BY DEF Stack

LEMMA UnchangedStands ==
    ASSUME Stack, stack' = stack
    PROVE  Stands(Len(stack))
BY DEF Stack, Stands, Stay, SameCall

LEMMA ObservedStands ==
    ASSUME Stack, Stack', Observed
    PROVE  Stands(Len(stack))
<1>1. Len(stack) \in Nat
  BY DEF Stack
<1> QED BY <1>1 DEF Stands, Stay, SameCall, Observed, Same

LEMMA PopIs ==
    ASSUME Stack, stack # <<>>, NEW n, Len(stack) = n + 1, n \in Nat
    PROVE  Pop \in Seq(Frames) /\ Len(Pop) = n /\ \A i \in 1 .. n : Pop[i] = stack[i]
<1>1. stack \in Seq(Frames)
  BY DEF Stack
<1> QED BY <1>1, FrontIs DEF Pop

LEMMA PopStands ==
    ASSUME Stack, stack # <<>>, stack' = Pop, NEW n, Len(stack) = n + 1, n \in Nat
    PROVE  Stands(n)
<1>1. stack \in Seq(Frames)
  BY DEF Stack
<1>2. stack' \in Seq(Frames) /\ Len(stack') = n /\ \A i \in 1 .. n : stack'[i] = stack[i]
  BY <1>1, FrontIs DEF Pop
<1>3. Stack'
  BY <1>2 DEF Stack
<1> QED BY <1>2, <1>3 DEF Stands, Stay, SameCall

LEMMA PopTwoStands ==
    ASSUME Stack, stack' = Front(Pop), NEW n, Len(stack) = n + 2, n \in Nat
    PROVE  Stands(n)
<1>1. stack \in Seq(Frames) /\ stack # <<>>
  BY DEF Stack
<1>2. PICK s : s = Pop
  OBVIOUS
<1>3. s \in Seq(Frames) /\ Len(s) = n + 1 /\ \A i \in 1 .. n + 1 : s[i] = stack[i]
  BY <1>1, <1>2, FrontIs DEF Pop
<1>4. s # <<>>
  BY <1>3
<1>5. stack' \in Seq(Frames) /\ Len(stack') = n /\ \A i \in 1 .. n : stack'[i] = s[i]
  BY <1>2, <1>3, <1>4, FrontIs
<1>6. \A i \in 1 .. n : stack'[i] = stack[i]
  BY <1>3, <1>5
<1>7. Stack'
  BY <1>5, <1>6, <1>3 DEF Stack
<1> QED BY <1>5, <1>6, <1>7 DEF Stands, Stay, SameCall

LEMMA PushStands ==
    ASSUME Stack, NEW f \in Frames, FrameSound(f), stack' = Append(stack, f),
           NEW n, n = Len(stack)
    PROVE  StandsOn(n, f)
<1>1. stack \in Seq(Frames)
  BY DEF Stack
<1>2. /\ stack' \in Seq(Frames) /\ Len(stack') = n + 1 /\ n \in Nat
      /\ (\A i \in 1 .. n : stack'[i] = stack[i]) /\ stack'[n + 1] = f
  BY <1>1, AppendIs
<1>3. Stack'
  BY <1>2 DEF Stack
<1> QED BY <1>2, <1>3 DEF StandsOn, Stay, SameCall

LEMMA SwapStands ==
    ASSUME Stack, stack # <<>>, NEW f \in Frames, FrameSound(f), stack' = Append(Pop, f),
           NEW n, Len(stack) = n + 1, n \in Nat
    PROVE  StandsOn(n, f)
<1>1. stack \in Seq(Frames)
  BY DEF Stack
<1>2. PICK s : s = Pop
  OBVIOUS
<1>3. s \in Seq(Frames) /\ Len(s) = n /\ \A i \in 1 .. n : s[i] = stack[i]
  BY <1>2, PopIs
<1>4. /\ stack' \in Seq(Frames) /\ Len(stack') = n + 1
      /\ (\A i \in 1 .. n : stack'[i] = s[i]) /\ stack'[n + 1] = f
  BY <1>2, <1>3, AppendIs
<1>5. \A i \in 1 .. n : stack'[i] = stack[i]
  BY <1>3, <1>4
<1>6. Stack'
  BY <1>4, <1>5 DEF Stack
<1> QED BY <1>4, <1>5, <1>6 DEF StandsOn, Stay, SameCall

\* The top frame, and the one below it.
LEMMA TopIs ==
    ASSUME Stack, stack # <<>>
    PROVE  /\ Len(stack) \in Nat \ {0} /\ Top = stack[Len(stack)]
           /\ Top \in Frames /\ FrameSound(Top)
           /\ Len(stack) > 1 => Last(Pop) = stack[Len(stack) - 1]
<1>1. stack \in Seq(Frames)
  BY DEF Stack
<1>2. Len(stack) \in Nat \ {0} /\ Top = stack[Len(stack)] /\ Top \in Frames
  BY <1>1, FrontIs DEF Top
<1>3. FrameSound(Top)
  BY <1>2 DEF Stack
<1>4. ASSUME Len(stack) > 1 PROVE Last(Pop) = stack[Len(stack) - 1]
  <2>1. PICK s, n : s = Pop /\ n = Len(stack) - 1
    OBVIOUS
  <2>2. s \in Seq(Frames) /\ Len(s) = n /\ \A i \in 1 .. n : s[i] = stack[i]
    BY <1>1, <2>1, FrontIs DEF Pop
  <2>3. n \in Nat \ {0}
    BY <1>2, <1>4, <2>1
  <2>4. s # <<>> /\ s \in Seq(Frames)
    BY <2>2, <2>3
  <2>6. Last(s) = s[n]
    BY <2>2, <2>4, FrontIs
  <2>5. s[n] = stack[n]
    BY <2>2, <2>3
  <2> QED BY <2>1, <2>5, <2>6
<1> QED BY <1>2, <1>3, <1>4

-----------------------------------------------------------------------------
(* The frames of callbacks.                                                *)

\* A callback sits on the call it is for.
Sits(i) ==
    /\ stack[i].pc = "registered" => i > 1 /\ stack[i - 1].op = "ilm_registerNotification"
    /\ stack[i].pc = "added" =>
          /\ i > 1 /\ stack[i - 1].op = "ilm_addNotification" /\ stack[i - 1].id \in Surfaces
          /\ stack[i].ptr \in SurfacePtrs \cup {Absent}
    /\ stack[i].op = "ilm_addNotification" /\ stack[i].id \in Surfaces
          => stack[i].ptr \in SurfacePtrs \cup {Absent}

\* A callback that is not the top has called the library.
Calling(i) == i < Len(stack) /\ stack[i].op = "callback" => stack[i].pc \in CallIn

FramesSit == \A i \in 1 .. Len(stack) : Sits(i) /\ Calling(i)

\* A frame that may come on top of the first n.
Fits(n, f) ==
    /\ f.pc = "registered" => n > 0 /\ stack[n].op = "ilm_registerNotification"
    /\ f.pc = "added" =>
          /\ n > 0 /\ stack[n].op = "ilm_addNotification" /\ stack[n].id \in Surfaces
          /\ f.ptr \in SurfacePtrs \cup {Absent}
    /\ f.op = "ilm_addNotification" /\ f.id \in Surfaces => f.ptr \in SurfacePtrs \cup {Absent}
    /\ n > 0 /\ n = Len(stack) /\ stack[n].op = "callback" => stack[n].pc \in CallIn

LEMMA FramesStillSit ==
    ASSUME FramesSit, NEW n, Stands(n)
    PROVE  FramesSit'
<1> SUFFICES ASSUME NEW i \in 1 .. Len(stack') PROVE (Sits(i) /\ Calling(i))'
  BY DEF FramesSit
<1>1. n \in Nat /\ n <= Len(stack) /\ Len(stack') = n /\ Len(stack) \in Nat
  BY DEF Stands, Stay
<1>2. i \in 1 .. Len(stack) /\ SameCall(stack[i], stack'[i])
      /\ (i > 1 => i - 1 \in 1 .. n /\ SameCall(stack[i - 1], stack'[i - 1]))
  BY <1>1 DEF Stands, Stay
<1>3. Sits(i) /\ Calling(i)
  BY <1>2 DEF FramesSit
<1>4. Sits(i)'
  BY <1>2, <1>3 DEF Sits, SameCall
<1>5. Calling(i)'
  BY <1>1, <1>2, <1>3 DEF Calling, SameCall
<1> QED BY <1>4, <1>5

LEMMA FramesSitOn ==
    ASSUME FramesSit, NEW n, NEW f, StandsOn(n, f), Fits(n, f)
    PROVE  FramesSit'
<1> SUFFICES ASSUME NEW i \in 1 .. Len(stack') PROVE (Sits(i) /\ Calling(i))'
  BY DEF FramesSit
<1>1. n \in Nat /\ n <= Len(stack) /\ Len(stack') = n + 1 /\ Len(stack) \in Nat
  BY DEF StandsOn, Stay
<1>2. \A j \in 1 .. n : SameCall(stack[j], stack'[j])
  BY DEF StandsOn, Stay
<1>3. CASE i <= n
  <2>1. i \in 1 .. n /\ i \in 1 .. Len(stack) /\ (i > 1 => i - 1 \in 1 .. n)
    BY <1>1, <1>3
  <2>2. Sits(i) /\ Calling(i)
    BY <2>1 DEF FramesSit
  <2>3. Sits(i)'
    BY <1>2, <2>1, <2>2 DEF Sits, SameCall
  <2>4. Calling(i)'
    <3>1. CASE i < Len(stack)
      BY <1>2, <2>1, <2>2, <3>1 DEF Calling, SameCall
    <3>2. CASE ~(i < Len(stack))
      <4>1. i = n /\ n = Len(stack) /\ n > 0
        BY <1>1, <2>1, <3>2
      <4>2. stack[n].op = "callback" => stack[n].pc \in CallIn
        BY <4>1 DEF Fits
      <4> QED BY <1>2, <2>1, <4>1, <4>2 DEF Calling, SameCall
    <3> QED BY <3>1, <3>2
  <2> QED BY <2>3, <2>4
<1>4. CASE i = n + 1
  <2>1. SameCall(f, stack'[i])
    BY <1>4 DEF StandsOn
  <2>2. ~(i < Len(stack'))
    BY <1>1, <1>4
  <2>3. i - 1 = n /\ (i > 1 <=> n > 0) /\ (n > 0 => SameCall(stack[n], stack'[n]))
    BY <1>1, <1>2, <1>4
  <2>4. Sits(i)'
    BY <2>1, <2>3 DEF Sits, Fits, SameCall
  <2> QED BY <2>2, <2>4 DEF Calling
<1> QED BY <1>1, <1>3, <1>4

\* A frame that waits or returns has nothing to sit on but the library.
LEMMA CallFits ==
    ASSUME Stack, NEW n, NEW f, f.pc \notin {"registered", "added"},
           f.op = "ilm_addNotification" /\ f.id \in Surfaces => f.ptr \in SurfacePtrs \cup {Absent},
           n > 0 /\ n = Len(stack) => stack[n].op # "callback" \/ stack[n].pc \in CallIn
    PROVE  Fits(n, f)
BY DEF Fits

-----------------------------------------------------------------------------
(* The mirror.                                                             *)

\* The listed contexts are what was allocated for objects of their kind, and a
\* list has each once, for layers one for each id.
Surfaced == \A p \in ToSet(list_surface) : context[p] # Absent /\ context[p].id \in Surfaces
Layered  == \A p \in ToSet(list_layer) : context[p] # Absent /\ context[p].id \in Layers
Single   == \A p, q \in ToSet(list_layer) : context[p].id = context[q].id => p = q
Listings == Once(list_surface) /\ Once(list_layer) /\ Surfaced /\ Layered /\ Single

\* A layer whose callback is told that it is removed is no longer listed, and is
\* not freed before the callback returns.
Leaving(i) == stack[i].pc = "removed" /\ stack[i].ptr \in LayerPtrs
LayersLeave ==
    /\ \A i \in 1 .. Len(stack) : Leaving(i) =>
          context[stack[i].ptr] # Absent /\ stack[i].ptr \notin ToSet(list_layer)
    /\ \A i, j \in 1 .. Len(stack) :
          Leaving(i) /\ Leaving(j) /\ stack[i].ptr = stack[j].ptr => i = j

LEMMA Kinds ==
    /\ Ids = Surfaces \cup Layers /\ Surfaces \cap Layers = {}
    /\ Ptrs = SurfacePtrs \cup LayerPtrs /\ SurfacePtrs \cap LayerPtrs = {}
    /\ Absent \notin Ids /\ Absent \notin Ptrs /\ Absent \notin Contexts
BY ControlAssumption DEF Ids, Ptrs

LEMMA ListsAre ==
    ASSUME Mirror
    PROVE  /\ ToSet(list_surface) \subseteq SurfacePtrs /\ ToSet(list_layer) \subseteq LayerPtrs
           /\ list_surface \in Seq(SurfacePtrs) /\ list_layer \in Seq(LayerPtrs)
BY SetOf DEF Mirror

\* Of a listed object the lookup finds a context; of a layer, the one listed.
LEMMA FoundIs ==
    ASSUME Mirror, Listings, NEW id \in Ids
    PROVE  /\ id \in Surfaces => ListOf(id) = list_surface /\ id \notin Layers
           /\ id \in Layers => ListOf(id) = list_layer /\ id \notin Surfaces
           /\ Lookup(id) = Absent => \A p \in ToSet(ListOf(id)) : context[p].id # id
           /\ Lookup(id) # Absent =>
                 /\ Lookup(id) \in ToSet(ListOf(id)) /\ Lookup(id) \in Ptrs
                 /\ context[Lookup(id)].id = id /\ context[Lookup(id)] \in Contexts
                 /\ context[Lookup(id)] # Absent
                 /\ id \in Surfaces => Lookup(id) \in SurfacePtrs
                 /\ id \in Layers => Lookup(id) \in LayerPtrs
<1>1. /\ id \in Surfaces => ListOf(id) = list_surface /\ id \notin Layers
      /\ id \in Layers => ListOf(id) = list_layer /\ id \notin Surfaces
  BY Kinds DEF ListOf
<1>2. ToSet(list_surface) \subseteq SurfacePtrs /\ ToSet(list_layer) \subseteq LayerPtrs
  BY ListsAre
<1>3. ListOf(id) \in Seq(Ptrs) /\ ToSet(ListOf(id)) \subseteq Ptrs
  <2>1. ListOf(id) \in Seq(SurfacePtrs) \/ ListOf(id) \in Seq(LayerPtrs)
    BY DEF ListOf, Mirror
  <2> QED BY <2>1, <1>2, Kinds DEF ListOf
<1>4. \/ Lookup(id) = Absent /\ \A p \in ToSet(ListOf(id)) : context[p].id # id
      \/ Lookup(id) \in ToSet(ListOf(id)) /\ context[Lookup(id)].id = id
  BY <1>3, LookupIs
<1>5. Absent \notin ToSet(ListOf(id))
  BY <1>3, Kinds
<1>6. ASSUME NEW p \in ToSet(ListOf(id)) PROVE context[p] # Absent /\ context[p] \in Contexts
  <2>1. context[p] # Absent
    BY DEF ListOf, Listings, Surfaced, Layered
  <2>2. context[p] \in Contexts \cup {Absent}
    BY <1>3 DEF Mirror
  <2> QED BY <2>1, <2>2
<1>7. id \in Surfaces \/ id \in Layers
  BY Kinds
<1>8. /\ id \in Surfaces => ToSet(ListOf(id)) \subseteq SurfacePtrs
      /\ id \in Layers => ToSet(ListOf(id)) \subseteq LayerPtrs
  BY <1>1, <1>2
<1> QED BY <1>1, <1>3, <1>4, <1>5, <1>6, <1>8

\* wl_list_insert.
Inserts(r, p, q) == r = <<p>> \o q

LEMMA InsertedIs ==
    ASSUME NEW P, NEW q \in Seq(P), NEW p \in P, NEW r, Inserts(r, p, q)
    PROVE  /\ r \in Seq(P) /\ ToSet(r) = ToSet(q) \cup {p}
           /\ Once(q) /\ p \notin ToSet(q) => Once(r)
<1>1. /\ r \in Seq(P) /\ Len(r) = Len(q) + 1 /\ r[1] = p /\ Len(q) \in Nat
      /\ \A i \in 1 .. Len(q) : r[i + 1] = q[i]
  BY DEF Inserts
<1>2. \A i \in 2 .. Len(r) : i - 1 \in 1 .. Len(q) /\ r[i] = q[i - 1]
  <2> SUFFICES ASSUME NEW i \in 2 .. Len(r) PROVE i - 1 \in 1 .. Len(q) /\ r[i] = q[i - 1]
    OBVIOUS
  <2>1. i - 1 \in 1 .. Len(q) /\ (i - 1) + 1 = i
    BY <1>1
  <2> QED BY <2>1, <1>1
<1>3. /\ \A x \in ToSet(r) : \E i \in 1 .. Len(r) : x = r[i]
      /\ \A i \in 1 .. Len(r) : r[i] \in ToSet(r)
      /\ \A x \in ToSet(q) : \E i \in 1 .. Len(q) : x = q[i]
      /\ \A i \in 1 .. Len(q) : q[i] \in ToSet(q)
  BY <1>1, SetOf
<1>4. ASSUME NEW x \in ToSet(r) PROVE x \in ToSet(q) \cup {p}
  <2>1. PICK i \in 1 .. Len(r) : x = r[i]
    BY <1>3
  <2>2. i = 1 \/ i \in 2 .. Len(r)
    BY <1>1, <2>1
  <2> QED BY <1>1, <1>2, <1>3, <2>1, <2>2
<1>5. ASSUME NEW x \in ToSet(q) \cup {p} PROVE x \in ToSet(r)
  <2>1. CASE x = p
    <3>1. 1 \in 1 .. Len(r)
      BY <1>1
    <3> QED BY <2>1, <3>1, <1>1, <1>3
  <2>2. CASE x \in ToSet(q)
    <3>1. PICK i \in 1 .. Len(q) : x = q[i]
      BY <2>2, <1>3
    <3>2. i + 1 \in 1 .. Len(r) /\ r[i + 1] = x
      BY <1>1, <3>1
    <3> QED BY <3>2, <1>3
  <2> QED BY <2>1, <2>2
<1>6. ASSUME Once(q), p \notin ToSet(q) PROVE Once(r)
  <2> SUFFICES ASSUME NEW i \in 1 .. Len(r), NEW j \in 1 .. Len(r), r[i] = r[j] PROVE i = j
    BY DEF Once
  <2>1. (i = 1 \/ i \in 2 .. Len(r)) /\ (j = 1 \/ j \in 2 .. Len(r))
    BY <1>1
  <2>2. CASE i = 1 /\ j = 1
    BY <2>2
  <2>3. CASE i \in 2 .. Len(r) /\ j \in 2 .. Len(r)
    <3>1. i - 1 = j - 1
      BY <1>2, <1>6, <2>3 DEF Once
    <3> QED BY <3>1, <1>1
  <2>4. CASE \/ i = 1 /\ j \in 2 .. Len(r)
             \/ j = 1 /\ i \in 2 .. Len(r)
    BY <1>1, <1>2, <1>3, <1>6, <2>4
  <2> QED BY <2>1, <2>2, <2>3, <2>4
<1> QED BY <1>1, <1>4, <1>5, <1>6

\* A step that lists and frees nothing.
Kept ==
    /\ list_surface' = list_surface /\ list_layer' = list_layer
    /\ \A p \in Ptrs : context[p] # Absent => context'[p] # Absent /\ context'[p].id = context[p].id

\* A step that allocates a context and puts it in the list.
Added(id, p) ==
    /\ id \in Ids /\ p \in Ptrs /\ context[p] = Absent
    /\ context'[p] # Absent /\ context'[p].id = id
    /\ \A q \in Ptrs \ {p} : context'[q] = context[q]
    /\ \/ /\ id \in Surfaces /\ p \in SurfacePtrs
          /\ list_surface' = <<p>> \o list_surface /\ list_layer' = list_layer
       \/ /\ id \in Layers /\ p \in LayerPtrs
          /\ list_layer' = <<p>> \o list_layer /\ list_surface' = list_surface

\* A step that takes a context out of the list, if it is there, and may free it.
Dropped(p) ==
    /\ p \in Ptrs /\ Unlinked(p)
    /\ \A q \in Ptrs \ {p} : context'[q] = context[q]

LEMMA KeptListings ==
    ASSUME Mirror, Listings, Kept
    PROVE  /\ Listings'
           /\ \A p \in ToSet(list_surface) \cup ToSet(list_layer) : context'[p].id = context[p].id
<1>1. ToSet(list_surface) \subseteq Ptrs /\ ToSet(list_layer) \subseteq Ptrs
  BY ListsAre, Kinds
<1>2. list_surface' = list_surface /\ list_layer' = list_layer
  BY DEF Kept
<1>3. \A p \in ToSet(list_surface) \cup ToSet(list_layer) : context'[p] # Absent /\ context'[p].id = context[p].id
  BY <1>1 DEF Kept, Listings, Surfaced, Layered
<1>4. Surfaced' /\ Layered' /\ Single'
  BY <1>2, <1>3 DEF Listings, Surfaced, Layered, Single
<1> QED BY <1>2, <1>3, <1>4 DEF Listings

LEMMA AddedListings ==
    ASSUME Mirror, Listings, NEW id, NEW p, Added(id, p),
           id \in Layers => \A q \in ToSet(list_layer) : context[q].id # id
    PROVE  /\ Listings' /\ list_surface' \in Seq(SurfacePtrs) /\ list_layer' \in Seq(LayerPtrs)
           /\ ToSet(list_surface') = ToSet(list_surface) \cup (IF id \in Surfaces THEN {p} ELSE {})
           /\ ToSet(list_layer') = ToSet(list_layer) \cup (IF id \in Layers THEN {p} ELSE {})
           /\ \A q \in ToSet(list_surface) \cup ToSet(list_layer) :
                 q # p /\ context'[q] = context[q]
<1>1. /\ ToSet(list_surface) \subseteq SurfacePtrs /\ ToSet(list_layer) \subseteq LayerPtrs
      /\ list_surface \in Seq(SurfacePtrs) /\ list_layer \in Seq(LayerPtrs)
  BY ListsAre
<1>2. \A q \in ToSet(list_surface) \cup ToSet(list_layer) : q # p /\ context'[q] = context[q]
  BY <1>1, Kinds DEF Added, Listings, Surfaced, Layered
<1>3. Once(list_surface) /\ Once(list_layer)
  BY DEF Listings
<1>4. context'[p] # Absent /\ context'[p].id = id
  BY DEF Added
<1>5. CASE /\ id \in Surfaces /\ p \in SurfacePtrs
           /\ list_surface' = <<p>> \o list_surface /\ list_layer' = list_layer
  <2>1. /\ list_surface' \in Seq(SurfacePtrs) /\ ToSet(list_surface') = ToSet(list_surface) \cup {p}
        /\ Once(list_surface')
    <3>1. PICK q, r : q = list_surface /\ r = list_surface'
      OBVIOUS
    <3>2. Inserts(r, p, q) /\ q \in Seq(SurfacePtrs) /\ p \in SurfacePtrs /\ p \notin ToSet(q) /\ Once(q)
      BY <1>1, <1>2, <1>3, <1>5, <3>1 DEF Inserts
    <3>3. r \in Seq(SurfacePtrs) /\ ToSet(r) = ToSet(q) \cup {p} /\ Once(r)
      BY <3>2, InsertedIs
    <3> QED BY <3>1, <3>3
  <2>2. id \notin Layers
    BY <1>5, Kinds
  <2>3. Surfaced' /\ Layered' /\ Single'
    BY <1>2, <1>4, <1>5, <2>1 DEF Listings, Surfaced, Layered, Single
  <2>4. Listings'
    BY <1>3, <1>5, <2>1, <2>3 DEF Listings
  <2> QED BY <1>1, <1>2, <1>5, <2>1, <2>2, <2>4
<1>6. CASE /\ id \in Layers /\ p \in LayerPtrs
           /\ list_layer' = <<p>> \o list_layer /\ list_surface' = list_surface
  <2>1. /\ list_layer' \in Seq(LayerPtrs) /\ ToSet(list_layer') = ToSet(list_layer) \cup {p}
        /\ Once(list_layer')
    <3>1. PICK q, r : q = list_layer /\ r = list_layer'
      OBVIOUS
    <3>2. Inserts(r, p, q) /\ q \in Seq(LayerPtrs) /\ p \in LayerPtrs /\ p \notin ToSet(q) /\ Once(q)
      BY <1>1, <1>2, <1>3, <1>6, <3>1 DEF Inserts
    <3>3. r \in Seq(LayerPtrs) /\ ToSet(r) = ToSet(q) \cup {p} /\ Once(r)
      BY <3>2, InsertedIs
    <3> QED BY <3>1, <3>3
  <2>2. id \notin Surfaces
    BY <1>6, Kinds
  <2>3. Surfaced' /\ Layered' /\ Single'
    BY <1>2, <1>4, <1>6, <2>1 DEF Listings, Surfaced, Layered, Single
  <2>4. Listings'
    BY <1>3, <1>6, <2>1, <2>3 DEF Listings
  <2> QED BY <1>1, <1>2, <1>6, <2>1, <2>2, <2>4
<1> QED BY <1>5, <1>6 DEF Added

LEMMA DroppedListings ==
    ASSUME Mirror, Listings, NEW p, Dropped(p)
    PROVE  /\ Listings' /\ list_surface' \in Seq(SurfacePtrs) /\ list_layer' \in Seq(LayerPtrs)
           /\ ToSet(list_surface') = ToSet(list_surface) \ {p}
           /\ ToSet(list_layer') = ToSet(list_layer) \ {p}
           /\ \A q \in ToSet(list_surface') \cup ToSet(list_layer') : context'[q] = context[q]
<1>1. /\ ToSet(list_surface) \subseteq SurfacePtrs /\ ToSet(list_layer) \subseteq LayerPtrs
      /\ list_surface \in Seq(SurfacePtrs) /\ list_layer \in Seq(LayerPtrs)
  BY ListsAre
<1>2. Once(list_surface) /\ Once(list_layer)
  BY DEF Listings
<1>3. list_surface' = RemoveFirst(list_surface, p) /\ list_layer' = RemoveFirst(list_layer, p)
  BY DEF Dropped, Unlinked
<1>4. /\ list_surface' \in Seq(SurfacePtrs) /\ Once(list_surface')
      /\ ToSet(list_surface') = ToSet(list_surface) \ {p}
  BY <1>1, <1>2, <1>3, RemovedIs
<1>5. /\ list_layer' \in Seq(LayerPtrs) /\ Once(list_layer')
      /\ ToSet(list_layer') = ToSet(list_layer) \ {p}
  BY <1>1, <1>2, <1>3, RemovedIs
<1>6. \A q \in ToSet(list_surface') \cup ToSet(list_layer') : context'[q] = context[q]
  BY <1>1, <1>4, <1>5, Kinds DEF Dropped
<1>7. Surfaced' /\ Layered' /\ Single'
  BY <1>4, <1>5, <1>6 DEF Listings, Surfaced, Layered, Single
<1> QED BY <1>4, <1>5, <1>6, <1>7 DEF Listings

\* The layers that leave, when no layer starts to.
LEMMA StillLeave ==
    ASSUME LayersLeave, NEW n, Stay(n), Len(stack') \in Nat,
           \A i \in 1 .. Len(stack') : i <= n \/ stack'[i].pc # "removed" \/ stack'[i].ptr \notin LayerPtrs,
           \A i \in 1 .. n : Leaving(i) =>
              context'[stack[i].ptr] # Absent /\ stack[i].ptr \notin ToSet(list_layer')
    PROVE  LayersLeave'
<1>1. n \in Nat /\ n <= Len(stack) /\ Len(stack) \in Nat /\ \A i \in 1 .. n : SameCall(stack[i], stack'[i])
  BY DEF Stay
<1>2. ASSUME NEW i \in 1 .. Len(stack'), Leaving(i)'
      PROVE  i \in 1 .. n /\ i \in 1 .. Len(stack) /\ Leaving(i) /\ stack'[i].ptr = stack[i].ptr
  <2>1. i \in 1 .. n
    BY <1>2 DEF Leaving
  <2> QED BY <1>1, <1>2, <2>1 DEF Leaving, SameCall
<1>3. ASSUME NEW i \in 1 .. Len(stack'), Leaving(i)'
      PROVE  context'[stack'[i].ptr] # Absent /\ stack'[i].ptr \notin ToSet(list_layer')
  BY <1>2, <1>3
<1>4. ASSUME NEW i \in 1 .. Len(stack'), NEW j \in 1 .. Len(stack'), Leaving(i)', Leaving(j)',
             stack'[i].ptr = stack'[j].ptr
      PROVE  i = j
  BY <1>2, <1>4 DEF LayersLeave
<1> QED BY <1>3, <1>4 DEF LayersLeave

-----------------------------------------------------------------------------
(* The requests in a step.                                                 *)

\* The requests sent so far are still sent.
Grows ==
    /\ requests \in Seq(Requests) /\ requests' \in Seq(Requests) /\ Len(requests') >= Len(requests)
    /\ \A i \in 1 .. Len(requests) : requests'[i] = requests[i]

SendsSync(d) ==
    /\ Grows /\ Len(requests') = Len(requests) + 1
    /\ requests'[Len(requests) + 1] = SyncRequest(d)

Sends(r, d) ==
    /\ Grows /\ Len(requests') = Len(requests) + 2
    /\ requests'[Len(requests) + 1] = r /\ requests'[Len(requests) + 2] = SyncRequest(d)

LEMMA SyncIsRequest ==
    ASSUME NEW d \in Nat
    PROVE  SyncRequest(d) \in Requests /\ SyncRequest(d).type = "sync" /\ SyncRequest(d).value = d
BY DEF SyncRequest, Requests

LEMMA RequestIs ==
    ASSUME NEW type, NEW id, NEW r, r = Request(type, id)
    PROVE  /\ r.type = type /\ r.id = id
           /\ type \in {"get", "sync_add", "sync_remove", "create", "destroy"} /\ id \in Ids
                 => r \in Requests
           /\ type = "get_order" /\ id \in Layers => r \in Requests
           /\ type = "commit" /\ id = Absent => r \in Requests
BY DEF Request, Requests

LEMMA SyncSent ==
    ASSUME requests \in Seq(Requests), NEW d \in Nat,
           requests' = requests \o <<>> \o <<SyncRequest(d)>>
    PROVE  SendsSync(d)
<1>1. PICK s : s = SyncRequest(d)
  OBVIOUS
<1>2. s \in Requests
  BY <1>1, SyncIsRequest
<1>3. requests' = Append(requests, s)
  BY <1>1
<1>4. /\ requests' \in Seq(Requests) /\ Len(requests') = Len(requests) + 1 /\ Len(requests) \in Nat
      /\ (\A i \in 1 .. Len(requests) : requests'[i] = requests[i])
      /\ requests'[Len(requests) + 1] = s
  BY <1>2, <1>3, AppendIs
<1> QED BY <1>1, <1>4 DEF SendsSync, Grows

LEMMA RequestSent ==
    ASSUME requests \in Seq(Requests), NEW d \in Nat, NEW r \in Requests,
           requests' = requests \o <<r>> \o <<SyncRequest(d)>>
    PROVE  Sends(r, d)
<1>1. PICK s, q : s = SyncRequest(d) /\ q = Append(requests, r)
  OBVIOUS
<1>2. s \in Requests
  BY <1>1, SyncIsRequest
<1>3. requests' = Append(q, s)
  BY <1>1
<1>4. /\ q \in Seq(Requests) /\ Len(q) = Len(requests) + 1 /\ Len(requests) \in Nat
      /\ (\A i \in 1 .. Len(requests) : q[i] = requests[i])
      /\ q[Len(requests) + 1] = r
  BY <1>1, AppendIs
<1>5. /\ requests' \in Seq(Requests) /\ Len(requests') = Len(q) + 1
      /\ (\A i \in 1 .. Len(q) : requests'[i] = q[i])
      /\ requests'[Len(q) + 1] = s
  BY <1>2, <1>3, <1>4, AppendIs
<1>6. (Len(requests) + 1) + 1 = Len(requests) + 2 /\ Len(requests) + 1 \in 1 .. Len(q)
  BY <1>4
<1>7. \A i \in 1 .. Len(requests) : i \in 1 .. Len(q)
  BY <1>4
<1> QED BY <1>1, <1>4, <1>5, <1>6, <1>7 DEF Sends, Grows

LEMMA NoneSent ==
    ASSUME requests \in Seq(Requests), requests' = requests
    PROVE  Grows /\ Len(requests') = Len(requests)
BY DEF Grows

LEMMA TailIs ==
    ASSUME NEW F, NEW q \in Seq(F), q # <<>>
    PROVE  /\ Len(q) \in Nat \ {0} /\ Head(q) = q[1] /\ Head(q) \in F
           /\ Tail(q) \in Seq(F) /\ Len(Tail(q)) = Len(q) - 1
           /\ \A i \in 1 .. Len(q) - 1 : Tail(q)[i] = q[i + 1]
OBVIOUS

-----------------------------------------------------------------------------
(* Who is kept informed.                                                   *)

Removes(b, id) == requests[b].type = "sync_remove" /\ requests[b].id = id

\* The compositor keeps the client informed of the object, or it will when it
\* has handled what was requested.
Wanted(id) ==
    \/ \E a \in 1 .. Len(requests) :
          /\ requests[a].type = "sync_add" /\ requests[a].id = id
          /\ \A b \in a .. Len(requests) : ~Removes(b, id)
    \/ synced[id] > 0 /\ \A b \in 1 .. Len(requests) : ~Removes(b, id)

\* A call is about to take the callback of the context away.
Withdrawn(p) ==
    \E i \in 1 .. Len(stack) :
        stack[i].op = "ilm_removeNotification" /\ stack[i].pc = "reply" /\ stack[i].ptr = p

LEMMA WantedStays ==
    ASSUME NEW id, Wanted(id), Grows, synced'[id] = synced[id],
           \A b \in Len(requests) + 1 .. Len(requests') : ~Removes(b, id)'
    PROVE  Wanted(id)'
<1>1. /\ Len(requests) \in Nat /\ Len(requests') \in Nat /\ Len(requests') >= Len(requests)
      /\ \A i \in 1 .. Len(requests) : requests'[i] = requests[i]
  BY DEF Grows
<1>2. ASSUME NEW b \in 1 .. Len(requests')
      PROVE  \/ b \in 1 .. Len(requests) /\ (Removes(b, id)' <=> Removes(b, id))
             \/ ~Removes(b, id)'
  <2>1. b \in 1 .. Len(requests) \/ b \in Len(requests) + 1 .. Len(requests')
    BY <1>1, <1>2
  <2> QED BY <1>1, <2>1 DEF Removes
<1>3. CASE synced[id] > 0 /\ \A b \in 1 .. Len(requests) : ~Removes(b, id)
  BY <1>2, <1>3 DEF Wanted
<1>4. ASSUME NEW a \in 1 .. Len(requests), requests[a].type = "sync_add", requests[a].id = id,
             \A b \in a .. Len(requests) : ~Removes(b, id)
      PROVE  Wanted(id)'
  <2>1. a \in 1 .. Len(requests') /\ requests'[a].type = "sync_add" /\ requests'[a].id = id
    BY <1>1, <1>4
  <2>2. ASSUME NEW b \in a .. Len(requests') PROVE ~Removes(b, id)'
    <3>1. b \in 1 .. Len(requests') /\ (b \in 1 .. Len(requests) => b \in a .. Len(requests))
      BY <1>1, <2>1, <2>2
    <3> QED BY <1>2, <1>4, <3>1
  <2> QED BY <2>1, <2>2 DEF Wanted
<1> QED BY <1>3, <1>4 DEF Wanted

LEMMA WantedNow ==
    ASSUME NEW id, NEW d \in Nat, NEW r, r.type = "sync_add", r.id = id, Sends(r, d)
    PROVE  Wanted(id)'
<1>1. /\ Len(requests) \in Nat /\ Len(requests') = Len(requests) + 2
      /\ requests'[Len(requests) + 1] = r /\ requests'[Len(requests) + 2] = SyncRequest(d)
  BY DEF Sends, Grows
<1>2. PICK a : a = Len(requests) + 1
  OBVIOUS
<1>3. a \in 1 .. Len(requests') /\ requests'[a].type = "sync_add" /\ requests'[a].id = id
  BY <1>1, <1>2
<1>4. ASSUME NEW b \in a .. Len(requests') PROVE ~Removes(b, id)'
  <2>1. b = Len(requests) + 1 \/ b = Len(requests) + 2
    BY <1>1, <1>2, <1>4
  <2>2. requests'[b].type # "sync_remove"
    BY <1>1, <2>1, SyncIsRequest
  <2> QED BY <2>2 DEF Removes
<1> QED BY <1>3, <1>4 DEF Wanted

LEMMA WantedHandled ==
    ASSUME Scene, Scene', Mail, NEW id \in exists', requests # <<>>, requests' = Tail(requests),
           HandledAs(Head(requests)), Wanted(id)
    PROVE  Wanted(id)'
<1>1. /\ Len(requests) \in Nat \ {0} /\ Head(requests) = requests[1]
      /\ Len(requests') = Len(requests) - 1
      /\ \A i \in 1 .. Len(requests) - 1 : requests'[i] = requests[i + 1]
  BY TailIs DEF Mail
<1>2. PICK r : r = Head(requests)
  OBVIOUS
<1>3. \A b \in 1 .. Len(requests') : b + 1 \in 1 .. Len(requests) /\ (Removes(b, id)' <=> Removes(b + 1, id))
  BY <1>1 DEF Removes
<1>4. CASE r.type = "sync_remove" /\ r.id = id
  <2>1. Removes(1, id) /\ 1 \in 1 .. Len(requests)
    BY <1>1, <1>2, <1>4 DEF Removes
  <2>2. PICK a \in 1 .. Len(requests) :
          /\ requests[a].type = "sync_add" /\ requests[a].id = id
          /\ \A b \in a .. Len(requests) : ~Removes(b, id)
    BY <2>1 DEF Wanted
  <2>3. a # 1 /\ a - 1 \in 1 .. Len(requests') /\ a \in Nat
    BY <1>1, <1>2, <1>4, <2>2
  <2>4. requests'[a - 1] = requests[a]
    BY <1>1, <2>3
  <2>5. ASSUME NEW b \in a - 1 .. Len(requests') PROVE ~Removes(b, id)'
    <3>1. b \in 1 .. Len(requests') /\ b + 1 \in a .. Len(requests)
      BY <1>1, <2>3, <2>5
    <3> QED BY <1>3, <2>2, <3>1
  <2> QED BY <2>2, <2>3, <2>4, <2>5 DEF Wanted
<1>5. CASE ~(r.type = "sync_remove" /\ r.id = id)
  <2>1. synced[id] > 0 => synced'[id] > 0
    <3>1. synced[id] \in Nat /\ synced'[id] \in Nat
      BY DEF Scene
    <3>2. CASE r.type = "sync_remove"
      BY <1>2, <1>5, <3>1, <3>2 DEF HandledAs, Unobserved
    <3>3. CASE r.type # "sync_remove"
      <4>1. synced' = synced \/ SyncedKept
        BY <1>2, <3>3 DEF HandledAs
      <4> QED BY <3>1, <4>1 DEF SyncedKept
    <3> QED BY <3>2, <3>3
  <2>2. CASE synced[id] > 0 /\ \A b \in 1 .. Len(requests) : ~Removes(b, id)
    BY <1>3, <2>1, <2>2 DEF Wanted
  <2>3. ASSUME NEW a \in 1 .. Len(requests), requests[a].type = "sync_add", requests[a].id = id,
               \A b \in a .. Len(requests) : ~Removes(b, id)
        PROVE  Wanted(id)'
    <3>1. CASE a = 1
      <4>1. synced'[id] > 0
        BY <1>1, <1>2, <2>3, <3>1 DEF HandledAs, Unobserved
      <4>2. \A b \in 1 .. Len(requests') : ~Removes(b, id)'
        BY <1>3, <2>3, <3>1
      <4> QED BY <4>1, <4>2 DEF Wanted
    <3>2. CASE a # 1
      <4>1. a - 1 \in 1 .. Len(requests') /\ requests'[a - 1] = requests[a]
        <5>1. a - 1 \in 1 .. Len(requests) - 1 /\ (a - 1) + 1 = a
          BY <1>1, <3>2
        <5> QED BY <5>1, <1>1
      <4>2. ASSUME NEW b \in a - 1 .. Len(requests') PROVE ~Removes(b, id)'
        <5>1. b \in 1 .. Len(requests') /\ b + 1 \in a .. Len(requests)
          BY <1>1, <4>1, <4>2
        <5> QED BY <1>3, <2>3, <5>1
      <4> QED BY <2>3, <4>1, <4>2 DEF Wanted
    <3> QED BY <3>1, <3>2
  <2> QED BY <2>2, <2>3 DEF Wanted
<1> QED BY <1>4, <1>5

-----------------------------------------------------------------------------
(* The events on their way tell how the compositor's objects became what   *)
(* they are: H[k] are those the client knows of after k of them.           *)

Step(e, A, B) ==
    /\ e.type = "created" => e.id \notin A /\ B = A \cup {e.id}
    /\ e.type = "destroyed" => e.id \in A /\ B = A \ {e.id}
    /\ e.type \notin {"created", "destroyed"} => B = A

Told(H) ==
    /\ H \in [0 .. Len(events) -> SUBSET Ids]
    /\ H[Len(events)] = exists
    /\ \A k \in 1 .. Len(events) : Step(events[k], H[k - 1], H[k])

\* The object is there before and after each of the events.
AllAlong(H, id) == \A k \in 0 .. Len(events) : id \in H[k]

LEMMA EventKinds ==
    ASSUME NEW e \in Events
    PROVE  /\ e.type \in {"created", "destroyed", "prop", "order", "done"}
           /\ e.type \in {"created", "destroyed", "prop"} => e.id \in Ids
           /\ e.type = "order" => e.id \in Layers /\ e.value \in Seq(Surfaces)
           /\ e.type = "prop" => e.value \in Props
           /\ e.type = "done" => e.value \in Nat
BY DEF Events

LEMMA ToldSame ==
    ASSUME NEW H, Told(H), events' = events, exists' = exists
    PROVE  Told(H)' /\ \A id : AllAlong(H, id)' => AllAlong(H, id)
BY DEF Told, AllAlong

\* One more event is sent.
LEMMA ToldMore ==
    ASSUME Scene, Scene', Mail, NEW H, Told(H), NEW K, Tells(K)
    PROVE  \E G : /\ Told(G)' /\ G[0] = H[0]
                  /\ \A id : AllAlong(G, id)' => AllAlong(H, id) /\ id \in exists'
<1>1. CASE events' = events /\ exists' = exists
  <2>1. Told(H)' /\ \A id : AllAlong(H, id)' => AllAlong(H, id)
    BY <1>1, ToldSame
  <2>2. \A id : AllAlong(H, id)' => id \in exists'
    BY <2>1 DEF Told, AllAlong, Mail
  <2> QED BY <2>1, <2>2
<1>2. ASSUME NEW e \in Events, events' = Append(events, e), Effect(e)
      PROVE  \E G : /\ Told(G)' /\ G[0] = H[0]
                    /\ \A id : AllAlong(G, id)' => AllAlong(H, id) /\ id \in exists'
  <2>1. PICK n : n = Len(events)
    OBVIOUS
  <2>2. events \in Seq(Events) /\ n \in Nat
    BY <2>1 DEF Mail
  <2>3. /\ Len(events') = n + 1 /\ events'[n + 1] = e
        /\ \A k \in 1 .. n : events'[k] = events[k]
    BY <1>2, <2>1, <2>2, AppendIs
  <2>4. H \in [0 .. n -> SUBSET Ids] /\ H[n] = exists /\ \A k \in 1 .. n : Step(events[k], H[k - 1], H[k])
    BY <2>1 DEF Told
  <2>5. PICK G : G = [k \in 0 .. n + 1 |-> IF k = n + 1 THEN exists' ELSE H[k]]
    OBVIOUS
  <2>6. G[n + 1] = exists' /\ \A k \in 0 .. n : G[k] = H[k]
    BY <2>2, <2>5
  <2>7. G \in [0 .. n + 1 -> SUBSET Ids]
    BY <2>2, <2>4, <2>5 DEF Scene
  <2>8. Step(e, G[n], G[n + 1])
    <3>1. G[n] = exists
      BY <2>2, <2>4, <2>6
    <3>2. e.type \in {"created", "destroyed", "prop", "order", "done"}
      BY EventKinds
    <3> QED BY <1>2, <2>6, <3>1, <3>2 DEF Step, Effect
  <2>9. ASSUME NEW k \in 1 .. n + 1 PROVE Step(events'[k], G[k - 1], G[k])
    <3>1. CASE k = n + 1
      <4>1. k - 1 = n
        BY <2>2, <3>1
      <4> QED BY <2>3, <2>8, <3>1, <4>1
    <3>2. CASE k # n + 1
      <4>1. k \in 1 .. n /\ k \in 0 .. n /\ k - 1 \in 0 .. n
        BY <2>2, <3>2
      <4>2. Step(events[k], H[k - 1], H[k])
        BY <2>4, <4>1
      <4>3. events'[k] = events[k] /\ G[k] = H[k] /\ G[k - 1] = H[k - 1]
        BY <2>3, <2>6, <4>1
      <4> QED BY <4>2, <4>3
    <3> QED BY <3>1, <3>2
  <2>10. Told(G)'
    BY <2>3, <2>6, <2>7, <2>9 DEF Told
  <2>11. G[0] = H[0]
    BY <2>2, <2>6
  <2>12. ASSUME NEW id, AllAlong(G, id)' PROVE AllAlong(H, id) /\ id \in exists'
    <3>1. \A k \in 0 .. n + 1 : id \in G[k]
      BY <2>3, <2>12 DEF AllAlong
    <3>2. id \in G[n + 1] /\ \A k \in 0 .. n : id \in G[k]
      BY <2>2, <3>1
    <3>3. id \in exists' /\ \A k \in 0 .. n : id \in H[k]
      BY <2>6, <3>2
    <3> QED BY <2>1, <3>3 DEF AllAlong
  <2> QED BY <2>10, <2>11, <2>12
<1> QED BY <1>1, <1>2 DEF Tells

\* The first event is dispatched.
LEMMA ToldLess ==
    ASSUME Mail, NEW H, Told(H), events # <<>>, events' = Tail(events), exists' = exists
    PROVE  \E G : /\ Told(G)' /\ Step(Head(events), H[0], G[0])
                  /\ \A id : AllAlong(G, id)' /\ id \in H[0] => AllAlong(H, id)
<1>1. PICK n : n = Len(events) - 1
  OBVIOUS
<1>2. /\ n \in Nat /\ Len(events) = n + 1 /\ Len(events') = n /\ Head(events) = events[1]
      /\ \A k \in 1 .. n : events'[k] = events[k + 1]
  BY <1>1, TailIs DEF Mail
<1>3. /\ H \in [0 .. n + 1 -> SUBSET Ids] /\ H[n + 1] = exists
      /\ \A k \in 1 .. n + 1 : Step(events[k], H[k - 1], H[k])
  BY <1>2 DEF Told
<1>4. PICK G : G = [k \in 0 .. n |-> H[k + 1]]
  OBVIOUS
<1>5. \A k \in 0 .. n : G[k] = H[k + 1]
  BY <1>4
<1>6. G \in [0 .. n -> SUBSET Ids]
  BY <1>2, <1>3, <1>4
<1>7. ASSUME NEW k \in 1 .. n PROVE Step(events'[k], G[k - 1], G[k])
  <2>1. k + 1 \in 1 .. n + 1 /\ (k + 1) - 1 = k /\ k \in 0 .. n /\ k - 1 \in 0 .. n /\ (k - 1) + 1 = k
    BY <1>2
  <2>2. Step(events[k + 1], H[k], H[k + 1])
    BY <1>3, <2>1
  <2>3. G[k - 1] = H[k] /\ G[k] = H[k + 1]
    BY <1>5, <2>1
  <2> QED BY <1>2, <2>2, <2>3
<1>8. Told(G)'
  <2>1. G[n] = exists'
    BY <1>2, <1>3, <1>5
  <2> QED BY <1>2, <1>6, <1>7, <2>1 DEF Told
<1>9. Step(Head(events), H[0], G[0])
  <2>1. 1 \in 1 .. n + 1 /\ 1 - 1 = 0 /\ 0 \in 0 .. n /\ 0 + 1 = 1
    BY <1>2
  <2>2. Step(events[1], H[0], H[1])
    BY <1>3, <2>1
  <2> QED BY <1>2, <1>5, <2>1, <2>2
<1>10. ASSUME NEW id, AllAlong(G, id)', id \in H[0] PROVE AllAlong(H, id)
  <2>1. \A k \in 0 .. n : id \in H[k + 1]
    BY <1>2, <1>5, <1>10 DEF AllAlong
  <2>2. ASSUME NEW k \in 0 .. n + 1 PROVE id \in H[k]
    <3>1. CASE k = 0
      BY <1>10, <3>1
    <3>2. CASE k # 0
      <4>1. k - 1 \in 0 .. n /\ (k - 1) + 1 = k
        BY <1>2, <3>2
      <4> QED BY <2>1, <4>1
    <3> QED BY <3>1, <3>2
  <2> QED BY <1>2, <2>2 DEF AllAlong
<1> QED BY <1>8, <1>9, <1>10

\* The lists are what the first of them tells, but for the surfaces whose
\* removal is being told.
Goes(p) == \E i \in 1 .. Len(stack) : stack[i].pc = "removed" /\ stack[i].ptr = p

\* The surface was created when an old context stood for it; only a callback of a
\* removed object that calls the library makes that happen.
Lost(s) == "removed" \in CallIn /\ s \in missed

Mirrored(A) ==
    /\ \A l \in Layers : l \in A <=> \E p \in ToSet(list_layer) : context[p].id = l
    /\ \A s \in Surfaces \cap A : Lost(s) \/
          \E p \in ToSet(list_surface) : context[p].id = s /\ ~Goes(p)

MaxIn == \A n \in Nat : \A S \in SUBSET (1 .. n) : S # {} => Max(S) \in S /\ \A k \in S : k <= Max(S)

LEMMA MaxIsIn == MaxIn
<1> SUFFICES ASSUME NEW n \in Nat, NEW S, S \subseteq 1 .. n, S # {}
             PROVE  Max(S) \in S /\ \A k \in S : k <= Max(S)
  BY DEF MaxIn
<1> DEFINE T == {m \in Nat : \A k \in S : k <= m}
<1>1. n \in T
  OBVIOUS
<1>2. PICK m \in T : \A k \in T : m <= k
  <2> HIDE DEF T
  <2>1. T \subseteq Nat
    BY DEF T
  <2> QED BY <1>1, <2>1, LeastNatural
<1>3. m \in S
  <2> SUFFICES ASSUME m \notin S PROVE FALSE
    OBVIOUS
  <2>1. m \in Nat /\ \A k \in S : k \in Nat /\ k <= m /\ k # m /\ k > 0
    OBVIOUS
  <2>2. m > 0
    <3>1. PICK k \in S : TRUE
      OBVIOUS
    <3> QED BY <3>1, <2>1
  <2>3. m - 1 \in T
    BY <2>1, <2>2
  <2> QED BY <1>2, <2>1, <2>3
<1>4. \E x \in S : \A y \in S : x >= y
  BY <1>2, <1>3
<1>5. PICK x : x = Max(S)
  OBVIOUS
<1>6. x \in S /\ \A y \in S : x >= y
  BY <1>4, <1>5 DEF Max
<1>7. \A y \in S : y <= x
  BY <1>6
<1> QED BY <1>5, <1>6, <1>7

\* The event tells that the object is created or destroyed.
About(k, id) == events[k].type \in {"created", "destroyed"} /\ events[k].id = id

LEMMA LastAbout ==
    ASSUME Mail, NEW id
    PROVE  \E n \in 0 .. Len(events) :
              /\ n = 0 => (WillBeListed(id) <=> Lookup(id) # Absent)
              /\ n > 0 => About(n, id) /\ (WillBeListed(id) <=> events[n].type = "created")
              /\ \A k \in n + 1 .. Len(events) : ~About(k, id)
<1> DEFINE I == {k \in 1 .. Len(events) : About(k, id)}
           n == IF I # {} THEN Max(I) ELSE 0
<1>1. Len(events) \in Nat
  BY DEF Mail
<1>2. SelectLastInSeq(events, LAMBDA e : e.type \in {"created", "destroyed"} /\ e.id = id) = n
  BY DEF SelectLastInSeq, About
<1>3. WillBeListed(id) <=> IF n = 0 THEN Lookup(id) # Absent ELSE events[n].type = "created"
  BY <1>2 DEF WillBeListed
<1>4. CASE I = {}
  <2>1. n = 0
    BY <1>4
  <2>2. \A k \in 0 + 1 .. Len(events) : ~About(k, id)
    BY <1>4
  <2> HIDE DEF n, I
  <2> QED BY <1>1, <1>3, <2>1, <2>2
<1>5. CASE I # {}
  <2>1. PICK m : m = n
    OBVIOUS
  <2>2. m = Max(I)
    BY <1>5, <2>1
  <2>3. I \in SUBSET (1 .. Len(events))
    OBVIOUS
  <2>4. m \in I /\ \A k \in I : k <= m
    <3> HIDE DEF I, n
    <3> QED BY <1>1, <1>5, <2>2, <2>3, MaxIsIn DEF MaxIn
  <2>5. m \in 1 .. Len(events) /\ About(m, id) /\ m # 0
    BY <2>4
  <2>6. \A k \in m + 1 .. Len(events) : ~About(k, id)
    <3> SUFFICES ASSUME NEW k \in m + 1 .. Len(events), About(k, id) PROVE FALSE
      OBVIOUS
    <3>1. k \in I
      BY <2>5
    <3>2. k <= m
      BY <2>4, <3>1
    <3> QED BY <2>5, <3>2
  <2>7. WillBeListed(id) <=> events[m].type = "created"
    <3> HIDE DEF n
    <3> QED BY <1>3, <2>1, <2>5
  <2> HIDE DEF n, I
  <2> QED BY <1>1, <2>5, <2>6, <2>7
<1> QED BY <1>4, <1>5

LEMMA NothingAbout ==
    ASSUME Mail, NEW H, Told(H), NEW id, NEW n \in 0 .. Len(events),
           \A k \in n + 1 .. Len(events) : ~About(k, id)
    PROVE  id \in H[n] <=> id \in exists
<1> DEFINE Bad == {k \in n .. Len(events) : ~(id \in H[k] <=> id \in H[n])}
<1>1. Len(events) \in Nat /\ H[Len(events)] = exists
      /\ \A k \in 1 .. Len(events) : Step(events[k], H[k - 1], H[k])
  BY DEF Told, Mail
<1>2. Bad = {}
  <2> SUFFICES ASSUME Bad # {} PROVE FALSE
    OBVIOUS
  <2>1. Bad \subseteq Nat
    OBVIOUS
  <2>2. PICK m \in Bad : \A k \in Bad : m <= k
    <3> HIDE DEF Bad
    <3> QED BY <2>1, LeastNatural
  <2>3. m \in n + 1 .. Len(events) /\ ~(id \in H[m] <=> id \in H[n])
    BY <2>2, <1>1
  <2>4. m - 1 \in n .. Len(events) /\ m - 1 \notin Bad
    <3>1. m - 1 \in n .. Len(events) /\ ~(m <= m - 1)
      BY <1>1, <2>3
    <3>2. m - 1 \notin Bad
      <4> HIDE DEF Bad
      <4> QED BY <2>2, <3>1
    <3> QED BY <3>1, <3>2
  <2>5. id \in H[m - 1] <=> id \in H[n]
    BY <2>4
  <2>6. Step(events[m], H[m - 1], H[m]) /\ ~About(m, id)
    BY <1>1, <2>3
  <2>7. id \in H[m] <=> id \in H[m - 1]
    BY <2>6 DEF Step, About
  <2> QED BY <2>3, <2>5, <2>7
<1>3. Len(events) \in n .. Len(events)
  BY <1>1
<1> QED BY <1>1, <1>2, <1>3

\* The lists and the events on their way tell of each object.
LEMMA CatchesUp ==
    ASSUME CTypes, Listings, NEW H, Told(H), Mirrored(H[0])
    PROVE  MirrorCatchesUp
<1> SUFFICES ASSUME stack = <<>>
             PROVE  /\ \A s \in Surfaces \cap exists : WillBeListed(s) \/ s \in missed
                    /\ \A l \in Layers : l \in exists <=> WillBeListed(l)
  BY DEF MirrorCatchesUp
<1>1. Mail /\ Mirror
  BY DEF CTypes
<1>2. ASSUME NEW id \in Ids
      PROVE  \E n \in 0 .. Len(events) :
              /\ n = 0 => (WillBeListed(id) <=> Lookup(id) # Absent) /\ (id \in H[0] <=> id \in exists)
              /\ n > 0 => (WillBeListed(id) <=> id \in exists)
  <2>1. PICK n \in 0 .. Len(events) :
              /\ n = 0 => (WillBeListed(id) <=> Lookup(id) # Absent)
              /\ n > 0 => About(n, id) /\ (WillBeListed(id) <=> events[n].type = "created")
              /\ \A k \in n + 1 .. Len(events) : ~About(k, id)
    BY <1>1, LastAbout
  <2>2. id \in H[n] <=> id \in exists
    BY <1>1, <2>1, NothingAbout
  <2>3. ASSUME n > 0 PROVE WillBeListed(id) <=> id \in exists
    <3>1. n \in 1 .. Len(events)
      BY <2>3
    <3>2. Step(events[n], H[n - 1], H[n]) /\ About(n, id)
      BY <2>1, <2>3, <3>1 DEF Told
    <3>3. id \in H[n] <=> events[n].type = "created"
      BY <3>2 DEF Step, About
    <3> QED BY <2>1, <2>2, <2>3, <3>3
  <2> QED BY <2>1, <2>2, <2>3
<1>3. \A p : ~Goes(p)
  <2>1. Len(stack) = 0
    OBVIOUS
  <2> QED BY <2>1 DEF Goes
<1>4. ASSUME NEW s \in Surfaces \cap exists, s \notin missed PROVE WillBeListed(s)
  <2>1. s \in Ids
    BY Kinds
  <2>2. s \in H[0] => Lookup(s) # Absent
    <3> SUFFICES ASSUME s \in H[0] PROVE Lookup(s) # Absent
      OBVIOUS
    <3>1. \E p \in ToSet(list_surface) : context[p].id = s
      BY <1>4 DEF Mirrored, Lost
    <3> QED BY <1>1, <2>1, <3>1, FoundIs
  <2> QED BY <1>2, <2>1, <2>2
<1>5. ASSUME NEW l \in Layers PROVE l \in exists <=> WillBeListed(l)
  <2>1. l \in Ids
    BY Kinds
  <2>2. l \in H[0] <=> Lookup(l) # Absent
    <3>1. l \in H[0] <=> \E p \in ToSet(list_layer) : context[p].id = l
      BY DEF Mirrored
    <3> QED BY <1>1, <2>1, <3>1, FoundIs
  <2> QED BY <1>2, <2>1, <2>2
<1> QED BY <1>4, <1>5

\* A layer that has a callback, and exists all along, is kept informed of unless
\* a call is about to take the callback away.
Informed(H) ==
    \A p \in ToSet(list_layer), id \in Layers :
        context[p].id = id /\ context[p].notification /\ AllAlong(H, id) => Withdrawn(p) \/ Wanted(id)

History(H) == Told(H) /\ Mirrored(H[0]) /\ Informed(H)

\* The invariant.
Sound == CTypes /\ FramesSit /\ Listings /\ LayersLeave /\ \E H : History(H)

LEMMA AllInformed ==
    ASSUME Listings, NEW H, Told(H), Informed(H)
    PROVE  LayersInformed
<1> SUFFICES ASSUME stack = <<>>, requests = <<>>, events = <<>>, NEW p \in ToSet(list_layer),
                    context[p].notification, context[p].id \in exists
             PROVE  synced[context[p].id] > 0
  BY DEF LayersInformed, Quiet
<1>1. Len(stack) = 0 /\ Len(requests) = 0 /\ Len(events) = 0
  OBVIOUS
<1>2. PICK l \in Layers : l = context[p].id
  BY DEF Listings, Layered
<1>3. AllAlong(H, l)
  BY <1>1, <1>2 DEF AllAlong, Told
<1>4. ~Withdrawn(p)
  BY <1>1 DEF Withdrawn
<1>5. Wanted(l)
  BY <1>2, <1>3, <1>4 DEF Informed
<1> QED BY <1>1, <1>2, <1>5 DEF Wanted

-----------------------------------------------------------------------------
(* What the compositor does.                                               *)

LEMMA SoundParts ==
    ASSUME Sound
    PROVE  /\ Scene /\ Mail /\ Mirror /\ Stack /\ requests \in Seq(Requests) /\ events \in Seq(Events)
           /\ FramesSit /\ Listings /\ LayersLeave
BY DEF Sound, CTypes, Mail

\* A step that only the compositor's state and the mail are changed by.
LEMMA FarStep ==
    ASSUME Sound, UNCHANGED <<mirror, missed>>, Stands(Len(stack))
    PROVE  /\ FramesSit' /\ Listings' /\ LayersLeave' /\ Mirror'
           /\ \A A : Mirrored(A) => Mirrored(A)'
           /\ \A p : Withdrawn(p) => Withdrawn(p)'
<1>1. FramesSit' /\ Stay(Len(stack)) /\ Len(stack') = Len(stack) /\ Len(stack) \in Nat
  BY SoundParts, FramesStillSit DEF Stands, Stay
<1>2. list_surface' = list_surface /\ list_layer' = list_layer /\ context' = context
  BY DEF mirror
<1>3. Listings'
  BY <1>2, SoundParts DEF Listings, Surfaced, Layered, Single
<1>4. LayersLeave'
  <2>1. \A i \in 1 .. Len(stack) : Leaving(i) =>
              context'[stack[i].ptr] # Absent /\ stack[i].ptr \notin ToSet(list_layer')
    BY <1>2, SoundParts DEF LayersLeave
  <2>2. \A i \in 1 .. Len(stack') : i <= Len(stack) \/ stack'[i].pc # "removed"
    BY <1>1
  <2>3. Len(stack') \in Nat
    BY <1>1
  <2> QED BY <1>1, <2>1, <2>2, <2>3, SoundParts, StillLeave
<1>5. Mirror'
  BY <1>2, SoundParts DEF Mirror
<1>6. \A i \in 1 .. Len(stack) : SameCall(stack[i], stack'[i])
  BY <1>1 DEF Stay
<1>7. \A p : Goes(p)' => Goes(p)
  BY <1>1, <1>6 DEF Goes, SameCall
<1>8. \A A : Mirrored(A) => Mirrored(A)'
  BY <1>2, <1>7 DEF Mirrored, Lost
<1>9. \A p : Withdrawn(p) => Withdrawn(p)'
  BY <1>1, <1>6 DEF Withdrawn, SameCall
<1> QED BY <1>1, <1>3, <1>4, <1>5, <1>8, <1>9

\* What the compositor told is so, and whom it informs of stays informed of.
LEMMA FarHistory ==
    ASSUME Sound, UNCHANGED <<mirror, missed>>, Stands(Len(stack)), Scene', NEW K, Tells(K),
           \A id \in exists' : Wanted(id) => Wanted(id)'
    PROVE  \E H : History(H)'
<1>1. PICK H : History(H)
  BY DEF Sound
<1>2. PICK G : /\ Told(G)' /\ G[0] = H[0]
               /\ \A id : AllAlong(G, id)' => AllAlong(H, id) /\ id \in exists'
  BY <1>1, SoundParts, ToldMore DEF History
<1>3. Mirrored(G[0])'
  BY <1>1, <1>2, FarStep DEF History
<1>4. Informed(G)'
  <2> SUFFICES ASSUME NEW p \in ToSet(list_layer'), NEW id \in Layers, context'[p].id = id,
                      context'[p].notification, AllAlong(G, id)'
               PROVE  Withdrawn(p)' \/ Wanted(id)'
    BY DEF Informed
  <2>1. list_layer' = list_layer /\ context' = context
    BY DEF mirror
  <2>2. AllAlong(H, id) /\ id \in exists'
    BY <1>2
  <2>3. Withdrawn(p) \/ Wanted(id)
    BY <1>1, <2>1, <2>2 DEF History, Informed
  <2> QED BY <2>2, <2>3, FarStep
<1> QED BY <1>2, <1>3, <1>4 DEF History

LEMMA OthersStep ==
    ASSUME Sound, OthersChange
    PROVE  Sound'
<1>1. Change /\ requests' = requests /\ UNCHANGED <<mirror, missed>>
  BY DEF OthersChange, mirror
<1>2. World /\ Observed /\ SyncedKept
  BY <1>1, SoundParts, ChangeIs
<1>3. Stands(Len(stack)) /\ Scene' /\ Mail' /\ Stack' /\ Tells(Changes)
  BY <1>1, <1>2, SoundParts, ObservedStands DEF World, Mail
<1>4. ASSUME NEW id \in exists', Wanted(id) PROVE Wanted(id)'
  <2>1. synced'[id] >= synced[id] /\ synced[id] \in Nat /\ synced'[id] \in Nat
    BY <1>2, <1>3, SoundParts DEF SyncedKept, Scene
  <2> QED BY <1>1, <1>4, <2>1 DEF Wanted, Removes
<1>5. \E H : History(H)'
  BY <1>1, <1>3, <1>4, FarHistory
<1> QED BY <1>1, <1>3, <1>5, FarStep DEF Sound, CTypes

LEMMA HandleStep ==
    ASSUME Sound, HandleRequest
    PROVE  Sound'
<1>1. UNCHANGED <<mirror, missed>>
  BY DEF HandleRequest
<1>2. /\ Scene' /\ events' \in Seq(Events) /\ Stack'
      /\ requests # <<>> /\ requests' = Tail(requests) /\ HandledAs(Head(requests))
  BY SoundParts, HandleIs
<1>3. requests' \in Seq(Requests)
  BY <1>2, SoundParts, TailIs
<1>4. Mail'
  BY <1>2, <1>3 DEF Mail
<1>5. PICK r : r = Head(requests)
  OBVIOUS
<1>6. HandledAs(r)
  BY <1>2, <1>5
<1>7. Observed \/ stack' = stack
  BY <1>6 DEF HandledAs, Unobserved
<1>8. Stands(Len(stack))
  BY <1>2, <1>7, SoundParts, ObservedStands, UnchangedStands
<1>9. \E K : Tells(K)
  <2>1. CASE r.type = "sync"
    <3>1. PICK e \in Events : e.type = "done" /\ events' = Append(events, e)
      BY <1>6, <2>1 DEF HandledAs
    <3>2. Effect(e)
      BY <1>6, <2>1, <3>1 DEF HandledAs, Unobserved, Effect
    <3>3. Tells({"done"})
      BY <3>1, <3>2 DEF Tells
    <3> QED BY <3>3
  <2>2. CASE r.type = "get" /\ r.id \in exists
    <3>1. PICK e \in Events : /\ e.type = "prop" /\ e.id = r.id /\ e.value = prop[r.id]
                              /\ events' = Append(events, e)
      BY <1>6, <2>2 DEF HandledAs
    <3>2. Effect(e)
      BY <1>6, <2>2, <3>1 DEF HandledAs, Unobserved, Effect
    <3>3. Tells({"prop"})
      BY <3>1, <3>2 DEF Tells
    <3> QED BY <3>3
  <2>3. CASE r.type \in {"sync_add", "sync_remove"} \/ (r.type = "get" /\ r.id \notin exists)
    <3>1. Tells({})
      BY <1>6, <2>3 DEF HandledAs, Unobserved, Tells
    <3> QED BY <3>1
  <2>4. CASE r.type = "get_order"
    BY <1>6, <2>4 DEF HandledAs
  <2>5. CASE r.type \in {"create", "destroy", "commit"}
    BY <1>6, <2>5 DEF HandledAs
  <2>6. r \in Requests
    BY <1>2, <1>5, SoundParts, TailIs
  <2> QED BY <2>1, <2>2, <2>3, <2>4, <2>5, <2>6, RequestKinds
<1>10. \A id \in exists' : Wanted(id) => Wanted(id)'
  BY <1>2, SoundParts, WantedHandled
<1>11. \E H : History(H)'
  BY <1>1, <1>2, <1>8, <1>9, <1>10, FarHistory
<1> QED BY <1>1, <1>2, <1>4, <1>8, <1>11, FarStep DEF Sound, CTypes

-----------------------------------------------------------------------------
(* What the library does between two events.                               *)

\* A callback that is set had been, and the client stays informed.
KeepsInformed(p, id) ==
    context'[p].notification =>
        \/ Withdrawn(p)' \/ Wanted(id)'
        \/ /\ context[p].notification
           /\ Withdrawn(p) \/ Wanted(id) => Withdrawn(p)' \/ Wanted(id)'

\* The frames of a step after which no more is being removed.
Settles(n) ==
    \/ Stands(n)
    \/ \E f : StandsOn(n, f) /\ Fits(n, f) /\ f.pc # "removed"

LEMMA SettledFrames ==
    ASSUME Sound, NEW n, Settles(n)
    PROVE  /\ FramesSit' /\ Stack' /\ Stay(n) /\ Len(stack') \in Nat /\ Len(stack') >= n
           /\ \A i \in 1 .. Len(stack') : i <= n \/ stack'[i].pc # "removed"
           /\ \A p : Goes(p)' => Goes(p)
<1>1. CASE Stands(n)
  <2>1. Stay(n) /\ Stack' /\ Len(stack') = n /\ n \in Nat
    BY <1>1 DEF Stands, Stay
  <2>2. \A i \in 1 .. Len(stack') : i \in 1 .. Len(stack) /\ SameCall(stack[i], stack'[i])
    BY <2>1, SoundParts, StackIs DEF Stay
  <2>3. \A p : Goes(p)' => Goes(p)
    BY <2>2 DEF Goes, SameCall
  <2> QED BY <1>1, <2>1, <2>3, SoundParts, FramesStillSit
<1>2. ASSUME NEW f, StandsOn(n, f), Fits(n, f), f.pc # "removed"
      PROVE  /\ FramesSit' /\ Stack' /\ Stay(n) /\ Len(stack') \in Nat /\ Len(stack') >= n
             /\ \A i \in 1 .. Len(stack') : i <= n \/ stack'[i].pc # "removed"
             /\ \A p : Goes(p)' => Goes(p)
  <2>1. Stay(n) /\ Stack' /\ Len(stack') = n + 1 /\ n \in Nat /\ stack'[n + 1].pc # "removed"
    BY <1>2 DEF StandsOn, Stay, SameCall
  <2>2. \A i \in 1 .. n : i \in 1 .. Len(stack) /\ SameCall(stack[i], stack'[i])
    BY <2>1, SoundParts, StackIs DEF Stay
  <2>3. \A i \in 1 .. Len(stack') : i \in 1 .. n \/ stack'[i].pc # "removed"
    BY <2>1
  <2>4. \A p : Goes(p)' => Goes(p)
    BY <2>2, <2>3 DEF Goes, SameCall
  <2> QED BY <1>2, <2>1, <2>3, <2>4, SoundParts, FramesSitOn
<1> QED BY <1>1, <1>2 DEF Settles

\* The layers that leave, when nothing is freed.
LEMMA KeptLeave ==
    ASSUME Sound, Kept, NEW n, Settles(n)
    PROVE  LayersLeave'
<1>1. /\ Stay(n) /\ Len(stack') \in Nat
      /\ \A i \in 1 .. Len(stack') : i <= n \/ stack'[i].pc # "removed"
  BY SettledFrames
<1>2. ASSUME NEW i \in 1 .. n, Leaving(i)
      PROVE  context'[stack[i].ptr] # Absent /\ stack[i].ptr \notin ToSet(list_layer')
  <2>1. i \in 1 .. Len(stack) /\ stack[i].ptr \in Ptrs
    BY <1>1, <1>2, SoundParts, StackIs, Kinds DEF Stay, Leaving
  <2>2. context[stack[i].ptr] # Absent /\ stack[i].ptr \notin ToSet(list_layer)
    BY <1>2, <2>1, SoundParts DEF LayersLeave
  <2> QED BY <2>1, <2>2 DEF Kept
<1> QED BY <1>1, <1>2, SoundParts, StillLeave

LEMMA KeptStep ==
    ASSUME Sound, Kept, Mirror', requests' \in Seq(Requests),
           UNCHANGED <<compositor, events, missed>>, NEW n, Settles(n),
           \A p \in ToSet(list_layer), id \in Layers : context[p].id = id => KeepsInformed(p, id)
    PROVE  Sound'
<1>1. list_surface' = list_surface /\ list_layer' = list_layer
  BY DEF Kept
<1>2. /\ Listings'
      /\ \A p \in ToSet(list_surface) \cup ToSet(list_layer) : context'[p].id = context[p].id
  BY SoundParts, KeptListings
<1>3. /\ FramesSit' /\ Stack' /\ Stay(n) /\ Len(stack') \in Nat
      /\ \A i \in 1 .. Len(stack') : i <= n \/ stack'[i].pc # "removed"
      /\ \A p : Goes(p)' => Goes(p)
  BY SettledFrames
<1>4. LayersLeave'
  BY KeptLeave
<1>5. exists' = exists /\ synced' = synced /\ events' = events /\ Scene' /\ Mail'
  BY SoundParts DEF compositor, Scene, Mail
<1>6. PICK H : History(H)
  BY DEF Sound
<1>7. Told(H)' /\ \A id : AllAlong(H, id)' => AllAlong(H, id)
  BY <1>5, <1>6, ToldSame DEF History
<1>8. Mirrored(H[0])'
  BY <1>1, <1>2, <1>3, <1>6 DEF History, Mirrored, Lost
<1>9. Informed(H)'
  <2> SUFFICES ASSUME NEW p \in ToSet(list_layer'), NEW id \in Layers, context'[p].id = id,
                      context'[p].notification, AllAlong(H, id)'
               PROVE  Withdrawn(p)' \/ Wanted(id)'
    BY DEF Informed
  <2>1. p \in ToSet(list_layer) /\ context[p].id = id /\ AllAlong(H, id)
    BY <1>1, <1>2, <1>7
  <2>2. KeepsInformed(p, id) /\ (context[p].notification => Withdrawn(p) \/ Wanted(id))
    BY <1>6, <2>1 DEF History, Informed
  <2> QED BY <2>2 DEF KeepsInformed
<1>10. History(H)'
  BY <1>7, <1>8, <1>9 DEF History
<1> QED BY <1>2, <1>3, <1>4, <1>5, <1>10 DEF Sound, CTypes

\* No callback is set, no notification given up and no call that gives one up ends.
LEMMA PlainStep ==
    ASSUME Sound, Kept, Mirror', Grows, UNCHANGED <<compositor, events, missed>>,
           NEW n, Settles(n),
           \A p \in ToSet(list_layer) : context'[p].notification => context[p].notification,
           \A i \in n + 1 .. Len(stack) : ~(stack[i].op = "ilm_removeNotification" /\ stack[i].pc = "reply"),
           \A b \in Len(requests) + 1 .. Len(requests') : requests'[b].type # "sync_remove"
    PROVE  Sound'
<1>1. Stay(n) /\ Len(stack') \in Nat /\ Len(stack') >= n
  BY SettledFrames
<1>2. ASSUME NEW p \in ToSet(list_layer), Withdrawn(p) PROVE Withdrawn(p)'
  <2>1. PICK i \in 1 .. Len(stack) :
            stack[i].op = "ilm_removeNotification" /\ stack[i].pc = "reply" /\ stack[i].ptr = p
    BY <1>2 DEF Withdrawn
  <2>2. n \in Nat /\ Len(stack) \in Nat
    BY <1>1, SoundParts, StackIs DEF Stay
  <2>3. i \in 1 .. n /\ i \in 1 .. Len(stack')
    BY <1>1, <2>1, <2>2
  <2> QED BY <1>1, <2>1, <2>3 DEF Withdrawn, Stay, SameCall
<1>3. ASSUME NEW id \in Layers, Wanted(id) PROVE Wanted(id)'
  <2>1. synced'[id] = synced[id] /\ \A b \in Len(requests) + 1 .. Len(requests') : ~Removes(b, id)'
    BY DEF compositor, Removes
  <2> QED BY <1>3, <2>1, WantedStays
<1>4. \A p \in ToSet(list_layer), id \in Layers : context[p].id = id => KeepsInformed(p, id)
  BY <1>2, <1>3 DEF KeepsInformed
<1>5. requests' \in Seq(Requests)
  BY DEF Grows
<1> QED BY <1>4, <1>5, KeptStep

LEMMA UnchangedMirror ==
    ASSUME Mirror, UNCHANGED mirror
    PROVE  Kept /\ Mirror' /\ context' = context
BY DEF Kept, Mirror, mirror

LEMMA SameNotified ==
    ASSUME context' = context
    PROVE  \A p \in ToSet(list_layer) : context'[p].notification => context[p].notification
OBVIOUS

\* The frame of a call that begins.
IsCall(g, op, id, pc, ptr) ==
    /\ g \in Frames /\ FrameSound(g) /\ ~g.done
    /\ g.op = op /\ g.id = id /\ g.pc = pc /\ g.ptr = ptr
    /\ AnswerIn(g, exists, prop, on_layer) \in g.answers

LEMMA CallFrame ==
    ASSUME Scene, NEW op \in AllOps \ {"callback"}, NEW id \in Ids \cup {Absent}, NEW pc \in Waits,
           NEW ptr \in Ptrs \cup {Absent}, op \in IdOps => id \in Ids, op \in LayerOps => id \in Layers,
           op = "ilm_getSurfaceIDsOnLayer" => ptr # Absent,
           op \in {"ilm_addNotification", "ilm_removeNotification"} => pc = "sync",
           NEW g, g = Witnessed(Frame(op, id, pc, ptr), exists, prop, on_layer)
    PROVE  IsCall(g, op, id, pc, ptr)
<1>1. PICK f : f = Frame(op, id, pc, ptr)
  OBVIOUS
<1>2. pc \in Places /\ pc \notin Callbacks
  BY DEF Waits, Places, Callbacks
<1>3. IsFrame(f, op, id, pc, ptr)
  BY <1>1, <1>2, FrameIs
<1>4. f \in Frames /\ FrameSound(f)
  BY <1>2, <1>3 DEF IsFrame, FrameSound, Points
<1>5. g = Witnessed(f, exists, prop, on_layer)
  BY <1>1
<1>6. g \in Frames /\ FrameSound(g) /\ Same(f, g) /\ AnswerIn(g, exists, prop, on_layer) \in g.answers
  BY <1>4, <1>5, WitnessedIs DEF Scene
<1> QED BY <1>3, <1>6 DEF Same, IsFrame, IsCall

\* A call that begins, and the requests R it sends first.
Begins(op, id, pc, ptr, R) ==
    /\ op \in AllOps \ {"callback"} /\ id \in Ids \cup {Absent} /\ pc \in Waits /\ ptr \in Ptrs \cup {Absent}
    /\ op \in IdOps => id \in Ids
    /\ op \in LayerOps => id \in Layers
    /\ op = "ilm_getSurfaceIDsOnLayer" => ptr # Absent
    /\ op \in {"ilm_addNotification", "ilm_removeNotification"} => pc = "sync" /\ ptr = Absent
    /\ \/ R = <<>> /\ op # "ilm_getProperties"
       \/ \E r \in Requests : /\ R = <<r>> /\ r.type \notin {"sync_remove", "sync"}
                              /\ op = "ilm_getProperties" => r.type = "get" /\ r.id = id
    /\ Call(op, id, pc, ptr, R)

LEMMA BeginIs ==
    ASSUME Sound, BeginCall
    PROVE  \E op, id, pc, ptr, R : Begins(op, id, pc, ptr, R)
<1>1. Absent \in Ids \cup {Absent} /\ Absent \in Ptrs \cup {Absent} /\ "sync" \in Waits /\ "reply" \in Waits
      /\ Layers \subseteq Ids
  BY Kinds DEF Waits
<1>2. ASSUME NEW op \in AllOps \ {"callback"}, NEW id \in Ids \cup {Absent},
             op \in IdOps => id \in Ids, op \in LayerOps => id \in Layers,
             op # "ilm_getSurfaceIDsOnLayer", op # "ilm_getProperties", SyncCall(op, id)
      PROVE  Begins(op, id, "sync", Absent, <<>>)
  <2>1. Call(op, id, "sync", Absent, <<>>)
    BY <1>2 DEF SyncCall
  <2> QED BY <1>1, <1>2, <2>1 DEF Begins
<1>3. /\ \A op \in PlainOps : op \in AllOps \ {"callback"} /\ op \notin IdOps /\ op \notin LayerOps
      /\ \A op \in IdOps : op \in AllOps \ {"callback"} /\ op \notin LayerOps
      /\ \A op \in LayerOps : op \in AllOps \ {"callback"} /\ op \notin IdOps
      /\ "ilm_getProperties" \notin PlainOps /\ "ilm_getProperties" \notin LayerOps
      /\ "ilm_getSurfaceIDsOnLayer" \notin PlainOps /\ "ilm_getSurfaceIDsOnLayer" \notin IdOps
  BY DEF PlainOps, IdOps, LayerOps, AllOps
<1>4. CASE BeginGetIDs
  BY <1>1, <1>2, <1>3, <1>4 DEF BeginGetIDs, PlainOps
<1>5. CASE \E id \in Ids : BeginGetProperties(id)
  <2>1. PICK id \in Ids : BeginGetProperties(id)
    BY <1>5
  <2>2. PICK r : r = Request("get", id)
    OBVIOUS
  <2>3. r \in Requests /\ r.type = "get" /\ r.id = id
    BY <2>2, RequestIs
  <2>4. PICK R : R = <<r>>
    OBVIOUS
  <2>5. Call("ilm_getProperties", id, "reply", Absent, R)
    BY <2>1, <2>2, <2>4 DEF BeginGetProperties
  <2>6. "ilm_getProperties" \in IdOps
    BY DEF IdOps
  <2>7. Begins("ilm_getProperties", id, "reply", Absent, R)
    BY <1>1, <1>3, <2>3, <2>4, <2>5, <2>6 DEF Begins
  <2> QED BY <2>7
<1>6. CASE \E l \in Layers : BeginGetSurfaceIDsOnLayer(l)
  <2>1. PICK l \in Layers : BeginGetSurfaceIDsOnLayer(l)
    BY <1>6
  <2>2. PICK r : r = Request("get_order", l)
    OBVIOUS
  <2>3. r \in Requests /\ r.type \notin {"sync_remove", "sync"}
    BY <2>2, RequestIs
  <2>4. PICK p, R : p = Lookup(l) /\ R = <<r>>
    OBVIOUS
  <2>5. p \in Ptrs /\ p # Absent
    BY <1>1, <2>1, <2>4, SoundParts, FoundIs DEF BeginGetSurfaceIDsOnLayer
  <2>6. Call("ilm_getSurfaceIDsOnLayer", l, "reply", p, R)
    BY <2>1, <2>2, <2>4 DEF BeginGetSurfaceIDsOnLayer
  <2>7. "ilm_getSurfaceIDsOnLayer" \in LayerOps
    BY DEF LayerOps
  <2>8. Begins("ilm_getSurfaceIDsOnLayer", l, "reply", p, R)
    BY <1>1, <1>3, <2>3, <2>4, <2>5, <2>6, <2>7 DEF Begins
  <2> QED BY <2>8
<1>7. CASE BeginNotification
  <2>1. CASE \E id \in Ids : \/ SyncCall("ilm_addNotification", id)
                             \/ SyncCall("ilm_removeNotification", id)
    BY <1>1, <1>2, <1>3, <2>1 DEF IdOps
  <2>2. CASE \/ SyncCall("ilm_registerNotification", Absent)
             \/ SyncCall("ilm_unregisterNotification", Absent)
    BY <1>1, <1>2, <1>3, <2>2 DEF PlainOps
  <2> QED BY <1>7, <2>1, <2>2 DEF BeginNotification
<1>8. CASE BeginChange
  <2>1. CASE \E l \in Layers : SyncCall("ilm_layerCreateWithDimension", l)
    BY <1>1, <1>2, <1>3, <2>1 DEF LayerOps
  <2>2. CASE \E l \in Layers : Call("ilm_layerRemove", l, "reply", Absent, <<Request("destroy", l)>>)
    <3>1. PICK l \in Layers : Call("ilm_layerRemove", l, "reply", Absent, <<Request("destroy", l)>>)
      BY <2>2
    <3>2. PICK r : r = Request("destroy", l)
      OBVIOUS
    <3>3. r \in Requests /\ r.type \notin {"sync_remove", "sync"}
      BY <1>1, <3>2, RequestIs
    <3>4. PICK R : R = <<r>>
      OBVIOUS
    <3>5. "ilm_layerRemove" \in LayerOps
      BY DEF LayerOps
    <3>6. Begins("ilm_layerRemove", l, "reply", Absent, R)
      BY <1>1, <1>3, <3>1, <3>2, <3>3, <3>4, <3>5 DEF Begins
    <3> QED BY <3>6
  <2>3. CASE Call("ilm_commitChanges", Absent, "reply", Absent, <<Request("commit", Absent)>>)
    <3>1. PICK r : r = Request("commit", Absent)
      OBVIOUS
    <3>2. r \in Requests /\ r.type \notin {"sync_remove", "sync"}
      BY <3>1, RequestIs
    <3>3. PICK R : R = <<r>>
      OBVIOUS
    <3>4. "ilm_commitChanges" \in PlainOps
      BY DEF PlainOps
    <3>5. Begins("ilm_commitChanges", Absent, "reply", Absent, R)
      BY <1>1, <1>3, <2>3, <3>1, <3>2, <3>3, <3>4 DEF Begins
    <3> QED BY <3>5
  <2> QED BY <1>8, <2>1, <2>2, <2>3 DEF BeginChange
<1> QED BY <1>4, <1>5, <1>6, <1>7, <1>8 DEF BeginCall

LEMMA CallStep ==
    ASSUME Sound, NEW op \in AllOps \ {"callback"}, NEW id \in Ids \cup {Absent}, NEW pc \in Waits,
           NEW ptr \in Ptrs \cup {Absent}, op \in IdOps => id \in Ids, op \in LayerOps => id \in Layers,
           op = "ilm_getSurfaceIDsOnLayer" => ptr # Absent,
           op \in {"ilm_addNotification", "ilm_removeNotification"} => pc = "sync" /\ ptr = Absent,
           NEW R, R = <<>> \/ (\E r \in Requests : R = <<r>> /\ r.type # "sync_remove"),
           Call(op, id, pc, ptr, R)
    PROVE  Sound'
<1>1. PICK g : g = Witnessed(Frame(op, id, pc, ptr), exists, prop, on_layer)
  OBVIOUS
<1>2. /\ g \in Frames /\ FrameSound(g)
      /\ g.op = op /\ g.id = id /\ g.pc = pc /\ g.ptr = ptr
  <2>1. IsCall(g, op, id, pc, ptr)
    BY <1>1, SoundParts, CallFrame
  <2> QED BY <2>1 DEF IsCall
<1>3. PICK n : n = Len(stack)
  OBVIOUS
<1>4. n \in Nat /\ StandsOn(n, g)
  <2>1. stack' = Append(stack, g)
    BY <1>1 DEF Call
  <2> QED BY <1>2, <1>3, <2>1, SoundParts, StackIs, PushStands
<1>5. Fits(n, g) /\ g.pc # "removed"
  <2>1. pc \notin {"registered", "added", "removed"}
    BY DEF Waits
  <2>2. n > 0 => stack[n].op # "callback" \/ stack[n].pc \in CallIn
    <3> SUFFICES ASSUME n > 0 PROVE stack[n].op # "callback" \/ stack[n].pc \in CallIn
      OBVIOUS
    <3>1. stack # <<>>
      BY <1>3
    <3>2. Top = stack[n]
      BY <1>3, <3>1, SoundParts, TopIs
    <3> QED BY <3>1, <3>2 DEF Call, CanCall
  <2> QED BY <1>2, <2>1, <2>2, SoundParts, CallFits
<1>6. Grows /\ \A b \in Len(requests) + 1 .. Len(requests') : requests'[b].type # "sync_remove"
  <2>1. requests' = requests \o R \o <<SyncRequest(n + 1)>> /\ requests \in Seq(Requests) /\ n + 1 \in Nat
    BY <1>3, <1>4, SoundParts DEF Call
  <2>2. CASE R = <<>>
    <3>1. SendsSync(n + 1)
      BY <2>1, <2>2, SyncSent
    <3>2. Grows /\ Len(requests) \in Nat /\ Len(requests') = Len(requests) + 1
          /\ requests'[Len(requests) + 1].type = "sync"
      BY <1>4, <3>1, SyncIsRequest DEF SendsSync, Grows
    <3> QED BY <3>2
  <2>3. CASE \E r \in Requests : R = <<r>> /\ r.type # "sync_remove"
    <3>1. PICK r \in Requests : R = <<r>> /\ r.type # "sync_remove"
      BY <2>3
    <3>2. Sends(r, n + 1)
      BY <2>1, <3>1, RequestSent
    <3>3. Grows /\ Len(requests) \in Nat /\ Len(requests') = Len(requests) + 2
          /\ requests'[Len(requests) + 1] = r /\ requests'[Len(requests) + 2].type = "sync"
      BY <1>4, <3>2, SyncIsRequest DEF Sends, Grows
    <3>4. \A b \in Len(requests) + 1 .. Len(requests') : b = Len(requests) + 1 \/ b = Len(requests) + 2
      BY <3>3
    <3> QED BY <3>1, <3>3, <3>4
  <2> QED BY <2>2, <2>3
<1>7. Kept /\ Mirror' /\ context' = context /\ UNCHANGED <<compositor, events, missed>>
  BY SoundParts, UnchangedMirror DEF Call
<1>8. Settles(n) /\ \A i \in n + 1 .. Len(stack) : FALSE
  BY <1>3, <1>4, <1>5 DEF Settles
<1> QED BY <1>6, <1>7, <1>8, SameNotified, PlainStep

LEMMA BeginStep ==
    ASSUME Sound, BeginCall
    PROVE  Sound'
<1>1. PICK op, id, pc, ptr, R : Begins(op, id, pc, ptr, R)
  BY BeginIs
<1>2. R = <<>> \/ \E r \in Requests : R = <<r>> /\ r.type # "sync_remove"
  BY <1>1 DEF Begins
<1> QED BY <1>1, <1>2, CallStep DEF Begins

-----------------------------------------------------------------------------
(* What the library does with an event.                                    *)

Free == stack = <<>> \/ Waiting

LEMMA FreeTop ==
    ASSUME Stack, Free, NEW n, n = Len(stack), n > 0
    PROVE  stack[n].op # "callback" /\ stack[n].pc # "removed"
<1>1. stack # <<>>
  OBVIOUS
<1>2. Top = stack[n] /\ FrameSound(stack[n]) /\ stack[n].pc \in {"sync", "reply"}
  BY <1>1, TopIs DEF Free, Waiting
<1> QED BY <1>2 DEF FrameSound, Callbacks

\* When the callback of a removed object calls nothing, none is being told when
\* an event is dispatched.
LEMMA NothingGoes ==
    ASSUME Stack, FramesSit, Free, "removed" \notin CallIn
    PROVE  \A p : ~Goes(p)
<1> SUFFICES ASSUME NEW i \in 1 .. Len(stack), stack[i].pc = "removed" PROVE FALSE
  BY DEF Goes
<1>1. Len(stack) \in Nat /\ FrameSound(stack[i])
  BY StackIs
<1>2. stack[i].op = "callback"
  BY <1>1 DEF FrameSound, Callbacks
<1>3. i = Len(stack)
  BY <1>1, <1>2 DEF FramesSit, Calling
<1> QED BY <1>1, <1>2, <1>3, FreeTop

\* The listener tells the application, or it does not.
LEMMA CalledBack ==
    ASSUME Stack, Free, NEW kind \in {"created", "removed", "changed"}, NEW p \in Ptrs, NEW wanted,
           stack' = CallBack(stack, kind, p, wanted), NEW n, n = Len(stack)
    PROVE  \/ Stands(n)
           \/ wanted /\ \E f : StandsOn(n, f) /\ Fits(n, f) /\ f.pc = kind /\ f.ptr = p
<1>1. CASE ~wanted
  BY <1>1, UnchangedStands DEF CallBack
<1>2. CASE wanted
  <2>1. PICK f : f = Callback(kind, p)
    OBVIOUS
  <2>2. kind \in Callbacks /\ p \in Ptrs \cup {Absent} /\ p # Absent
    BY Kinds DEF Callbacks
  <2>3. f \in Frames /\ FrameSound(f) /\ f.op = "callback" /\ f.pc = kind /\ f.ptr = p
    BY <2>1, <2>2, CallbackIs
  <2>4. stack' = Append(stack, f)
    BY <1>2, <2>1 DEF CallBack
  <2>5. StandsOn(n, f)
    BY <2>3, <2>4, PushStands
  <2>6. Fits(n, f)
    BY <2>3, FreeTop, CallFits
  <2> QED BY <1>2, <2>3, <2>5, <2>6
<1> QED BY <1>1, <1>2

\* All frames stay when an event is dispatched.
LEMMA AllStay ==
    ASSUME Stack, NEW n, n = Len(stack), Stands(n) \/ \E f : StandsOn(n, f)
    PROVE  /\ Stack' /\ Stay(n) /\ \A p : Withdrawn(p) => Withdrawn(p)'
<1>1. Stack' /\ Stay(n) /\ n \in Nat /\ Len(stack') \in Nat /\ Len(stack') >= n
  BY DEF Stands, StandsOn, Stay
<1> QED BY <1>1 DEF Stay, SameCall, Withdrawn

LEMMA DispatchedHistory ==
    ASSUME Sound, events # <<>>, events' = Tail(events), UNCHANGED <<compositor, requests>>,
           NEW n, n = Len(stack), Stands(n) \/ \E f : StandsOn(n, f),
           \A p \in ToSet(list_layer') : context'[p].notification =>
               p \in ToSet(list_layer) /\ context[p].notification /\ context'[p].id = context[p].id,
           \A A, B : Step(Head(events), A, B) /\ Mirrored(A) => Mirrored(B)'
    PROVE  Scene' /\ Mail' /\ \E H : History(H)'
<1>1. exists' = exists /\ synced' = synced /\ Scene' /\ requests' = requests /\ Mail'
  <2>1. events' \in Seq(Events)
    BY SoundParts, TailIs
  <2> QED BY <2>1, SoundParts DEF compositor, Scene, Mail
<1>2. PICK H : History(H)
  BY DEF Sound
<1>3. PICK G : /\ Told(G)' /\ Step(Head(events), H[0], G[0])
               /\ \A id : AllAlong(G, id)' /\ id \in H[0] => AllAlong(H, id)
  BY <1>1, <1>2, SoundParts, ToldLess DEF History
<1>4. Mirrored(G[0])'
  BY <1>2, <1>3 DEF History
<1>5. \A p : Withdrawn(p) => Withdrawn(p)'
  BY SoundParts, AllStay
<1>6. Informed(G)'
  <2> SUFFICES ASSUME NEW p \in ToSet(list_layer'), NEW id \in Layers, context'[p].id = id,
                      context'[p].notification, AllAlong(G, id)'
               PROVE  Withdrawn(p)' \/ Wanted(id)'
    BY DEF Informed
  <2>1. p \in ToSet(list_layer) /\ context[p].notification /\ context[p].id = id
    OBVIOUS
  <2>2. id \in H[0]
    BY <1>2, <2>1 DEF History, Mirrored
  <2>3. AllAlong(H, id)
    BY <1>3, <2>2
  <2>4. Withdrawn(p) \/ Wanted(id)
    BY <1>2, <2>1, <2>3 DEF History, Informed
  <2>5. Wanted(id) => Wanted(id)'
    BY <1>1 DEF Wanted, Removes
  <2> QED BY <1>5, <2>4, <2>5
<1> QED BY <1>1, <1>3, <1>4, <1>6 DEF History

\* An event that lists and frees nothing, and is not about an object's life.
LEMMA KeptEvent ==
    ASSUME Sound, events # <<>>, events' = Tail(events), UNCHANGED <<compositor, requests>>,
           Kept, Mirror', NEW n, n = Len(stack), Settles(n),
           \A p \in ToSet(list_layer) : context'[p].notification = context[p].notification,
           \A A, B : Step(Head(events), A, B) /\ Mirrored(A) =>
               /\ \A l \in Layers : l \in A <=> l \in B
               /\ \A s \in Surfaces \cap B : Lost(s)' \/ (s \in A /\ ~Lost(s)) \/
                      \E p \in ToSet(list_surface) : context[p].id = s /\ ~Goes(p)
    PROVE  Sound'
<1>1. list_surface' = list_surface /\ list_layer' = list_layer
  BY DEF Kept
<1>2. /\ Listings'
      /\ \A p \in ToSet(list_surface) \cup ToSet(list_layer) : context'[p].id = context[p].id
  BY SoundParts, KeptListings
<1>3. /\ FramesSit' /\ Stack' /\ Stay(n) /\ Len(stack') \in Nat
      /\ \A i \in 1 .. Len(stack') : i <= n \/ stack'[i].pc # "removed"
      /\ \A p : Goes(p)' => Goes(p)
  BY SettledFrames
<1>4. LayersLeave'
  BY KeptLeave
<1>5. ASSUME NEW A, NEW B, Step(Head(events), A, B), Mirrored(A) PROVE Mirrored(B)'
  <2>1. \A l \in Layers : l \in B <=> \E p \in ToSet(list_layer') : context'[p].id = l
    BY <1>1, <1>2, <1>5 DEF Mirrored
  <2>2. \A s \in Surfaces \cap B : Lost(s)' \/
          \E p \in ToSet(list_surface') : context'[p].id = s /\ ~Goes(p)'
    BY <1>1, <1>2, <1>3, <1>5 DEF Mirrored
  <2> QED BY <2>1, <2>2 DEF Mirrored
<1>6. Stands(n) \/ \E f : StandsOn(n, f)
  BY DEF Settles
<1>7. \A p \in ToSet(list_layer') : context'[p].notification =>
          p \in ToSet(list_layer) /\ context[p].notification /\ context'[p].id = context[p].id
  BY <1>1, <1>2
<1>8. Scene' /\ Mail' /\ \E H : History(H)'
  BY <1>5, <1>6, <1>7, DispatchedHistory
<1> QED BY <1>2, <1>3, <1>4, <1>8 DEF Sound, CTypes

\* A member of a context is assigned.
LEMMA ContextSet ==
    ASSUME Mirror, NEW p \in Ptrs, context[p] # Absent, NEW c \in Contexts, c.id = context[p].id,
           context' = [context EXCEPT ![p] = c], UNCHANGED <<list_surface, list_layer>>
    PROVE  /\ Kept /\ Mirror' /\ context'[p] = c
           /\ \A q \in Ptrs \ {p} : context'[q] = context[q]
<1>1. context \in [Ptrs -> Contexts \cup {Absent}]
  BY DEF Mirror
<1>2. context'[p] = c /\ \A q \in Ptrs \ {p} : context'[q] = context[q]
  BY <1>1
<1>3. context' \in [Ptrs -> Contexts \cup {Absent}]
  BY <1>1
<1>4. Mirror'
  BY <1>3 DEF Mirror
<1>5. c # Absent
  BY Kinds
<1>6. Kept
  BY <1>2, <1>5 DEF Kept
<1> QED BY <1>2, <1>4, <1>6

\* An event that says nothing about the life of an object.
LEMMA PlainEvent ==
    ASSUME NEW e, e.type \notin {"created", "destroyed"}
    PROVE  \A A, B : Step(e, A, B) => B = A
BY DEF Step

Dispatching ==
    /\ Sound /\ Free /\ events # <<>> /\ events' = Tail(events)
    /\ Missing(Head(events))
    /\ UNCHANGED <<compositor, requests>>

LEMMA LostStays ==
    ASSUME Dispatching, Head(events).type # "created"
    PROVE  missed' = missed /\ \A s : Lost(s)' <=> Lost(s)
BY DEF Dispatching, Missing, Lost

LEMMA LostIs ==
    ASSUME Dispatching, Stack', NEW e, e = Head(events), e.type = "created"
    PROVE  /\ \A s : s # e.id => (Lost(s)' <=> Lost(s))
           /\ "removed" \in CallIn
              /\ (\E p \in ToSet(list_surface') : context'[p].id = e.id /\ Goes(p)') => Lost(e.id)'
<1>1. missed' = missed \cup {e.id} \/ missed' = missed \ {e.id}
  BY DEF Dispatching, Missing
<1>2. (\E p \in ToSet(list_surface') : context'[p].id = e.id /\ Going(p)') => missed' = missed \cup {e.id}
  BY DEF Dispatching, Missing
<1>3. DOMAIN stack' = 1 .. Len(stack')
  BY DEF Stack
<1>4. \A p : Goes(p)' <=> Going(p)'
  BY <1>3 DEF Goes, Going
<1>5. \A s : s # e.id => (Lost(s)' <=> Lost(s))
  BY <1>1 DEF Lost
<1> QED BY <1>2, <1>4, <1>5 DEF Lost

LEMMA PropStep ==
    ASSUME Dispatching, NEW e, e = Head(events), e.type = "prop", PropChanged(e.id, e.value)
    PROVE  Sound'
<1>1. e \in Events /\ e.id \in Ids /\ e.value \in Props
  BY SoundParts, TailIs, EventKinds DEF Dispatching
<1>2. PICK n, p : n = Len(stack) /\ p = Lookup(e.id)
  OBVIOUS
<1>3. CASE p = Absent \/ context[p].prop = e.value
  <2>1. UNCHANGED <<mirror, stack>>
    BY <1>2, <1>3 DEF PropChanged
  <2>2. Kept /\ Mirror' /\ context' = context
    BY <2>1, SoundParts, UnchangedMirror DEF Dispatching
  <2>3. Settles(n)
    BY <1>2, <2>1, SoundParts, UnchangedStands DEF Dispatching, Settles
  <2> QED BY <1>2, <2>2, <2>3, PlainEvent, LostStays, KeptEvent DEF Dispatching
<1>4. CASE ~(p = Absent \/ context[p].prop = e.value)
  <2>1. /\ context' = [context EXCEPT ![p].prop = e.value]
        /\ stack' = CallBack(stack, "changed", p, context[p].notification)
        /\ UNCHANGED <<list_surface, list_layer>>
    BY <1>2, <1>4 DEF PropChanged
  <2>2. p \in Ptrs /\ context[p] \in Contexts /\ context[p] # Absent
    BY <1>1, <1>2, <1>4, SoundParts, FoundIs DEF Dispatching
  <2>3. PICK c : c = [context[p] EXCEPT !.prop = e.value]
    OBVIOUS
  <2>4. c \in Contexts /\ c.id = context[p].id /\ c.notification = context[p].notification
    BY <1>1, <2>2, <2>3 DEF Contexts
  <2>5. context' = [context EXCEPT ![p] = c]
    BY <2>1, <2>3
  <2>6. Kept /\ Mirror' /\ context'[p] = c /\ \A q \in Ptrs \ {p} : context'[q] = context[q]
    BY <2>1, <2>2, <2>4, <2>5, SoundParts, ContextSet DEF Dispatching
  <2>7. \A q \in ToSet(list_layer) : context'[q].notification = context[q].notification
    BY <2>4, <2>6, SoundParts, ListsAre, Kinds DEF Dispatching
  <2>8. Settles(n)
    BY <1>2, <2>1, <2>2, SoundParts, CalledBack DEF Dispatching, Settles
  <2> QED BY <1>2, <2>6, <2>7, <2>8, PlainEvent, LostStays, KeptEvent DEF Dispatching
<1> QED BY <1>3, <1>4

LEMMA OrderStep ==
    ASSUME Dispatching, NEW e, e = Head(events), e.type = "order", SurfacesAdded(e.id, e.value)
    PROVE  Sound'
<1>1. e \in Events /\ e.id \in Layers /\ e.value \in Seq(Surfaces) /\ e.id \in Ids
  BY SoundParts, TailIs, EventKinds, Kinds DEF Dispatching
<1>2. PICK n, p : n = Len(stack) /\ p = Lookup(e.id)
  OBVIOUS
<1>3. /\ context' = IF p = Absent THEN context ELSE [context EXCEPT ![p].render_order = @ \o e.value]
      /\ UNCHANGED <<list_surface, list_layer, stack>>
  BY <1>2 DEF SurfacesAdded
<1>4. Settles(n)
  BY <1>2, <1>3, SoundParts, UnchangedStands DEF Dispatching, Settles
<1>5. CASE p = Absent
  <2>1. UNCHANGED mirror
    BY <1>3, <1>5 DEF mirror
  <2>2. Kept /\ Mirror' /\ context' = context
    BY <2>1, SoundParts, UnchangedMirror DEF Dispatching
  <2> QED BY <1>2, <1>4, <2>2, PlainEvent, LostStays, KeptEvent DEF Dispatching
<1>6. CASE p # Absent
  <2>2. p \in Ptrs /\ context[p] \in Contexts /\ context[p] # Absent
    BY <1>1, <1>2, <1>6, SoundParts, FoundIs DEF Dispatching
  <2>3. PICK q : q = context[p].render_order \o e.value
    OBVIOUS
  <2>4. q \in Seq(Surfaces)
    <3>1. context[p].render_order \in Seq(Surfaces)
      BY <2>2 DEF Contexts
    <3> QED BY <1>1, <2>3, <3>1
  <2>5. PICK c : c = [context[p] EXCEPT !.render_order = q]
    OBVIOUS
  <2>6. c \in Contexts /\ c.id = context[p].id /\ c.notification = context[p].notification
    BY <2>2, <2>4, <2>5 DEF Contexts
  <2>7. context' = [context EXCEPT ![p] = c]
    BY <1>3, <1>6, <2>3, <2>5
  <2>8. Kept /\ Mirror' /\ context'[p] = c /\ \A r \in Ptrs \ {p} : context'[r] = context[r]
    BY <1>3, <2>2, <2>6, <2>7, SoundParts, ContextSet DEF Dispatching
  <2>9. \A r \in ToSet(list_layer) : context'[r].notification = context[r].notification
    BY <2>6, <2>8, SoundParts, ListsAre, Kinds DEF Dispatching
  <2> QED BY <1>2, <1>4, <2>8, <2>9, PlainEvent, LostStays, KeptEvent DEF Dispatching
<1> QED BY <1>5, <1>6

LEMMA DoneStep ==
    ASSUME Dispatching, NEW e, e = Head(events), e.type = "done",
           stack' = [stack EXCEPT ![e.value].done = TRUE], UNCHANGED mirror
    PROVE  Sound'
<1>1. PICK n, d : n = Len(stack) /\ d = e.value
  OBVIOUS
<1>2. Stands(n)
  <2>1. stack \in Seq(Frames) /\ n \in Nat /\ DOMAIN stack = 1 .. n
        /\ \A i \in 1 .. n : stack[i] \in Frames /\ FrameSound(stack[i])
    BY <1>1, SoundParts, StackIs DEF Stack, Dispatching
  <2>2. PICK s : s = stack'
    OBVIOUS
  <2>3. s = [i \in 1 .. n |-> IF i = d THEN [stack[i] EXCEPT !.done = TRUE] ELSE stack[i]]
    BY <1>1, <2>1, <2>2
  <2>4. ASSUME NEW i \in 1 .. n PROVE s[i] \in Frames /\ FrameSound(s[i]) /\ SameCall(stack[i], s[i])
    <3>1. PICK f : f = stack[i]
      OBVIOUS
    <3>2. f \in Frames /\ FrameSound(f)
      BY <2>1, <3>1
    <3>3. s[i] = f \/ s[i] = [f EXCEPT !.done = TRUE]
      BY <2>3, <3>1
    <3>4. PICK g : g = s[i]
      OBVIOUS
    <3>5. g \in Frames /\ g.op = f.op /\ g.id = f.id /\ g.pc = f.pc /\ g.ptr = f.ptr
      BY <3>2, <3>3, <3>4 DEF Frames
    <3> QED BY <3>1, <3>2, <3>4, <3>5 DEF FrameSound, SameCall, Points
  <2>5. s \in Seq(Frames) /\ Len(s) = n
    <3>1. s \in [1 .. n -> Frames]
      BY <2>3, <2>4
    <3> QED BY <2>1, <3>1
  <2>6. Stack'
    BY <2>2, <2>4, <2>5 DEF Stack
  <2>7. \A i \in 1 .. n : SameCall(stack[i], stack'[i])
    BY <2>2, <2>4
  <2>8. n <= Len(stack) /\ Len(stack') = n
    BY <1>1, <2>1, <2>2, <2>5
  <2> QED BY <2>1, <2>6, <2>7, <2>8 DEF Stands, Stay
<1>3. Kept /\ Mirror' /\ context' = context
  BY SoundParts, UnchangedMirror DEF Dispatching
<1>4. Settles(n)
  BY <1>2 DEF Settles
<1> QED BY <1>1, <1>3, <1>4, PlainEvent, LostStays, KeptEvent DEF Dispatching

LEMMA ContextIs ==
    ASSUME NEW id \in Ids, NEW c, c = Context(id)
    PROVE  c \in Contexts /\ c.id = id /\ c.notification = FALSE /\ c # Absent
<1>1. PICK q : q = <<>>
  OBVIOUS
<1>2. q \in Seq(Surfaces)
  BY <1>1
<1>3. c = [id |-> id, prop |-> Zero, notification |-> FALSE, render_order |-> q]
  BY <1>1 DEF Context
<1>4. c \in Contexts
  <2>1. PICK S, P : S = Seq(Surfaces) /\ P = Props \cup {Zero}
    OBVIOUS
  <2>2. q \in S /\ Zero \in P
    BY <1>2, <2>1
  <2>3. c \in [id : Ids, prop : P, notification : BOOLEAN, render_order : S]
    BY <1>3, <2>2
  <2> QED BY <2>1, <2>3 DEF Contexts
<1>5. c # Absent
  BY <1>4, Kinds
<1>6. c.id = id /\ c.notification = FALSE
  BY <1>3
<1> QED BY <1>4, <1>5, <1>6

\* An object is created whose context is not listed.
LEMMA CreatedStep ==
    ASSUME Dispatching, NEW e, e = Head(events), e.type = "created", ObjectCreated(e.id)
    PROVE  Sound'
<1>1. e \in Events /\ e.id \in Ids
  BY SoundParts, TailIs, EventKinds DEF Dispatching
<1>2. PICK n, id : n = Len(stack) /\ id = e.id
  OBVIOUS
<1>3. Mirror /\ Listings /\ Stack /\ Free /\ FramesSit /\ LayersLeave
  BY SoundParts DEF Dispatching
<1>4. \A A, B : Step(e, A, B) => id \notin A /\ B = A \cup {id}
  BY <1>2 DEF Step
<1>5. CASE Lookup(id) # Absent
  <2>1. UNCHANGED <<mirror, stack>>
    BY <1>2, <1>5 DEF ObjectCreated
  <2>2. Kept /\ Mirror' /\ context' = context
    BY <2>1, <1>3, UnchangedMirror
  <2>3. Settles(n)
    BY <1>2, <1>3, <2>1, UnchangedStands DEF Settles
  <2>4. Stack'
    BY <1>3, <2>1 DEF Stack
  <2>5. \A s : s # id => (Lost(s)' <=> Lost(s))
    BY <1>2, <2>4, LostIs
  <2>6. ASSUME NEW A, NEW B, Step(e, A, B), Mirrored(A)
        PROVE  /\ \A l \in Layers : l \in A <=> l \in B
               /\ \A s \in Surfaces \cap B : Lost(s)' \/ (s \in A /\ ~Lost(s)) \/
                      \E p \in ToSet(list_surface) : context[p].id = s /\ ~Goes(p)
    <3>1. id \notin A /\ B = A \cup {id}
      BY <1>4, <2>6
    <3>2. CASE id \in Layers
      <4>1. id \in A
        BY <1>1, <1>2, <1>3, <1>5, <2>6, <3>2, FoundIs DEF Mirrored
      <4> QED BY <1>2, <2>5, <3>1, <3>2, <4>1, Kinds
    <3>3. CASE id \in Surfaces
      <4>1. id \notin Layers
        BY <3>3, Kinds
      <4>2. \E p \in ToSet(list_surface) : context[p].id = id
        BY <1>1, <1>2, <1>3, <1>5, <3>3, FoundIs
      <4>3. "removed" \notin CallIn => \A p : ~Goes(p)
        BY <1>3, NothingGoes
      <4>4. \A p : Goes(p) => Goes(p)'
        BY <2>1 DEF Goes
      <4>5. Lost(id)' \/ \E p \in ToSet(list_surface) : context[p].id = id /\ ~Goes(p)
        BY <1>2, <2>1, <2>4, <4>2, <4>3, <4>4, LostIs DEF mirror
      <4> QED BY <1>2, <2>4, <2>5, <3>1, <4>1, <4>5
    <3> QED BY <1>1, <1>2, <3>2, <3>3, Kinds
  <2> QED BY <1>2, <2>2, <2>3, <2>6, KeptEvent DEF Dispatching
<1>6. CASE Lookup(id) = Absent
  <2>1. PICK p \in FreePtrs(id) :
            /\ context' = [context EXCEPT ![p] = Context(id)]
            /\ Linked(id, p)
            /\ stack' = CallBack(stack, "created", p, registered)
    BY <1>2, <1>6 DEF ObjectCreated
  <2>2. /\ p \in Ptrs /\ context[p] = Absent
        /\ id \in Surfaces => p \in SurfacePtrs
        /\ id \in Layers => p \in LayerPtrs
    BY Kinds DEF FreePtrs
  <2>3. PICK c : c = Context(id)
    OBVIOUS
  <2>4. c \in Contexts /\ c.id = id /\ c.notification = FALSE /\ c # Absent
    BY <1>1, <1>2, <2>3, ContextIs
  <2>5. /\ context' \in [Ptrs -> Contexts \cup {Absent}] /\ context'[p] = c
        /\ \A q \in Ptrs \ {p} : context'[q] = context[q]
    BY <1>3, <2>1, <2>2, <2>3, <2>4 DEF Mirror
  <2>6. Added(id, p)
    BY <1>1, <1>2, <2>1, <2>2, <2>4, <2>5, Kinds DEF Added, Linked
  <2>7. \A q \in ToSet(ListOf(id)) : context[q].id # id
    BY <1>1, <1>2, <1>3, <1>6, FoundIs
  <2>8. id \in Layers => \A q \in ToSet(list_layer) : context[q].id # id
    BY <1>1, <1>2, <1>3, <2>7, FoundIs
  <2>9. /\ Listings' /\ list_surface' \in Seq(SurfacePtrs) /\ list_layer' \in Seq(LayerPtrs)
        /\ ToSet(list_surface') = ToSet(list_surface) \cup (IF id \in Surfaces THEN {p} ELSE {})
        /\ ToSet(list_layer') = ToSet(list_layer) \cup (IF id \in Layers THEN {p} ELSE {})
        /\ \A q \in ToSet(list_surface) \cup ToSet(list_layer) :
              q # p /\ context'[q] = context[q]
    BY <1>3, <2>6, <2>8, AddedListings
  <2>10. Mirror'
    BY <2>5, <2>9 DEF Mirror
  <2>11. Settles(n)
    BY <1>2, <1>3, <2>1, <2>2, CalledBack DEF Settles
  <2>12. /\ FramesSit' /\ Stack' /\ Stay(n) /\ Len(stack') \in Nat
         /\ \A i \in 1 .. Len(stack') : i <= n \/ stack'[i].pc # "removed"
         /\ \A q : Goes(q)' => Goes(q)
    BY <2>11, SettledFrames DEF Dispatching
  <2>13. LayersLeave'
    <3>1. ASSUME NEW i \in 1 .. n, Leaving(i)
          PROVE  context'[stack[i].ptr] # Absent /\ stack[i].ptr \notin ToSet(list_layer')
      <4>1. i \in 1 .. Len(stack) /\ stack[i].ptr \in Ptrs
        BY <1>2, <3>1, Kinds DEF Leaving
      <4>2. context[stack[i].ptr] # Absent /\ stack[i].ptr \notin ToSet(list_layer)
        BY <1>3, <3>1, <4>1 DEF LayersLeave
      <4>3. stack[i].ptr # p
        BY <2>2, <4>2
      <4> QED BY <2>5, <2>9, <4>1, <4>2, <4>3
    <3> QED BY <1>3, <2>12, <3>1, StillLeave
  <2>14. ASSUME NEW A, NEW B, Step(e, A, B), Mirrored(A) PROVE Mirrored(B)'
    <3>1. B = A \cup {id}
      BY <1>4, <2>14
    <3>2. ASSUME NEW l \in Layers
          PROVE  l \in B <=> \E q \in ToSet(list_layer') : context'[q].id = l
      <4>1. l \in A <=> \E q \in ToSet(list_layer) : context[q].id = l
        BY <2>14 DEF Mirrored
      <4>2. CASE l = id
        BY <2>4, <2>5, <2>9, <3>1, <4>2
      <4>3. CASE l # id
        BY <2>4, <2>5, <2>9, <3>1, <4>1, <4>3
      <4> QED BY <4>2, <4>3
    <3>3. ASSUME NEW s \in Surfaces \cap B, ~Lost(s)'
          PROVE  \E q \in ToSet(list_surface') : context'[q].id = s /\ ~Goes(q)'
      <4>1. CASE s = id
        <5>1. p \in ToSet(list_surface') /\ context'[p].id = e.id
          BY <1>2, <2>4, <2>5, <2>9, <3>3, <4>1
        <5>2. "removed" \notin CallIn => ~Goes(p)'
          BY <1>3, <2>12, NothingGoes
        <5>3. ~Goes(p)'
          BY <1>2, <2>12, <3>3, <4>1, <5>1, <5>2, LostIs
        <5> QED BY <1>2, <4>1, <5>1, <5>3
      <4>2. CASE s # id
        <5>1. ~Lost(s)
          BY <1>2, <2>12, <3>3, <4>2, LostIs
        <5>2. PICK q \in ToSet(list_surface) : context[q].id = s /\ ~Goes(q)
          BY <2>14, <3>1, <3>3, <4>2, <5>1 DEF Mirrored
        <5> QED BY <2>9, <2>12, <5>2
      <4> QED BY <4>1, <4>2
    <3> QED BY <3>2, <3>3 DEF Mirrored
  <2>15. Stands(n) \/ \E f : StandsOn(n, f)
    BY <2>11 DEF Settles
  <2>16. \A q \in ToSet(list_layer') : context'[q].notification =>
            q \in ToSet(list_layer) /\ context[q].notification /\ context'[q].id = context[q].id
    BY <2>4, <2>5, <2>9
  <2>17. Scene' /\ Mail' /\ \E H : History(H)'
    BY <1>2, <2>14, <2>15, <2>16, DispatchedHistory DEF Dispatching
  <2> QED BY <2>9, <2>10, <2>12, <2>13, <2>17 DEF Sound, CTypes
<1> QED BY <1>5, <1>6

LEMMA GoesOn ==
    ASSUME Stack, NEW n, n = Len(stack), NEW f, StandsOn(n, f), NEW p, Goes(p)'
    PROVE  Goes(p) \/ p = f.ptr
<1>1. /\ n \in Nat /\ Len(stack') = n + 1 /\ SameCall(f, stack'[n + 1])
      /\ \A i \in 1 .. n : SameCall(stack[i], stack'[i])
  BY DEF StandsOn, Stay
<1>2. PICK i \in 1 .. n + 1 : stack'[i].pc = "removed" /\ stack'[i].ptr = p
  BY <1>1 DEF Goes
<1>3. CASE i = n + 1
  BY <1>1, <1>2, <1>3 DEF SameCall
<1>4. CASE i # n + 1
  <2>1. i \in 1 .. n
    BY <1>1, <1>4
  <2> QED BY <1>1, <1>2, <2>1 DEF Goes, SameCall
<1> QED BY <1>3, <1>4

\* The layer is not listed any more, and is going to be freed.
LEMMA LayerLeaves ==
    ASSUME Stack, Mirror, LayersLeave, NEW n, n = Len(stack), NEW p \in LayerPtrs,
           p \in ToSet(list_layer), Dropped(p), context'[p] # Absent,
           ToSet(list_layer') = ToSet(list_layer) \ {p},
           NEW f, StandsOn(n, f), f.pc = "removed", f.ptr = p
    PROVE  LayersLeave'
<1>1. /\ n \in Nat /\ Len(stack') = n + 1 /\ SameCall(f, stack'[n + 1])
      /\ \A i \in 1 .. n : SameCall(stack[i], stack'[i])
  BY DEF StandsOn, Stay
<1>2. Leaving(n + 1)' /\ stack'[n + 1].ptr = p
  BY <1>1 DEF Leaving, SameCall
<1>3. ASSUME NEW i \in 1 .. n, Leaving(i)'
      PROVE  /\ Leaving(i) /\ stack'[i].ptr = stack[i].ptr /\ stack[i].ptr # p
             /\ context'[stack[i].ptr] # Absent /\ stack[i].ptr \notin ToSet(list_layer')
  <2>1. Leaving(i) /\ stack'[i].ptr = stack[i].ptr /\ stack[i].ptr \in Ptrs
    BY <1>1, <1>3, Kinds DEF Leaving, SameCall
  <2>2. context[stack[i].ptr] # Absent /\ stack[i].ptr \notin ToSet(list_layer)
    BY <1>3, <2>1 DEF LayersLeave
  <2> QED BY <2>1, <2>2 DEF Dropped
<1>4. ASSUME NEW i \in 1 .. Len(stack'), Leaving(i)'
      PROVE  context'[stack'[i].ptr] # Absent /\ stack'[i].ptr \notin ToSet(list_layer')
  <2>1. i \in 1 .. n \/ i = n + 1
    BY <1>1
  <2> QED BY <1>2, <1>3, <1>4, <2>1
<1>5. ASSUME NEW i \in 1 .. Len(stack'), NEW j \in 1 .. Len(stack'), Leaving(i)', Leaving(j)',
             stack'[i].ptr = stack'[j].ptr
      PROVE  i = j
  <2>1. (i \in 1 .. n \/ i = n + 1) /\ (j \in 1 .. n \/ j = n + 1)
    BY <1>1
  <2>2. CASE i \in 1 .. n /\ j \in 1 .. n
    BY <1>3, <1>5, <2>2 DEF LayersLeave
  <2>3. CASE ~(i \in 1 .. n /\ j \in 1 .. n)
    BY <1>2, <1>3, <1>5, <2>1, <2>3
  <2> QED BY <2>2, <2>3
<1> QED BY <1>4, <1>5 DEF LayersLeave

LEMMA LayerDestroyedStep ==
    ASSUME Dispatching, NEW e, e = Head(events), e.type = "destroyed", e.id \in Layers,
           LayerDestroyed(e.id)
    PROVE  Sound'
<1>1. PICK n, l, p : n = Len(stack) /\ l = e.id /\ p = Lookup(l)
  OBVIOUS
<1>2. l \in Layers /\ l \in Ids /\ l \notin Surfaces
  BY <1>1, Kinds
<1>3. Mirror /\ Listings /\ Stack /\ Free /\ FramesSit /\ LayersLeave
  BY SoundParts DEF Dispatching
<1>4. \A A, B : Step(e, A, B) => l \in A /\ B = A \ {l}
  BY <1>1 DEF Step
<1>5. CASE p = Absent
  <2>1. UNCHANGED <<mirror, stack>>
    BY <1>1, <1>5 DEF LayerDestroyed
  <2>2. Kept /\ Mirror' /\ context' = context
    BY <2>1, <1>3, UnchangedMirror
  <2>3. Settles(n)
    BY <1>1, <1>3, <2>1, UnchangedStands DEF Settles
  <2>4. ASSUME NEW A, NEW B, Step(e, A, B), Mirrored(A) PROVE FALSE
    <3>1. \E q \in ToSet(list_layer) : context[q].id = l
      BY <1>2, <1>4, <2>4 DEF Mirrored
    <3> QED BY <1>1, <1>2, <1>3, <1>5, <3>1, FoundIs
  <2> QED BY <1>1, <2>2, <2>3, <2>4, KeptEvent DEF Dispatching
<1>6. CASE p # Absent
  <2>1. /\ Unlinked(p)
        /\ context' = IF registered THEN context ELSE [context EXCEPT ![p] = Absent]
        /\ stack' = CallBack(stack, "removed", p, registered)
    BY <1>1, <1>6 DEF LayerDestroyed
  <2>2. p \in ToSet(list_layer) /\ p \in LayerPtrs /\ context[p].id = l /\ context[p] # Absent
        /\ p \in Ptrs /\ p \notin SurfacePtrs
    <3>1. p \in ToSet(ListOf(l)) /\ p \in LayerPtrs /\ context[p].id = l /\ context[p] # Absent
          /\ ListOf(l) = list_layer
      BY <1>1, <1>2, <1>3, <1>6, FoundIs
    <3> QED BY <3>1, Kinds
  <2>3. /\ context' \in [Ptrs -> Contexts \cup {Absent}]
        /\ registered => context'[p] = context[p]
        /\ \A q \in Ptrs \ {p} : context'[q] = context[q]
    BY <1>3, <2>1 DEF Mirror
  <2>4. Dropped(p)
    BY <2>1, <2>2, <2>3 DEF Dropped
  <2>5. /\ Listings' /\ list_surface' \in Seq(SurfacePtrs) /\ list_layer' \in Seq(LayerPtrs)
        /\ ToSet(list_surface') = ToSet(list_surface) \ {p}
        /\ ToSet(list_layer') = ToSet(list_layer) \ {p}
        /\ \A q \in ToSet(list_surface') \cup ToSet(list_layer') : context'[q] = context[q]
    BY <1>3, <2>4, DroppedListings
  <2>6. Mirror'
    BY <2>3, <2>5 DEF Mirror
  <2>7. \/ Stands(n)
        \/ registered /\ \E f : StandsOn(n, f) /\ Fits(n, f) /\ f.pc = "removed" /\ f.ptr = p
    BY <1>1, <1>3, <2>1, <2>2, CalledBack
  <2>8. FramesSit' /\ LayersLeave' /\ Stack' /\ \A q : Goes(q)' => Goes(q) \/ q = p
    <3>1. CASE Stands(n)
      <4>1. Settles(n)
        BY <3>1 DEF Settles
      <4>2. /\ FramesSit' /\ Stack' /\ Stay(n) /\ Len(stack') \in Nat
            /\ \A i \in 1 .. Len(stack') : i <= n \/ stack'[i].pc # "removed"
            /\ \A q : Goes(q)' => Goes(q)
        BY <4>1, SettledFrames DEF Dispatching
      <4>3. ASSUME NEW i \in 1 .. n, Leaving(i)
            PROVE  context'[stack[i].ptr] # Absent /\ stack[i].ptr \notin ToSet(list_layer')
        <5>1. context[stack[i].ptr] # Absent /\ stack[i].ptr \notin ToSet(list_layer)
          BY <1>1, <1>3, <4>3 DEF LayersLeave
        <5>2. stack[i].ptr # p /\ stack[i].ptr \in Ptrs
          BY <2>2, <4>3, <5>1, Kinds DEF Leaving
        <5> QED BY <2>3, <2>5, <5>1, <5>2
      <4> QED BY <1>3, <4>2, <4>3, StillLeave
    <3>2. ASSUME registered, NEW f, StandsOn(n, f), Fits(n, f), f.pc = "removed", f.ptr = p
          PROVE  FramesSit' /\ LayersLeave' /\ Stack' /\ \A q : Goes(q)' => Goes(q) \/ q = p
      <4>1. FramesSit'
        BY <1>3, <3>2, FramesSitOn
      <4>2. context'[p] # Absent
        BY <2>2, <2>3, <3>2
      <4>3. LayersLeave'
        BY <1>1, <1>3, <2>2, <2>4, <2>5, <3>2, <4>2, LayerLeaves
      <4> QED BY <1>1, <1>3, <3>2, <4>1, <4>3, GoesOn DEF StandsOn
    <3> QED BY <2>7, <3>1, <3>2
  <2>9. ASSUME NEW A, NEW B, Step(e, A, B), Mirrored(A) PROVE Mirrored(B)'
    <3>1. B = A \ {l}
      BY <1>4, <2>9
    <3>2. ASSUME NEW k \in Layers
          PROVE  k \in B <=> \E q \in ToSet(list_layer') : context'[q].id = k
      <4>1. k \in A <=> \E q \in ToSet(list_layer) : context[q].id = k
        BY <2>9 DEF Mirrored
      <4>2. CASE k = l
        BY <1>3, <2>2, <2>5, <3>1, <4>2 DEF Listings, Single
      <4>3. CASE k # l
        BY <2>2, <2>5, <3>1, <4>1, <4>3
      <4> QED BY <4>2, <4>3
    <3>3. ASSUME NEW s \in Surfaces \cap B, ~Lost(s)'
          PROVE  \E q \in ToSet(list_surface') : context'[q].id = s /\ ~Goes(q)'
      <4>1. PICK q \in ToSet(list_surface) : context[q].id = s /\ ~Goes(q)
        BY <2>9, <3>1, <3>3, LostStays DEF Mirrored
      <4>2. q # p
        BY <1>3, <2>2, <4>1, ListsAre
      <4> QED BY <2>5, <2>8, <4>1, <4>2
    <3> QED BY <3>2, <3>3 DEF Mirrored
  <2>10. Stands(n) \/ \E f : StandsOn(n, f)
    BY <2>7
  <2>11. \A q \in ToSet(list_layer') : context'[q].notification =>
            q \in ToSet(list_layer) /\ context[q].notification /\ context'[q].id = context[q].id
    BY <2>5
  <2>12. Scene' /\ Mail' /\ \E H : History(H)'
    BY <1>1, <2>9, <2>10, <2>11, DispatchedHistory DEF Dispatching
  <2> QED BY <2>5, <2>6, <2>8, <2>12 DEF Sound, CTypes
<1> QED BY <1>5, <1>6

LEMMA SurfaceDestroyedStep ==
    ASSUME Dispatching, NEW e, e = Head(events), e.type = "destroyed", e.id \in Surfaces,
           SurfaceDestroyed(e.id)
    PROVE  Sound'
<1>1. PICK n, s, p : n = Len(stack) /\ s = e.id /\ p = Lookup(s)
  OBVIOUS
<1>2. s \in Surfaces /\ s \in Ids /\ s \notin Layers
  BY <1>1, Kinds
<1>3. Mirror /\ Listings /\ Stack /\ Free /\ FramesSit /\ LayersLeave
  BY SoundParts DEF Dispatching
<1>4. \A A, B : Step(e, A, B) => B = A \ {s}
  BY <1>1 DEF Step
<1>5. CASE p = Absent
  <2>1. UNCHANGED <<mirror, stack>>
    BY <1>1, <1>5 DEF SurfaceDestroyed
  <2>2. Kept /\ Mirror' /\ context' = context
    BY <2>1, <1>3, UnchangedMirror
  <2>3. Settles(n)
    BY <1>1, <1>3, <2>1, UnchangedStands DEF Settles
  <2>4. \A A, B : Step(e, A, B) => (\A l \in Layers : l \in A <=> l \in B) /\ \A t \in B : t \in A
    BY <1>2, <1>4
  <2> QED BY <1>1, <2>2, <2>3, <2>4, LostStays, KeptEvent DEF Dispatching
<1>6. CASE p # Absent
  <2>1. p \in ToSet(list_surface) /\ p \in SurfacePtrs /\ context[p].id = s
        /\ p \in Ptrs /\ p \notin LayerPtrs
    <3>1. p \in ToSet(ListOf(s)) /\ p \in SurfacePtrs /\ context[p].id = s /\ ListOf(s) = list_surface
      BY <1>1, <1>2, <1>3, <1>6, FoundIs
    <3> QED BY <3>1, Kinds
  <2>2. CASE context[p].notification \/ registered
    <3>1. stack' = CallBack(stack, "removed", p, TRUE) /\ UNCHANGED mirror
      BY <1>1, <1>6, <2>2 DEF SurfaceDestroyed
    <3>2. Kept /\ Mirror' /\ context' = context
      BY <3>1, <1>3, UnchangedMirror
    <3>3. list_surface' = list_surface /\ list_layer' = list_layer
      BY <3>2 DEF Kept
    <3>4. Listings'
      BY <1>3, <3>2, KeptListings
    <3>5. PICK f : StandsOn(n, f) /\ Fits(n, f) /\ f.pc = "removed" /\ f.ptr = p
      <4>1. PICK g : g = Callback("removed", p)
        OBVIOUS
      <4>2. "removed" \in Callbacks /\ p \in Ptrs \cup {Absent} /\ p # Absent
        BY <2>1, Kinds DEF Callbacks
      <4>3. g \in Frames /\ FrameSound(g) /\ g.op = "callback" /\ g.pc = "removed" /\ g.ptr = p
        BY <4>1, <4>2, CallbackIs
      <4>4. stack' = Append(stack, g)
        BY <3>1, <4>1 DEF CallBack
      <4>5. StandsOn(n, g)
        BY <1>1, <1>3, <4>3, <4>4, PushStands
      <4>6. Fits(n, g)
        BY <1>1, <1>3, <4>3, FreeTop, CallFits
      <4> QED BY <4>3, <4>5, <4>6
    <3>6. FramesSit' /\ Stack' /\ \A q : Goes(q)' => Goes(q) \/ q = p
      BY <1>1, <1>3, <3>5, FramesSitOn, GoesOn DEF StandsOn
    <3>7. LayersLeave'
      <4>1. /\ Stay(n) /\ n \in Nat /\ Len(stack') = n + 1 /\ stack'[n + 1].ptr = p
        BY <3>5 DEF StandsOn, Stay, SameCall
      <4>2. \A i \in 1 .. Len(stack') : i <= n \/ stack'[i].pc # "removed" \/ stack'[i].ptr \notin LayerPtrs
        BY <2>1, <4>1
      <4>3. \A i \in 1 .. n : Leaving(i) =>
              context'[stack[i].ptr] # Absent /\ stack[i].ptr \notin ToSet(list_layer')
        BY <1>1, <1>3, <3>2, <3>3 DEF LayersLeave
      <4> QED BY <1>3, <4>1, <4>2, <4>3, StillLeave
    <3>8. ASSUME NEW A, NEW B, Step(e, A, B), Mirrored(A) PROVE Mirrored(B)'
      <4>1. B = A \ {s}
        BY <1>4, <3>8
      <4>2. \A l \in Layers : l \in B <=> \E q \in ToSet(list_layer') : context'[q].id = l
        BY <1>2, <3>2, <3>3, <3>8, <4>1 DEF Mirrored
      <4>3. ASSUME NEW t \in Surfaces \cap B, ~Lost(t)'
            PROVE  \E q \in ToSet(list_surface') : context'[q].id = t /\ ~Goes(q)'
        <5>1. PICK q \in ToSet(list_surface) : context[q].id = t /\ ~Goes(q)
          BY <3>8, <4>1, <4>3, LostStays DEF Mirrored
        <5>2. q # p
          BY <2>1, <4>1, <4>3, <5>1
        <5> QED BY <3>2, <3>3, <3>6, <5>1, <5>2
      <4> QED BY <4>2, <4>3 DEF Mirrored
    <3>9. \A q \in ToSet(list_layer') : context'[q].notification =>
              q \in ToSet(list_layer) /\ context[q].notification /\ context'[q].id = context[q].id
      BY <3>2, <3>3
    <3>10. Scene' /\ Mail' /\ \E H : History(H)'
      BY <1>1, <3>5, <3>8, <3>9, DispatchedHistory DEF Dispatching
    <3> QED BY <3>2, <3>4, <3>6, <3>7, <3>10 DEF Sound, CTypes
  <2>3. CASE ~(context[p].notification \/ registered)
    <3>1. Unlinked(p) /\ context' = [context EXCEPT ![p] = Absent] /\ stack' = stack
      BY <1>1, <1>6, <2>3 DEF SurfaceDestroyed
    <3>2. /\ context' \in [Ptrs -> Contexts \cup {Absent}]
          /\ \A q \in Ptrs \ {p} : context'[q] = context[q]
      BY <1>3, <3>1 DEF Mirror
    <3>3. Dropped(p)
      BY <2>1, <3>1, <3>2 DEF Dropped
    <3>4. /\ Listings' /\ list_surface' \in Seq(SurfacePtrs) /\ list_layer' \in Seq(LayerPtrs)
          /\ ToSet(list_surface') = ToSet(list_surface) \ {p}
          /\ ToSet(list_layer') = ToSet(list_layer) \ {p}
          /\ \A q \in ToSet(list_surface') \cup ToSet(list_layer') : context'[q] = context[q]
      BY <1>3, <3>3, DroppedListings
    <3>5. Mirror' /\ ToSet(list_layer') = ToSet(list_layer)
      BY <1>3, <2>1, <3>2, <3>4, ListsAre DEF Mirror
    <3>6. Stands(n) /\ Settles(n)
      BY <1>1, <1>3, <3>1, UnchangedStands DEF Settles
    <3>7. /\ FramesSit' /\ Stack' /\ Stay(n) /\ Len(stack') \in Nat
          /\ \A i \in 1 .. Len(stack') : i <= n \/ stack'[i].pc # "removed"
          /\ \A q : Goes(q)' => Goes(q)
      BY <3>6, SettledFrames DEF Dispatching
    <3>8. LayersLeave'
      <4>1. ASSUME NEW i \in 1 .. n, Leaving(i)
            PROVE  context'[stack[i].ptr] # Absent /\ stack[i].ptr \notin ToSet(list_layer')
        <5>1. context[stack[i].ptr] # Absent /\ stack[i].ptr \notin ToSet(list_layer)
          BY <1>1, <1>3, <4>1 DEF LayersLeave
        <5>2. stack[i].ptr # p /\ stack[i].ptr \in Ptrs
          BY <2>1, <4>1, Kinds DEF Leaving
        <5> QED BY <3>2, <3>5, <5>1, <5>2
      <4> QED BY <1>3, <3>7, <4>1, StillLeave
    <3>9. ASSUME NEW A, NEW B, Step(e, A, B), Mirrored(A) PROVE Mirrored(B)'
      <4>1. B = A \ {s}
        BY <1>4, <3>9
      <4>2. \A l \in Layers : l \in B <=> \E q \in ToSet(list_layer') : context'[q].id = l
        BY <1>2, <3>4, <3>5, <3>9, <4>1 DEF Mirrored
      <4>3. ASSUME NEW t \in Surfaces \cap B, ~Lost(t)'
            PROVE  \E q \in ToSet(list_surface') : context'[q].id = t /\ ~Goes(q)'
        <5>1. PICK q \in ToSet(list_surface) : context[q].id = t /\ ~Goes(q)
          BY <3>9, <4>1, <4>3, LostStays DEF Mirrored
        <5>2. q # p
          BY <2>1, <4>1, <4>3, <5>1
        <5> QED BY <3>4, <3>7, <5>1, <5>2
      <4> QED BY <4>2, <4>3 DEF Mirrored
    <3>10. \A q \in ToSet(list_layer') : context'[q].notification =>
              q \in ToSet(list_layer) /\ context[q].notification /\ context'[q].id = context[q].id
      BY <3>4
    <3>11. Scene' /\ Mail' /\ \E H : History(H)'
      BY <1>1, <3>6, <3>9, <3>10, DispatchedHistory DEF Dispatching
    <3> QED BY <3>4, <3>5, <3>7, <3>8, <3>11 DEF Sound, CTypes
  <2> QED BY <2>2, <2>3
<1> QED BY <1>5, <1>6

LEMMA DispatchStep ==
    ASSUME Sound, DispatchEvent
    PROVE  Sound'
<1>1. PICK e : e = Head(events)
  OBVIOUS
<1>2. /\ Dispatching
      /\ \/ e.type = "created" /\ ObjectCreated(e.id)
         \/ e.type = "destroyed" /\ e.id \in Layers /\ LayerDestroyed(e.id)
         \/ e.type = "destroyed" /\ e.id \in Surfaces /\ SurfaceDestroyed(e.id)
         \/ e.type = "prop" /\ PropChanged(e.id, e.value)
         \/ e.type = "order" /\ SurfacesAdded(e.id, e.value)
         \/ /\ e.type = "done"
            /\ stack' = [stack EXCEPT ![e.value].done = TRUE]
            /\ UNCHANGED mirror
  BY <1>1 DEF DispatchEvent, Dispatching, Free
<1> QED BY <1>1, <1>2, CreatedStep, LayerDestroyedStep, SurfaceDestroyedStep, PropStep, OrderStep, DoneStep

-----------------------------------------------------------------------------
(* The rest of a call.                                                     *)

\* The compositor and the events are not changed.
Proceeding == Sound /\ UNCHANGED <<compositor, events, missed>>

LEMMA StutterStep ==
    ASSUME Proceeding, UNCHANGED <<mirror, stack, requests>>
    PROVE  Sound'
<1>1. PICK n : n = Len(stack)
  OBVIOUS
<1>2. Settles(n) /\ \A i \in n + 1 .. Len(stack) : FALSE
  BY <1>1, SoundParts, StackIs, UnchangedStands DEF Proceeding, Settles
<1>3. Kept /\ Mirror' /\ context' = context
  BY SoundParts, UnchangedMirror DEF Proceeding
<1>4. Grows /\ \A b \in Len(requests) + 1 .. Len(requests') : FALSE
  BY SoundParts, NoneSent DEF Proceeding
<1> QED BY <1>2, <1>3, <1>4, SameNotified, PlainStep DEF Proceeding

\* A call that ends, or a callback that returns.
LEMMA PopStep ==
    ASSUME Proceeding, stack # <<>>, stack' = Pop, UNCHANGED <<mirror, requests>>,
           ~(Top.op = "ilm_removeNotification" /\ Top.pc = "reply")
    PROVE  Sound'
<1>1. PICK n : n = Len(stack) - 1
  OBVIOUS
<1>2. n \in Nat /\ Len(stack) = n + 1 /\ Top = stack[n + 1]
  BY <1>1, SoundParts, TopIs DEF Proceeding
<1>3. Settles(n)
  BY <1>2, SoundParts, PopStands DEF Proceeding, Settles
<1>4. \A i \in n + 1 .. Len(stack) : i = n + 1
  BY <1>2
<1>5. Kept /\ Mirror' /\ context' = context
  BY SoundParts, UnchangedMirror DEF Proceeding
<1>6. Grows /\ \A b \in Len(requests) + 1 .. Len(requests') : FALSE
  BY SoundParts, NoneSent DEF Proceeding
<1> QED BY <1>2, <1>3, <1>4, <1>5, <1>6, SameNotified, PlainStep DEF Proceeding

\* A call goes on in another place.
GoesOnAs(f) ==
    /\ f \in Frames /\ FrameSound(f) /\ f.op = Top.op /\ f.id = Top.id
    /\ f.op = "ilm_addNotification" /\ f.id \in Surfaces => f.ptr \in SurfacePtrs \cup {Absent}
    /\ stack' = Append(Pop, f)

LEMMA GoOn ==
    ASSUME Proceeding, stack # <<>>, NEW f, GoesOnAs(f), f.pc \in Waits \cup {"return"},
           NEW n, n = Len(stack) - 1
    PROVE  n \in Nat /\ Len(stack) = n + 1 /\ Top = stack[n + 1] /\ StandsOn(n, f) /\ Settles(n)
<1>1. n \in Nat /\ Len(stack) = n + 1 /\ Top = stack[n + 1] /\ n # Len(stack)
  BY SoundParts, TopIs DEF Proceeding
<1>2. StandsOn(n, f)
  BY <1>1, SoundParts, SwapStands DEF Proceeding, GoesOnAs
<1>3. Fits(n, f) /\ f.pc # "removed"
  <2>1. f.pc \notin {"registered", "added", "removed"}
    BY DEF Waits
  <2> QED BY <1>1, <2>1, SoundParts, CallFits DEF Proceeding, GoesOnAs
<1> QED BY <1>1, <1>2, <1>3 DEF Settles

LEMMA TopPlace ==
    ASSUME Proceeding, stack # <<>>, Top.pc \in Waits
    PROVE  /\ Top.op # "callback" /\ Top \in Frames /\ FrameSound(Top)
           /\ Top.op = "ilm_addNotification" /\ Top.id \in Surfaces => Top.ptr \in SurfacePtrs \cup {Absent}
<1>1. Top = stack[Len(stack)] /\ Top \in Frames /\ FrameSound(Top) /\ Len(stack) \in 1 .. Len(stack)
  BY SoundParts, TopIs DEF Proceeding
<1>2. Top.op # "callback"
  BY <1>1 DEF FrameSound, Waits, Callbacks
<1>3. Sits(Len(stack))
  BY <1>1, SoundParts DEF Proceeding, FramesSit
<1> QED BY <1>1, <1>2, <1>3 DEF Sits

\* The frame of a getter that returns.
LEMMA ReturnFrame ==
    ASSUME Proceeding, stack # <<>>, Top.pc \in Waits, NEW v \in Values, Return(v),
           NEW f, f = [Top EXCEPT !.pc = "return", !.value = v]
    PROVE  GoesOnAs(f) /\ f.pc = "return" /\ f.ptr = Top.ptr
<1>1. /\ Top.op # "callback" /\ Top \in Frames /\ FrameSound(Top)
      /\ Top.op = "ilm_addNotification" /\ Top.id \in Surfaces => Top.ptr \in SurfacePtrs \cup {Absent}
  BY TopPlace
<1>2. "return" \in Places /\ "return" \notin Callbacks
  BY DEF Places, Callbacks
<1>3. f \in Frames /\ f.op = Top.op /\ f.id = Top.id /\ f.pc = "return" /\ f.ptr = Top.ptr
  BY <1>1, <1>2 DEF Frames
<1>4. FrameSound(f)
  BY <1>1, <1>2, <1>3 DEF FrameSound, Points
<1>5. stack' = Append(Pop, f)
  BY DEF Return
<1> QED BY <1>1, <1>3, <1>4, <1>5 DEF GoesOnAs

\* The frame of a call that waits again.
LEMMA AgainFrame ==
    ASSUME Proceeding, stack # <<>>, Top.pc \in Waits, NEW p \in Ptrs \cup {Absent}, NEW R, Again(p, R),
           Top.op = "ilm_addNotification" /\ Top.id \in Surfaces => p \in SurfacePtrs \cup {Absent},
           Top.op \in {"ilm_addNotification", "ilm_removeNotification", "ilm_getSurfaceIDsOnLayer"} => p # Absent,
           NEW f, f = [Top EXCEPT !.pc = "reply", !.ptr = p, !.done = FALSE]
    PROVE  GoesOnAs(f) /\ f.pc = "reply" /\ f.ptr = p /\ f.done = FALSE /\ f.answers = Top.answers
<1>1. Top.op # "callback" /\ Top \in Frames /\ FrameSound(Top)
  BY TopPlace
<1>2. "reply" \in Places /\ "reply" \notin Callbacks
  BY DEF Places, Waits, Callbacks
<1>3. /\ f \in Frames /\ f.op = Top.op /\ f.id = Top.id /\ f.pc = "reply" /\ f.ptr = p
      /\ f.done = FALSE /\ f.answers = Top.answers
  BY <1>1, <1>2 DEF Frames
<1>4. FrameSound(f)
  BY <1>1, <1>2, <1>3 DEF FrameSound, Points
<1>5. stack' = Append(Pop, f)
  BY DEF Again
<1> QED BY <1>3, <1>4, <1>5 DEF GoesOnAs

\* A getter ends without a change of the lists or of the callbacks.
LEMMA ReturnStep ==
    ASSUME Proceeding, stack # <<>>, Top.pc \in Waits, Top.op # "ilm_removeNotification",
           NEW v \in Values, Return(v), requests' = requests, Kept, Mirror',
           \A p \in ToSet(list_layer) : context'[p].notification => context[p].notification
    PROVE  Sound'
<1>1. PICK f : f = [Top EXCEPT !.pc = "return", !.value = v]
  OBVIOUS
<1>2. PICK n : n = Len(stack) - 1
  OBVIOUS
<1>3. GoesOnAs(f) /\ f.pc = "return"
  BY <1>1, ReturnFrame
<1>4. n \in Nat /\ Len(stack) = n + 1 /\ Top = stack[n + 1] /\ Settles(n)
  BY <1>2, <1>3, GoOn
<1>5. \A i \in n + 1 .. Len(stack) : i = n + 1
  BY <1>4
<1>6. Grows /\ \A b \in Len(requests) + 1 .. Len(requests') : FALSE
  BY SoundParts, NoneSent DEF Proceeding
<1> QED BY <1>4, <1>5, <1>6, PlainStep DEF Proceeding

LEMMA ArrivedIs ==
    ASSUME NEW op, NEW pc, Arrived(op, pc)
    PROVE  stack # <<>> /\ Top.pc \in Waits /\ Top.op = op /\ Top.pc = pc /\ Top.done
BY DEF Arrived, Waiting, Waits

LEMMA ListedIds ==
    ASSUME Mirror, Listings
    PROVE  IdsIn(list_surface) \in Values /\ IdsIn(list_layer) \in Values
<1>1. IdsIn(list_surface) \subseteq Ids
  BY Kinds DEF IdsIn, Listings, Surfaced
<1>2. IdsIn(list_layer) \subseteq Ids
  BY Kinds DEF IdsIn, Listings, Layered
<1> QED BY <1>1, <1>2, ValueKinds

LEMMA EndGetIDsStep ==
    ASSUME Proceeding, EndGetIDs
    PROVE  Sound'
<1>1. PICK op \in {"ilm_getSurfaceIDs", "ilm_getLayerIDs"}, v \in Values : Arrived(op, "sync") /\ Return(v)
  BY SoundParts, ListedIds DEF Proceeding, EndGetIDs
<1>2. Kept /\ Mirror' /\ context' = context
  BY SoundParts, UnchangedMirror DEF Proceeding, EndGetIDs
<1>3. requests' = requests
  BY DEF EndGetIDs
<1>4. stack # <<>> /\ Top.pc \in Waits /\ Top.op # "ilm_removeNotification"
  BY <1>1, ArrivedIs
<1> QED BY <1>1, <1>2, <1>3, <1>4, SameNotified, ReturnStep

LEMMA EndGetPropertiesStep ==
    ASSUME Proceeding, EndGetProperties
    PROVE  Sound'
<1>1. stack # <<>> /\ Top.pc \in Waits /\ Top.op = "ilm_getProperties"
  BY ArrivedIs DEF EndGetProperties
<1>2. Top.id \in Ids
  BY <1>1, TopPlace DEF FrameSound, IdOps
<1>3. PICK p : p = Lookup(Top.id)
  OBVIOUS
<1>4. PICK v : v = IF p = Absent THEN Absent ELSE context[p].prop
  OBVIOUS
<1>5. v \in Values
  <2>1. p # Absent => context[p] \in Contexts
    BY <1>2, <1>3, SoundParts, FoundIs DEF Proceeding
  <2>2. p # Absent => v \in Props \/ v = Zero
    BY <1>4, <2>1 DEF Contexts
  <2> QED BY <1>4, <2>2, ValueKinds
<1>6. Return(v) /\ UNCHANGED <<requests, mirror>>
  BY <1>3, <1>4 DEF EndGetProperties
<1>7. Kept /\ Mirror' /\ context' = context
  BY <1>6, SoundParts, UnchangedMirror DEF Proceeding
<1> QED BY <1>1, <1>5, <1>6, <1>7, SameNotified, ReturnStep

LEMMA EndGetSurfaceIDsOnLayerStep ==
    ASSUME Proceeding, EndGetSurfaceIDsOnLayer
    PROVE  Sound'
<1>1. stack # <<>> /\ Top.pc \in Waits /\ Top.op = "ilm_getSurfaceIDsOnLayer"
  BY ArrivedIs DEF EndGetSurfaceIDsOnLayer
<1>2. PICK p : p = Top.ptr
  OBVIOUS
<1>3. CASE context[p] = Absent
  <2>1. UNCHANGED <<mirror, stack, requests>>
    BY <1>2, <1>3 DEF EndGetSurfaceIDsOnLayer, Use
  <2> QED BY <2>1, StutterStep
<1>4. CASE context[p] # Absent
  <2>1. /\ Return(context[p].render_order)
        /\ context' = [context EXCEPT ![p].render_order = <<>>]
        /\ UNCHANGED <<list_surface, list_layer>> /\ requests' = requests
    BY <1>2, <1>4 DEF EndGetSurfaceIDsOnLayer, Use
  <2>2. Top \in Frames /\ FrameSound(Top)
    BY <1>1, TopPlace
  <2>3. p \in Ptrs \/ p = Absent
    BY <1>2, <2>2 DEF Frames
  <2>4. CASE p \in Ptrs
    <3>1. context[p] \in Contexts /\ context[p].render_order \in Seq(Surfaces)
      BY <1>4, <2>4, SoundParts DEF Proceeding, Mirror, Contexts
    <3>2. context[p].render_order \in Values
      BY <3>1, ValueKinds
    <3>3. PICK q : q = <<>>
      OBVIOUS
    <3>4. q \in Seq(Surfaces)
      BY <3>3
    <3>5. PICK c : c = [context[p] EXCEPT !.render_order = q]
      OBVIOUS
    <3>6. c \in Contexts /\ c.id = context[p].id /\ c.notification = context[p].notification
      BY <3>1, <3>4, <3>5 DEF Contexts
    <3>7. context' = [context EXCEPT ![p] = c]
      BY <2>1, <3>3, <3>5
    <3>8. Kept /\ Mirror' /\ context'[p] = c /\ \A r \in Ptrs \ {p} : context'[r] = context[r]
      BY <1>4, <2>1, <2>4, <3>6, <3>7, SoundParts, ContextSet DEF Proceeding
    <3>9. \A r \in ToSet(list_layer) : context'[r].notification => context[r].notification
      BY <3>6, <3>8, SoundParts, ListsAre, Kinds DEF Proceeding
    <3> QED BY <1>1, <2>1, <3>2, <3>8, <3>9, ReturnStep
  <2> QED BY <1>1, <1>2, <2>2, <2>3, <2>4 DEF FrameSound, Points
<1> QED BY <1>3, <1>4

\* A call that gives a notification up has not ended.
LEMMA WithdrawnStays ==
    ASSUME Stack, NEW n, Stay(n), Len(stack') \in Nat, Len(stack') >= n, NEW p, Withdrawn(p),
           \A i \in n + 1 .. Len(stack) :
              ~(stack[i].op = "ilm_removeNotification" /\ stack[i].pc = "reply" /\ stack[i].ptr = p)
    PROVE  Withdrawn(p)'
<1>1. PICK i \in 1 .. Len(stack) :
          stack[i].op = "ilm_removeNotification" /\ stack[i].pc = "reply" /\ stack[i].ptr = p
  BY DEF Withdrawn
<1>2. (n \in Nat /\ Len(stack) \in Nat /\ SameCall(stack[i], stack'[i])) \/ i \notin 1 .. n
  BY StackIs DEF Stay
<1>3. n \in Nat /\ Len(stack) \in Nat
  BY StackIs DEF Stay
<1>4. i \in 1 .. n /\ i \in 1 .. Len(stack')
  BY <1>1, <1>3
<1> QED BY <1>1, <1>2, <1>4 DEF Withdrawn, SameCall

\* A context is looked up, and the call waits again with a pointer to it.
LEMMA AgainStep ==
    ASSUME Proceeding, stack # <<>>, Top.op \in {"ilm_addNotification", "ilm_removeNotification"},
           Top.pc = "sync", NEW p, p = Lookup(Top.id), p # Absent, NEW r \in Requests, r.id = Top.id,
           r.type = IF Top.op = "ilm_addNotification" THEN "sync_add" ELSE "sync_remove",
           Again(p, <<r>>), Kept, Mirror', \A q \in Ptrs \ {p} : context'[q] = context[q],
           Top.op = "ilm_removeNotification" => context' = context
    PROVE  Sound'
<1>1. Top.id \in Ids /\ Top.pc \in Waits
  <2>1. Top.pc \in Waits
    BY DEF Waits
  <2> QED BY <2>1, TopPlace DEF FrameSound, IdOps
<1>2. /\ p \in Ptrs /\ context[p].id = Top.id /\ p \in ToSet(ListOf(Top.id))
      /\ Top.id \in Surfaces => p \in SurfacePtrs
      /\ Top.id \in Layers => p \in ToSet(list_layer)
      /\ p \in ToSet(list_layer) => Top.id \in Layers
  <2>1. /\ p \in Ptrs /\ context[p].id = Top.id /\ p \in ToSet(ListOf(Top.id))
        /\ Top.id \in Surfaces => p \in SurfacePtrs
        /\ Top.id \in Layers => p \in ToSet(list_layer)
    BY <1>1, SoundParts, FoundIs DEF Proceeding
  <2> QED BY <2>1, SoundParts DEF Proceeding, Listings, Layered
<1>3. PICK n, d : n = Len(stack) - 1 /\ d = Len(stack)
  OBVIOUS
<1>4. PICK f : f = [Top EXCEPT !.pc = "reply", !.ptr = p, !.done = FALSE]
  OBVIOUS
<1>5. GoesOnAs(f) /\ f.pc = "reply" /\ f.ptr = p
  BY <1>1, <1>2, <1>4, AgainFrame
<1>6. n \in Nat /\ Len(stack) = n + 1 /\ Top = stack[n + 1] /\ StandsOn(n, f) /\ Settles(n)
  <2>1. f.pc \in Waits \cup {"return"}
    BY <1>5 DEF Waits
  <2> QED BY <1>3, <1>5, <2>1, GoOn
<1>7. Stay(n) /\ Len(stack') = n + 1 /\ SameCall(f, stack'[n + 1])
  BY <1>6 DEF StandsOn
<1>8. Sends(r, d)
  <2>1. requests' = requests \o <<r>> \o <<SyncRequest(d)>> /\ requests \in Seq(Requests) /\ d \in Nat
    BY <1>3, <1>6, SoundParts DEF Again, Proceeding
  <2> QED BY <2>1, RequestSent
<1>9. /\ Grows /\ d \in Nat
      /\ \A b \in Len(requests) + 1 .. Len(requests') : requests'[b] = r \/ requests'[b].type = "sync"
  <2>1. d \in Nat
    BY <1>3, <1>6
  <2>2. /\ Grows /\ Len(requests) \in Nat /\ Len(requests') = Len(requests) + 2
        /\ requests'[Len(requests) + 1] = r /\ requests'[Len(requests) + 2].type = "sync"
    <3>1. /\ Grows /\ Len(requests') = Len(requests) + 2
          /\ requests'[Len(requests) + 1] = r /\ requests'[Len(requests) + 2] = SyncRequest(d)
      BY <1>8 DEF Sends
    <3>2. SyncRequest(d).type = "sync"
      BY <2>1, SyncIsRequest
    <3>3. Len(requests) \in Nat
      BY <3>1 DEF Grows
    <3> QED BY <3>1, <3>2, <3>3
  <2>3. \A b \in Len(requests) + 1 .. Len(requests') : b = Len(requests) + 1 \/ b = Len(requests) + 2
    BY <2>2
  <2> QED BY <2>1, <2>2, <2>3
<1>10. \A q : Withdrawn(q) => Withdrawn(q)'
  <2>1. \A i \in n + 1 .. Len(stack) : i = n + 1
    BY <1>6
  <2>2. Len(stack') \in Nat /\ Len(stack') >= n
    BY <1>6, <1>7
  <2> QED BY <1>6, <1>7, <2>1, <2>2, SoundParts, WithdrawnStays DEF Proceeding
<1>11. ASSUME NEW id \in Layers, Wanted(id), Top.op = "ilm_addNotification" \/ id # Top.id
       PROVE  Wanted(id)'
  <2>1. synced'[id] = synced[id]
    BY DEF Proceeding, compositor
  <2>2. \A b \in Len(requests) + 1 .. Len(requests') : ~Removes(b, id)'
    BY <1>9, <1>11 DEF Removes
  <2> QED BY <1>9, <1>11, <2>1, <2>2, WantedStays
<1>12. ASSUME NEW q \in ToSet(list_layer), NEW id \in Layers, context[q].id = id
       PROVE  KeepsInformed(q, id)
  <2>1. q \in Ptrs
    BY SoundParts, ListsAre, Kinds DEF Proceeding
  <2>2. CASE Top.op = "ilm_addNotification"
    <3>1. CASE q = p
      <4>1. id = Top.id
        BY <1>2, <1>12, <3>1
      <4>2. Wanted(id)'
        BY <1>8, <1>9, <2>2, <4>1, WantedNow
      <4> QED BY <4>2 DEF KeepsInformed
    <3>2. CASE q # p
      <4>1. context'[q] = context[q]
        BY <2>1, <3>2
      <4> QED BY <1>10, <1>11, <2>2, <4>1 DEF KeepsInformed
    <3> QED BY <3>1, <3>2
  <2>3. CASE Top.op = "ilm_removeNotification"
    <3>1. CASE id = Top.id
      <4>1. p = q
        BY <1>2, <1>12, <3>1, SoundParts DEF Proceeding, Listings, Single
      <4>2. n + 1 \in 1 .. Len(stack') /\ stack'[n + 1].op = "ilm_removeNotification"
            /\ stack'[n + 1].pc = "reply" /\ stack'[n + 1].ptr = p
        BY <1>5, <1>6, <1>7, <2>3 DEF SameCall, GoesOnAs
      <4>3. Withdrawn(p)'
        BY <4>2 DEF Withdrawn
      <4> QED BY <4>1, <4>3 DEF KeepsInformed
    <3>2. CASE id # Top.id
      BY <1>10, <1>11, <2>3, <3>2 DEF KeepsInformed
    <3> QED BY <3>1, <3>2
  <2> QED BY <2>2, <2>3
<1>13. requests' \in Seq(Requests)
  BY <1>9 DEF Grows
<1> QED BY <1>6, <1>12, <1>13, KeptStep DEF Proceeding

\* A callback is called by a call that has waited.
LEMMA PushStep ==
    ASSUME Proceeding, stack # <<>>, NEW f \in Frames, FrameSound(f), f.pc \in {"registered", "added"},
           stack' = Append(stack, f), UNCHANGED <<mirror, requests>>, Top.pc \in Waits,
           Fits(Len(stack), f)
    PROVE  Sound'
<1>1. PICK n : n = Len(stack)
  OBVIOUS
<1>2. StandsOn(n, f) /\ n \in Nat
  BY <1>1, SoundParts, PushStands, StackIs DEF Proceeding
<1>3. Settles(n) /\ \A i \in n + 1 .. Len(stack) : FALSE
  BY <1>1, <1>2 DEF Settles
<1>4. Kept /\ Mirror' /\ context' = context
  BY SoundParts, UnchangedMirror DEF Proceeding
<1>5. Grows /\ \A b \in Len(requests) + 1 .. Len(requests') : FALSE
  BY SoundParts, NoneSent DEF Proceeding
<1> QED BY <1>3, <1>4, <1>5, SameNotified, PlainStep DEF Proceeding

\* A waiting call is not a callback.
LEMMA WaitingFits ==
    ASSUME Proceeding, stack # <<>>, Top.pc \in Waits, NEW f, f.op = "callback",
           f.pc = "registered" => Top.op = "ilm_registerNotification",
           f.pc = "added" => /\ Top.op = "ilm_addNotification" /\ Top.id \in Surfaces
                             /\ f.ptr \in SurfacePtrs \cup {Absent}
    PROVE  Fits(Len(stack), f)
<1>1. Top = stack[Len(stack)] /\ Len(stack) > 0 /\ Top.op # "callback"
  BY SoundParts, TopIs, TopPlace DEF Proceeding
<1> QED BY <1>1 DEF Fits

LEMMA FindForAddStep ==
    ASSUME Proceeding, FindForAdd
    PROVE  Sound'
<1>1. /\ stack # <<>> /\ Top.pc \in Waits /\ Top.op = "ilm_addNotification" /\ Top.pc = "sync"
  BY ArrivedIs DEF FindForAdd
<1>2. Top.id \in Ids /\ Top \in Frames
  BY <1>1, TopPlace DEF FrameSound, IdOps
<1>3. PICK p : p = Lookup(Top.id)
  OBVIOUS
<1>4. CASE p # Absent
  <2>1. SetNotification(p, TRUE) /\ Again(p, <<Request("sync_add", Top.id)>>)
    BY <1>3, <1>4 DEF FindForAdd
  <2>2. PICK r : r = Request("sync_add", Top.id)
    OBVIOUS
  <2>3. r \in Requests /\ r.id = Top.id /\ r.type = "sync_add"
    BY <1>2, <2>2, RequestIs
  <2>4. p \in Ptrs /\ context[p] \in Contexts /\ context[p] # Absent
    BY <1>2, <1>3, <1>4, SoundParts, FoundIs DEF Proceeding
  <2>5. PICK c : c = [context[p] EXCEPT !.notification = TRUE]
    OBVIOUS
  <2>6. c \in Contexts /\ c.id = context[p].id
    BY <2>4, <2>5 DEF Contexts
  <2>7. context' = [context EXCEPT ![p] = c] /\ UNCHANGED <<list_surface, list_layer>>
    BY <2>1, <2>5 DEF SetNotification
  <2>8. Kept /\ Mirror' /\ \A q \in Ptrs \ {p} : context'[q] = context[q]
    BY <2>4, <2>6, <2>7, SoundParts, ContextSet DEF Proceeding
  <2>9. Again(p, <<r>>)
    BY <2>1, <2>2
  <2> QED BY <1>1, <1>3, <1>4, <2>3, <2>8, <2>9, AgainStep
<1>5. CASE p = Absent /\ Top.id \in Layers
  <2>1. stack' = Pop /\ UNCHANGED <<requests, mirror>>
    BY <1>3, <1>5 DEF FindForAdd
  <2> QED BY <1>1, <2>1, PopStep
<1>6. CASE p = Absent /\ Top.id \notin Layers
  <2>1. PICK f : f = Callback("added", Absent)
    OBVIOUS
  <2>2. stack' = Append(stack, f) /\ UNCHANGED <<requests, mirror>>
    BY <1>3, <1>6, <2>1 DEF FindForAdd
  <2>3. f \in Frames /\ FrameSound(f) /\ f.op = "callback" /\ f.pc = "added" /\ f.ptr = Absent
    <3>1. "added" \in Callbacks /\ Absent \in Ptrs \cup {Absent}
      BY DEF Callbacks
    <3> QED BY <2>1, <3>1, CallbackIs
  <2>4. Top.id \in Surfaces
    BY <1>2, <1>6, Kinds
  <2>5. Fits(Len(stack), f)
    BY <1>1, <2>3, <2>4, WaitingFits
  <2> QED BY <1>1, <2>2, <2>3, <2>5, PushStep
<1> QED BY <1>4, <1>5, <1>6

LEMMA EndAddStep ==
    ASSUME Proceeding, EndAdd
    PROVE  Sound'
<1>1. /\ stack # <<>> /\ Top.pc \in Waits /\ Top.op = "ilm_addNotification" /\ Top.pc = "reply"
  BY ArrivedIs DEF EndAdd
<1>2. Top.id \in Ids /\ Top \in Frames /\ FrameSound(Top)
      /\ (Top.id \in Surfaces => Top.ptr \in SurfacePtrs \cup {Absent})
  BY <1>1, TopPlace DEF FrameSound, IdOps
<1>3. CASE Top.id \in Layers
  <2>1. stack' = Pop /\ UNCHANGED <<requests, mirror>>
    BY <1>3 DEF EndAdd
  <2> QED BY <1>1, <2>1, PopStep
<1>4. CASE Top.id \notin Layers /\ context[Top.ptr] = Absent
  <2>1. UNCHANGED <<mirror, stack, requests>>
    BY <1>4 DEF EndAdd, Use
  <2> QED BY <2>1, StutterStep
<1>5. CASE Top.id \notin Layers /\ context[Top.ptr] # Absent
  <2>1. PICK f : f = Callback("added", Top.ptr)
    OBVIOUS
  <2>2. stack' = Append(stack, f) /\ UNCHANGED <<requests, mirror>>
    BY <1>5, <2>1 DEF EndAdd, Use
  <2>3. Top.id \in Surfaces /\ Top.ptr \in SurfacePtrs \cup {Absent}
    BY <1>2, <1>5, Kinds
  <2>4. f \in Frames /\ FrameSound(f) /\ f.op = "callback" /\ f.pc = "added" /\ f.ptr = Top.ptr
    <3>1. "added" \in Callbacks /\ Top.ptr \in Ptrs \cup {Absent}
      BY <2>3, Kinds DEF Callbacks
    <3> QED BY <2>1, <3>1, CallbackIs
  <2>5. Fits(Len(stack), f)
    BY <1>1, <2>3, <2>4, WaitingFits
  <2> QED BY <1>1, <2>2, <2>4, <2>5, PushStep
<1> QED BY <1>3, <1>4, <1>5

LEMMA FindForRemoveStep ==
    ASSUME Proceeding, FindForRemove
    PROVE  Sound'
<1>1. /\ stack # <<>> /\ Top.pc \in Waits /\ Top.op = "ilm_removeNotification" /\ Top.pc = "sync"
  BY ArrivedIs DEF FindForRemove
<1>2. Top.id \in Ids
  BY <1>1, TopPlace DEF FrameSound, IdOps
<1>3. PICK p : p = Lookup(Top.id)
  OBVIOUS
<1>4. UNCHANGED mirror
  BY DEF FindForRemove
<1>5. CASE p # Absent /\ context[p].notification
  <2>1. PICK r : r = Request("sync_remove", Top.id)
    OBVIOUS
  <2>2. Again(p, <<r>>)
    BY <1>3, <1>5, <2>1 DEF FindForRemove
  <2>3. r \in Requests /\ r.id = Top.id /\ r.type = "sync_remove"
    BY <1>2, <2>1, RequestIs
  <2>4. Kept /\ Mirror' /\ context' = context
    BY <1>4, SoundParts, UnchangedMirror DEF Proceeding
  <2> QED BY <1>1, <1>3, <1>5, <2>2, <2>3, <2>4, AgainStep
<1>6. CASE ~(p # Absent /\ context[p].notification)
  <2>1. stack' = Pop /\ UNCHANGED <<requests, mirror>>
    BY <1>3, <1>4, <1>6 DEF FindForRemove
  <2> QED BY <1>1, <2>1, PopStep
<1> QED BY <1>5, <1>6

LEMMA EndRemoveStep ==
    ASSUME Proceeding, EndRemove
    PROVE  Sound'
<1>1. /\ stack # <<>> /\ Top.pc \in Waits /\ Top.op = "ilm_removeNotification" /\ Top.pc = "reply"
  BY ArrivedIs DEF EndRemove
<1>2. PICK p : p = Top.ptr
  OBVIOUS
<1>3. p \in Ptrs
  <2>1. Top \in Frames /\ FrameSound(Top)
    BY <1>1, TopPlace
  <2> QED BY <1>1, <1>2, <2>1 DEF Frames, FrameSound, Points
<1>4. CASE context[p] = Absent
  <2>1. UNCHANGED <<mirror, stack, requests>>
    BY <1>2, <1>4 DEF EndRemove, Use
  <2> QED BY <2>1, StutterStep
<1>5. CASE context[p] # Absent
  <2>1. SetNotification(p, FALSE) /\ stack' = Pop /\ requests' = requests
    BY <1>2, <1>5 DEF EndRemove, Use
  <2>2. PICK c : c = [context[p] EXCEPT !.notification = FALSE]
    OBVIOUS
  <2>3. c \in Contexts /\ c.id = context[p].id /\ c.notification = FALSE
    <3>1. context[p] \in Contexts
      BY <1>3, <1>5, SoundParts DEF Proceeding, Mirror
    <3> QED BY <2>2, <3>1 DEF Contexts
  <2>4. context' = [context EXCEPT ![p] = c] /\ UNCHANGED <<list_surface, list_layer>>
    BY <2>1, <2>2 DEF SetNotification
  <2>5. Kept /\ Mirror' /\ context'[p] = c /\ \A q \in Ptrs \ {p} : context'[q] = context[q]
    BY <1>3, <1>5, <2>3, <2>4, SoundParts, ContextSet DEF Proceeding
  <2>6. PICK n : n = Len(stack) - 1
    OBVIOUS
  <2>7. n \in Nat /\ Len(stack) = n + 1 /\ Top = stack[n + 1]
    BY <1>1, <2>6, SoundParts, TopIs DEF Proceeding
  <2>8. Stands(n) /\ Settles(n) /\ Stay(n) /\ Len(stack') = n
    BY <1>1, <2>1, <2>7, SoundParts, PopStands DEF Proceeding, Settles, Stands
  <2>9. ASSUME NEW q \in ToSet(list_layer), NEW id \in Layers, context[q].id = id
        PROVE  KeepsInformed(q, id)
    <3>1. CASE q = p
      BY <2>3, <2>5, <3>1 DEF KeepsInformed
    <3>2. CASE q # p
      <4>1. context'[q] = context[q]
        BY <2>5, <3>2, SoundParts, ListsAre, Kinds DEF Proceeding
      <4>2. Wanted(id) => Wanted(id)'
        BY <2>1 DEF Proceeding, compositor, Wanted, Removes
      <4>3. Withdrawn(q) => Withdrawn(q)'
        <5>1. \A i \in n + 1 .. Len(stack) :
              ~(stack[i].op = "ilm_removeNotification" /\ stack[i].pc = "reply" /\ stack[i].ptr = q)
          BY <1>2, <2>7, <3>2
        <5>2. Len(stack') \in Nat /\ Len(stack') >= n
          BY <2>7, <2>8
        <5> QED BY <2>8, <5>1, <5>2, SoundParts, WithdrawnStays DEF Proceeding
      <4> QED BY <4>1, <4>2, <4>3 DEF KeepsInformed
    <3> QED BY <3>1, <3>2
  <2>10. requests' \in Seq(Requests)
    BY <2>1, SoundParts DEF Proceeding
  <2> QED BY <2>5, <2>8, <2>9, <2>10, KeptStep DEF Proceeding
<1> QED BY <1>4, <1>5

LEMMA ListedIs ==
    ASSUME Mirror
    PROVE  Listed \in Seq(Ptrs)
<1>1. list_layer \in Seq(Ptrs) /\ list_surface \in Seq(Ptrs)
  BY Kinds DEF Mirror
<1> QED BY <1>1 DEF Listed

LEMMA EndRegisterStep ==
    ASSUME Proceeding, EndRegister
    PROVE  Sound'
<1>1. UNCHANGED <<mirror, requests>>
  BY DEF EndRegister
<1>2. /\ stack # <<>> /\ Top.pc \in Waits /\ Top.pc = "sync"
      /\ Top.op \in {"ilm_registerNotification", "ilm_unregisterNotification"}
  BY ArrivedIs DEF EndRegister
<1>3. CASE stack' = Pop
  BY <1>1, <1>2, <1>3, PopStep
<1>4. CASE /\ Top.op = "ilm_registerNotification" /\ Listed # <<>>
           /\ stack' = Append(stack, Callback("registered", Head(Listed)))
  <2>1. PICK p : p = Head(Listed)
    OBVIOUS
  <2>2. p \in Ptrs
    BY <1>4, <2>1, SoundParts, ListedIs, TailIs DEF Proceeding
  <2>3. PICK f : f = Callback("registered", p)
    OBVIOUS
  <2>4. f \in Frames /\ FrameSound(f) /\ f.op = "callback" /\ f.pc = "registered"
    <3>1. "registered" \in Callbacks /\ p \in Ptrs \cup {Absent} /\ p # Absent
      BY <2>2, Kinds DEF Callbacks
    <3> QED BY <2>3, <3>1, CallbackIs
  <2>5. Fits(Len(stack), f)
    BY <1>2, <1>4, <2>4, WaitingFits
  <2>6. stack' = Append(stack, f)
    BY <1>4, <2>1, <2>3
  <2> QED BY <1>1, <1>2, <2>4, <2>5, <2>6, PushStep
<1>5. stack' = Pop \/ (/\ Top.op = "ilm_registerNotification" /\ Listed # <<>>
                       /\ stack' = Append(stack, Callback("registered", Head(Listed))))
  BY ArrivedIs DEF EndRegister
<1> QED BY <1>3, <1>4, <1>5

LEMMA EndChangeStep ==
    ASSUME Proceeding, EndChange
    PROVE  Sound'
<1>1. UNCHANGED mirror
  BY DEF EndChange
<1>2. /\ stack # <<>> /\ Top.pc \in Waits
      /\ Top.op \in {"ilm_layerCreateWithDimension", "ilm_layerRemove", "ilm_commitChanges"}
  BY ArrivedIs DEF EndChange
<1>3. CASE stack' = Pop /\ requests' = requests
  BY <1>1, <1>2, <1>3, PopStep
<1>4. CASE /\ Top.op = "ilm_layerCreateWithDimension"
           /\ Again(Absent, <<Request("create", Top.id)>>)
  <2>1. Top.id \in Ids
    BY <1>2, <1>4, TopPlace, Kinds DEF FrameSound, LayerOps
  <2>2. PICK r : r = Request("create", Top.id)
    OBVIOUS
  <2>3. r \in Requests /\ r.type = "create"
    BY <2>1, <2>2, RequestIs
  <2>4. Again(Absent, <<r>>)
    BY <1>4, <2>2
  <2>5. PICK n, d : n = Len(stack) - 1 /\ d = Len(stack)
    OBVIOUS
  <2>6. PICK f : f = [Top EXCEPT !.pc = "reply", !.ptr = Absent, !.done = FALSE]
    OBVIOUS
  <2>7. GoesOnAs(f) /\ f.pc = "reply"
    BY <1>2, <1>4, <2>4, <2>6, AgainFrame
  <2>8. n \in Nat /\ Len(stack) = n + 1 /\ Top = stack[n + 1] /\ Settles(n)
    BY <1>2, <2>5, <2>7, GoOn DEF Waits
  <2>9. Sends(r, d) /\ d \in Nat
    <3>1. requests' = requests \o <<r>> \o <<SyncRequest(d)>> /\ requests \in Seq(Requests) /\ d \in Nat
      BY <2>4, <2>5, <2>8, SoundParts DEF Again, Proceeding
    <3> QED BY <2>3, <3>1, RequestSent
  <2>10. Grows /\ \A b \in Len(requests) + 1 .. Len(requests') : requests'[b].type # "sync_remove"
    <3>1. Grows /\ Len(requests) \in Nat /\ Len(requests') = Len(requests) + 2
          /\ requests'[Len(requests) + 1] = r /\ requests'[Len(requests) + 2].type = "sync"
      BY <2>9, SyncIsRequest DEF Sends, Grows
    <3>2. \A b \in Len(requests) + 1 .. Len(requests') : b = Len(requests) + 1 \/ b = Len(requests) + 2
      BY <3>1
    <3> QED BY <2>3, <3>1, <3>2
  <2>11. \A i \in n + 1 .. Len(stack) : i = n + 1
    BY <2>8
  <2>12. Kept /\ Mirror' /\ context' = context
    BY <1>1, SoundParts, UnchangedMirror DEF Proceeding
  <2> QED BY <1>4, <2>8, <2>10, <2>11, <2>12, SameNotified, PlainStep DEF Proceeding
<1>5. \/ stack' = Pop /\ requests' = requests
      \/ /\ Top.op = "ilm_layerCreateWithDimension"
         /\ Again(Absent, <<Request("create", Top.id)>>)
  BY ArrivedIs DEF EndChange
<1> QED BY <1>3, <1>4, <1>5

LEMMA GetterReturnsStep ==
    ASSUME Proceeding, GetterReturns
    PROVE  Sound'
<1>1. stack # <<>> /\ Top.pc = "return" /\ stack' = Pop /\ UNCHANGED <<mirror, requests>>
  BY DEF GetterReturns
<1> QED BY <1>1, PopStep

LEMMA ToListenerStep ==
    ASSUME Proceeding, ToListener
    PROVE  Sound'
<1>1. stack # <<>> /\ Top.op = "callback" /\ stack' = Pop /\ UNCHANGED <<mirror, requests>>
  BY DEF ToListener, ReturnTo, InCallback
<1> QED BY <1>1, PopStep

\* The layers listed before are those listed after, but for those taken out.
LEMMA SameHistory ==
    ASSUME Proceeding, requests' = requests, NEW H, History(H), Mirrored(H[0])',
           \A q \in ToSet(list_layer') : q \in ToSet(list_layer) /\ context'[q] = context[q],
           \A q : Withdrawn(q) => Withdrawn(q)'
    PROVE  Scene' /\ Mail' /\ History(H)'
<1>1. exists' = exists /\ synced' = synced /\ events' = events /\ Scene' /\ Mail'
  BY SoundParts DEF Proceeding, compositor, Scene, Mail
<1>2. Told(H)' /\ \A id : AllAlong(H, id)' => AllAlong(H, id)
  BY <1>1, ToldSame DEF History
<1>3. Informed(H)'
  <2> SUFFICES ASSUME NEW q \in ToSet(list_layer'), NEW id \in Layers, context'[q].id = id,
                      context'[q].notification, AllAlong(H, id)'
               PROVE  Withdrawn(q)' \/ Wanted(id)'
    BY DEF Informed
  <2>1. q \in ToSet(list_layer) /\ context[q].id = id /\ context[q].notification /\ AllAlong(H, id)
    BY <1>2
  <2>2. Withdrawn(q) \/ Wanted(id)
    BY <2>1 DEF History, Informed
  <2>3. Wanted(id) => Wanted(id)'
    BY <1>1 DEF Wanted, Removes
  <2> QED BY <2>2, <2>3
<1> QED BY <1>1, <1>2, <1>3 DEF History

LEMMA ToDestroyedListenerStep ==
    ASSUME Proceeding, ToDestroyedListener
    PROVE  Sound'
<1>1. stack # <<>> /\ Top.op = "callback" /\ Top.pc = "removed" /\ requests' = requests
  BY DEF ToDestroyedListener, ReturnTo, InCallback
<1>2. /\ Mirror /\ Listings /\ Stack /\ FramesSit /\ LayersLeave
      /\ ToSet(list_surface) \subseteq SurfacePtrs /\ ToSet(list_layer) \subseteq LayerPtrs
  BY SoundParts, ListsAre DEF Proceeding
<1>3. PICK n, p : n = Len(stack) - 1 /\ p = Top.ptr
  OBVIOUS
<1>4. n \in Nat /\ Len(stack) = n + 1 /\ Top = stack[n + 1] /\ Top \in Frames /\ FrameSound(Top)
      /\ n + 1 \in 1 .. Len(stack)
  BY <1>1, <1>2, <1>3, TopIs
<1>5. p \in Ptrs
  BY <1>1, <1>3, <1>4 DEF Frames, FrameSound, Points, Callbacks
<1>6. CASE context[p] = Absent
  <2>1. UNCHANGED <<mirror, stack>>
    BY <1>3, <1>6 DEF ToDestroyedListener, Use
  <2> QED BY <1>1, <2>1, StutterStep
<1>7. CASE context[p] # Absent
  <2>1. Unlinked(p) /\ context' = [context EXCEPT ![p] = Absent] /\ stack' = Pop
    BY <1>3, <1>7 DEF ToDestroyedListener, Use
  <2>2. /\ context' \in [Ptrs -> Contexts \cup {Absent}]
        /\ \A q \in Ptrs \ {p} : context'[q] = context[q]
    BY <1>2, <2>1 DEF Mirror
  <2>3. Dropped(p)
    BY <1>5, <2>1, <2>2 DEF Dropped
  <2>4. /\ Listings' /\ list_surface' \in Seq(SurfacePtrs) /\ list_layer' \in Seq(LayerPtrs)
        /\ ToSet(list_surface') = ToSet(list_surface) \ {p}
        /\ ToSet(list_layer') = ToSet(list_layer) \ {p}
        /\ \A q \in ToSet(list_surface') \cup ToSet(list_layer') : context'[q] = context[q]
    BY <1>2, <2>3, DroppedListings
  <2>5. p \notin ToSet(list_layer)
    <3>1. CASE p \in LayerPtrs
      <4>1. Leaving(n + 1) /\ stack[n + 1].ptr = p
        BY <1>1, <1>3, <1>4, <3>1 DEF Leaving
      <4> QED BY <1>2, <1>4, <4>1 DEF LayersLeave
    <3>2. CASE p \notin LayerPtrs
      BY <1>2, <3>2
    <3> QED BY <3>1, <3>2
  <2>6. Mirror' /\ ToSet(list_layer') = ToSet(list_layer)
    BY <2>2, <2>4, <2>5 DEF Mirror
  <2>7. Stands(n) /\ Settles(n)
    BY <1>1, <1>2, <1>4, <2>1, PopStands DEF Settles
  <2>8. /\ FramesSit' /\ Stack' /\ Stay(n) /\ Len(stack') \in Nat /\ Len(stack') >= n
        /\ \A i \in 1 .. Len(stack') : i <= n \/ stack'[i].pc # "removed"
        /\ \A q : Goes(q)' => Goes(q)
    BY <2>7, SettledFrames DEF Proceeding
  <2>9. LayersLeave'
    <3>1. ASSUME NEW i \in 1 .. n, Leaving(i)
          PROVE  context'[stack[i].ptr] # Absent /\ stack[i].ptr \notin ToSet(list_layer')
      <4>1. i \in 1 .. Len(stack) /\ i # n + 1 /\ stack[i].ptr \in Ptrs
        BY <1>4, <3>1, Kinds DEF Leaving
      <4>2. context[stack[i].ptr] # Absent /\ stack[i].ptr \notin ToSet(list_layer)
        BY <1>2, <3>1, <4>1 DEF LayersLeave
      <4>3. stack[i].ptr # p
        <5> SUFFICES ASSUME stack[i].ptr = p PROVE FALSE
          OBVIOUS
        <5>1. Leaving(n + 1) /\ stack[n + 1].ptr = stack[i].ptr
          BY <1>1, <1>3, <1>4, <3>1 DEF Leaving
        <5> QED BY <1>2, <1>4, <3>1, <4>1, <5>1 DEF LayersLeave
      <4> QED BY <2>2, <2>6, <4>1, <4>2, <4>3
    <3> QED BY <1>2, <2>8, <3>1, StillLeave
  <2>10. PICK H : History(H)
    BY DEF Proceeding, Sound
  <2>11. Mirrored(H[0])'
    <3>1. \A l \in Layers : l \in H[0] <=> \E q \in ToSet(list_layer') : context'[q].id = l
      BY <2>4, <2>6, <2>10 DEF History, Mirrored
    <3>2. ASSUME NEW s \in Surfaces \cap H[0], ~Lost(s)'
          PROVE  \E q \in ToSet(list_surface') : context'[q].id = s /\ ~Goes(q)'
      <4>1. PICK q \in ToSet(list_surface) : context[q].id = s /\ ~Goes(q)
        BY <2>10, <3>2 DEF History, Mirrored, Proceeding, Lost
      <4>2. Goes(p)
        BY <1>1, <1>3, <1>4 DEF Goes
      <4>3. q # p
        BY <4>1, <4>2
      <4> QED BY <2>4, <2>8, <4>1, <4>3
    <3> QED BY <3>1, <3>2 DEF Mirrored
  <2>12. \A q : Withdrawn(q) => Withdrawn(q)'
    <3>1. \A i \in n + 1 .. Len(stack) : stack[i].op # "ilm_removeNotification"
      BY <1>1, <1>4
    <3> QED BY <1>2, <2>8, <3>1, WithdrawnStays
  <2>13. \A q \in ToSet(list_layer') : q \in ToSet(list_layer) /\ context'[q] = context[q]
    BY <2>4
  <2>14. Scene' /\ Mail' /\ History(H)'
    BY <1>1, <2>10, <2>11, <2>12, <2>13, SameHistory
  <2> QED BY <2>4, <2>6, <2>8, <2>9, <2>14 DEF Sound, CTypes
<1> QED BY <1>6, <1>7

\* A step that ends a call or goes on with a callback, and changes no context.
LEMMA QuietStep ==
    ASSUME Proceeding, UNCHANGED <<mirror, requests>>, NEW n, Settles(n),
           \A i \in n + 1 .. Len(stack) : ~(stack[i].op = "ilm_removeNotification" /\ stack[i].pc = "reply")
    PROVE  Sound'
<1>1. Kept /\ Mirror' /\ context' = context
  BY SoundParts, UnchangedMirror DEF Proceeding
<1>2. Grows /\ \A b \in Len(requests) + 1 .. Len(requests') : FALSE
  BY SoundParts, NoneSent DEF Proceeding
<1> QED BY <1>1, <1>2, SameNotified, PlainStep DEF Proceeding

\* The loop ends, or calls back for a context further down the list.
LEMMA ToRegisterCases ==
    ASSUME ToRegister
    PROVE  \/ UNCHANGED <<mirror, stack>>
           \/ UNCHANGED mirror /\ stack' = Front(Pop)
           \/ /\ UNCHANGED mirror
              /\ \E i \in 2 .. Len(Listed) : stack' = Append(Pop, Callback("registered", Listed[i]))
<1>1. PICK later : later = {i \in 2 .. Len(Listed) : Listed[i - 1] = Top.ptr}
  OBVIOUS
<1>2. \/ UNCHANGED <<mirror, stack>>
      \/ /\ stack' = IF later = {} THEN Front(Pop)
                     ELSE Append(Pop, Callback("registered", Listed[CHOOSE i \in later : TRUE]))
         /\ UNCHANGED mirror
  BY <1>1 DEF ToRegister, Use
<1>3. PICK k : k = CHOOSE i \in later : TRUE
  OBVIOUS
<1>4. later # {} => k \in later
  BY <1>3
<1>5. later \subseteq 2 .. Len(Listed)
  BY <1>1
<1> QED BY <1>2, <1>3, <1>4, <1>5

LEMMA ToRegisterStep ==
    ASSUME Proceeding, ToRegister
    PROVE  Sound'
<1>1. stack # <<>> /\ Top.op = "callback" /\ Top.pc = "registered" /\ requests' = requests
  BY DEF ToRegister, ReturnTo, InCallback
<1>2. Mirror /\ Stack /\ FramesSit
  BY SoundParts DEF Proceeding
<1>3. PICK m : m = Len(stack)
  OBVIOUS
<1>4. m \in 1 .. m /\ Top = stack[m]
  BY <1>1, <1>2, <1>3, TopIs
<1>5. m > 1 /\ stack[m - 1].op = "ilm_registerNotification"
  <2>1. Sits(m)
    BY <1>2, <1>3, <1>4 DEF FramesSit
  <2> QED BY <1>1, <1>4, <2>1 DEF Sits
<1>6. CASE UNCHANGED <<mirror, stack>>
  BY <1>1, <1>6, StutterStep
<1>7. CASE UNCHANGED mirror /\ stack' = Front(Pop)
  <2>1. PICK n : n = m - 2
    OBVIOUS
  <2>2. n \in Nat /\ m = n + 2
    BY <1>4, <1>5, <2>1
  <2>3. Settles(n)
    BY <1>2, <1>3, <1>7, <2>2, PopTwoStands DEF Settles
  <2>4. \A i \in n + 1 .. Len(stack) : i = m \/ i = m - 1
    BY <1>3, <2>2
  <2> QED BY <1>1, <1>4, <1>5, <1>7, <2>3, <2>4, QuietStep
<1>8. CASE UNCHANGED mirror /\ \E i \in 2 .. Len(Listed) : stack' = Append(Pop, Callback("registered", Listed[i]))
  <2>1. PICK i \in 2 .. Len(Listed) : stack' = Append(Pop, Callback("registered", Listed[i]))
    BY <1>8
  <2>2. PICK p : p = Listed[i]
    OBVIOUS
  <2>3. p \in Ptrs
    BY <1>2, <2>1, <2>2, ListedIs
  <2>4. PICK f : f = Callback("registered", p)
    OBVIOUS
  <2>5. f \in Frames /\ FrameSound(f) /\ f.op = "callback" /\ f.pc = "registered"
    <3>1. "registered" \in Callbacks /\ p \in Ptrs \cup {Absent} /\ p # Absent
      BY <2>3, Kinds DEF Callbacks
    <3> QED BY <2>4, <3>1, CallbackIs
  <2>6. PICK n : n = m - 1
    OBVIOUS
  <2>7. n \in Nat /\ n > 0 /\ Len(stack) = n + 1 /\ stack[n].op = "ilm_registerNotification"
    BY <1>3, <1>4, <1>5, <2>6
  <2>8. stack' = Append(Pop, f)
    BY <2>1, <2>2, <2>4
  <2>9. StandsOn(n, f)
    BY <1>1, <1>2, <2>5, <2>7, <2>8, SwapStands
  <2>10. Fits(n, f)
    BY <2>5, <2>7 DEF Fits
  <2>11. Settles(n)
    BY <2>5, <2>9, <2>10 DEF Settles
  <2>12. \A j \in n + 1 .. Len(stack) : j = m
    BY <1>3, <2>7
  <2> QED BY <1>1, <1>4, <1>8, <2>11, <2>12, QuietStep
<1>9. \/ UNCHANGED <<mirror, stack>>
      \/ UNCHANGED mirror /\ stack' = Front(Pop)
      \/ UNCHANGED mirror /\ \E i \in 2 .. Len(Listed) : stack' = Append(Pop, Callback("registered", Listed[i]))
  BY ToRegisterCases
<1> QED BY <1>6, <1>7, <1>8, <1>9

\* A callback was told of a surface that has no context yet.
LEMMA AddSurfaceStep ==
    ASSUME Proceeding, requests' = requests, NEW n, Stands(n), NEW s \in Surfaces, NEW p \in FreePtrs(s),
           context' = [context EXCEPT ![p] = [Context(s) EXCEPT !.notification = TRUE]], Linked(s, p),
           \A i \in n + 1 .. Len(stack) : ~(stack[i].op = "ilm_removeNotification" /\ stack[i].pc = "reply")
    PROVE  Sound'
<1>1. s \in Ids /\ s \notin Layers
  BY Kinds
<1>2. Mirror /\ Listings /\ Stack /\ LayersLeave
  BY SoundParts DEF Proceeding
<1>3. p \in Ptrs /\ context[p] = Absent /\ p \in SurfacePtrs
  BY Kinds DEF FreePtrs
<1>4. PICK c : c = [Context(s) EXCEPT !.notification = TRUE]
  OBVIOUS
<1>5. c \in Contexts /\ c.id = s /\ c # Absent
  <2>1. PICK b : b = Context(s)
    OBVIOUS
  <2>2. b \in Contexts /\ b.id = s
    BY <1>1, <2>1, ContextIs
  <2>3. c \in Contexts /\ c.id = s
    BY <1>4, <2>1, <2>2 DEF Contexts
  <2> QED BY <2>3, Kinds
<1>6. /\ context' \in [Ptrs -> Contexts \cup {Absent}] /\ context'[p] = c
      /\ \A q \in Ptrs \ {p} : context'[q] = context[q]
  BY <1>2, <1>3, <1>4, <1>5 DEF Mirror
<1>7. Added(s, p)
  BY <1>1, <1>3, <1>5, <1>6 DEF Added, Linked
<1>8. /\ Listings' /\ list_surface' \in Seq(SurfacePtrs) /\ list_layer' \in Seq(LayerPtrs)
      /\ ToSet(list_surface') = ToSet(list_surface) \cup (IF s \in Surfaces THEN {p} ELSE {})
      /\ ToSet(list_layer') = ToSet(list_layer) \cup (IF s \in Layers THEN {p} ELSE {})
      /\ \A q \in ToSet(list_surface) \cup ToSet(list_layer) : q # p /\ context'[q] = context[q]
  BY <1>1, <1>2, <1>7, AddedListings
<1>9. ToSet(list_layer') = ToSet(list_layer) /\ ToSet(list_surface') = ToSet(list_surface) \cup {p}
  BY <1>1, <1>8
<1>10. Mirror'
  BY <1>6, <1>8 DEF Mirror
<1>11. Settles(n)
  BY DEF Settles
<1>12. /\ FramesSit' /\ Stack' /\ Stay(n) /\ Len(stack') \in Nat /\ Len(stack') >= n
       /\ \A i \in 1 .. Len(stack') : i <= n \/ stack'[i].pc # "removed"
       /\ \A q : Goes(q)' => Goes(q)
  BY <1>11, SettledFrames DEF Proceeding
<1>13. LayersLeave'
  <2>1. ASSUME NEW i \in 1 .. n, Leaving(i)
        PROVE  context'[stack[i].ptr] # Absent /\ stack[i].ptr \notin ToSet(list_layer')
    <3>1. n <= Len(stack) /\ n \in Nat /\ Len(stack) \in Nat
      BY <1>2, <1>12, StackIs DEF Stay
    <3>2. i \in 1 .. Len(stack) /\ stack[i].ptr \in Ptrs
      BY <2>1, <3>1, Kinds DEF Leaving
    <3>3. context[stack[i].ptr] # Absent /\ stack[i].ptr \notin ToSet(list_layer)
      BY <1>2, <2>1, <3>2 DEF LayersLeave
    <3>4. stack[i].ptr # p
      BY <1>3, <3>3
    <3> QED BY <1>6, <1>9, <3>2, <3>3, <3>4
  <2> QED BY <1>2, <1>12, <2>1, StillLeave
<1>14. PICK H : History(H)
  BY DEF Proceeding, Sound
<1>15. Mirrored(H[0])'
  <2>1. \A l \in Layers : l \in H[0] <=> \E q \in ToSet(list_layer') : context'[q].id = l
    BY <1>8, <1>9, <1>14 DEF History, Mirrored
  <2>2. ASSUME NEW t \in Surfaces \cap H[0], ~Lost(t)'
        PROVE  \E q \in ToSet(list_surface') : context'[q].id = t /\ ~Goes(q)'
    <3>1. PICK q \in ToSet(list_surface) : context[q].id = t /\ ~Goes(q)
      BY <1>14, <2>2 DEF History, Mirrored, Proceeding, Lost
    <3> QED BY <1>8, <1>9, <1>12, <3>1
  <2> QED BY <2>1, <2>2 DEF Mirrored
<1>16. \A q : Withdrawn(q) => Withdrawn(q)'
  BY <1>2, <1>12, WithdrawnStays
<1>17. \A q \in ToSet(list_layer') : q \in ToSet(list_layer) /\ context'[q] = context[q]
  BY <1>8, <1>9
<1>18. Scene' /\ Mail' /\ History(H)'
  BY <1>14, <1>15, <1>16, <1>17, SameHistory
<1> QED BY <1>8, <1>10, <1>12, <1>13, <1>18 DEF Sound, CTypes

LEMMA ToAddStep ==
    ASSUME Proceeding, ToAdd
    PROVE  Sound'
<1>1. stack # <<>> /\ Top.op = "callback" /\ Top.pc = "added" /\ requests' = requests
  BY DEF ToAdd, ReturnTo, InCallback
<1>2. Mirror /\ Stack /\ FramesSit
  BY SoundParts DEF Proceeding
<1>3. PICK m, p : m = Len(stack) /\ p = Top.ptr
  OBVIOUS
<1>4. m \in 1 .. m /\ Top = stack[m]
  BY <1>1, <1>2, <1>3, TopIs
<1>5. /\ m > 1 /\ stack[m - 1].op = "ilm_addNotification" /\ stack[m - 1].id \in Surfaces
      /\ p \in SurfacePtrs \cup {Absent}
  <2>1. Sits(m)
    BY <1>2, <1>3, <1>4 DEF FramesSit
  <2> QED BY <1>1, <1>3, <1>4, <2>1 DEF Sits
<1>6. PICK n : n = m - 2
  OBVIOUS
<1>7. n \in Nat /\ m = n + 2
  BY <1>4, <1>5, <1>6
<1>8. ASSUME stack' = Front(Pop) PROVE Stands(n) /\ Settles(n)
  BY <1>2, <1>3, <1>7, <1>8, PopTwoStands DEF Settles
<1>9. \A i \in n + 1 .. Len(stack) : ~(stack[i].op = "ilm_removeNotification" /\ stack[i].pc = "reply")
  <2>1. \A i \in n + 1 .. Len(stack) : i = m \/ i = m - 1
    BY <1>3, <1>7
  <2> QED BY <1>1, <1>4, <1>5, <2>1
<1>10. CASE p = Absent
  <2>1. PICK s : s = stack[m - 1].id
    OBVIOUS
  <2>2. s = Last(Pop).id
    BY <1>1, <1>2, <1>3, <1>5, <2>1, TopIs
  <2>3. PICK q \in FreePtrs(s) :
           /\ context' = [context EXCEPT ![q] = [Context(s) EXCEPT !.notification = TRUE]]
           /\ Linked(s, q)
    BY <1>3, <1>10, <2>2 DEF ToAdd
  <2>4. stack' = Front(Pop)
    BY <1>3, <1>10 DEF ToAdd
  <2> QED BY <1>1, <1>5, <1>8, <1>9, <2>1, <2>3, <2>4, AddSurfaceStep
<1>11. CASE p # Absent /\ context[p] = Absent
  <2>1. UNCHANGED <<mirror, stack>>
    BY <1>3, <1>11 DEF ToAdd, Use
  <2> QED BY <1>1, <2>1, StutterStep
<1>12. CASE p # Absent /\ context[p] # Absent
  <2>1. SetNotification(p, TRUE) /\ stack' = Front(Pop)
    BY <1>3, <1>12 DEF ToAdd, Use
  <2>2. p \in Ptrs /\ p \in SurfacePtrs /\ context[p] \in Contexts
    BY <1>2, <1>5, <1>12, Kinds DEF Mirror
  <2>3. PICK c : c = [context[p] EXCEPT !.notification = TRUE]
    OBVIOUS
  <2>4. c \in Contexts /\ c.id = context[p].id
    BY <2>2, <2>3 DEF Contexts
  <2>5. context' = [context EXCEPT ![p] = c] /\ UNCHANGED <<list_surface, list_layer>>
    BY <2>1, <2>3 DEF SetNotification
  <2>6. Kept /\ Mirror' /\ \A q \in Ptrs \ {p} : context'[q] = context[q]
    BY <1>2, <1>12, <2>2, <2>4, <2>5, ContextSet
  <2>7. \A q \in ToSet(list_layer) : context'[q].notification => context[q].notification
    BY <1>2, <2>2, <2>6, ListsAre, Kinds
  <2>8. Grows /\ \A b \in Len(requests) + 1 .. Len(requests') : FALSE
    BY <1>1, SoundParts, NoneSent DEF Proceeding
  <2> QED BY <1>8, <1>9, <2>1, <2>6, <2>7, <2>8, PlainStep DEF Proceeding
<1> QED BY <1>10, <1>11, <1>12

LEMMA ProceedStep ==
    ASSUME Sound, Proceed
    PROVE  Sound'
<1>1. Proceeding
  BY DEF Proceed, Proceeding
<1>2. CASE CallbackReturns
  BY <1>1, <1>2, ToListenerStep, ToDestroyedListenerStep, ToRegisterStep, ToAddStep DEF CallbackReturns
<1>3. CASE ~CallbackReturns
  BY <1>1, <1>3, EndGetIDsStep, EndGetPropertiesStep, EndGetSurfaceIDsOnLayerStep, FindForAddStep,
     EndAddStep, FindForRemoveStep, EndRemoveStep, EndRegisterStep, EndChangeStep, GetterReturnsStep
     DEF Proceed
<1> QED BY <1>2, <1>3

-----------------------------------------------------------------------------
(* The invariant holds.                                                    *)

LEMMA EmptyIs ==
    ASSUME NEW q, q = <<>>
    PROVE  Len(q) = 0 /\ ToSet(q) = {} /\ Once(q) /\ \A P : q \in Seq(P)
<1>1. Len(q) = 0 /\ \A P : q \in Seq(P)
  OBVIOUS
<1>2. Once(q)
  BY <1>1 DEF Once
<1>3. q \in Seq(Nat)
  BY <1>1
<1>4. \A x \in ToSet(q) : \E i \in 1 .. Len(q) : x = q[i]
  BY <1>3, SetOf
<1> QED BY <1>1, <1>2, <1>4

LEMMA InitSound ==
    ASSUME Init
    PROVE  Sound
<1>1. /\ requests = <<>> /\ events = <<>> /\ list_surface = <<>> /\ list_layer = <<>> /\ stack = <<>>
      /\ exists = {}
  BY DEF Init
<1>2. Len(requests) = 0 /\ Len(events) = 0 /\ Len(stack) = 0
  BY <1>1, EmptyIs
<1>3. ToSet(list_surface) = {} /\ ToSet(list_layer) = {} /\ Once(list_surface) /\ Once(list_layer)
  BY <1>1, EmptyIs
<1>4. Scene
  <2>1. prop \in [Ids -> Props] /\ synced \in [Ids -> Nat]
    BY ControlAssumption DEF Init
  <2>2. PICK q : q = <<>>
    OBVIOUS
  <2>3. q \in Seq(Surfaces)
    BY <2>2
  <2>4. on_layer = [l \in Layers |-> q]
    BY <2>2 DEF Init
  <2>5. on_layer \in [Layers -> Seq(Surfaces)]
    BY <2>3, <2>4
  <2> QED BY <1>1, <2>1, <2>5 DEF Scene
<1>5. Mail
  BY <1>1, EmptyIs DEF Mail
<1>6. Mirror
  <2>1. context \in [Ptrs -> Contexts \cup {Absent}]
    BY DEF Init
  <2>2. list_surface \in Seq(SurfacePtrs) /\ list_layer \in Seq(LayerPtrs)
    BY <1>1, EmptyIs
  <2> QED BY <2>1, <2>2 DEF Mirror
<1>7. Stack
  <2>1. stack \in Seq(Frames)
    BY <1>1, EmptyIs
  <2> QED BY <1>2, <2>1 DEF Stack
<1>8. FramesSit /\ LayersLeave
  BY <1>2 DEF FramesSit, LayersLeave
<1>9. Listings
  BY <1>3 DEF Listings, Surfaced, Layered, Single
<1>10. \E H : History(H)
  <2>1. PICK H : H = [k \in 0 .. 0 |-> {}]
    OBVIOUS
  <2>2. H \in [0 .. 0 -> SUBSET Ids] /\ H[0] = {}
    BY <2>1
  <2>3. Told(H)
    BY <1>1, <1>2, <2>2 DEF Told
  <2>4. Mirrored(H[0])
    BY <1>3, <2>2 DEF Mirrored
  <2>5. Informed(H)
    BY <1>3 DEF Informed
  <2> QED BY <2>3, <2>4, <2>5 DEF History
<1> QED BY <1>4, <1>5, <1>6, <1>7, <1>8, <1>9, <1>10 DEF Sound, CTypes

LEMMA NextSound ==
    ASSUME Sound, [Next]_vars
    PROVE  Sound'
<1>1. CASE Next
  BY <1>1, OthersStep, HandleStep, BeginStep, DispatchStep, ProceedStep DEF Next
<1>2. CASE UNCHANGED vars
  <2>1. Proceeding /\ UNCHANGED <<mirror, stack, requests>>
    BY <1>2 DEF vars, Proceeding
  <2> QED BY <2>1, StutterStep
<1> QED BY <1>1, <1>2

\* The types of the model, what the frames of callbacks sit on, what the lists
\* hold and that they are what the client was told of, for every number of
\* objects, addresses, calls and nested callbacks.
THEOREM MirrorAlwaysSound == Spec => []Sound
<1>1. Spec => Sound
  BY InitSound DEF Spec
<1>2. Sound /\ [Next]_vars => Sound'
  BY NextSound
<1> QED BY <1>1, <1>2, PTL DEF Spec

\* wm_listener_layer_created and its like: with the events on their way, the
\* mirror has every surface, and exactly the layers, of the compositor, whatever
\* the callbacks call; a surface is missed only if it was created when what was
\* listed for it was the context of a removed one, whose callback was running.
THEOREM MirrorAlwaysCatchesUp == Spec => []MirrorCatchesUp
<1>1. Sound => MirrorCatchesUp
  BY CatchesUp DEF Sound, History
<1> QED BY <1>1, MirrorAlwaysSound, PTL

\* ilm_layerAddNotification and ilm_layerRemoveNotification: when all that was
\* sent is handled the compositor keeps the client informed of each listed layer
\* that has a callback, whatever the callbacks call.
THEOREM LayersAlwaysInformed == Spec => []LayersInformed
<1>1. Sound => LayersInformed
  BY AllInformed DEF Sound, History
<1> QED BY <1>1, MirrorAlwaysSound, PTL

-----------------------------------------------------------------------------
(* What the getters are answered.                                          *)

\* The callbacks of removed and of added objects do not call the library.
Careful == "removed" \notin CallIn /\ "added" \notin CallIn

\* The objects whose contexts show them, and those contexts.
Followed == IF Careful THEN Ids ELSE Layers
Tracked  == ToSet(list_layer) \cup (IF Careful THEN ToSet(list_surface) ELSE {})

Unique == \A p, q \in Tracked : context[p].id = context[q].id => p = q

\* While the callback of a surface without a context is told so, it has none.
AwaitsContext ==
    \A n \in 2 .. Len(stack) :
        Careful /\ n = Len(stack) /\ stack[n].pc = "added" /\ stack[n].ptr = Absent
            => \A p \in ToSet(list_surface) : context[p].id # stack[n - 1].id

\* The call a callback is for has had its answer.
Rests(i) == stack[i].pc \in {"registered", "added"} => i > 1 /\ stack[i - 1].done
Rested   == \A i \in 1 .. Len(stack) : Rests(i)

\* Each call that waits has one request or event that ends its roundtrip, and
\* nobody else has one.
Open(i)      == i \in 1 .. Len(stack) /\ stack[i].pc \in Waits /\ ~stack[i].done
SyncAt(s, i) == requests[s].type = "sync" /\ requests[s].value = i
DoneAt(j, i) == events[j].type = "done" /\ events[j].value = i
Ends(i) ==
    /\ \A s \in 1 .. Len(requests) : SyncAt(s, i) => Open(i)
    /\ \A j \in 1 .. Len(events) : DoneAt(j, i) => Open(i)
    /\ \A s, t \in 1 .. Len(requests) : SyncAt(s, i) /\ SyncAt(t, i) => s = t
    /\ \A j, k \in 1 .. Len(events) : DoneAt(j, i) /\ DoneAt(k, i) => j = k
    /\ \A s \in 1 .. Len(requests), j \in 1 .. Len(events) : ~(SyncAt(s, i) /\ DoneAt(j, i))
Outstanding == \A i \in Nat : Ends(i)

\* What the client knows of an object: nothing, that it exists, or a property.
\* An event e turns what it knows, A, into B.
Looks == Props \cup {Zero, Absent}

Recount(e, A, B) ==
    \A id \in Ids :
        IF e.id = id /\ e.type \in Changes
        THEN \/ e.type = "created" /\ A[id] = Absent /\ B[id] = Zero
             \/ e.type = "destroyed" /\ A[id] # Absent /\ B[id] = Absent
             \/ e.type = "prop" /\ A[id] # Absent /\ B[id] = e.value
        ELSE B[id] = A[id]

\* M[k] is what the client knows after k of the events on their way.
Recounts(M) ==
    /\ M \in [0 .. Len(events) -> [Ids -> Looks]]
    /\ \A id \in Ids : M[Len(events)][id] # Absent <=> id \in exists
    /\ \A k \in 1 .. Len(events) : Recount(events[k], M[k - 1], M[k])

\* The contexts show A.
Shown(v) == IF v = Absent THEN Zero ELSE v
Shows(A) == \A p \in Tracked : ~Goes(p) => context[p].prop = Shown(A[context[p].id])

\* What the getter f would return, and whether it may.
View(f, A)  == IF f.op = "ilm_getLayerIDs" THEN {l \in Layers : A[l] # Absent} ELSE A[f.id]
Suits(f, v) == v \in f.answers \/ (v = Zero /\ Absent \in f.answers)
Getter(f)   == f.op = "ilm_getLayerIDs" \/ (f.op = "ilm_getProperties" /\ f.id \in Followed)

\* The getter at depth i may return what it finds when the client knows A.
SuitsAt(i, A) == Suits(stack[i], View(stack[i], A))

\* The answer the compositor would give it now is among its answers.
Current(i) == AnswerIn(stack[i], exists, prop, on_layer) \in stack[i].answers

\* A request for the properties is handled before the request s.
Asked(i, s) ==
    /\ stack[i].op = "ilm_getProperties"
    /\ \E g \in 1 .. s : requests[g].type = "get" /\ requests[g].id = stack[i].id

\* All that the client is going to know when the roundtrip of a getter is over
\* suits it, and so does what it returns.
Claim(i, M) ==
    Getter(stack[i]) =>
        /\ stack[i].pc \in Waits => Current(i)
        /\ stack[i].pc \in Waits /\ stack[i].done => \A k \in 0 .. Len(events) : SuitsAt(i, M[k])
        /\ \A j \in 1 .. Len(events) : DoneAt(j, i) => \A k \in j .. Len(events) : SuitsAt(i, M[k])
        /\ \A s \in 1 .. Len(requests) : SyncAt(s, i) => Asked(i, s) \/ SuitsAt(i, M[Len(events)])
        /\ stack[i].pc = "return" => Suits(stack[i], stack[i].value)

Account(M) == Recounts(M) /\ Shows(M[0]) /\ \A i \in 1 .. Len(stack) : Claim(i, M)

Prompt == Unique /\ AwaitsContext /\ Rested /\ Outstanding /\ \E M : Account(M)

-----------------------------------------------------------------------------
(* What the client is told of is told once.                                *)

LEMMA ToldOnce ==
    ASSUME Mail, NEW H, Told(H), NEW G, Told(G)
    PROVE  \A k \in 0 .. Len(events) : H[k] = G[k]
<1>1. PICK n : n = Len(events) /\ n \in Nat
  BY DEF Mail
<1>2. /\ H[n] = G[n]
      /\ \A k \in 1 .. n : Step(events[k], H[k - 1], H[k]) /\ Step(events[k], G[k - 1], G[k])
      /\ \A k \in 0 .. n : H[k] \subseteq Ids /\ G[k] \subseteq Ids
  BY <1>1 DEF Told
<1> DEFINE S == {m \in Nat : m <= n /\ H[n - m] # G[n - m]}
<1>3. SUFFICES ASSUME S # {} PROVE FALSE
  <2> SUFFICES ASSUME NEW k \in 0 .. n, H[k] # G[k] PROVE S # {}
    BY <1>1
  <2>1. n - k \in Nat /\ n - k <= n /\ n - (n - k) = k
    BY <1>1
  <2> QED BY <2>1
<1>4. PICK m \in S : \A k \in S : m <= k
  <2>1. S \subseteq Nat
    OBVIOUS
  <2> HIDE DEF S
  <2> QED BY <1>3, <2>1, LeastNatural
<1>5. m \in Nat /\ m <= n /\ H[n - m] # G[n - m] /\ m # 0
  BY <1>1, <1>2, <1>4
<1>6. m - 1 \in Nat /\ m - 1 <= n /\ ~(m <= m - 1)
  BY <1>1, <1>5
<1>7. H[n - (m - 1)] = G[n - (m - 1)]
  BY <1>4, <1>6
<1>8. PICK k : k = n - m /\ k \in 0 .. n /\ k + 1 \in 1 .. n /\ k + 1 = n - (m - 1) /\ (k + 1) - 1 = k
  BY <1>1, <1>5
<1>9. /\ H[k] # G[k] /\ H[k + 1] = G[k + 1]
      /\ Step(events[k + 1], H[k], H[k + 1]) /\ Step(events[k + 1], G[k], G[k + 1])
  BY <1>2, <1>5, <1>7, <1>8
<1> HIDE DEF S
<1> QED BY <1>9 DEF Step

LEMMA RecountIsStep ==
    ASSUME NEW e \in Events, NEW A \in [Ids -> Looks], NEW B \in [Ids -> Looks], Recount(e, A, B),
           NEW H, NEW G, H = {id \in Ids : A[id] # Absent}, G = {id \in Ids : B[id] # Absent}
    PROVE  Step(e, H, G)
<1>1. /\ e.type \in {"created", "destroyed", "prop", "order", "done"}
      /\ e.type \in {"created", "destroyed", "prop"} => e.id \in Ids
      /\ e.type = "prop" => e.value \in Props
  BY EventKinds
<1>2. Zero # Absent /\ Absent \notin Props
  BY ControlAssumption
<1>3. CASE e.type = "created"
  <2>1. A[e.id] = Absent /\ B[e.id] # Absent /\ \A id \in Ids : id # e.id => B[id] = A[id]
    BY <1>1, <1>2, <1>3 DEF Recount, Changes
  <2> QED BY <1>1, <1>3, <2>1 DEF Step
<1>4. CASE e.type = "destroyed"
  <2>1. A[e.id] # Absent /\ B[e.id] = Absent /\ \A id \in Ids : id # e.id => B[id] = A[id]
    BY <1>1, <1>2, <1>4 DEF Recount, Changes
  <2> QED BY <1>1, <1>4, <2>1 DEF Step
<1>5. CASE e.type \in {"prop", "order", "done"}
  <2>1. \A id \in Ids : B[id] # Absent <=> A[id] # Absent
    BY <1>1, <1>2, <1>5 DEF Recount, Changes
  <2> QED BY <1>5, <2>1 DEF Step
<1> QED BY <1>1, <1>3, <1>4, <1>5

LEMMA RecountsTold ==
    ASSUME Mail, Scene, NEW M, Recounts(M)
    PROVE  \E H : Told(H) /\ \A k \in 0 .. Len(events) : H[k] = {id \in Ids : M[k][id] # Absent}
<1>1. PICK n : n = Len(events) /\ n \in Nat
  BY DEF Mail
<1>2. PICK H : H = [k \in 0 .. n |-> {id \in Ids : M[k][id] # Absent}]
  OBVIOUS
<1>3. H \in [0 .. n -> SUBSET Ids] /\ \A k \in 0 .. n : H[k] = {id \in Ids : M[k][id] # Absent}
  BY <1>2
<1>4. H[n] = exists
  <2>1. H[n] = {id \in Ids : M[n][id] # Absent} /\ exists \subseteq Ids
    BY <1>1, <1>3 DEF Scene
  <2>2. \A id \in Ids : M[n][id] # Absent <=> id \in exists
    BY <1>1 DEF Recounts
  <2> QED BY <2>1, <2>2
<1>5. ASSUME NEW k \in 1 .. n PROVE Step(events[k], H[k - 1], H[k])
  <2>1. k \in 0 .. n /\ k - 1 \in 0 .. n /\ events[k] \in Events
    BY <1>1 DEF Mail
  <2>2. M[k - 1] \in [Ids -> Looks] /\ M[k] \in [Ids -> Looks] /\ Recount(events[k], M[k - 1], M[k])
    BY <1>1, <2>1 DEF Recounts
  <2> QED BY <1>3, <2>1, <2>2, RecountIsStep
<1> QED BY <1>1, <1>3, <1>4, <1>5 DEF Told

\* The lists show what the client knows.
LEMMA KnownIs ==
    ASSUME Sound, NEW M, Recounts(M)
    PROVE  /\ \A l \in Layers : M[0][l] # Absent <=> \E p \in ToSet(list_layer) : context[p].id = l
           /\ Careful => \A s \in Surfaces : M[0][s] # Absent =>
                 \E p \in ToSet(list_surface) : context[p].id = s /\ ~Goes(p)
<1>1. PICK H : Told(H) /\ Mirrored(H[0])
  BY DEF Sound, History
<1>2. PICK G : Told(G) /\ \A k \in 0 .. Len(events) : G[k] = {id \in Ids : M[k][id] # Absent}
  BY SoundParts, RecountsTold
<1>3. 0 \in 0 .. Len(events)
  BY SoundParts DEF Mail
<1>4. H[0] = {id \in Ids : M[0][id] # Absent}
  BY <1>1, <1>2, <1>3, SoundParts, ToldOnce
<1>5. \A id \in Ids : id \in H[0] <=> M[0][id] # Absent
  BY <1>4
<1> QED BY <1>1, <1>5, Kinds DEF Mirrored, Careful, Lost

-----------------------------------------------------------------------------
(* What the getters are answered, when the compositor does a step.         *)

\* The frames are of the same calls, and know what the compositor would answer.
Seen ==
    /\ Len(stack') = Len(stack)
    /\ \A i \in 1 .. Len(stack) : Same(stack[i], stack'[i]) /\ (Current(i) => Current(i)')

LEMMA SeenIs ==
    ASSUME Stack, Observed \/ Unobserved
    PROVE  Seen
<1>1. CASE Observed
  BY <1>1 DEF Observed, Seen, Current
<1>2. CASE Unobserved
  <2>1. stack' = stack /\ exists' = exists /\ prop' = prop /\ on_layer' = on_layer
    BY <1>2 DEF Unobserved
  <2>2. \A i \in 1 .. Len(stack) : Same(stack[i], stack'[i])
    BY <2>1 DEF Same
  <2>3. \A i \in 1 .. Len(stack) : Current(i) => Current(i)'
    BY <2>1 DEF Current
  <2> QED BY <2>1, <2>2, <2>3 DEF Seen
<1> QED BY <1>1, <1>2

\* What the client is going to know when the event e is sent.
LEMMA RecountNext ==
    ASSUME NEW e \in Events, Effect(e), NEW A \in [Ids -> Looks],
           \A id \in Ids : A[id] # Absent <=> id \in exists
    PROVE  \E B \in [Ids -> Looks] : /\ Recount(e, A, B)
                                     /\ \A id \in Ids : B[id] # Absent <=> id \in exists'
<1>1. /\ e.type \in {"created", "destroyed", "prop", "order", "done"}
      /\ e.type \in {"created", "destroyed", "prop"} => e.id \in Ids
      /\ e.type = "prop" => e.value \in Props
  BY EventKinds
<1>2. Zero # Absent /\ Absent \notin Props
  BY ControlAssumption
<1>3. PICK v : v = CASE e.type = "created" -> Zero [] e.type = "destroyed" -> Absent [] OTHER -> e.value
  OBVIOUS
<1>4. /\ e.type = "created" => v = Zero
      /\ e.type = "destroyed" => v = Absent
      /\ e.type = "prop" => v = e.value
  BY <1>3
<1>5. PICK B : B = [id \in Ids |-> IF e.id = id /\ e.type \in Changes THEN v ELSE A[id]]
  OBVIOUS
<1>6. e.type \in Changes => v \in Looks
  BY <1>1, <1>4 DEF Changes, Looks
<1>7. B \in [Ids -> Looks] /\ \A id \in Ids : B[id] = IF e.id = id /\ e.type \in Changes THEN v ELSE A[id]
  BY <1>5, <1>6
<1>8. /\ e.type = "created" => e.id \notin exists /\ exists' = exists \cup {e.id}
      /\ e.type = "destroyed" => e.id \in exists /\ exists' = exists \ {e.id}
      /\ e.type = "prop" => e.id \in exists /\ exists' = exists
      /\ e.type \in {"order", "done"} => exists' = exists
  BY DEF Effect
<1>9. ASSUME NEW id \in Ids
      PROVE  /\ IF e.id = id /\ e.type \in Changes
                THEN \/ e.type = "created" /\ A[id] = Absent /\ B[id] = Zero
                     \/ e.type = "destroyed" /\ A[id] # Absent /\ B[id] = Absent
                     \/ e.type = "prop" /\ A[id] # Absent /\ B[id] = e.value
                ELSE B[id] = A[id]
             /\ B[id] # Absent <=> id \in exists'
  <2>1. CASE e.id = id /\ e.type \in Changes
    BY <1>1, <1>2, <1>4, <1>7, <1>8, <2>1 DEF Changes
  <2>2. CASE ~(e.id = id /\ e.type \in Changes)
    BY <1>1, <1>7, <1>8, <2>2 DEF Changes
  <2> QED BY <2>1, <2>2
<1> QED BY <1>7, <1>9 DEF Recount

LEMMA RecountsMore ==
    ASSUME Mail, NEW M, Recounts(M), NEW e \in Events, events' = Append(events, e), Effect(e),
           NEW n, n = Len(events)
    PROVE  \E N : /\ Recounts(N)' /\ (\A k \in 0 .. n : N[k] = M[k])
                  /\ Recount(e, M[n], N[n + 1])
                  /\ \A id \in Ids : N[n + 1][id] # Absent <=> id \in exists'
<1>1. /\ n \in Nat /\ Len(events') = n + 1 /\ events'[n + 1] = e
      /\ \A k \in 1 .. n : events'[k] = events[k]
  BY AppendIs DEF Mail
<1>2. /\ M \in [0 .. n -> [Ids -> Looks]] /\ (\A id \in Ids : M[n][id] # Absent <=> id \in exists)
      /\ \A k \in 1 .. n : Recount(events[k], M[k - 1], M[k])
  BY DEF Recounts
<1>3. M[n] \in [Ids -> Looks]
  BY <1>1, <1>2
<1>4. PICK B \in [Ids -> Looks] : /\ Recount(e, M[n], B)
                                  /\ \A id \in Ids : B[id] # Absent <=> id \in exists'
  <2>1. PICK A : A = M[n]
    OBVIOUS
  <2>2. A \in [Ids -> Looks] /\ \A id \in Ids : A[id] # Absent <=> id \in exists
    BY <1>2, <1>3, <2>1
  <2> QED BY <2>1, <2>2, RecountNext
<1>5. PICK N : N = [k \in 0 .. n + 1 |-> IF k = n + 1 THEN B ELSE M[k]]
  OBVIOUS
<1>6. N[n + 1] = B /\ \A k \in 0 .. n : N[k] = M[k]
  BY <1>1, <1>5
<1>7. N \in [0 .. n + 1 -> [Ids -> Looks]]
  BY <1>1, <1>2, <1>5
<1>8. ASSUME NEW k \in 1 .. n + 1 PROVE Recount(events'[k], N[k - 1], N[k])
  <2>1. CASE k = n + 1
    <3>1. k - 1 = n /\ n \in 0 .. n
      BY <1>1, <2>1
    <3> QED BY <1>1, <1>4, <1>6, <2>1, <3>1
  <2>2. CASE k # n + 1
    <3>1. k \in 1 .. n /\ k \in 0 .. n /\ k - 1 \in 0 .. n
      BY <1>1, <2>2
    <3> QED BY <1>1, <1>2, <1>6, <3>1
  <2> QED BY <2>1, <2>2
<1>9. Recounts(N)'
  BY <1>1, <1>4, <1>6, <1>7, <1>8 DEF Recounts
<1>10. Recount(e, M[n], N[n + 1]) /\ \A id \in Ids : N[n + 1][id] # Absent <=> id \in exists'
  BY <1>4, <1>6
<1> QED BY <1>6, <1>9, <1>10

\* A getter may return what it is going to find when one more event is sent.
LEMMA NewView ==
    ASSUME NEW e \in Events, Effect(e), NEW A, NEW B, Recount(e, A, B), NEW i, Scene',
           \A id \in Ids : B[id] # Absent <=> id \in exists',
           Getter(stack[i])', Current(i)', SuitsAt(i, A)'
    PROVE  SuitsAt(i, B)'
<1>1. PICK f : f = stack'[i]
  OBVIOUS
<1>2. Followed \subseteq Ids /\ Layers \subseteq Ids
  BY Kinds DEF Followed
<1>3. AnswerIn(f, exists', prop', on_layer') \in f.answers /\ Suits(f, View(f, A))
  BY <1>1 DEF Current, SuitsAt
<1>4. CASE f.op = "ilm_getLayerIDs"
  <2>1. View(f, B) = {l \in Layers : B[l] # Absent}
    BY <1>4 DEF View
  <2>2. {l \in Layers : B[l] # Absent} = exists' \cap Layers
    BY <1>2
  <2>3. AnswerIn(f, exists', prop', on_layer') = exists' \cap Layers
    BY <1>4 DEF AnswerIn
  <2>4. Suits(f, View(f, B))
    BY <1>3, <2>1, <2>2, <2>3 DEF Suits
  <2> QED BY <1>1, <2>4 DEF SuitsAt
<1>5. CASE f.op = "ilm_getProperties" /\ f.id \in Followed
  <2>1. View(f, A) = A[f.id] /\ View(f, B) = B[f.id] /\ f.id \in Ids
    BY <1>2, <1>5 DEF View
  <2>2. AnswerIn(f, exists', prop', on_layer') = IF f.id \in exists' THEN prop'[f.id] ELSE Absent
    BY <1>5 DEF AnswerIn
  <2>3. Zero # Absent
    BY ControlAssumption
  <2>4. Suits(f, A[f.id])
    BY <1>3, <2>1
  <2>5. CASE ~(e.id = f.id /\ e.type \in Changes)
    <3>1. B[f.id] = A[f.id]
      BY <2>1, <2>5 DEF Recount
    <3>2. Suits(f, View(f, B))
      BY <2>1, <2>4, <3>1
    <3> QED BY <1>1, <3>2 DEF SuitsAt
  <2>6. CASE e.id = f.id /\ e.type \in Changes
    <3>1. \/ e.type = "created" /\ A[f.id] = Absent /\ B[f.id] = Zero
          \/ e.type = "destroyed" /\ A[f.id] # Absent /\ B[f.id] = Absent
          \/ e.type = "prop" /\ A[f.id] # Absent /\ B[f.id] = e.value
      BY <2>1, <2>6 DEF Recount
    <3>2. ASSUME A[f.id] = Absent, B[f.id] = Zero PROVE Suits(f, B[f.id])
      BY <2>3, <2>4, <3>2 DEF Suits
    <3>3. ASSUME B[f.id] = Absent PROVE Suits(f, B[f.id])
      <4>1. f.id \notin exists'
        BY <2>1, <3>3
      <4> QED BY <1>3, <2>2, <3>3, <4>1 DEF Suits
    <3>4. ASSUME e.type = "prop", B[f.id] = e.value PROVE Suits(f, B[f.id])
      <4>1. f.id \in exists' /\ prop'[f.id] = e.value
        BY <2>6, <3>4 DEF Effect
      <4> QED BY <1>3, <2>2, <3>4, <4>1 DEF Suits
    <3>5. Suits(f, B[f.id])
      BY <3>1, <3>2, <3>3, <3>4
    <3>6. Suits(f, View(f, B))
      BY <2>1, <3>5
    <3> QED BY <1>1, <3>6 DEF SuitsAt
  <2> QED BY <2>5, <2>6
<1>6. f.op = "ilm_getLayerIDs" \/ (f.op = "ilm_getProperties" /\ f.id \in Followed)
  BY <1>1 DEF Getter, Followed
<1> QED BY <1>4, <1>5, <1>6

\* What suits a getter goes on to suit it.
LEMMA SuitsOn ==
    ASSUME NEW i, Same(stack[i], stack'[i]), NEW A, SuitsAt(i, A)
    PROVE  SuitsAt(i, A)'
<1>1. PICK f, g : f = stack[i] /\ g = stack'[i]
  OBVIOUS
<1>2. g.op = f.op /\ g.id = f.id /\ f.answers \subseteq g.answers
  BY <1>1 DEF Same
<1>3. View(g, A) = View(f, A)
  BY <1>2 DEF View
<1>4. Suits(g, View(g, A))
  <2>1. Suits(f, View(f, A))
    BY <1>1 DEF SuitsAt
  <2> QED BY <1>2, <1>3, <2>1 DEF Suits
<1> QED BY <1>1, <1>4 DEF SuitsAt

LEMMA FarClaim ==
    ASSUME Seen, NEW i \in 1 .. Len(stack), NEW M, Claim(i, M), NEW N,
           NEW n \in Nat, n = Len(events), NEW m \in Nat, m = Len(events'), m = n \/ m = n + 1,
           \A k \in 0 .. n : N[k] = M[k], \A j \in 1 .. n : events'[j] = events[j],
           Getter(stack[i]) /\ m = n + 1 /\ SuitsAt(i, M[n])' => SuitsAt(i, N[m])',
           Getter(stack[i]) /\ m = n + 1 /\ DoneAt(m, i)' => SuitsAt(i, N[m])',
           Getter(stack[i]) => \A s \in 1 .. Len(requests') :
               SyncAt(s, i)' => Asked(i, s)' \/ SuitsAt(i, N[m])'
    PROVE  Claim(i, N)'
<1>1. Same(stack[i], stack'[i]) /\ (Current(i) => Current(i)')
  BY DEF Seen
<1>2. /\ stack'[i].op = stack[i].op /\ stack'[i].id = stack[i].id /\ stack'[i].pc = stack[i].pc
      /\ stack'[i].done = stack[i].done /\ stack'[i].value = stack[i].value
      /\ stack[i].answers \subseteq stack'[i].answers
  BY <1>1 DEF Same
<1>3. Getter(stack[i])' => Getter(stack[i])
  BY <1>2 DEF Getter, Followed
<1>4. SUFFICES ASSUME Getter(stack[i])
               PROVE  /\ stack'[i].pc \in Waits => Current(i)'
                      /\ stack'[i].pc \in Waits /\ stack'[i].done => \A k \in 0 .. m : SuitsAt(i, N[k])'
                      /\ \A j \in 1 .. m : DoneAt(j, i)' => \A k \in j .. m : SuitsAt(i, N[k])'
                      /\ \A s \in 1 .. Len(requests') : SyncAt(s, i)' => Asked(i, s)' \/ SuitsAt(i, N[m])'
                      /\ stack'[i].pc = "return" => Suits(stack'[i], stack'[i].value)
  BY <1>3 DEF Claim
<1>5. /\ stack[i].pc \in Waits => Current(i)
      /\ stack[i].pc \in Waits /\ stack[i].done => \A k \in 0 .. n : SuitsAt(i, M[k])
      /\ \A j \in 1 .. n : DoneAt(j, i) => \A k \in j .. n : SuitsAt(i, M[k])
      /\ stack[i].pc = "return" => Suits(stack[i], stack[i].value)
  BY <1>4 DEF Claim
<1>6. ASSUME NEW k \in 0 .. n, SuitsAt(i, M[k]) PROVE SuitsAt(i, N[k])'
  BY <1>1, <1>6, SuitsOn
<1>7. ASSUME NEW j \in 0 .. n, \A k \in j .. n : SuitsAt(i, M[k]), NEW k \in j .. m
      PROVE  SuitsAt(i, N[k])'
  <2>1. CASE k \in 0 .. n
    <3>1. k \in j .. n
      BY <2>1
    <3> QED BY <1>6, <1>7, <2>1, <3>1
  <2>2. CASE k \notin 0 .. n
    <3>1. k = m /\ m = n + 1 /\ n \in j .. n
      BY <2>2
    <3>2. SuitsAt(i, M[n])'
      BY <1>1, <1>7, <3>1, SuitsOn
    <3> QED BY <1>4, <3>1, <3>2
  <2> QED BY <2>1, <2>2
<1>8. stack'[i].pc \in Waits => Current(i)'
  BY <1>1, <1>2, <1>5
<1>9. stack'[i].pc \in Waits /\ stack'[i].done => \A k \in 0 .. m : SuitsAt(i, N[k])'
  <2>1. 0 \in 0 .. n
    OBVIOUS
  <2> QED BY <1>2, <1>5, <1>7, <2>1
<1>10. ASSUME NEW j \in 1 .. m, DoneAt(j, i)', NEW k \in j .. m PROVE SuitsAt(i, N[k])'
  <2>1. CASE j <= n
    <3>1. j \in 1 .. n /\ j \in 0 .. n
      BY <2>1
    <3>2. DoneAt(j, i)
      BY <1>10, <3>1 DEF DoneAt
    <3> QED BY <1>5, <1>7, <3>1, <3>2
  <2>2. CASE ~(j <= n)
    <3>1. j = m /\ k = m /\ m = n + 1
      BY <2>2
    <3> QED BY <1>4, <1>10, <3>1
  <2> QED BY <2>1, <2>2
<1>11. stack'[i].pc = "return" => Suits(stack'[i], stack'[i].value)
  BY <1>2, <1>5 DEF Suits
<1> QED BY <1>4, <1>8, <1>9, <1>10, <1>11

\* The first d requests are handled.
Drops(d) ==
    /\ d \in {0, 1} /\ Len(requests) \in Nat /\ Len(requests') = Len(requests) - d /\ Len(requests') \in Nat
    /\ \A s \in 1 .. Len(requests') : requests'[s] = requests[s + d]

LEMMA DropsIs ==
    ASSUME Mail
    PROVE  /\ requests' = requests => Drops(0)
           /\ requests # <<>> /\ requests' = Tail(requests) => Drops(1)
<1>1. requests' = requests => Drops(0)
  BY DEF Mail, Drops
<1>2. requests # <<>> /\ requests' = Tail(requests) => Drops(1)
  BY TailIs DEF Mail, Drops
<1> QED BY <1>1, <1>2

\* The requests for the answer of a getter, when some are handled.
LEMMA FarSyncs ==
    ASSUME NEW d, Drops(d), Seen, NEW i \in 1 .. Len(stack), NEW M, Claim(i, M), Getter(stack[i]),
           NEW n, n = Len(events), NEW B, SuitsAt(i, M[n])' => SuitsAt(i, B)',
           d = 1 /\ Asked(i, 1) => SuitsAt(i, B)'
    PROVE  \A s \in 1 .. Len(requests') : SyncAt(s, i)' => Asked(i, s)' \/ SuitsAt(i, B)'
<1> SUFFICES ASSUME NEW s \in 1 .. Len(requests'), SyncAt(s, i)'
             PROVE  Asked(i, s)' \/ SuitsAt(i, B)'
  OBVIOUS
<1>1. Same(stack[i], stack'[i]) /\ stack'[i].op = stack[i].op /\ stack'[i].id = stack[i].id
  BY DEF Seen, Same
<1>2. s + d \in 1 .. Len(requests) /\ requests'[s] = requests[s + d]
      /\ \A g \in 1 .. s : g \in 1 .. Len(requests') /\ requests'[g] = requests[g + d]
  BY DEF Drops
<1>3. SyncAt(s + d, i)
  BY <1>2 DEF SyncAt
<1>4. Asked(i, s + d) \/ SuitsAt(i, M[n])
  BY <1>2, <1>3 DEF Claim
<1>5. CASE SuitsAt(i, M[n])
  BY <1>1, <1>5, SuitsOn
<1>6. CASE Asked(i, s + d)
  <2>1. PICK g \in 1 .. s + d : requests[g].type = "get" /\ requests[g].id = stack[i].id
    BY <1>6 DEF Asked
  <2>2. stack[i].op = "ilm_getProperties" /\ d \in {0, 1}
    BY <1>6 DEF Asked, Drops
  <2>3. CASE d = 1 /\ g = 1
    <3>1. Asked(i, 1)
      BY <2>1, <2>2, <2>3 DEF Asked
    <3> QED BY <2>3, <3>1
  <2>4. CASE ~(d = 1 /\ g = 1)
    <3>1. g - d \in 1 .. s /\ (g - d) + d = g
      BY <2>2, <2>4
    <3>2. requests'[g - d] = requests[g]
      BY <1>2, <3>1
    <3> QED BY <1>1, <2>1, <2>2, <3>1, <3>2 DEF Asked
  <2> QED BY <2>3, <2>4
<1> QED BY <1>4, <1>5, <1>6

\* A request for the properties has been handled.
LEMMA AskedNow ==
    ASSUME NEW i, Current(i)', stack'[i].op = "ilm_getProperties", NEW B,
           B[stack'[i].id] = IF stack'[i].id \in exists' THEN prop'[stack'[i].id] ELSE Absent
    PROVE  SuitsAt(i, B)'
<1>1. PICK f : f = stack'[i]
  OBVIOUS
<1>2. AnswerIn(f, exists', prop', on_layer') = B[f.id] /\ View(f, B) = B[f.id]
  BY <1>1 DEF AnswerIn, View
<1>3. AnswerIn(f, exists', prop', on_layer') \in f.answers
  BY <1>1 DEF Current
<1>4. Suits(f, View(f, B))
  BY <1>2, <1>3 DEF Suits
<1> QED BY <1>1, <1>4 DEF SuitsAt

\* The events so far are still on their way, and the next is e.
Sent(n, e) ==
    /\ n \in Nat /\ Len(events) = n /\ Len(events') = n + 1 /\ events'[n + 1] = e
    /\ \A j \in 1 .. n : events'[j] = events[j]

LEMMA FarEnds ==
    ASSUME Outstanding, Seen, Stack, NEW d, Drops(d), NEW n \in Nat, n = Len(events),
           \/ events' = events
           \/ \E e : Sent(n, e) /\ e.type # "done"
           \/ \E e : Sent(n, e) /\ d = 1 /\ requests[1].type = "sync" /\ Len(requests) > 0
                     /\ e.value = requests[1].value
    PROVE  Outstanding'
<1> SUFFICES ASSUME NEW i \in Nat PROVE Ends(i)'
  BY DEF Outstanding
<1>1. Ends(i)
  BY DEF Outstanding
<1>2. Open(i) => Open(i)'
  BY DEF Open, Seen, Same
<1>3. ASSUME NEW s \in 1 .. Len(requests'), SyncAt(s, i)'
      PROVE  s + d \in 1 .. Len(requests) /\ SyncAt(s + d, i)
  BY <1>3 DEF Drops, SyncAt
<1>4. \A s \in 1 .. Len(requests') : SyncAt(s, i)' => Open(i)'
  BY <1>1, <1>2, <1>3 DEF Ends
<1>5. \A s, t \in 1 .. Len(requests') : SyncAt(s, i)' /\ SyncAt(t, i)' => s = t
  <2> SUFFICES ASSUME NEW s \in 1 .. Len(requests'), NEW t \in 1 .. Len(requests'), SyncAt(s, i)', SyncAt(t, i)'
               PROVE  s = t
    OBVIOUS
  <2>1. s + d = t + d
    BY <1>1, <1>3 DEF Ends
  <2> QED BY <2>1 DEF Drops
<1>6. CASE \A j \in 1 .. Len(events') : DoneAt(j, i)' => j \in 1 .. n /\ DoneAt(j, i)
  BY <1>1, <1>2, <1>3, <1>4, <1>5, <1>6 DEF Ends
<1>7. CASE events' = events
  <2>1. \A j \in 1 .. Len(events') : DoneAt(j, i)' => j \in 1 .. n /\ DoneAt(j, i)
    BY <1>7 DEF DoneAt
  <2> QED BY <1>6, <2>1
<1>8. ASSUME NEW e, Sent(n, e), e.type # "done" PROVE Ends(i)'
  <2>1. \A j \in 1 .. Len(events') : DoneAt(j, i)' => j \in 1 .. n /\ DoneAt(j, i)
    BY <1>8 DEF DoneAt, Sent
  <2> QED BY <1>6, <2>1
<1>9. ASSUME NEW e, Sent(n, e), d = 1, requests[1].type = "sync", Len(requests) > 0,
             e.value = requests[1].value
      PROVE  Ends(i)'
  <2>1. ASSUME NEW j \in 1 .. Len(events'), DoneAt(j, i)'
        PROVE  (j \in 1 .. n /\ DoneAt(j, i)) \/ (j = n + 1 /\ SyncAt(1, i))
    BY <1>9, <2>1 DEF DoneAt, SyncAt, Sent
  <2>2. 1 \in 1 .. Len(requests)
    BY <1>9 DEF Drops
  <2>3. CASE SyncAt(1, i)
    <3>1. Open(i) /\ \A j \in 1 .. n : ~DoneAt(j, i)
      BY <1>1, <2>2, <2>3 DEF Ends
    <3>2. \A j \in 1 .. Len(events') : DoneAt(j, i)' => j = n + 1
      BY <2>1, <3>1
    <3>3. ASSUME NEW s \in 1 .. Len(requests'), SyncAt(s, i)' PROVE FALSE
      <4>1. s + d = 1
        BY <1>1, <1>3, <2>2, <2>3, <3>3 DEF Ends
      <4> QED BY <1>9, <4>1
    <3> QED BY <1>2, <1>5, <3>1, <3>2, <3>3 DEF Ends
  <2>4. CASE ~SyncAt(1, i)
    <3>1. \A j \in 1 .. Len(events') : DoneAt(j, i)' => j \in 1 .. n /\ DoneAt(j, i)
      BY <2>1, <2>4
    <3> QED BY <1>6, <3>1
  <2> QED BY <2>3, <2>4
<1> QED BY <1>7, <1>8, <1>9

\* Nothing is claimed of a frame that waits for nothing, but of what it returns.
LEMMA IdleClaim ==
    ASSUME Outstanding', NEW i \in Nat, stack'[i].pc \notin Waits,
           Getter(stack[i])' /\ stack'[i].pc = "return" => Suits(stack'[i], stack'[i].value), NEW N
    PROVE  Claim(i, N)'
<1>1. Ends(i)' /\ ~Open(i)'
  BY DEF Outstanding, Open
<1>2. /\ \A j \in 1 .. Len(events') : ~DoneAt(j, i)'
      /\ \A s \in 1 .. Len(requests') : ~SyncAt(s, i)'
  BY <1>1 DEF Ends
<1> QED BY <1>2 DEF Claim

LEMMA FarParts ==
    ASSUME Sound, UNCHANGED mirror, Seen, Unique, AwaitsContext, Rested
    PROVE  Unique' /\ AwaitsContext' /\ Rested' /\ \A A : Shows(A) => Shows(A)'
<1>1. list_surface' = list_surface /\ list_layer' = list_layer /\ context' = context
  BY DEF mirror
<1>2. /\ Len(stack') = Len(stack) /\ Len(stack) \in Nat
      /\ \A i \in 1 .. Len(stack) :
            /\ stack'[i].id = stack[i].id /\ stack'[i].pc = stack[i].pc /\ stack'[i].ptr = stack[i].ptr
            /\ stack'[i].done = stack[i].done
  BY SoundParts, StackIs DEF Seen, Same
<1>3. Tracked' = Tracked
  BY <1>1 DEF Tracked
<1>4. Unique'
  BY <1>1, <1>3 DEF Unique
<1>5. AwaitsContext'
  <2> SUFFICES ASSUME NEW n \in 2 .. Len(stack'), Careful, n = Len(stack'), stack'[n].pc = "added",
                      stack'[n].ptr = Absent, NEW p \in ToSet(list_surface')
               PROVE  context'[p].id # stack'[n - 1].id
    BY DEF AwaitsContext, Careful
  <2>1. n \in 2 .. Len(stack) /\ n \in 1 .. Len(stack) /\ n - 1 \in 1 .. Len(stack)
    BY <1>2
  <2> QED BY <1>1, <1>2, <2>1 DEF AwaitsContext
<1>6. Rested'
  <2> SUFFICES ASSUME NEW i \in 1 .. Len(stack'), stack'[i].pc \in {"registered", "added"}
               PROVE  i > 1 /\ stack'[i - 1].done
    BY DEF Rested, Rests
  <2>1. i \in 1 .. Len(stack) /\ i > 1 /\ stack[i - 1].done
    BY <1>2 DEF Rested, Rests
  <2>2. i - 1 \in 1 .. Len(stack)
    BY <1>2, <2>1
  <2> QED BY <1>2, <2>1, <2>2
<1>7. \A p : Goes(p) => Goes(p)'
  BY <1>2 DEF Goes
<1>8. \A A : Shows(A) => Shows(A)'
  BY <1>1, <1>3, <1>7 DEF Shows
<1> QED BY <1>4, <1>5, <1>6, <1>8

\* What stays of the claims when the client is told nothing.
LEMMA FarSame ==
    ASSUME Sound, Scene', Prompt, UNCHANGED mirror, Seen, NEW d, Drops(d),
           events' = events, exists' = exists,
           d = 1 /\ requests[1].type = "get" => requests[1].id \notin exists'
    PROVE  Prompt'
<1>1. PICK n : n = Len(events) /\ n \in Nat
  BY SoundParts DEF Mail
<1>2. Unique /\ AwaitsContext /\ Rested /\ Outstanding
  BY DEF Prompt
<1>3. PICK M : Account(M)
  BY DEF Prompt
<1>4. Recounts(M)'
  BY <1>3 DEF Account, Recounts
<1>5. Outstanding'
  BY <1>1, <1>2, SoundParts, FarEnds
<1>6. Unique' /\ AwaitsContext' /\ Rested' /\ Shows(M[0])'
  BY <1>2, <1>3, FarParts DEF Account
<1>7. Len(stack') = Len(stack) /\ Len(stack) \in Nat
  BY SoundParts, StackIs DEF Seen
<1>8. ASSUME NEW i \in 1 .. Len(stack') PROVE Claim(i, M)'
  <2>1. i \in 1 .. Len(stack) /\ i \in Nat /\ Claim(i, M)
    BY <1>3, <1>7 DEF Account
  <2>2. Same(stack[i], stack'[i]) /\ (Current(i) => Current(i)')
    BY <2>1 DEF Seen
  <2>3. CASE stack[i].pc \notin Waits
    <3>1. stack'[i].pc \notin Waits
      BY <2>2, <2>3 DEF Same
    <3>2. Getter(stack[i])' /\ stack'[i].pc = "return" => Suits(stack'[i], stack'[i].value)
      BY <2>1, <2>2 DEF Claim, Same, Suits, Getter, Followed
    <3> QED BY <1>5, <2>1, <3>1, <3>2, IdleClaim
  <2>4. CASE stack[i].pc \in Waits
    <3>1. Getter(stack[i]) => Current(i)'
      BY <2>1, <2>2, <2>4 DEF Claim
    <3>2. ASSUME Getter(stack[i]), d = 1, Asked(i, 1) PROVE SuitsAt(i, M[n])'
      <4>1. stack[i].op = "ilm_getProperties" /\ requests[1].type = "get" /\ requests[1].id = stack[i].id
        BY <3>2 DEF Asked
      <4>2. stack'[i].op = "ilm_getProperties" /\ stack'[i].id \in Ids /\ stack'[i].id \notin exists'
        <5>1. stack[i].id \in Ids
          BY <2>1, <4>1, SoundParts, StackIs DEF FrameSound, IdOps
        <5> QED BY <2>2, <3>2, <4>1, <5>1 DEF Same
      <4>3. PICK B : B = M[n]
        OBVIOUS
      <4>4. B[stack'[i].id] = Absent
        BY <1>1, <1>3, <4>2, <4>3 DEF Account, Recounts
      <4>5. SuitsAt(i, B)'
        BY <3>1, <3>2, <4>2, <4>4, AskedNow
      <4> QED BY <4>3, <4>5
    <3>3. Getter(stack[i]) => \A s \in 1 .. Len(requests') :
              SyncAt(s, i)' => Asked(i, s)' \/ SuitsAt(i, M[n])'
      BY <1>1, <2>1, <3>2, FarSyncs
    <3> QED BY <1>1, <2>1, <3>3, FarClaim
  <2> QED BY <2>3, <2>4
<1>9. Account(M)'
  BY <1>4, <1>6, <1>8 DEF Account
<1> QED BY <1>5, <1>6, <1>9 DEF Prompt

\* What stays of the claims when the event e is sent.
LEMMA FarMore ==
    ASSUME Sound, Scene', Prompt, UNCHANGED mirror, Seen, NEW d, Drops(d),
           NEW e \in Events, events' = Append(events, e), Effect(e),
           d = 1 /\ requests[1].type = "get" =>
               e.type = "prop" /\ e.id = requests[1].id /\ e.id \in exists',
           e.type = "done" => d = 1 /\ requests[1].type = "sync" /\ e.value = requests[1].value
    PROVE  Prompt'
<1>1. PICK n : n = Len(events) /\ n \in Nat
  BY SoundParts DEF Mail
<1>2. Unique /\ AwaitsContext /\ Rested /\ Outstanding
  BY DEF Prompt
<1>3. PICK M : Account(M) /\ Recounts(M) /\ Mail
  BY SoundParts DEF Prompt, Account
<1>4. PICK N : /\ Recounts(N)' /\ (\A k \in 0 .. n : N[k] = M[k])
               /\ Recount(e, M[n], N[n + 1])
               /\ \A id \in Ids : N[n + 1][id] # Absent <=> id \in exists'
  BY <1>1, <1>3, RecountsMore
<1>5. Sent(n, e)
  BY <1>1, SoundParts, AppendIs DEF Sent
<1>6. Outstanding'
  <2>1. d = 1 => Len(requests) > 0
    BY DEF Drops
  <2> QED BY <1>1, <1>2, <1>5, <2>1, SoundParts, FarEnds
<1>7. Unique' /\ AwaitsContext' /\ Rested' /\ Shows(N[0])'
  <2>1. N[0] = M[0]
    BY <1>1, <1>4
  <2> QED BY <1>2, <1>3, <2>1, FarParts DEF Account
<1>8. Len(stack') = Len(stack) /\ Len(stack) \in Nat
  BY SoundParts, StackIs DEF Seen
<1>9. ASSUME NEW i \in 1 .. Len(stack') PROVE Claim(i, N)'
  <2>1. i \in 1 .. Len(stack) /\ i \in Nat /\ Claim(i, M)
    BY <1>3, <1>8 DEF Account
  <2>2. Same(stack[i], stack'[i]) /\ (Current(i) => Current(i)')
    BY <2>1 DEF Seen
  <2>3. CASE stack[i].pc \notin Waits
    <3>1. stack'[i].pc \notin Waits
      BY <2>2, <2>3 DEF Same
    <3>2. Getter(stack[i])' /\ stack'[i].pc = "return" => Suits(stack'[i], stack'[i].value)
      BY <2>1, <2>2 DEF Claim, Same, Suits, Getter, Followed
    <3> QED BY <1>6, <2>1, <3>1, <3>2, IdleClaim
  <2>4. CASE stack[i].pc \in Waits
    <3>1. Getter(stack[i]) => Current(i)' /\ Getter(stack[i])'
      BY <2>1, <2>2, <2>4 DEF Claim, Same, Getter, Followed
    <3>2. PICK m, A, B : m = n + 1 /\ A = M[n] /\ B = N[m]
      OBVIOUS
    <3>3. /\ Recount(e, A, B) /\ m \in Nat /\ m = Len(events')
          /\ \A id \in Ids : B[id] # Absent <=> id \in exists'
      BY <1>1, <1>4, <1>5, <3>2 DEF Sent
    <3>4. ASSUME Getter(stack[i]), SuitsAt(i, A)' PROVE SuitsAt(i, B)'
      BY <3>1, <3>3, <3>4, NewView
    <3>5. ASSUME Getter(stack[i]), d = 1, Asked(i, 1) PROVE SuitsAt(i, B)'
      <4>1. stack[i].op = "ilm_getProperties" /\ requests[1].type = "get" /\ requests[1].id = stack[i].id
        BY <3>5 DEF Asked
      <4>2. stack'[i].op = "ilm_getProperties" /\ stack'[i].id = stack[i].id /\ stack[i].id \in Ids
        <5>1. stack[i].id \in Ids
          BY <2>1, <4>1, SoundParts, StackIs DEF FrameSound, IdOps
        <5> QED BY <2>2, <4>1, <5>1 DEF Same
      <4>3. e.type = "prop" /\ e.id = stack[i].id /\ e.id \in exists' /\ prop'[e.id] = e.value
        BY <3>5, <4>1 DEF Effect
      <4>4. B[e.id] = e.value
        BY <3>3, <4>2, <4>3 DEF Recount, Changes
      <4>5. B[stack'[i].id] = IF stack'[i].id \in exists' THEN prop'[stack'[i].id] ELSE Absent
        BY <4>2, <4>3, <4>4
      <4> QED BY <3>1, <3>5, <4>2, <4>5, AskedNow
    <3>6. Getter(stack[i]) => \A s \in 1 .. Len(requests') :
              SyncAt(s, i)' => Asked(i, s)' \/ SuitsAt(i, B)'
      BY <1>1, <2>1, <3>2, <3>4, <3>5, FarSyncs
    <3>7. ASSUME Getter(stack[i]), DoneAt(m, i)' PROVE SuitsAt(i, B)'
      <4>1. e.type = "done" /\ e.value = i
        BY <1>5, <3>2, <3>7 DEF Sent, DoneAt
      <4>2. 1 \in 1 .. Len(requests) /\ SyncAt(1, i) /\ requests[1].type # "get"
        BY <4>1 DEF SyncAt, Drops
      <4>3. Asked(i, 1) \/ SuitsAt(i, M[n])
        BY <1>1, <2>1, <3>7, <4>2 DEF Claim
      <4>4. ~Asked(i, 1)
        BY <4>2 DEF Asked
      <4> QED BY <2>2, <3>2, <3>4, <3>7, <4>3, <4>4, SuitsOn
    <3>8. \A j \in 1 .. n : events'[j] = events[j]
      BY <1>5 DEF Sent
    <3> QED BY <1>1, <1>4, <2>1, <3>2, <3>3, <3>4, <3>6, <3>7, <3>8, FarClaim
  <2> QED BY <2>3, <2>4
<1>10. Account(N)'
  BY <1>4, <1>7, <1>9 DEF Account
<1> QED BY <1>6, <1>7, <1>10 DEF Prompt

LEMMA OthersPrompt ==
    ASSUME Sound, Prompt, OthersChange
    PROVE  Prompt'
<1>1. Change /\ requests' = requests /\ UNCHANGED mirror
  BY DEF OthersChange, mirror
<1>2. World /\ Observed
  BY <1>1, SoundParts, ChangeIs
<1>3. Scene' /\ Tells(Changes) /\ Seen /\ Drops(0)
  BY <1>1, <1>2, SoundParts, SeenIs, DropsIs DEF World
<1>4. CASE events' = events /\ exists' = exists
  BY <1>1, <1>3, <1>4, FarSame
<1>5. ASSUME NEW e \in Events, e.type \in Changes, events' = Append(events, e), Effect(e)
      PROVE  Prompt'
  BY <1>1, <1>3, <1>5, FarMore DEF Changes
<1> QED BY <1>3, <1>4, <1>5 DEF Tells

LEMMA HandlePrompt ==
    ASSUME Sound, Prompt, HandleRequest
    PROVE  Prompt'
<1>1. UNCHANGED mirror
  BY DEF HandleRequest
<1>2. /\ Scene' /\ events' \in Seq(Events) /\ Stack'
      /\ requests # <<>> /\ requests' = Tail(requests) /\ HandledAs(Head(requests))
  BY SoundParts, HandleIs
<1>3. PICK r : r = Head(requests)
  OBVIOUS
<1>4. HandledAs(r) /\ r = requests[1] /\ r \in Requests
  BY <1>2, <1>3, SoundParts, TailIs
<1>5. Drops(1)
  BY <1>2, SoundParts, DropsIs
<1>6. Seen
  <2>1. Observed \/ Unobserved
    BY <1>4 DEF HandledAs
  <2> QED BY <2>1, SoundParts, SeenIs
<1>7. CASE r.type = "sync"
  <2>1. PICK e \in Events : e.type = "done" /\ e.value = r.value /\ events' = Append(events, e)
    BY <1>4, <1>7 DEF HandledAs
  <2>2. Effect(e)
    BY <1>4, <1>7, <2>1 DEF HandledAs, Unobserved, Effect
  <2> QED BY <1>1, <1>2, <1>4, <1>5, <1>6, <1>7, <2>1, <2>2, FarMore
<1>8. CASE r.type = "get" /\ r.id \in exists
  <2>1. PICK e \in Events : /\ e.type = "prop" /\ e.id = r.id /\ e.value = prop[r.id]
                            /\ events' = Append(events, e)
    BY <1>4, <1>8 DEF HandledAs
  <2>2. Effect(e) /\ e.id \in exists'
    BY <1>4, <1>8, <2>1 DEF HandledAs, Unobserved, Effect
  <2> QED BY <1>1, <1>2, <1>4, <1>5, <1>6, <2>1, <2>2, FarMore
<1>9. CASE r.type \in {"sync_add", "sync_remove"} \/ (r.type = "get" /\ r.id \notin exists)
  <2>1. events' = events /\ exists' = exists
    BY <1>4, <1>9 DEF HandledAs, Unobserved
  <2> QED BY <1>1, <1>2, <1>4, <1>5, <1>6, <1>9, <2>1, FarSame
<1>10. CASE r.type \in {"get_order", "create", "destroy", "commit"}
  <2>1. PICK K : Tells(K) /\ "done" \notin K
    <3>1. Tells({"order"}) \/ Tells(Changes)
      BY <1>4, <1>10 DEF HandledAs
    <3>2. "done" \notin {"order"} /\ "done" \notin Changes
      BY DEF Changes
    <3> QED BY <3>1, <3>2
  <2>2. CASE events' = events /\ exists' = exists
    BY <1>1, <1>2, <1>4, <1>5, <1>6, <1>10, <2>2, FarSame
  <2>3. ASSUME NEW e \in Events, e.type \in K, events' = Append(events, e), Effect(e)
        PROVE  Prompt'
    BY <1>1, <1>2, <1>4, <1>5, <1>6, <1>10, <2>1, <2>3, FarMore
  <2> QED BY <2>1, <2>2, <2>3 DEF Tells
<1> QED BY <1>4, <1>7, <1>8, <1>9, <1>10, RequestKinds

-----------------------------------------------------------------------------
(* What the getters are answered, when the library does a step.            *)

\* Of the frames the first n are left as they are; one may come on top.
Leaves(n) ==
    /\ n \in Nat /\ Len(stack) \in Nat /\ n <= Len(stack)
    /\ \A i \in 1 .. n : stack'[i] = stack[i]
Ending(n)     == Leaves(n) /\ Len(stack') = n
Putting(n, f) == Leaves(n) /\ Len(stack') = n + 1 /\ stack'[n + 1] = f

LEMMA PopEnds ==
    ASSUME Stack, stack # <<>>, stack' = Pop, NEW n, Len(stack) = n + 1, n \in Nat
    PROVE  Ending(n)
<1>1. Pop \in Seq(Frames) /\ Len(Pop) = n /\ \A i \in 1 .. n : Pop[i] = stack[i]
  BY PopIs
<1> QED BY <1>1 DEF Ending, Leaves

LEMMA PopTwoEnds ==
    ASSUME Stack, stack' = Front(Pop), NEW n, Len(stack) = n + 2, n \in Nat
    PROVE  Ending(n)
<1>1. stack \in Seq(Frames) /\ stack # <<>>
  BY DEF Stack
<1>2. PICK s : s = Pop
  OBVIOUS
<1>3. s \in Seq(Frames) /\ Len(s) = n + 1 /\ \A i \in 1 .. n + 1 : s[i] = stack[i]
  BY <1>1, <1>2, PopIs
<1>4. s # <<>>
  BY <1>3
<1>5. Len(stack') = n /\ \A i \in 1 .. n : stack'[i] = s[i]
  BY <1>2, <1>3, <1>4, FrontIs
<1>6. \A i \in 1 .. n : stack'[i] = stack[i]
  BY <1>3, <1>5
<1> QED BY <1>5, <1>6 DEF Ending, Leaves

LEMMA PushPuts ==
    ASSUME Stack, NEW f \in Frames, stack' = Append(stack, f), NEW n, n = Len(stack)
    PROVE  Putting(n, f)
<1>1. stack \in Seq(Frames)
  BY DEF Stack
<1>2. /\ Len(stack') = n + 1 /\ n \in Nat
      /\ (\A i \in 1 .. n : stack'[i] = stack[i]) /\ stack'[n + 1] = f
  BY <1>1, AppendIs
<1> QED BY <1>2 DEF Putting, Leaves

LEMMA SwapPuts ==
    ASSUME Stack, stack # <<>>, NEW f \in Frames, stack' = Append(Pop, f),
           NEW n, Len(stack) = n + 1, n \in Nat
    PROVE  Putting(n, f)
<1>1. PICK s : s = Pop
  OBVIOUS
<1>2. s \in Seq(Frames) /\ Len(s) = n /\ \A i \in 1 .. n : s[i] = stack[i]
  BY <1>1, PopIs
<1>3. Len(stack') = n + 1 /\ (\A i \in 1 .. n : stack'[i] = s[i]) /\ stack'[n + 1] = f
  BY <1>1, <1>2, AppendIs
<1>4. \A i \in 1 .. n : stack'[i] = stack[i]
  BY <1>2, <1>3
<1> QED BY <1>3, <1>4 DEF Putting, Leaves

\* What is sent asks for the end of a roundtrip, of the frame at depth d.
Asks(d) ==
    /\ Grows /\ Len(requests) \in Nat /\ Len(requests') \in Nat /\ Len(requests') > Len(requests)
    /\ requests'[Len(requests')].type = "sync" /\ requests'[Len(requests')].value = d
    /\ \A s \in Len(requests) + 1 .. Len(requests') - 1 : requests'[s].type # "sync"

LEMMA AsksIs ==
    ASSUME NEW d \in Nat, SendsSync(d) \/ \E r : Sends(r, d) /\ r.type # "sync"
    PROVE  Asks(d)
<1>1. Grows => Len(requests) \in Nat /\ Len(requests') \in Nat
  BY DEF Grows
<1>2. CASE SendsSync(d)
  <2>1. /\ Grows /\ Len(requests') = Len(requests) + 1
        /\ requests'[Len(requests) + 1].type = "sync" /\ requests'[Len(requests) + 1].value = d
    BY <1>2, SyncIsRequest DEF SendsSync
  <2> QED BY <1>1, <2>1 DEF Asks
<1>3. ASSUME NEW r, Sends(r, d), r.type # "sync" PROVE Asks(d)
  <2>1. /\ Grows /\ Len(requests') = Len(requests) + 2 /\ requests'[Len(requests) + 1] = r
        /\ requests'[Len(requests) + 2].type = "sync" /\ requests'[Len(requests) + 2].value = d
    BY <1>3, SyncIsRequest DEF Sends
  <2>2. \A s \in Len(requests) + 1 .. Len(requests') - 1 : s = Len(requests) + 1
    BY <1>1, <2>1
  <2> QED BY <1>1, <1>3, <2>1, <2>2 DEF Asks
<1> QED BY <1>2, <1>3

\* Nothing is sent, or what the new frame waits for.
Mails(n) ==
    \/ requests' = requests
    \/ Asks(n + 1) /\ Open(n + 1)'

\* No frame above the first n waits.
Idle(n) == \A i \in n + 1 .. Len(stack) : ~Open(i)

LEMMA NewSyncs ==
    ASSUME Mail, NEW n, Mails(n), NEW s \in 1 .. Len(requests'), NEW i, SyncAt(s, i)'
    PROVE  \/ s \in 1 .. Len(requests) /\ requests'[s] = requests[s]
           \/ s = Len(requests') /\ i = n + 1 /\ Asks(n + 1) /\ Open(n + 1)'
<1>1. CASE requests' = requests
  BY <1>1
<1>2. CASE Asks(n + 1) /\ Open(n + 1)'
  <2>1. s \in 1 .. Len(requests) \/ s \in Len(requests) + 1 .. Len(requests') - 1 \/ s = Len(requests')
    BY <1>2 DEF Asks
  <2>2. \A t \in 1 .. Len(requests) : requests'[t] = requests[t]
    BY <1>2 DEF Asks, Grows
  <2> QED BY <1>2, <2>1, <2>2 DEF Asks, SyncAt
<1> QED BY <1>1, <1>2 DEF Mails

LEMMA LocalEnds ==
    ASSUME Mail, Outstanding, NEW n, Leaves(n), Idle(n), Len(stack') \in {n, n + 1},
           events' = events, Mails(n)
    PROVE  Outstanding'
<1> SUFFICES ASSUME NEW i \in Nat PROVE Ends(i)'
  BY DEF Outstanding
<1>1. Ends(i)
  BY DEF Outstanding
<1>2. CASE i <= n
  <2>1. Open(i) => Open(i)'
    BY <1>2 DEF Open, Leaves
  <2>2. i # n + 1
    BY <1>2 DEF Leaves
  <2>3. ASSUME NEW s \in 1 .. Len(requests'), SyncAt(s, i)'
        PROVE  s \in 1 .. Len(requests) /\ SyncAt(s, i)
    BY <2>2, <2>3, NewSyncs DEF SyncAt
  <2>4. \A j \in 1 .. Len(events') : DoneAt(j, i)' => j \in 1 .. Len(events) /\ DoneAt(j, i)
    BY DEF DoneAt
  <2> QED BY <1>1, <2>1, <2>3, <2>4 DEF Ends
<1>3. CASE ~(i <= n)
  <2>1. ~Open(i)
    BY <1>3 DEF Idle, Open, Leaves
  <2>2. /\ \A j \in 1 .. Len(events') : ~DoneAt(j, i)'
        /\ \A s \in 1 .. Len(requests) : ~SyncAt(s, i)
    BY <1>1, <2>1 DEF Ends, DoneAt
  <2>3. ASSUME NEW s \in 1 .. Len(requests'), SyncAt(s, i)'
        PROVE  s = Len(requests') /\ Open(i)'
    BY <2>2, <2>3, NewSyncs DEF SyncAt
  <2> QED BY <2>2, <2>3 DEF Ends
<1> QED BY <1>2, <1>3

LEMMA LocalClaim ==
    ASSUME Mail, NEW n, Leaves(n), Mails(n), UNCHANGED <<compositor, events>>,
           NEW i \in 1 .. n, NEW M, Claim(i, M)
    PROVE  Claim(i, M)'
<1>1. stack'[i] = stack[i] /\ i # n + 1
  BY DEF Leaves
<1>2. exists' = exists /\ prop' = prop /\ on_layer' = on_layer /\ events' = events
  BY DEF compositor
<1>3. SUFFICES ASSUME Getter(stack[i])
               PROVE  /\ stack[i].pc \in Waits => Current(i)'
                      /\ stack[i].pc \in Waits /\ stack[i].done =>
                            \A k \in 0 .. Len(events) : SuitsAt(i, M[k])'
                      /\ \A j \in 1 .. Len(events) : DoneAt(j, i)' =>
                            \A k \in j .. Len(events) : SuitsAt(i, M[k])'
                      /\ \A s \in 1 .. Len(requests') :
                            SyncAt(s, i)' => Asked(i, s)' \/ SuitsAt(i, M[Len(events)])'
                      /\ stack[i].pc = "return" => Suits(stack[i], stack[i].value)
  BY <1>1, <1>2 DEF Claim, Getter, Followed
<1>4. \A A : SuitsAt(i, A) => SuitsAt(i, A)'
  BY <1>1 DEF SuitsAt
<1>5. Current(i) => Current(i)'
  BY <1>1, <1>2 DEF Current
<1>6. ASSUME NEW s \in 1 .. Len(requests'), SyncAt(s, i)'
      PROVE  Asked(i, s)' \/ SuitsAt(i, M[Len(events)])'
  <2>1. s \in 1 .. Len(requests) /\ requests'[s] = requests[s]
    BY <1>1, <1>6, NewSyncs
  <2>2. Asked(i, s) \/ SuitsAt(i, M[Len(events)])
    BY <1>3, <1>6, <2>1 DEF Claim, SyncAt
  <2>3. \A g \in 1 .. s : requests'[g] = requests[g]
    BY <2>1 DEF Mails, Asks, Grows
  <2>4. Asked(i, s) => Asked(i, s)'
    BY <1>1, <2>3 DEF Asked
  <2> QED BY <1>4, <2>2, <2>4
<1>7. \A j \in 1 .. Len(events) : DoneAt(j, i)' => DoneAt(j, i)
  BY <1>2 DEF DoneAt
<1> QED BY <1>3, <1>4, <1>5, <1>6, <1>7 DEF Claim

LEMMA RestedStays ==
    ASSUME Rested, NEW n, Leaves(n), NEW i \in 1 .. n
    PROVE  Rests(i)'
<1>1. i \in 1 .. Len(stack) /\ stack'[i] = stack[i] /\ (i > 1 => stack'[i - 1] = stack[i - 1])
  BY DEF Leaves
<1> QED BY <1>1 DEF Rested, Rests

LEMMA LocalClaims ==
    ASSUME Mail, NEW n, Leaves(n), Mails(n), UNCHANGED <<compositor, events>>, NEW M, Account(M)
    PROVE  Recounts(M)' /\ \A i \in 1 .. n : Claim(i, M)'
<1>1. Recounts(M)'
  BY DEF Account, Recounts, compositor
<1>2. ASSUME NEW i \in 1 .. n PROVE Claim(i, M)'
  <2>1. i \in 1 .. Len(stack)
    BY DEF Leaves
  <2> QED BY <2>1, LocalClaim DEF Account
<1> QED BY <1>1, <1>2

\* Frames are taken away.
LEMMA EndingPrompt ==
    ASSUME Sound, Prompt, UNCHANGED <<compositor, events, requests>>, NEW n, Ending(n), n < Len(stack),
           Idle(n), Unique', \A M : Account(M) => Shows(M[0])'
    PROVE  Prompt'
<1>1. Mail /\ Leaves(n) /\ Len(stack') = n /\ n \in Nat /\ Mails(n) /\ UNCHANGED <<compositor, events>>
  BY SoundParts DEF Ending, Leaves, Mails
<1>2. AwaitsContext /\ Rested /\ Outstanding
  BY DEF Prompt
<1>3. PICK M : Account(M)
  BY DEF Prompt
<1>4. Outstanding'
  BY <1>1, <1>2, LocalEnds
<1>5. Rested'
  BY <1>1, <1>2, RestedStays DEF Rested
<1>6. AwaitsContext'
  <2> SUFFICES ASSUME n \in 2 .. Len(stack'), Careful, stack'[n].pc = "added" PROVE FALSE
    BY <1>1 DEF AwaitsContext, Careful
  <2>1. n \in 1 .. Len(stack) /\ stack[n].pc = "added"
    BY <1>1 DEF Leaves
  <2>2. stack[n].op = "callback"
    BY <2>1, SoundParts, StackIs DEF FrameSound, Callbacks
  <2>3. stack[n].pc \in CallIn
    BY <2>1, <2>2, SoundParts DEF FramesSit, Calling
  <2> QED BY <2>1, <2>3 DEF Careful
<1>7. Account(M)'
  <2>1. Shows(M[0])'
    BY <1>3
  <2> QED BY <1>1, <1>3, <2>1, LocalClaims DEF Account
<1> QED BY <1>4, <1>5, <1>6, <1>7 DEF Prompt

\* The frame f comes on top of the first n.
LEMMA PuttingPrompt ==
    ASSUME Sound, Prompt, UNCHANGED <<compositor, events>>, NEW n, NEW f, Putting(n, f), Idle(n), Mails(n),
           f.pc \in {"registered", "added"} => n > 0 /\ stack[n].done,
           Careful /\ f.pc = "added" /\ f.ptr = Absent /\ n > 0 =>
               \A p \in ToSet(list_surface') : context'[p].id # stack[n].id,
           Unique', \A M : Account(M) => Shows(M[0])',
           \A M : Account(M) /\ Outstanding' => Claim(n + 1, M)'
    PROVE  Prompt'
<1>1. /\ Mail /\ Leaves(n) /\ Len(stack') = n + 1 /\ stack'[n + 1] = f /\ n \in Nat
      /\ UNCHANGED <<compositor, events>> /\ \A i \in 1 .. n : stack'[i] = stack[i]
  BY SoundParts DEF Putting, Leaves
<1>2. AwaitsContext /\ Rested /\ Outstanding
  BY DEF Prompt
<1>3. PICK M : Account(M)
  BY DEF Prompt
<1>4. Outstanding'
  BY <1>1, <1>2, LocalEnds
<1>5. Rested'
  <2> SUFFICES ASSUME NEW i \in 1 .. n + 1 PROVE Rests(i)'
    BY <1>1 DEF Rested
  <2>1. CASE i \in 1 .. n
    BY <1>1, <1>2, <2>1, RestedStays
  <2>2. CASE i = n + 1
    <3>1. n > 0 => stack'[i - 1] = stack[n]
      BY <1>1, <2>2
    <3> QED BY <1>1, <2>2, <3>1 DEF Rests
  <2> QED BY <1>1, <2>1, <2>2
<1>6. AwaitsContext'
  <2> SUFFICES ASSUME NEW m \in 2 .. n + 1, m = n + 1, Careful, stack'[m].pc = "added",
                      stack'[m].ptr = Absent, NEW p \in ToSet(list_surface')
               PROVE  context'[p].id # stack'[m - 1].id
    BY <1>1 DEF AwaitsContext, Careful
  <2>1. n > 0 /\ m - 1 = n /\ stack'[n] = stack[n]
    BY <1>1
  <2> QED BY <1>1, <2>1
<1>7. Account(M)'
  <2>1. Shows(M[0])' /\ Claim(n + 1, M)'
    BY <1>3, <1>4
  <2>2. \A i \in 1 .. n + 1 : i \in 1 .. n \/ i = n + 1
    BY <1>1
  <2>3. Recounts(M)' /\ \A i \in 1 .. n : Claim(i, M)'
    BY <1>1, <1>3, LocalClaims
  <2>4. \A i \in 1 .. Len(stack') : Claim(i, M)'
    BY <1>1, <2>1, <2>2, <2>3
  <2> QED BY <2>1, <2>3, <2>4 DEF Account
<1> QED BY <1>4, <1>5, <1>6, <1>7 DEF Prompt

\* A step that lists and frees nothing and assigns no property.
PropsKept ==
    /\ Kept
    /\ \A p \in Ptrs : context[p] # Absent => context'[p].prop = context[p].prop

LEMMA UnchangedProps ==
    ASSUME UNCHANGED mirror
    PROVE  PropsKept
BY DEF PropsKept, Kept, mirror

\* No frame above the first n is a callback of a removed object.
Stable(n) == \A i \in n + 1 .. Len(stack) : stack[i].pc # "removed"

LEMMA ShowsOn ==
    ASSUME Sound, Prompt, PropsKept, NEW n, Leaves(n), Len(stack') \in Nat, Len(stack') >= n, Stable(n)
    PROVE  Unique' /\ \A A : Shows(A) => Shows(A)'
<1>1. list_surface' = list_surface /\ list_layer' = list_layer
  BY DEF PropsKept, Kept
<1>2. Tracked' = Tracked /\ Unique
  BY <1>1 DEF Tracked, Prompt
<1>3. \A p \in Tracked : context'[p].id = context[p].id /\ context'[p].prop = context[p].prop
  <2> SUFFICES ASSUME NEW p \in Tracked
               PROVE  context'[p].id = context[p].id /\ context'[p].prop = context[p].prop
    OBVIOUS
  <2>1. p \in Ptrs /\ context[p] # Absent
    BY SoundParts, ListsAre, Kinds DEF Tracked, Listings, Surfaced, Layered
  <2> QED BY <2>1 DEF PropsKept, Kept
<1>4. \A p : Goes(p) => Goes(p)'
  <2> SUFFICES ASSUME NEW i \in 1 .. Len(stack), stack[i].pc = "removed"
               PROVE  i \in 1 .. Len(stack') /\ stack'[i] = stack[i]
    BY DEF Goes
  <2>1. i \notin n + 1 .. Len(stack)
    BY DEF Stable
  <2> QED BY <2>1 DEF Leaves
<1>5. Unique'
  BY <1>2, <1>3 DEF Unique
<1>6. \A A : Shows(A) => Shows(A)'
  BY <1>2, <1>3, <1>4 DEF Shows
<1> QED BY <1>5, <1>6

LEMMA KeptEnding ==
    ASSUME Sound, Prompt, UNCHANGED <<compositor, events, requests>>, PropsKept,
           NEW n, Ending(n), n < Len(stack), Idle(n), Stable(n)
    PROVE  Prompt'
<1>1. Leaves(n) /\ Len(stack') = n /\ n \in Nat
  BY DEF Ending, Leaves
<1>2. Unique' /\ \A A : Shows(A) => Shows(A)'
  BY <1>1, ShowsOn
<1> QED BY <1>2, EndingPrompt DEF Account

LEMMA KeptPutting ==
    ASSUME Sound, Prompt, UNCHANGED <<compositor, events>>, PropsKept,
           NEW n, NEW f, Putting(n, f), Idle(n), Stable(n), Mails(n),
           f.pc \in {"registered", "added"} => n > 0 /\ stack[n].done,
           Careful /\ f.pc = "added" /\ f.ptr = Absent /\ n > 0 =>
               \A p \in ToSet(list_surface) : context[p].id # stack[n].id,
           \A M : Account(M) /\ Outstanding' => Claim(n + 1, M)'
    PROVE  Prompt'
<1>1. Leaves(n) /\ Len(stack') = n + 1 /\ n \in Nat
  BY DEF Putting, Leaves
<1>2. Unique' /\ \A A : Shows(A) => Shows(A)'
  BY <1>1, ShowsOn
<1>3. Careful /\ f.pc = "added" /\ f.ptr = Absent /\ n > 0 =>
          \A p \in ToSet(list_surface') : context'[p].id # stack[n].id
  <2>1. list_surface' = list_surface
    BY DEF PropsKept, Kept
  <2>2. \A p \in ToSet(list_surface) : context'[p].id = context[p].id
    <3> SUFFICES ASSUME NEW p \in ToSet(list_surface) PROVE context'[p].id = context[p].id
      OBVIOUS
    <3>1. p \in Ptrs /\ context[p] # Absent
      BY SoundParts, ListsAre, Kinds DEF Listings, Surfaced
    <3> QED BY <3>1 DEF PropsKept, Kept
  <2> QED BY <2>1, <2>2
<1> QED BY <1>2, <1>3, PuttingPrompt DEF Account

\* What is claimed of a call that begins.
LEMMA NewClaim ==
    ASSUME Sound, Outstanding, NEW n, n = Len(stack), Mails(n), UNCHANGED <<compositor, events>>,
           NEW op, NEW id, NEW pc \in Waits, NEW ptr, NEW g, IsCall(g, op, id, pc, ptr),
           stack'[n + 1] = g, NEW M, Recounts(M),
           op = "ilm_getProperties" =>
               \E t \in 1 .. Len(requests') : requests'[t].type = "get" /\ requests'[t].id = id
    PROVE  Claim(n + 1, M)'
<1>1. /\ g.op = op /\ g.id = id /\ g.pc = pc /\ ~g.done /\ pc # "return"
      /\ AnswerIn(g, exists, prop, on_layer) \in g.answers
  BY DEF IsCall, Waits
<1>2. exists' = exists /\ prop' = prop /\ on_layer' = on_layer /\ events' = events
  BY DEF compositor
<1>3. Current(n + 1)'
  BY <1>1, <1>2 DEF Current
<1>4. n \in Nat /\ n + 1 \in Nat /\ ~Open(n + 1)
  BY SoundParts, StackIs DEF Open
<1>5. /\ \A j \in 1 .. Len(events) : ~DoneAt(j, n + 1)
      /\ \A s \in 1 .. Len(requests) : ~SyncAt(s, n + 1)
  BY <1>4 DEF Outstanding, Ends
<1>6. ASSUME NEW s \in 1 .. Len(requests'), SyncAt(s, n + 1)'
      PROVE  s = Len(requests')
  BY <1>5, <1>6, SoundParts, NewSyncs DEF SyncAt
<1>7. SUFFICES ASSUME Getter(g), NEW s \in 1 .. Len(requests'), SyncAt(s, n + 1)'
               PROVE  Asked(n + 1, s)' \/ SuitsAt(n + 1, M[Len(events)])'
  BY <1>1, <1>2, <1>3, <1>5 DEF Claim, Getter, Followed, DoneAt
<1>8. CASE op = "ilm_getLayerIDs"
  <2>1. PICK A : A = M[Len(events)]
    OBVIOUS
  <2>2. \A i \in Ids : A[i] # Absent <=> i \in exists
    BY <2>1 DEF Recounts
  <2>3. {l \in Layers : A[l] # Absent} = exists \cap Layers
    BY <2>2, Kinds
  <2>4. AnswerIn(g, exists, prop, on_layer) = exists \cap Layers /\ View(g, A) = {l \in Layers : A[l] # Absent}
    BY <1>1, <1>8 DEF AnswerIn, View
  <2>5. Suits(g, View(g, A))
    BY <1>1, <2>3, <2>4 DEF Suits
  <2>6. SuitsAt(n + 1, A)'
    BY <2>5 DEF SuitsAt
  <2> QED BY <1>2, <2>1, <2>6
<1>9. CASE op # "ilm_getLayerIDs"
  <2>1. op = "ilm_getProperties"
    BY <1>1, <1>7, <1>9 DEF Getter
  <2>2. s = Len(requests')
    BY <1>6, <1>7
  <2> QED BY <1>1, <2>1, <2>2 DEF Asked
<1> QED BY <1>8, <1>9

LEMMA BeginPrompt ==
    ASSUME Sound, Prompt, BeginCall
    PROVE  Prompt'
<1>1. PICK op, id, pc, ptr, R : Begins(op, id, pc, ptr, R)
  BY BeginIs
<1>2. PICK g, n : g = Witnessed(Frame(op, id, pc, ptr), exists, prop, on_layer) /\ n = Len(stack)
  OBVIOUS
<1>3. IsCall(g, op, id, pc, ptr) /\ pc \in Waits
  BY <1>1, <1>2, SoundParts, CallFrame DEF Begins
<1>4. Call(op, id, pc, ptr, R)
  BY <1>1 DEF Begins
<1>5. stack' = Append(stack, g) /\ UNCHANGED <<compositor, events>> /\ UNCHANGED mirror
  BY <1>2, <1>4 DEF Call, mirror
<1>6. n \in Nat /\ Putting(n, g)
  BY <1>2, <1>3, <1>5, SoundParts, StackIs, PushPuts DEF IsCall
<1>7. g.pc \in Waits /\ ~g.done
  BY <1>3 DEF IsCall
<1>8. Open(n + 1)'
  BY <1>6, <1>7 DEF Open, Putting
<1>9. requests' = requests \o R \o <<SyncRequest(n + 1)>> /\ requests \in Seq(Requests) /\ n + 1 \in Nat
  BY <1>2, <1>4, <1>6, SoundParts DEF Call
<1>10. Asks(n + 1) /\ (op = "ilm_getProperties" =>
          \E t \in 1 .. Len(requests') : requests'[t].type = "get" /\ requests'[t].id = id)
  <2>1. CASE R = <<>> /\ op # "ilm_getProperties"
    <3>1. SendsSync(n + 1)
      BY <1>9, <2>1, SyncSent
    <3> QED BY <1>9, <2>1, <3>1, AsksIs
  <2>2. ASSUME NEW r \in Requests, R = <<r>>, r.type \notin {"sync_remove", "sync"},
               op = "ilm_getProperties" => r.type = "get" /\ r.id = id
        PROVE  Asks(n + 1) /\ (op = "ilm_getProperties" =>
                   \E t \in 1 .. Len(requests') : requests'[t].type = "get" /\ requests'[t].id = id)
    <3>1. Sends(r, n + 1)
      BY <1>9, <2>2, RequestSent
    <3>2. Asks(n + 1)
      BY <1>9, <2>2, <3>1, AsksIs
    <3>3. Len(requests) + 1 \in 1 .. Len(requests') /\ requests'[Len(requests) + 1] = r
      BY <3>1 DEF Sends, Grows
    <3> QED BY <2>2, <3>2, <3>3
  <2> QED BY <1>1, <2>1, <2>2 DEF Begins
<1>11. Mails(n) /\ Idle(n) /\ Stable(n) /\ PropsKept
  BY <1>2, <1>5, <1>6, <1>8, <1>10, UnchangedProps DEF Mails, Idle, Stable
<1>12. g.pc \notin {"registered", "added"}
  BY <1>7 DEF Waits
<1>13. Outstanding /\ stack'[n + 1] = g
  BY <1>6 DEF Prompt, Putting
<1>14. ASSUME NEW M, Account(M) PROVE Claim(n + 1, M)'
  BY <1>2, <1>3, <1>5, <1>10, <1>11, <1>13, <1>14, NewClaim DEF Account
<1> QED BY <1>5, <1>6, <1>11, <1>12, <1>14, KeptPutting

-----------------------------------------------------------------------------
(* What the getters are answered, when an event is dispatched.             *)

\* The calls are the same, but a done event ends the roundtrip of one, and the
\* application may be told of the event.
Received ==
    /\ Len(stack) \in Nat /\ Len(stack') \in {Len(stack), Len(stack) + 1}
    /\ \A i \in 1 .. Len(stack) :
          /\ SameCall(stack[i], stack'[i])
          /\ stack'[i].value = stack[i].value /\ stack'[i].answers = stack[i].answers
          /\ stack'[i].done <=> (stack[i].done \/ DoneAt(1, i))
    /\ Len(stack') = Len(stack) + 1 =>
          stack'[Len(stack) + 1].pc \in {"created", "removed", "changed"}

LEMMA FirstIs ==
    ASSUME Dispatching, NEW n, n = Len(events) - 1
    PROVE  /\ n \in Nat /\ Len(events) = n + 1 /\ Len(events') = n /\ Head(events) = events[1]
           /\ 1 \in 1 .. Len(events) /\ Head(events) \in Events
           /\ \A j \in 1 .. n : events'[j] = events[j + 1]
           /\ exists' = exists /\ prop' = prop /\ on_layer' = on_layer /\ requests' = requests
<1>1. events \in Seq(Events) /\ events # <<>> /\ events' = Tail(events)
  BY SoundParts DEF Dispatching
<1>2. /\ n \in Nat /\ Len(events) = n + 1 /\ Len(events') = n /\ Head(events) = events[1]
      /\ Head(events) \in Events /\ \A j \in 1 .. n : events'[j] = events[j + 1]
  BY <1>1, TailIs
<1> QED BY <1>2 DEF Dispatching, compositor

LEMMA ReceivedIs ==
    ASSUME Dispatching, Head(events).type # "done",
           \/ stack' = stack
           \/ \E kind \in {"created", "removed", "changed"}, p \in Ptrs : \E wanted :
                 stack' = CallBack(stack, kind, p, wanted)
    PROVE  Received
<1>1. \A i : ~DoneAt(1, i)
  BY FirstIs DEF DoneAt
<1>2. Stack /\ stack \in Seq(Frames) /\ Len(stack) \in Nat
      /\ \A i \in 1 .. Len(stack) : stack[i] \in Frames
  BY SoundParts, StackIs DEF Dispatching, Stack
<1>3. \A i \in 1 .. Len(stack) : stack[i].done \in BOOLEAN
  BY <1>2 DEF Frames
<1>4. CASE stack' = stack
  BY <1>1, <1>2, <1>3, <1>4 DEF Received, SameCall
<1>5. ASSUME NEW kind \in {"created", "removed", "changed"}, NEW p \in Ptrs,
             stack' = Append(stack, Callback(kind, p))
      PROVE  Received
  <2>1. PICK f : f = Callback(kind, p)
    OBVIOUS
  <2>2. kind \in Callbacks /\ p \in Ptrs \cup {Absent} /\ p # Absent
    BY Kinds DEF Callbacks
  <2>3. f \in Frames /\ f.pc = kind
    BY <2>1, <2>2, CallbackIs
  <2>4. stack' = Append(stack, f)
    BY <1>5, <2>1
  <2>5. /\ Len(stack') = Len(stack) + 1 /\ stack'[Len(stack) + 1] = f
        /\ \A i \in 1 .. Len(stack) : stack'[i] = stack[i]
    BY <1>2, <2>3, <2>4, AppendIs
  <2> QED BY <1>1, <1>2, <1>3, <2>3, <2>5 DEF Received, SameCall
<1> QED BY <1>4, <1>5 DEF CallBack

LEMMA ReceivedEnds ==
    ASSUME Dispatching, Outstanding, Received
    PROVE  Outstanding'
<1>1. PICK n : n = Len(events) - 1
  OBVIOUS
<1>2. /\ n \in Nat /\ Len(events) = n + 1 /\ Len(events') = n /\ 1 \in 1 .. Len(events)
      /\ (\A j \in 1 .. n : events'[j] = events[j + 1]) /\ requests' = requests
  BY <1>1, FirstIs
<1> SUFFICES ASSUME NEW i \in Nat PROVE Ends(i)'
  BY DEF Outstanding
<1>3. Ends(i)
  BY DEF Outstanding
<1>4. ASSUME NEW j \in 1 .. Len(events'), DoneAt(j, i)'
      PROVE  j + 1 \in 1 .. Len(events) /\ DoneAt(j + 1, i) /\ j + 1 # 1
  BY <1>2, <1>4 DEF DoneAt
<1>5. \A s \in 1 .. Len(requests') : SyncAt(s, i)' => s \in 1 .. Len(requests) /\ SyncAt(s, i)
  BY <1>2 DEF SyncAt
<1>6. CASE DoneAt(1, i)
  <2>1. \A j \in 1 .. Len(events') : ~DoneAt(j, i)'
    BY <1>2, <1>3, <1>4, <1>6 DEF Ends
  <2>2. \A s \in 1 .. Len(requests') : ~SyncAt(s, i)'
    BY <1>2, <1>3, <1>5, <1>6 DEF Ends
  <2> QED BY <2>1, <2>2 DEF Ends
<1>7. CASE ~DoneAt(1, i)
  <2>1. Open(i) => Open(i)'
    BY <1>7 DEF Open, Received, SameCall
  <2>2. \A s \in 1 .. Len(requests') : SyncAt(s, i)' => Open(i)'
    BY <1>3, <1>5, <2>1 DEF Ends
  <2>3. \A j \in 1 .. Len(events') : DoneAt(j, i)' => Open(i)'
    BY <1>3, <1>4, <2>1 DEF Ends
  <2>4. \A s, t \in 1 .. Len(requests') : SyncAt(s, i)' /\ SyncAt(t, i)' => s = t
    BY <1>3, <1>5 DEF Ends
  <2>5. ASSUME NEW j \in 1 .. Len(events'), NEW k \in 1 .. Len(events'), DoneAt(j, i)', DoneAt(k, i)'
        PROVE  j = k
    <3>1. j + 1 = k + 1
      BY <1>3, <1>4, <2>5 DEF Ends
    <3> QED BY <1>2, <3>1
  <2>6. \A s \in 1 .. Len(requests'), j \in 1 .. Len(events') : ~(SyncAt(s, i)' /\ DoneAt(j, i)')
    BY <1>3, <1>4, <1>5 DEF Ends
  <2> QED BY <2>2, <2>3, <2>4, <2>5, <2>6 DEF Ends
<1> QED BY <1>6, <1>7

LEMMA RecountsLess ==
    ASSUME Dispatching, NEW M, Recounts(M), NEW n, n = Len(events) - 1
    PROVE  \E N : /\ Recounts(N)' /\ Recount(Head(events), M[0], N[0])
                  /\ \A k \in 0 .. n : N[k] = M[k + 1]
<1>1. /\ n \in Nat /\ Len(events) = n + 1 /\ Len(events') = n /\ Head(events) = events[1]
      /\ (\A j \in 1 .. n : events'[j] = events[j + 1]) /\ exists' = exists
  BY FirstIs
<1>2. /\ M \in [0 .. n + 1 -> [Ids -> Looks]]
      /\ \A id \in Ids : M[n + 1][id] # Absent <=> id \in exists
      /\ \A k \in 1 .. n + 1 : Recount(events[k], M[k - 1], M[k])
  BY <1>1 DEF Recounts
<1>3. PICK N : N = [k \in 0 .. n |-> M[k + 1]]
  OBVIOUS
<1>4. \A k \in 0 .. n : N[k] = M[k + 1]
  BY <1>3
<1>5. N \in [0 .. n -> [Ids -> Looks]]
  BY <1>1, <1>2, <1>3
<1>6. ASSUME NEW k \in 1 .. n PROVE Recount(events'[k], N[k - 1], N[k])
  <2>1. k + 1 \in 1 .. n + 1 /\ (k + 1) - 1 = k /\ k \in 0 .. n /\ k - 1 \in 0 .. n /\ (k - 1) + 1 = k
    BY <1>1
  <2>2. Recount(events[k + 1], M[k], M[k + 1])
    BY <1>2, <2>1
  <2>3. N[k - 1] = M[k] /\ N[k] = M[k + 1]
    BY <1>4, <2>1
  <2> QED BY <1>1, <2>2, <2>3
<1>7. Recounts(N)'
  <2>1. \A id \in Ids : N[n][id] # Absent <=> id \in exists'
    BY <1>1, <1>2, <1>4
  <2> QED BY <1>1, <1>5, <1>6, <2>1 DEF Recounts
<1>8. Recount(Head(events), M[0], N[0])
  <2>1. 1 \in 1 .. n + 1 /\ 1 - 1 = 0 /\ 0 \in 0 .. n /\ 0 + 1 = 1
    BY <1>1
  <2>2. Recount(events[1], M[0], M[1])
    BY <1>2, <2>1
  <2> QED BY <1>1, <1>4, <2>1, <2>2
<1> QED BY <1>4, <1>7, <1>8

\* The client knows what the first event told it.
LEMMA ReceivedClaim ==
    ASSUME Dispatching, Received, NEW n, n = Len(events) - 1, NEW i \in 1 .. Len(stack),
           NEW M, Claim(i, M), NEW N, \A k \in 0 .. n : N[k] = M[k + 1]
    PROVE  Claim(i, N)'
<1>1. /\ n \in Nat /\ Len(events) = n + 1 /\ Len(events') = n /\ 1 \in 1 .. Len(events)
      /\ (\A j \in 1 .. n : events'[j] = events[j + 1]) /\ requests' = requests
      /\ exists' = exists /\ prop' = prop /\ on_layer' = on_layer
  BY FirstIs
<1>2. PICK f, g : f = stack[i] /\ g = stack'[i]
  OBVIOUS
<1>3. /\ g.op = f.op /\ g.id = f.id /\ g.pc = f.pc /\ g.value = f.value /\ g.answers = f.answers
      /\ g.done <=> (f.done \/ DoneAt(1, i))
  BY <1>2 DEF Received, SameCall
<1>4. ASSUME NEW A, SuitsAt(i, A) PROVE SuitsAt(i, A)'
  <2>1. View(g, A) = View(f, A)
    BY <1>3 DEF View
  <2>2. Suits(g, View(g, A))
    BY <1>2, <1>3, <1>4, <2>1 DEF SuitsAt, Suits
  <2> QED BY <1>2, <2>2 DEF SuitsAt
<1>5. Current(i) => Current(i)'
  <2>1. AnswerIn(g, exists', prop', on_layer') = AnswerIn(f, exists, prop, on_layer)
    BY <1>1, <1>3 DEF AnswerIn
  <2> QED BY <1>2, <1>3, <2>1 DEF Current
<1>6. SUFFICES ASSUME Getter(stack[i])
               PROVE  /\ g.pc \in Waits => Current(i)'
                      /\ g.pc \in Waits /\ g.done => \A k \in 0 .. n : SuitsAt(i, N[k])'
                      /\ \A j \in 1 .. n : DoneAt(j, i)' => \A k \in j .. n : SuitsAt(i, N[k])'
                      /\ \A s \in 1 .. Len(requests) :
                            SyncAt(s, i)' => Asked(i, s)' \/ SuitsAt(i, N[n])'
                      /\ g.pc = "return" => Suits(g, g.value)
  BY <1>1, <1>2, <1>3 DEF Claim, Getter, Followed
<1>7. /\ f.pc \in Waits => Current(i)
      /\ f.pc \in Waits /\ f.done => \A k \in 0 .. n + 1 : SuitsAt(i, M[k])
      /\ \A j \in 1 .. n + 1 : DoneAt(j, i) => \A k \in j .. n + 1 : SuitsAt(i, M[k])
      /\ \A s \in 1 .. Len(requests) : SyncAt(s, i) => Asked(i, s) \/ SuitsAt(i, M[n + 1])
      /\ f.pc = "return" => Suits(f, f.value)
  BY <1>1, <1>2, <1>6 DEF Claim
<1>8. ASSUME NEW k \in 0 .. n, SuitsAt(i, M[k + 1]) PROVE SuitsAt(i, N[k])'
  <2>1. PICK A : A = M[k + 1]
    OBVIOUS
  <2>2. SuitsAt(i, A)' /\ N[k] = A
    BY <1>4, <1>8, <2>1
  <2> QED BY <2>2 DEF SuitsAt
<1>9. ASSUME g.pc \in Waits, g.done, NEW k \in 0 .. n PROVE SuitsAt(i, N[k])'
  <2>1. k + 1 \in 0 .. n + 1 /\ k + 1 \in 1 .. n + 1 /\ 1 \in 1 .. n + 1
    BY <1>1
  <2>2. SuitsAt(i, M[k + 1])
    BY <1>3, <1>7, <1>9, <2>1
  <2> QED BY <1>8, <2>2
<1>10. ASSUME NEW j \in 1 .. n, DoneAt(j, i)', NEW k \in j .. n PROVE SuitsAt(i, N[k])'
  <2>1. j + 1 \in 1 .. n + 1 /\ k + 1 \in j + 1 .. n + 1 /\ k \in 0 .. n
    BY <1>1
  <2>2. DoneAt(j + 1, i)
    BY <1>1, <1>10 DEF DoneAt
  <2>3. SuitsAt(i, M[k + 1])
    BY <1>7, <2>1, <2>2
  <2> QED BY <1>8, <2>1, <2>3
<1>11. ASSUME NEW s \in 1 .. Len(requests), SyncAt(s, i)' PROVE Asked(i, s)' \/ SuitsAt(i, N[n])'
  <2>1. SyncAt(s, i)
    BY <1>1, <1>11 DEF SyncAt
  <2>2. Asked(i, s) => Asked(i, s)'
    BY <1>1, <1>2, <1>3 DEF Asked
  <2>3. n \in 0 .. n
    BY <1>1
  <2> QED BY <1>7, <1>8, <2>1, <2>2, <2>3
<1>12. (g.pc \in Waits => Current(i)') /\ (g.pc = "return" => Suits(g, g.value))
  BY <1>3, <1>5, <1>7 DEF Suits
<1> QED BY <1>9, <1>10, <1>11, <1>12

\* The contexts show what the client knows after the event e.
Follows(e) == Unique' /\ \A A, B : Recount(e, A, B) /\ Shows(A) => Shows(B)'

LEMMA ReceivedPrompt ==
    ASSUME Dispatching, Prompt, Received, Follows(Head(events))
    PROVE  Prompt'
<1>1. PICK n, m : n = Len(events) - 1 /\ m = Len(stack)
  OBVIOUS
<1>2. /\ m \in Nat /\ Len(stack') \in {m, m + 1}
      /\ \A i \in 1 .. m : SameCall(stack[i], stack'[i]) /\ (stack[i].done => stack'[i].done)
      /\ Len(stack') = m + 1 => stack'[m + 1].pc \in {"created", "removed", "changed"}
  BY <1>1 DEF Received
<1>3. AwaitsContext /\ Rested /\ Outstanding
  BY DEF Prompt
<1>4. PICK M : Account(M)
  BY DEF Prompt
<1>5. Outstanding'
  BY <1>3, ReceivedEnds
<1>6. Rested'
  <2> SUFFICES ASSUME NEW i \in 1 .. Len(stack'), stack'[i].pc \in {"registered", "added"}
               PROVE  i > 1 /\ stack'[i - 1].done
    BY DEF Rested, Rests
  <2>1. i \in 1 .. m
    BY <1>2
  <2>2. stack[i].pc \in {"registered", "added"}
    BY <1>2, <2>1 DEF SameCall
  <2>3. i > 1 /\ stack[i - 1].done
    BY <1>1, <1>3, <2>1, <2>2 DEF Rested, Rests
  <2>4. i - 1 \in 1 .. m
    BY <1>2, <2>1, <2>3
  <2> QED BY <1>2, <2>3, <2>4
<1>7. AwaitsContext'
  <2> SUFFICES ASSUME NEW k \in 2 .. Len(stack'), k = Len(stack'), stack'[k].pc = "added"
               PROVE  FALSE
    BY DEF AwaitsContext
  <2>1. k = m /\ k \in 1 .. m
    BY <1>2
  <2>2. stack[m].pc = "added"
    BY <1>2, <2>1 DEF SameCall
  <2>3. FrameSound(stack[m])
    BY <1>1, <2>1, SoundParts, StackIs DEF Dispatching
  <2>4. stack[m].op = "callback"
    BY <2>2, <2>3 DEF FrameSound, Callbacks
  <2>5. Stack /\ Free /\ m > 0
    BY <2>1, SoundParts DEF Dispatching
  <2> QED BY <1>1, <2>4, <2>5, FreeTop
<1>8. PICK N : /\ Recounts(N)' /\ Recount(Head(events), M[0], N[0])
               /\ \A k \in 0 .. n : N[k] = M[k + 1]
  BY <1>1, <1>4, RecountsLess DEF Account
<1>9. Unique' /\ Shows(N[0])'
  <2>1. PICK A, B : A = M[0] /\ B = N[0]
    OBVIOUS
  <2>2. Unique' /\ Shows(B)'
    BY <1>4, <1>8, <2>1 DEF Follows, Account
  <2> QED BY <2>1, <2>2 DEF Shows
<1>10. ASSUME NEW i \in 1 .. Len(stack') PROVE Claim(i, N)'
  <2>1. CASE i \in 1 .. m
    <3>1. Claim(i, M)
      BY <1>1, <1>4, <2>1 DEF Account
    <3> QED BY <1>1, <1>8, <2>1, <3>1, ReceivedClaim
  <2>2. CASE i \notin 1 .. m
    <3>1. i = m + 1 /\ stack'[i].pc \in {"created", "removed", "changed"} /\ i \in Nat
      BY <1>2, <2>2
    <3>2. stack'[i].pc \notin Waits /\ stack'[i].pc # "return"
      BY <3>1 DEF Waits
    <3> QED BY <1>5, <3>1, <3>2, IdleClaim
  <2> QED BY <2>1, <2>2
<1>11. Account(N)'
  BY <1>8, <1>9, <1>10 DEF Account
<1> QED BY <1>5, <1>6, <1>7, <1>9, <1>11 DEF Prompt

\* The lookup finds each of the contexts.
LEMMA TrackedIs ==
    ASSUME Sound, Unique, NEW p \in Tracked
    PROVE  /\ p \in Ptrs /\ context[p] # Absent /\ context[p].id \in Ids
           /\ Lookup(context[p].id) = p
<1>1. Mirror /\ Listings
  BY SoundParts
<1>2. PICK id : id = context[p].id
  OBVIOUS
<1>3. /\ p \in Ptrs /\ context[p] # Absent /\ id \in Ids /\ p \in ToSet(ListOf(id))
      /\ ToSet(ListOf(id)) \subseteq Tracked
  <2>1. CASE p \in ToSet(list_layer)
    <3>1. p \in LayerPtrs /\ context[p] # Absent /\ id \in Layers
      BY <1>1, <1>2, <2>1, ListsAre DEF Listings, Layered
    <3>2. ListOf(id) = list_layer
      BY <3>1, Kinds DEF ListOf
    <3> QED BY <2>1, <3>1, <3>2, Kinds DEF Tracked
  <2>2. CASE p \notin ToSet(list_layer)
    <3>1. p \in ToSet(list_surface) /\ Careful
      BY <2>2 DEF Tracked
    <3>2. p \in SurfacePtrs /\ context[p] # Absent /\ id \in Surfaces
      BY <1>1, <1>2, <3>1, ListsAre DEF Listings, Surfaced
    <3>3. ListOf(id) = list_surface
      BY <3>2 DEF ListOf
    <3> QED BY <3>1, <3>2, <3>3, Kinds DEF Tracked
  <2> QED BY <2>1, <2>2
<1>4. Lookup(id) # Absent /\ Lookup(id) \in ToSet(ListOf(id)) /\ context[Lookup(id)].id = id
  BY <1>1, <1>2, <1>3, FoundIs
<1>5. Lookup(id) = p
  BY <1>2, <1>3, <1>4 DEF Unique
<1> QED BY <1>2, <1>3, <1>5

LEMMA GoesStays ==
    ASSUME Received
    PROVE  \A p : Goes(p) => Goes(p)'
BY DEF Received, Goes, SameCall

\* No context comes, and none that stays is assigned to.
LEMMA FewerFollow ==
    ASSUME Dispatching, Prompt, Received, NEW e, e = Head(events),
           \A q \in Tracked' : q \in Tracked /\ context'[q] = context[q],
           \A A, B : Recount(e, A, B) => \A q \in Tracked' :
               context[q].id = e.id /\ ~Goes(q)' => Shown(B[e.id]) = Shown(A[e.id])
    PROVE  Follows(e)
<1>1. Sound /\ Unique
  BY DEF Dispatching, Prompt
<1>2. Unique'
  BY <1>1 DEF Unique
<1>3. ASSUME NEW A, NEW B, Recount(e, A, B), Shows(A), NEW q \in Tracked', ~Goes(q)'
      PROVE  context'[q].prop = Shown(B[context'[q].id])
  <2>1. q \in Tracked /\ context'[q] = context[q] /\ ~Goes(q) /\ context[q].id \in Ids
    BY <1>1, <1>3, GoesStays, TrackedIs
  <2>2. context[q].prop = Shown(A[context[q].id])
    BY <1>3, <2>1 DEF Shows
  <2>3. CASE context[q].id = e.id
    BY <1>3, <2>1, <2>2, <2>3
  <2>4. CASE context[q].id # e.id
    <3>1. B[context[q].id] = A[context[q].id]
      BY <1>3, <2>1, <2>4 DEF Recount
    <3> QED BY <2>1, <2>2, <3>1
  <2> QED BY <2>3, <2>4
<1> QED BY <1>2, <1>3 DEF Follows, Shows

LEMMA SameTracked ==
    ASSUME UNCHANGED mirror
    PROVE  Tracked' = Tracked /\ context' = context
BY DEF mirror, Tracked

LEMMA OrderPrompt ==
    ASSUME Dispatching, Prompt, NEW e, e = Head(events), e.type = "order", SurfacesAdded(e.id, e.value)
    PROVE  Prompt'
<1>1. Sound /\ e \in Events /\ e.id \in Layers /\ e.value \in Seq(Surfaces) /\ e.id \in Ids
  BY SoundParts, TailIs, EventKinds, Kinds DEF Dispatching
<1>2. PICK n, p : n = Len(stack) /\ p = Lookup(e.id)
  OBVIOUS
<1>3. /\ context' = IF p = Absent THEN context ELSE [context EXCEPT ![p].render_order = @ \o e.value]
      /\ UNCHANGED <<list_surface, list_layer, stack>>
  BY <1>2 DEF SurfacesAdded
<1>4. Received
  BY <1>3, ReceivedIs
<1>5. Leaves(n) /\ n \in Nat /\ Len(stack') = n
  BY <1>1, <1>2, <1>3, SoundParts, StackIs DEF Leaves
<1>6. Stable(n)
  BY <1>2, <1>5 DEF Stable
<1>7. PropsKept
  <2>1. CASE p = Absent
    <3>1. UNCHANGED mirror
      BY <1>3, <2>1 DEF mirror
    <3> QED BY <3>1, UnchangedProps
  <2>2. CASE p # Absent
    <3>1. p \in Ptrs /\ context[p] \in Contexts /\ context[p] # Absent
      BY <1>1, <1>2, <2>2, SoundParts, FoundIs
    <3>2. PICK q : q = context[p].render_order \o e.value
      OBVIOUS
    <3>3. q \in Seq(Surfaces)
      <4>1. context[p].render_order \in Seq(Surfaces)
        BY <3>1 DEF Contexts
      <4> QED BY <1>1, <3>2, <4>1
    <3>4. PICK c : c = [context[p] EXCEPT !.render_order = q]
      OBVIOUS
    <3>5. c \in Contexts /\ c.id = context[p].id /\ c.prop = context[p].prop
      BY <3>1, <3>3, <3>4 DEF Contexts
    <3>6. context' = [context EXCEPT ![p] = c]
      BY <1>3, <2>2, <3>2, <3>4
    <3>7. Kept /\ context'[p] = c /\ \A r \in Ptrs \ {p} : context'[r] = context[r]
      BY <1>1, <1>3, <3>1, <3>5, <3>6, SoundParts, ContextSet
    <3> QED BY <3>5, <3>7 DEF PropsKept
  <2> QED BY <2>1, <2>2
<1>8. Unique' /\ \A A : Shows(A) => Shows(A)'
  BY <1>1, <1>5, <1>6, <1>7, ShowsOn
<1>9. Unique /\ \A q \in Tracked : context'[q].id = context[q].id /\ context[q].id \in Ids
  <2>1. Unique
    BY DEF Prompt
  <2> QED BY <1>1, <1>7, <2>1, TrackedIs DEF PropsKept, Kept
<1>10. ASSUME NEW A, NEW B, Recount(e, A, B), Shows(A) PROVE Shows(B)'
  <2>1. \A id \in Ids : B[id] = A[id]
    BY <1>10 DEF Recount, Changes
  <2>2. Tracked' = Tracked
    BY <1>3 DEF Tracked, Careful
  <2>3. Shows(A)'
    BY <1>8, <1>10
  <2> QED BY <1>9, <2>1, <2>2, <2>3 DEF Shows
<1>11. Follows(e)
  BY <1>8, <1>10 DEF Follows
<1> QED BY <1>4, <1>11, ReceivedPrompt

LEMMA PropPrompt ==
    ASSUME Dispatching, Prompt, NEW e, e = Head(events), e.type = "prop", PropChanged(e.id, e.value)
    PROVE  Prompt'
<1>1. Sound /\ e \in Events /\ e.id \in Ids /\ e.value \in Props /\ Unique
  BY SoundParts, TailIs, EventKinds DEF Dispatching, Prompt
<1>2. PICK p : p = Lookup(e.id)
  OBVIOUS
<1>3. e.type \in Changes /\ e.type # "done" /\ Absent \notin Props
  BY ControlAssumption DEF Changes
<1>4. \A A, B : Recount(e, A, B) => Shown(B[e.id]) = e.value /\ \A id \in Ids : id # e.id => B[id] = A[id]
  BY <1>1, <1>3 DEF Recount, Shown
<1>5. \A q \in Tracked : context[q].id = e.id => q = p
  BY <1>1, <1>2, TrackedIs
<1>6. CASE p = Absent \/ context[p].prop = e.value
  <2>1. UNCHANGED <<mirror, stack>>
    BY <1>2, <1>6 DEF PropChanged
  <2>2. Received /\ Tracked' = Tracked /\ context' = context
    BY <1>3, <2>1, ReceivedIs, SameTracked
  <2>3. Unique'
    BY <1>1, <2>2 DEF Unique
  <2>4. ASSUME NEW A, NEW B, Recount(e, A, B), Shows(A), NEW q \in Tracked, ~Goes(q)'
        PROVE  context[q].prop = Shown(B[context[q].id])
    <3>1. ~Goes(q) /\ context[q].id \in Ids /\ q # Absent
      BY <1>1, <2>2, <2>4, GoesStays, TrackedIs, Kinds
    <3>2. context[q].prop = Shown(A[context[q].id])
      BY <2>4, <3>1 DEF Shows
    <3>3. CASE context[q].id = e.id
      BY <1>4, <1>5, <1>6, <2>4, <3>1, <3>3
    <3>4. CASE context[q].id # e.id
      <4>1. B[context[q].id] = A[context[q].id]
        BY <1>4, <2>4, <3>1, <3>4
      <4> QED BY <3>2, <4>1
    <3> QED BY <3>3, <3>4
  <2>5. Follows(e)
    BY <2>2, <2>3, <2>4 DEF Follows, Shows
  <2> QED BY <2>2, <2>5, ReceivedPrompt
<1>7. CASE ~(p = Absent \/ context[p].prop = e.value)
  <2>1. /\ context' = [context EXCEPT ![p].prop = e.value]
        /\ stack' = CallBack(stack, "changed", p, context[p].notification)
        /\ UNCHANGED <<list_surface, list_layer>>
    BY <1>2, <1>7 DEF PropChanged
  <2>2. p \in Ptrs /\ context[p] \in Contexts /\ context[p] # Absent
    BY <1>1, <1>2, <1>7, SoundParts, FoundIs
  <2>3. PICK c : c = [context[p] EXCEPT !.prop = e.value]
    OBVIOUS
  <2>4. c \in Contexts /\ c.id = context[p].id /\ c.prop = e.value
    BY <1>1, <2>2, <2>3 DEF Contexts
  <2>5. context' = [context EXCEPT ![p] = c]
    BY <2>1, <2>3
  <2>6. context'[p] = c /\ \A q \in Ptrs \ {p} : context'[q] = context[q]
    BY <1>1, <2>1, <2>2, <2>4, <2>5, SoundParts, ContextSet
  <2>7. Received
    BY <1>3, <2>1, <2>2, ReceivedIs
  <2>8. Tracked' = Tracked
    BY <2>1 DEF Tracked, Careful
  <2>9. \A q \in Tracked : context'[q].id = context[q].id /\ q \in Ptrs
    BY <1>1, <2>4, <2>6, TrackedIs
  <2>10. Unique'
    BY <1>1, <2>8, <2>9 DEF Unique
  <2>11. ASSUME NEW A, NEW B, Recount(e, A, B), Shows(A), NEW q \in Tracked, ~Goes(q)'
        PROVE  context'[q].prop = Shown(B[context'[q].id])
    <3>1. ~Goes(q) /\ context[q].id \in Ids
      BY <1>1, <2>7, <2>11, GoesStays, TrackedIs
    <3>2. context[q].prop = Shown(A[context[q].id])
      BY <2>11, <3>1 DEF Shows
    <3>3. CASE context[q].id = e.id
      BY <1>4, <1>5, <2>4, <2>6, <2>11, <3>3
    <3>4. CASE context[q].id # e.id
      <4>1. B[context[q].id] = A[context[q].id]
        BY <1>4, <2>11, <3>1, <3>4
      <4>2. q # p
        BY <1>1, <1>2, <1>7, <3>4, SoundParts, FoundIs
      <4> QED BY <2>6, <2>9, <3>2, <4>1, <4>2
    <3> QED BY <3>3, <3>4
  <2>12. Follows(e)
    BY <2>8, <2>10, <2>11 DEF Follows, Shows
  <2> QED BY <2>7, <2>12, ReceivedPrompt
<1> QED BY <1>6, <1>7

\* A context comes for an object that none shows.
LEMMA NewTracked ==
    ASSUME Sound, Unique, NEW id, NEW p, Added(id, p), \A q \in Tracked : context[q].id # id
    PROVE  /\ Unique' /\ Tracked' \subseteq Tracked \cup {p} /\ context'[p].id = id
           /\ \A q \in Tracked : q # p /\ context'[q] = context[q]
<1>1. Mirror /\ Listings
  BY SoundParts
<1>2. id \in Layers => \A q \in ToSet(list_layer) : context[q].id # id
  BY DEF Tracked
<1>3. /\ ToSet(list_surface') = ToSet(list_surface) \cup (IF id \in Surfaces THEN {p} ELSE {})
      /\ ToSet(list_layer') = ToSet(list_layer) \cup (IF id \in Layers THEN {p} ELSE {})
      /\ \A q \in ToSet(list_surface) \cup ToSet(list_layer) : q # p /\ context'[q] = context[q]
  BY <1>1, <1>2, AddedListings
<1>4. Tracked' \subseteq Tracked \cup {p} /\ \A q \in Tracked : q # p /\ context'[q] = context[q]
  BY <1>3 DEF Tracked, Careful
<1>5. context'[p].id = id
  BY DEF Added
<1>6. Unique'
  BY <1>4, <1>5 DEF Unique
<1> QED BY <1>4, <1>5, <1>6

LEMMA CreatedPrompt ==
    ASSUME Dispatching, Prompt, NEW e, e = Head(events), e.type = "created", ObjectCreated(e.id)
    PROVE  Prompt'
<1>1. Sound /\ e \in Events /\ e.id \in Ids /\ Unique
  BY SoundParts, TailIs, EventKinds DEF Dispatching, Prompt
<1>2. PICK id : id = e.id
  OBVIOUS
<1>3. e.type \in Changes /\ e.type # "done" /\ Zero # Absent
  BY ControlAssumption DEF Changes
<1>4. \A A, B : Recount(e, A, B) =>
          /\ Shown(B[id]) = Zero /\ Shown(A[id]) = Zero
          /\ \A k \in Ids : k # id => B[k] = A[k]
  BY <1>1, <1>2, <1>3 DEF Recount, Shown
<1>5. CASE Lookup(id) # Absent
  <2>1. UNCHANGED <<mirror, stack>>
    BY <1>2, <1>5 DEF ObjectCreated
  <2>2. Received /\ Tracked' = Tracked /\ context' = context
    BY <1>3, <2>1, ReceivedIs, SameTracked
  <2>3. Follows(e)
    BY <1>2, <1>4, <2>2, FewerFollow
  <2> QED BY <2>2, <2>3, ReceivedPrompt
<1>6. CASE Lookup(id) = Absent
  <2>1. PICK p \in FreePtrs(id) :
            /\ context' = [context EXCEPT ![p] = Context(id)]
            /\ Linked(id, p)
            /\ stack' = CallBack(stack, "created", p, registered)
    BY <1>2, <1>6 DEF ObjectCreated
  <2>2. /\ p \in Ptrs /\ context[p] = Absent
        /\ id \in Surfaces => p \in SurfacePtrs
        /\ id \in Layers => p \in LayerPtrs
    BY Kinds DEF FreePtrs
  <2>3. PICK c : c = Context(id)
    OBVIOUS
  <2>4. c \in Contexts /\ c.id = id /\ c # Absent /\ c.prop = Zero
    BY <1>1, <1>2, <2>3, ContextIs DEF Context
  <2>5. context'[p] = c /\ \A q \in Ptrs \ {p} : context'[q] = context[q]
    BY <1>1, <2>1, <2>2, <2>3, SoundParts DEF Mirror
  <2>6. Added(id, p)
    BY <1>1, <1>2, <2>1, <2>2, <2>4, <2>5, Kinds DEF Added, Linked
  <2>7. \A q \in Tracked : context[q].id # id
    BY <1>1, <1>6, TrackedIs, Kinds
  <2>8. /\ Unique' /\ Tracked' \subseteq Tracked \cup {p}
        /\ \A q \in Tracked : q # p /\ context'[q] = context[q]
    BY <1>1, <2>6, <2>7, NewTracked
  <2>9. Received
    BY <1>3, <2>1, <2>2, ReceivedIs
  <2>10. ASSUME NEW A, NEW B, Recount(e, A, B), Shows(A), NEW q \in Tracked', ~Goes(q)'
        PROVE  context'[q].prop = Shown(B[context'[q].id])
    <3>1. CASE q = p
      BY <1>4, <2>4, <2>5, <2>10, <3>1
    <3>2. CASE q # p
      <4>1. q \in Tracked /\ context'[q] = context[q] /\ context[q].id # id /\ ~Goes(q)
        BY <2>7, <2>8, <2>9, <2>10, <3>2, GoesStays
      <4>2. context[q].id \in Ids /\ context[q].prop = Shown(A[context[q].id])
        BY <1>1, <2>10, <4>1, TrackedIs DEF Shows
      <4>3. B[context[q].id] = A[context[q].id]
        BY <1>4, <2>10, <4>1, <4>2
      <4> QED BY <4>1, <4>2, <4>3
    <3> QED BY <3>1, <3>2
  <2>11. Follows(e)
    BY <2>8, <2>10 DEF Follows, Shows
  <2> QED BY <2>9, <2>11, ReceivedPrompt
<1> QED BY <1>5, <1>6

\* A context is taken out of its list.
LEMMA DroppedTracked ==
    ASSUME Sound, NEW p, Dropped(p)
    PROVE  \A q \in Tracked' : q \in Tracked /\ q # p /\ context'[q] = context[q]
<1>1. /\ ToSet(list_surface') = ToSet(list_surface) \ {p}
      /\ ToSet(list_layer') = ToSet(list_layer) \ {p}
      /\ \A q \in ToSet(list_surface') \cup ToSet(list_layer') : context'[q] = context[q]
  BY SoundParts, DroppedListings
<1> QED BY <1>1 DEF Tracked, Careful

LEMMA DestroyedPrompt ==
    ASSUME Dispatching, Prompt, NEW e, e = Head(events), e.type = "destroyed",
           \/ e.id \in Layers /\ LayerDestroyed(e.id)
           \/ e.id \in Surfaces /\ SurfaceDestroyed(e.id)
    PROVE  Prompt'
<1>1. Sound /\ Mirror /\ Listings /\ e.id \in Ids /\ Unique /\ e.type # "done"
  BY SoundParts, Kinds DEF Dispatching, Prompt
<1>2. PICK p : p = Lookup(e.id)
  OBVIOUS
<1>3. \A q \in Tracked : context[q].id = e.id => q = p /\ p # Absent
  BY <1>1, <1>2, TrackedIs, Kinds
<1>4. p # Absent => p \in Ptrs
  BY <1>1, <1>2, FoundIs
<1>5. CASE UNCHANGED <<mirror, stack>> /\ p = Absent
  <2>1. Received /\ Tracked' = Tracked /\ context' = context
    BY <1>1, <1>5, ReceivedIs, SameTracked
  <2>2. Follows(e)
    BY <1>3, <1>5, <2>1, FewerFollow
  <2> QED BY <2>1, <2>2, ReceivedPrompt
<1>6. ASSUME p # Absent, Dropped(p), Received PROVE Prompt'
  <2>1. \A q \in Tracked' : q \in Tracked /\ q # p /\ context'[q] = context[q]
    BY <1>1, <1>6, DroppedTracked
  <2>2. Follows(e)
    BY <1>3, <1>6, <2>1, FewerFollow
  <2> QED BY <1>6, <2>2, ReceivedPrompt
<1>7. CASE e.id \in Layers /\ LayerDestroyed(e.id) /\ p # Absent
  <2>1. /\ Unlinked(p)
        /\ context' = IF registered THEN context ELSE [context EXCEPT ![p] = Absent]
        /\ stack' = CallBack(stack, "removed", p, registered)
    BY <1>2, <1>7 DEF LayerDestroyed
  <2>2. \A q \in Ptrs \ {p} : context'[q] = context[q]
    BY <1>1, <2>1 DEF Mirror
  <2>3. Dropped(p)
    BY <1>4, <1>7, <2>1, <2>2 DEF Dropped
  <2>4. Received
    BY <1>1, <1>4, <1>7, <2>1, ReceivedIs
  <2> QED BY <1>6, <1>7, <2>3, <2>4
<1>8. CASE e.id \in Surfaces /\ SurfaceDestroyed(e.id) /\ p # Absent
  <2>1. CASE context[p].notification \/ registered
    <3>1. stack' = CallBack(stack, "removed", p, TRUE) /\ UNCHANGED mirror
      BY <1>2, <1>8, <2>1 DEF SurfaceDestroyed
    <3>2. Received /\ Tracked' = Tracked /\ context' = context
      BY <1>1, <1>4, <1>8, <3>1, ReceivedIs, SameTracked
    <3>3. Goes(p)'
      <4>1. PICK f : f = Callback("removed", p)
        OBVIOUS
      <4>2. "removed" \in Callbacks /\ p \in Ptrs \cup {Absent} /\ p # Absent
        BY <1>4, <1>8 DEF Callbacks
      <4>3. f \in Frames /\ f.pc = "removed" /\ f.ptr = p
        BY <4>1, <4>2, CallbackIs
      <4>4. stack' = Append(stack, f)
        BY <3>1, <4>1 DEF CallBack
      <4>5. PICK n : n = Len(stack)
        OBVIOUS
      <4>6. Putting(n, f)
        BY <1>1, <4>3, <4>4, <4>5, SoundParts, PushPuts
      <4> QED BY <4>3, <4>6 DEF Putting, Leaves, Goes
    <3>4. Follows(e)
      BY <1>3, <3>2, <3>3, FewerFollow
    <3> QED BY <3>2, <3>4, ReceivedPrompt
  <2>2. CASE ~(context[p].notification \/ registered)
    <3>1. Unlinked(p) /\ context' = [context EXCEPT ![p] = Absent] /\ stack' = stack
      BY <1>2, <1>8, <2>2 DEF SurfaceDestroyed
    <3>2. \A q \in Ptrs \ {p} : context'[q] = context[q]
      BY <1>1, <3>1 DEF Mirror
    <3>3. Dropped(p)
      BY <1>4, <1>8, <3>1, <3>2 DEF Dropped
    <3>4. Received
      BY <1>1, <3>1, ReceivedIs
    <3> QED BY <1>6, <1>8, <3>3, <3>4
  <2> QED BY <2>1, <2>2
<1>9. p = Absent => UNCHANGED <<mirror, stack>>
  BY <1>2 DEF LayerDestroyed, SurfaceDestroyed
<1> QED BY <1>5, <1>7, <1>8, <1>9

\* The roundtrip of a call is over.
LEMMA DonePrompt ==
    ASSUME Dispatching, Prompt, NEW e, e = Head(events), e.type = "done",
           stack' = [stack EXCEPT ![e.value].done = TRUE], UNCHANGED mirror
    PROVE  Prompt'
<1>1. PICK n, d : n = Len(stack) /\ d = e.value
  OBVIOUS
<1>2. /\ stack \in Seq(Frames) /\ n \in Nat /\ DOMAIN stack = 1 .. n
      /\ \A i \in 1 .. n : stack[i] \in Frames
  BY <1>1, SoundParts, StackIs DEF Stack, Dispatching
<1>3. \A i \in 1 .. n : DoneAt(1, i) <=> i = d
  BY <1>1, FirstIs DEF DoneAt
<1>4. PICK s : s = stack'
  OBVIOUS
<1>5. s = [i \in 1 .. n |-> IF i = d THEN [stack[i] EXCEPT !.done = TRUE] ELSE stack[i]]
  BY <1>1, <1>2, <1>4
<1>6. ASSUME NEW i \in 1 .. n
      PROVE  /\ SameCall(stack[i], stack'[i])
             /\ stack'[i].value = stack[i].value /\ stack'[i].answers = stack[i].answers
             /\ stack'[i].done <=> (stack[i].done \/ DoneAt(1, i))
  <2>1. PICK f, g : f = stack[i] /\ g = s[i]
    OBVIOUS
  <2>2. f \in Frames /\ f.done \in BOOLEAN
    BY <1>2, <2>1 DEF Frames
  <2>3. CASE i = d
    <3>1. g = [f EXCEPT !.done = TRUE]
      BY <1>5, <2>1, <2>3
    <3>2. /\ g.op = f.op /\ g.id = f.id /\ g.pc = f.pc /\ g.ptr = f.ptr /\ g.value = f.value
          /\ g.answers = f.answers /\ g.done = TRUE
      BY <2>2, <3>1 DEF Frames
    <3>3. DoneAt(1, i)
      BY <1>3, <2>3
    <3> QED BY <1>4, <2>1, <3>2, <3>3 DEF SameCall
  <2>4. CASE i # d
    <3>1. g = f /\ ~DoneAt(1, i)
      BY <1>3, <1>5, <2>1, <2>4
    <3> QED BY <1>4, <2>1, <2>2, <3>1 DEF SameCall
  <2> QED BY <2>3, <2>4
<1>7. Len(stack') = n
  BY <1>1, <1>2
<1>8. Received
  <2>1. Len(stack) \in Nat /\ Len(stack') = Len(stack) /\ Len(stack') # Len(stack) + 1
    BY <1>1, <1>2, <1>7
  <2>2. ASSUME NEW i \in 1 .. Len(stack)
        PROVE  /\ SameCall(stack[i], stack'[i])
               /\ stack'[i].value = stack[i].value /\ stack'[i].answers = stack[i].answers
               /\ stack'[i].done <=> (stack[i].done \/ DoneAt(1, i))
    BY <1>1, <1>6
  <2> QED BY <2>1, <2>2 DEF Received
<1>9. Tracked' = Tracked /\ context' = context
  BY SameTracked
<1>10. \A A, B : Recount(e, A, B) => \A id \in Ids : B[id] = A[id]
  BY DEF Recount, Changes
<1>11. \A q \in Tracked : context[q].id \in Ids
  BY TrackedIs DEF Dispatching, Prompt
<1>12. Follows(e)
  BY <1>8, <1>9, <1>10, <1>11, FewerFollow
<1> QED BY <1>8, <1>12, ReceivedPrompt

LEMMA DispatchPrompt ==
    ASSUME Sound, Prompt, DispatchEvent
    PROVE  Prompt'
<1>1. PICK e : e = Head(events)
  OBVIOUS
<1>2. /\ Dispatching
      /\ \/ e.type = "created" /\ ObjectCreated(e.id)
         \/ e.type = "destroyed" /\ e.id \in Layers /\ LayerDestroyed(e.id)
         \/ e.type = "destroyed" /\ e.id \in Surfaces /\ SurfaceDestroyed(e.id)
         \/ e.type = "prop" /\ PropChanged(e.id, e.value)
         \/ e.type = "order" /\ SurfacesAdded(e.id, e.value)
         \/ /\ e.type = "done"
            /\ stack' = [stack EXCEPT ![e.value].done = TRUE]
            /\ UNCHANGED mirror
  BY <1>1 DEF DispatchEvent, Dispatching, Free
<1> QED BY <1>1, <1>2, CreatedPrompt, DestroyedPrompt, PropPrompt, OrderPrompt, DonePrompt

-----------------------------------------------------------------------------
(* What the getters are answered, when a call goes on.                     *)

\* A context is used that was freed, or nothing happens.
LEMMA StutterPrompt ==
    ASSUME Proceeding, Prompt, UNCHANGED <<mirror, stack, requests>>
    PROVE  Prompt'
<1>1. Sound /\ Scene /\ Mail /\ Stack
  BY SoundParts DEF Proceeding
<1>2. /\ UNCHANGED mirror /\ events' = events /\ exists' = exists /\ requests' = requests
      /\ Unobserved /\ Scene'
  BY <1>1 DEF Proceeding, compositor, Unobserved, Scene
<1>3. Seen /\ Drops(0)
  BY <1>1, <1>2, SeenIs, DropsIs
<1> QED BY <1>1, <1>2, <1>3, FarSame

\* The top frame may leave.
LEMMA TopIdle ==
    ASSUME Proceeding, stack # <<>>, Top.pc \in Waits => Top.done, NEW n, n = Len(stack) - 1
    PROVE  /\ n \in Nat /\ Len(stack) = n + 1 /\ n < Len(stack) /\ Top = stack[n + 1] /\ Idle(n)
           /\ Top.pc # "removed" => Stable(n)
<1>1. n \in Nat /\ Len(stack) = n + 1 /\ Top = stack[n + 1]
  BY SoundParts, TopIs DEF Proceeding
<1>2. \A i \in n + 1 .. Len(stack) : i = n + 1
  BY <1>1
<1>3. Idle(n)
  BY <1>1, <1>2 DEF Idle, Open
<1>4. Top.pc # "removed" => Stable(n)
  BY <1>1, <1>2 DEF Stable
<1> QED BY <1>1, <1>3, <1>4

LEMMA PopPrompt ==
    ASSUME Proceeding, Prompt, stack # <<>>, stack' = Pop, requests' = requests, PropsKept,
           Top.pc \in Waits => Top.done, Top.pc # "removed"
    PROVE  Prompt'
<1>1. PICK n : n = Len(stack) - 1
  OBVIOUS
<1>2. n \in Nat /\ Len(stack) = n + 1 /\ n < Len(stack) /\ Idle(n) /\ Stable(n)
  BY <1>1, TopIdle
<1>3. Ending(n)
  BY <1>2, SoundParts, PopEnds DEF Proceeding
<1> QED BY <1>2, <1>3, KeptEnding DEF Proceeding

LEMMA ReturnPrompt ==
    ASSUME Proceeding, Prompt, stack # <<>>, Top.pc \in Waits, Top.done, NEW v \in Values, Return(v),
           requests' = requests, PropsKept,
           \A M : Account(M) /\ Getter(Top) => Suits(Top, v)
    PROVE  Prompt'
<1>1. PICK n, f : n = Len(stack) - 1 /\ f = [Top EXCEPT !.pc = "return", !.value = v]
  OBVIOUS
<1>2. n \in Nat /\ Len(stack) = n + 1 /\ Top = stack[n + 1] /\ Idle(n) /\ Stable(n)
  BY <1>1, TopIdle DEF Waits
<1>3. GoesOnAs(f) /\ f.pc = "return"
  BY <1>1, ReturnFrame
<1>4. f.op = Top.op /\ f.id = Top.id /\ f.value = v /\ f.answers = Top.answers
  <2>1. Top \in Frames
    BY TopPlace
  <2> QED BY <1>1, <2>1 DEF Frames
<1>5. Putting(n, f)
  BY <1>2, <1>3, SoundParts, SwapPuts DEF Proceeding, GoesOnAs
<1>6. Mails(n)
  BY DEF Mails
<1>7. ASSUME NEW M, Account(M), Outstanding' PROVE Claim(n + 1, M)'
  <2>1. stack'[n + 1] = f /\ n + 1 \in Nat /\ stack'[n + 1].pc \notin Waits
    BY <1>2, <1>3, <1>5 DEF Putting, Waits
  <2>2. Getter(f) => Suits(f, f.value)
    BY <1>4, <1>7 DEF Getter, Suits
  <2>3. Getter(stack[n + 1])' /\ stack'[n + 1].pc = "return" => Suits(stack'[n + 1], stack'[n + 1].value)
    BY <2>1, <2>2 DEF Getter, Followed
  <2> QED BY <1>7, <2>1, <2>3, IdleClaim
<1> QED BY <1>2, <1>3, <1>5, <1>6, <1>7, KeptPutting DEF Proceeding

LEMMA AgainPrompt ==
    ASSUME Proceeding, Prompt, stack # <<>>, Top.pc \in Waits, Top.done, NEW f, GoesOnAs(f),
           f.pc = "reply", f.done = FALSE, ~Getter(Top), NEW p, NEW r \in Requests, r.type # "sync",
           Again(p, <<r>>), PropsKept
    PROVE  Prompt'
<1>1. PICK n : n = Len(stack) - 1
  OBVIOUS
<1>2. n \in Nat /\ Len(stack) = n + 1 /\ Top = stack[n + 1] /\ Idle(n) /\ Stable(n)
  BY <1>1, TopIdle DEF Waits
<1>3. Putting(n, f)
  BY <1>2, SoundParts, SwapPuts DEF Proceeding, GoesOnAs
<1>4. stack'[n + 1] = f /\ Len(stack') = n + 1
  BY <1>3 DEF Putting
<1>5. PICK d : d = n + 1 /\ d \in Nat
  BY <1>2
<1>6. Asks(d)
  <2>1. requests' = requests \o <<r>> \o <<SyncRequest(d)>> /\ requests \in Seq(Requests)
    BY <1>2, <1>5, SoundParts DEF Again, Proceeding
  <2>2. Sends(r, d)
    BY <1>5, <2>1, RequestSent
  <2> QED BY <1>5, <2>2, AsksIs
<1>7. Open(n + 1)'
  BY <1>2, <1>4 DEF Open, Waits
<1>8. Mails(n)
  BY <1>5, <1>6, <1>7 DEF Mails
<1>9. \A M : Claim(n + 1, M)'
  BY <1>4 DEF Claim, Getter, Followed, GoesOnAs
<1> QED BY <1>2, <1>3, <1>8, <1>9, KeptPutting DEF Proceeding

\* A callback for the call that waited.
LEMMA PushPrompt ==
    ASSUME Proceeding, Prompt, stack # <<>>, Top.done, NEW f \in Frames, f.pc \in {"registered", "added"},
           stack' = Append(stack, f), UNCHANGED <<mirror, requests>>,
           f.pc = "added" /\ f.ptr = Absent => \A p \in ToSet(list_surface) : context[p].id # Top.id
    PROVE  Prompt'
<1>1. PICK n : n = Len(stack)
  OBVIOUS
<1>2. n \in Nat /\ n > 0 /\ Top = stack[n]
  BY <1>1, SoundParts, TopIs DEF Proceeding
<1>3. Putting(n, f)
  BY <1>1, SoundParts, PushPuts DEF Proceeding
<1>4. Idle(n) /\ Stable(n) /\ Mails(n) /\ PropsKept
  BY <1>1, <1>2, UnchangedProps DEF Idle, Stable, Mails
<1>5. ASSUME NEW M, Outstanding' PROVE Claim(n + 1, M)'
  <2>1. stack'[n + 1] = f /\ n + 1 \in Nat /\ stack'[n + 1].pc \notin Waits /\ stack'[n + 1].pc # "return"
    BY <1>2, <1>3 DEF Putting, Waits
  <2> QED BY <1>5, <2>1, IdleClaim
<1> QED BY <1>2, <1>3, <1>4, <1>5, KeptPutting DEF Proceeding

\* A member of a context other than the property is assigned.
LEMMA SetKeepsProps ==
    ASSUME Mirror, NEW p \in Ptrs, context[p] # Absent, NEW c \in Contexts, c.id = context[p].id,
           c.prop = context[p].prop, context' = [context EXCEPT ![p] = c],
           UNCHANGED <<list_surface, list_layer>>
    PROVE  PropsKept
<1>1. Kept /\ context'[p] = c /\ \A q \in Ptrs \ {p} : context'[q] = context[q]
  BY ContextSet
<1> QED BY <1>1 DEF PropsKept

LEMMA NotifiedKeepsProps ==
    ASSUME Mirror, NEW p \in Ptrs, context[p] # Absent, NEW on \in BOOLEAN, SetNotification(p, on)
    PROVE  PropsKept
<1>1. context[p] \in Contexts
  BY DEF Mirror
<1>2. PICK c : c = [context[p] EXCEPT !.notification = on]
  OBVIOUS
<1>3. c \in Contexts /\ c.id = context[p].id /\ c.prop = context[p].prop
  BY <1>1, <1>2 DEF Contexts
<1>4. context' = [context EXCEPT ![p] = c] /\ UNCHANGED <<list_surface, list_layer>>
  BY <1>2 DEF SetNotification
<1> QED BY <1>3, <1>4, SetKeepsProps

\* What a getter whose roundtrip is over may return.
LEMMA ArrivedSuits ==
    ASSUME Proceeding, Prompt, stack # <<>>, Top.pc \in Waits, Top.done, Getter(Top), NEW M, Account(M)
    PROVE  Suits(Top, View(Top, M[0]))
<1>1. PICK n : n = Len(stack) - 1
  OBVIOUS
<1>2. n \in Nat /\ Len(stack) = n + 1 /\ Top = stack[n + 1]
  BY <1>1, TopIdle
<1>3. Claim(n + 1, M) /\ n + 1 \in 1 .. Len(stack)
  BY <1>2 DEF Account
<1>4. 0 \in 0 .. Len(events)
  BY SoundParts DEF Mail, Proceeding
<1>5. SuitsAt(n + 1, M[0])
  BY <1>2, <1>3, <1>4 DEF Claim
<1> QED BY <1>2, <1>5 DEF SuitsAt

LEMMA EndGetIDsPrompt ==
    ASSUME Proceeding, Prompt, EndGetIDs
    PROVE  Prompt'
<1>1. requests' = requests /\ PropsKept
  BY UnchangedProps DEF EndGetIDs
<1>2. CASE Arrived("ilm_getSurfaceIDs", "sync") /\ Return(IdsIn(list_surface))
  <2>1. PICK v \in Values : Return(v)
    BY <1>2, SoundParts, ListedIds DEF Proceeding
  <2>2. stack # <<>> /\ Top.pc \in Waits /\ Top.done /\ ~Getter(Top)
    BY <1>2, ArrivedIs DEF Getter
  <2> QED BY <1>1, <2>1, <2>2, ReturnPrompt
<1>3. CASE Arrived("ilm_getLayerIDs", "sync") /\ Return(IdsIn(list_layer))
  <2>1. PICK v \in Values : v = IdsIn(list_layer) /\ Return(v)
    BY <1>3, SoundParts, ListedIds DEF Proceeding
  <2>2. stack # <<>> /\ Top.pc \in Waits /\ Top.done /\ Getter(Top) /\ Top.op = "ilm_getLayerIDs"
    BY <1>3, ArrivedIs DEF Getter
  <2>3. ASSUME NEW M, Account(M) PROVE Suits(Top, v)
    <3>1. \A l \in Layers : M[0][l] # Absent <=> \E p \in ToSet(list_layer) : context[p].id = l
      BY <2>3, KnownIs DEF Account, Proceeding
    <3>2. \A p \in ToSet(list_layer) : context[p].id \in Layers
      BY SoundParts DEF Proceeding, Listings, Layered
    <3>3. v = {l \in Layers : M[0][l] # Absent}
      BY <2>1, <3>1, <3>2 DEF IdsIn
    <3>4. View(Top, M[0]) = {l \in Layers : M[0][l] # Absent}
      BY <2>2 DEF View
    <3> QED BY <2>2, <2>3, <3>3, <3>4, ArrivedSuits
  <2> QED BY <1>1, <2>1, <2>2, <2>3, ReturnPrompt
<1> QED BY <1>2, <1>3 DEF EndGetIDs

\* The context that is found is not being removed.
LEMMA FoundStays ==
    ASSUME Proceeding, Waiting, NEW id \in Followed, Lookup(id) # Absent
    PROVE  Lookup(id) \in Tracked /\ ~Goes(Lookup(id)) /\ context[Lookup(id)].id = id
<1>1. Mirror /\ Listings /\ Stack /\ FramesSit /\ LayersLeave /\ id \in Ids
  BY SoundParts, Kinds DEF Proceeding, Followed
<1>2. PICK p : p = Lookup(id)
  OBVIOUS
<1>3. /\ p \in ToSet(ListOf(id)) /\ context[p].id = id
      /\ id \in Layers => ListOf(id) = list_layer /\ p \in LayerPtrs
      /\ id \in Surfaces => ListOf(id) = list_surface
  BY <1>1, <1>2, FoundIs
<1>4. CASE id \in Layers
  <2>1. ~Goes(p)
    BY <1>1, <1>3, <1>4 DEF Goes, LayersLeave, Leaving
  <2> QED BY <1>2, <1>3, <1>4, <2>1 DEF Tracked
<1>5. CASE id \notin Layers
  <2>1. Careful /\ id \in Surfaces
    BY <1>1, <1>5, Kinds DEF Followed
  <2>2. ~Goes(p)
    BY <1>1, <2>1, NothingGoes DEF Free, Careful
  <2> QED BY <1>2, <1>3, <2>1, <2>2 DEF Tracked
<1> QED BY <1>4, <1>5

LEMMA EndGetPropertiesPrompt ==
    ASSUME Proceeding, Prompt, EndGetProperties
    PROVE  Prompt'
<1>1. stack # <<>> /\ Top.pc \in Waits /\ Top.op = "ilm_getProperties" /\ Top.done
  BY ArrivedIs DEF EndGetProperties
<1>2. PICK id : id = Top.id /\ id \in Ids
  BY <1>1, TopPlace DEF FrameSound, IdOps
<1>3. PICK p : p = Lookup(id)
  OBVIOUS
<1>4. PICK v : v = IF p = Absent THEN Absent ELSE context[p].prop
  OBVIOUS
<1>5. v \in Values
  <2>1. p # Absent => context[p] \in Contexts
    BY <1>2, <1>3, SoundParts, FoundIs DEF Proceeding
  <2>2. p # Absent => v \in Props \/ v = Zero
    BY <1>4, <2>1 DEF Contexts
  <2> QED BY <1>4, <2>2, ValueKinds
<1>6. Return(v) /\ requests' = requests /\ PropsKept
  BY <1>2, <1>3, <1>4, UnchangedProps DEF EndGetProperties
<1>7. ASSUME NEW M, Account(M), Getter(Top) PROVE Suits(Top, v)
  <2>1. id \in Followed /\ View(Top, M[0]) = M[0][id]
    BY <1>1, <1>2, <1>7 DEF Getter, View
  <2>2. Suits(Top, M[0][id])
    BY <1>1, <1>7, <2>1, ArrivedSuits
  <2>3. CASE p = Absent
    <3>1. /\ id \in Surfaces => ListOf(id) = list_surface /\ id \notin Layers
          /\ id \in Layers => ListOf(id) = list_layer /\ id \notin Surfaces
          /\ \A q \in ToSet(ListOf(id)) : context[q].id # id
      BY <1>2, <1>3, <2>3, SoundParts, FoundIs DEF Proceeding
    <3>2. /\ \A l \in Layers : M[0][l] # Absent <=> \E q \in ToSet(list_layer) : context[q].id = l
          /\ Careful => \A s \in Surfaces : M[0][s] # Absent =>
                \E q \in ToSet(list_surface) : context[q].id = s
      BY <1>7, KnownIs DEF Account, Proceeding
    <3>3. id \in Layers \/ (id \in Surfaces /\ Careful)
      BY <2>1, Kinds DEF Followed
    <3>4. M[0][id] = Absent
      BY <3>1, <3>2, <3>3
    <3> QED BY <1>4, <2>2, <2>3, <3>4
  <2>4. CASE p # Absent
    <3>1. Waiting
      BY DEF EndGetProperties, Arrived
    <3>2. p \in Tracked /\ ~Goes(p) /\ context[p].id = id
      BY <1>3, <2>1, <2>4, <3>1, FoundStays
    <3>3. v = Shown(M[0][id])
      BY <1>4, <1>7, <2>4, <3>2 DEF Account, Shows
    <3>4. Zero # Absent
      BY ControlAssumption
    <3> QED BY <2>2, <3>3, <3>4 DEF Shown, Suits
  <2> QED BY <2>3, <2>4
<1> QED BY <1>1, <1>5, <1>6, <1>7, ReturnPrompt

LEMMA EndGetSurfaceIDsOnLayerPrompt ==
    ASSUME Proceeding, Prompt, EndGetSurfaceIDsOnLayer
    PROVE  Prompt'
<1>1. stack # <<>> /\ Top.pc \in Waits /\ Top.done /\ Top.op = "ilm_getSurfaceIDsOnLayer" /\ ~Getter(Top)
  BY ArrivedIs DEF EndGetSurfaceIDsOnLayer, Getter
<1>2. PICK p : p = Top.ptr
  OBVIOUS
<1>3. CASE context[p] = Absent
  <2>1. UNCHANGED <<mirror, stack, requests>>
    BY <1>2, <1>3 DEF EndGetSurfaceIDsOnLayer, Use
  <2> QED BY <2>1, StutterPrompt
<1>4. CASE context[p] # Absent
  <2>1. /\ Return(context[p].render_order)
        /\ context' = [context EXCEPT ![p].render_order = <<>>]
        /\ UNCHANGED <<list_surface, list_layer>> /\ requests' = requests
    BY <1>2, <1>4 DEF EndGetSurfaceIDsOnLayer, Use
  <2>2. p \in Ptrs
    <3>1. Top \in Frames /\ FrameSound(Top)
      BY <1>1, TopPlace
    <3> QED BY <1>1, <1>2, <3>1 DEF Frames, FrameSound, Points
  <2>3. context[p] \in Contexts /\ context[p].render_order \in Seq(Surfaces)
    BY <1>4, <2>2, SoundParts DEF Proceeding, Mirror, Contexts
  <2>4. context[p].render_order \in Values
    BY <2>3, ValueKinds
  <2>5. PICK q : q = <<>>
    OBVIOUS
  <2>6. q \in Seq(Surfaces)
    BY <2>5
  <2>7. PICK c : c = [context[p] EXCEPT !.render_order = q]
    OBVIOUS
  <2>8. c \in Contexts /\ c.id = context[p].id /\ c.prop = context[p].prop
    BY <2>3, <2>6, <2>7 DEF Contexts
  <2>9. context' = [context EXCEPT ![p] = c]
    BY <2>1, <2>5, <2>7
  <2>10. PropsKept
    BY <1>4, <2>1, <2>2, <2>8, <2>9, SoundParts, SetKeepsProps DEF Proceeding
  <2> QED BY <1>1, <2>1, <2>4, <2>10, ReturnPrompt
<1> QED BY <1>3, <1>4

LEMMA FindForAddPrompt ==
    ASSUME Proceeding, Prompt, FindForAdd
    PROVE  Prompt'
<1>1. /\ stack # <<>> /\ Top.pc \in Waits /\ Top.op = "ilm_addNotification" /\ Top.done
      /\ Top.pc = "sync" /\ ~Getter(Top)
  BY ArrivedIs DEF FindForAdd, Getter
<1>2. Top.id \in Ids /\ Top \in Frames
  BY <1>1, TopPlace DEF FrameSound, IdOps
<1>3. PICK p : p = Lookup(Top.id)
  OBVIOUS
<1>4. CASE p # Absent
  <2>1. SetNotification(p, TRUE) /\ Again(p, <<Request("sync_add", Top.id)>>)
    BY <1>3, <1>4 DEF FindForAdd
  <2>2. PICK r : r = Request("sync_add", Top.id)
    OBVIOUS
  <2>3. r \in Requests /\ r.type # "sync" /\ Again(p, <<r>>)
    BY <1>2, <2>1, <2>2, RequestIs
  <2>4. /\ p \in Ptrs /\ context[p] # Absent
        /\ Top.id \in Surfaces => p \in SurfacePtrs
    BY <1>2, <1>3, <1>4, SoundParts, FoundIs DEF Proceeding
  <2>5. PropsKept
    <3>1. PICK on \in BOOLEAN : SetNotification(p, on)
      BY <2>1
    <3> QED BY <2>4, <3>1, SoundParts, NotifiedKeepsProps DEF Proceeding
  <2>6. PICK f : f = [Top EXCEPT !.pc = "reply", !.ptr = p, !.done = FALSE]
    OBVIOUS
  <2>7. GoesOnAs(f) /\ f.pc = "reply" /\ f.done = FALSE
    BY <1>1, <1>4, <2>3, <2>4, <2>6, AgainFrame
  <2> QED BY <1>1, <2>3, <2>5, <2>7, AgainPrompt
<1>5. CASE p = Absent /\ Top.id \in Layers
  <2>1. stack' = Pop /\ UNCHANGED <<requests, mirror>>
    BY <1>3, <1>5 DEF FindForAdd
  <2> QED BY <1>1, <2>1, PopPrompt, UnchangedProps
<1>6. CASE p = Absent /\ Top.id \notin Layers
  <2>1. PICK f : f = Callback("added", Absent)
    OBVIOUS
  <2>2. stack' = Append(stack, f) /\ UNCHANGED <<requests, mirror>>
    BY <1>3, <1>6, <2>1 DEF FindForAdd
  <2>3. f \in Frames /\ f.pc = "added"
    <3>1. "added" \in Callbacks /\ Absent \in Ptrs \cup {Absent}
      BY DEF Callbacks
    <3> QED BY <2>1, <3>1, CallbackIs
  <2>4. \A q \in ToSet(list_surface) : context[q].id # Top.id
    BY <1>2, <1>3, <1>6, SoundParts, FoundIs, Kinds DEF Proceeding
  <2> QED BY <1>1, <2>2, <2>3, <2>4, PushPrompt
<1> QED BY <1>4, <1>5, <1>6

LEMMA EndAddPrompt ==
    ASSUME Proceeding, Prompt, EndAdd
    PROVE  Prompt'
<1>1. /\ stack # <<>> /\ Top.pc \in Waits /\ Top.op = "ilm_addNotification" /\ Top.done
      /\ Top.pc = "reply"
  BY ArrivedIs DEF EndAdd
<1>2. PICK p : p = Top.ptr
  OBVIOUS
<1>3. p \in Ptrs /\ p # Absent
  <2>1. Top \in Frames /\ FrameSound(Top)
    BY <1>1, TopPlace
  <2> QED BY <1>1, <1>2, <2>1, Kinds DEF Frames, FrameSound, Points
<1>4. CASE Top.id \in Layers
  <2>1. stack' = Pop /\ UNCHANGED <<requests, mirror>>
    BY <1>4 DEF EndAdd
  <2> QED BY <1>1, <2>1, PopPrompt, UnchangedProps
<1>5. CASE Top.id \notin Layers /\ context[p] = Absent
  <2>1. UNCHANGED <<mirror, stack, requests>>
    BY <1>2, <1>5 DEF EndAdd, Use
  <2> QED BY <2>1, StutterPrompt
<1>6. CASE Top.id \notin Layers /\ context[p] # Absent
  <2>1. PICK f : f = Callback("added", p)
    OBVIOUS
  <2>2. stack' = Append(stack, f) /\ UNCHANGED <<requests, mirror>>
    BY <1>2, <1>6, <2>1 DEF EndAdd, Use
  <2>3. f \in Frames /\ f.pc = "added" /\ f.ptr # Absent
    <3>1. "added" \in Callbacks /\ p \in Ptrs \cup {Absent}
      BY <1>3 DEF Callbacks
    <3> QED BY <1>3, <2>1, <3>1, CallbackIs
  <2> QED BY <1>1, <2>2, <2>3, PushPrompt
<1> QED BY <1>4, <1>5, <1>6

LEMMA FindForRemovePrompt ==
    ASSUME Proceeding, Prompt, FindForRemove
    PROVE  Prompt'
<1>1. /\ stack # <<>> /\ Top.pc \in Waits /\ Top.op = "ilm_removeNotification" /\ Top.done
      /\ Top.pc = "sync" /\ ~Getter(Top)
  BY ArrivedIs DEF FindForRemove, Getter
<1>2. Top.id \in Ids
  BY <1>1, TopPlace DEF FrameSound, IdOps
<1>3. PICK p : p = Lookup(Top.id)
  OBVIOUS
<1>4. UNCHANGED mirror /\ PropsKept
  BY UnchangedProps DEF FindForRemove
<1>5. CASE p # Absent /\ context[p].notification
  <2>1. PICK r : r = Request("sync_remove", Top.id)
    OBVIOUS
  <2>2. Again(p, <<r>>)
    BY <1>3, <1>5, <2>1 DEF FindForRemove
  <2>3. r \in Requests /\ r.type # "sync"
    BY <1>2, <2>1, RequestIs
  <2>4. p \in Ptrs
    BY <1>2, <1>3, <1>5, SoundParts, FoundIs DEF Proceeding
  <2>5. PICK f : f = [Top EXCEPT !.pc = "reply", !.ptr = p, !.done = FALSE]
    OBVIOUS
  <2>6. GoesOnAs(f) /\ f.pc = "reply" /\ f.done = FALSE
    BY <1>1, <1>5, <2>2, <2>4, <2>5, AgainFrame
  <2> QED BY <1>1, <1>4, <2>2, <2>3, <2>6, AgainPrompt
<1>6. CASE ~(p # Absent /\ context[p].notification)
  <2>1. stack' = Pop /\ UNCHANGED requests
    BY <1>3, <1>6 DEF FindForRemove
  <2> QED BY <1>1, <1>4, <2>1, PopPrompt
<1> QED BY <1>5, <1>6

LEMMA EndRemovePrompt ==
    ASSUME Proceeding, Prompt, EndRemove
    PROVE  Prompt'
<1>1. /\ stack # <<>> /\ Top.pc \in Waits /\ Top.op = "ilm_removeNotification" /\ Top.done
      /\ Top.pc = "reply"
  BY ArrivedIs DEF EndRemove
<1>2. PICK p : p = Top.ptr
  OBVIOUS
<1>3. p \in Ptrs
  <2>1. Top \in Frames /\ FrameSound(Top)
    BY <1>1, TopPlace
  <2> QED BY <1>1, <1>2, <2>1 DEF Frames, FrameSound, Points
<1>4. CASE context[p] = Absent
  <2>1. UNCHANGED <<mirror, stack, requests>>
    BY <1>2, <1>4 DEF EndRemove, Use
  <2> QED BY <2>1, StutterPrompt
<1>5. CASE context[p] # Absent
  <2>1. SetNotification(p, FALSE) /\ stack' = Pop /\ requests' = requests
    BY <1>2, <1>5 DEF EndRemove, Use
  <2>2. PropsKept
    <3>1. PICK on \in BOOLEAN : SetNotification(p, on)
      BY <2>1
    <3> QED BY <1>3, <1>5, <3>1, SoundParts, NotifiedKeepsProps DEF Proceeding
  <2> QED BY <1>1, <2>1, <2>2, PopPrompt
<1> QED BY <1>4, <1>5

LEMMA EndRegisterPrompt ==
    ASSUME Proceeding, Prompt, EndRegister
    PROVE  Prompt'
<1>1. UNCHANGED <<mirror, requests>> /\ PropsKept
  BY UnchangedProps DEF EndRegister
<1>2. stack # <<>> /\ Top.pc \in Waits /\ Top.pc = "sync" /\ Top.done
  BY ArrivedIs DEF EndRegister
<1>3. CASE stack' = Pop
  BY <1>1, <1>2, <1>3, PopPrompt
<1>4. CASE Listed # <<>> /\ stack' = Append(stack, Callback("registered", Head(Listed)))
  <2>1. PICK p : p = Head(Listed)
    OBVIOUS
  <2>2. p \in Ptrs
    BY <1>4, <2>1, SoundParts, ListedIs, TailIs DEF Proceeding
  <2>3. PICK f : f = Callback("registered", p)
    OBVIOUS
  <2>4. f \in Frames /\ f.pc = "registered"
    <3>1. "registered" \in Callbacks /\ p \in Ptrs \cup {Absent} /\ p # Absent
      BY <2>2, Kinds DEF Callbacks
    <3> QED BY <2>3, <3>1, CallbackIs
  <2>5. stack' = Append(stack, f)
    BY <1>4, <2>1, <2>3
  <2> QED BY <1>1, <1>2, <2>4, <2>5, PushPrompt
<1>5. stack' = Pop \/ (Listed # <<>> /\ stack' = Append(stack, Callback("registered", Head(Listed))))
  BY ArrivedIs DEF EndRegister
<1> QED BY <1>3, <1>4, <1>5

LEMMA EndChangePrompt ==
    ASSUME Proceeding, Prompt, EndChange
    PROVE  Prompt'
<1>1. UNCHANGED mirror /\ PropsKept
  BY UnchangedProps DEF EndChange
<1>2. /\ stack # <<>> /\ Top.pc \in Waits /\ Top.done /\ ~Getter(Top)
      /\ Top.op \in {"ilm_layerCreateWithDimension", "ilm_layerRemove", "ilm_commitChanges"}
  BY ArrivedIs DEF EndChange, Getter
<1>3. CASE stack' = Pop /\ requests' = requests
  BY <1>1, <1>2, <1>3, PopPrompt DEF Waits
<1>4. CASE /\ Top.op = "ilm_layerCreateWithDimension"
           /\ Again(Absent, <<Request("create", Top.id)>>)
  <2>1. Top.id \in Ids
    BY <1>2, <1>4, TopPlace, Kinds DEF FrameSound, LayerOps
  <2>2. PICK r : r = Request("create", Top.id)
    OBVIOUS
  <2>3. r \in Requests /\ r.type # "sync" /\ Again(Absent, <<r>>)
    BY <1>4, <2>1, <2>2, RequestIs
  <2>4. PICK f : f = [Top EXCEPT !.pc = "reply", !.ptr = Absent, !.done = FALSE]
    OBVIOUS
  <2>5. GoesOnAs(f) /\ f.pc = "reply" /\ f.done = FALSE
    BY <1>2, <1>4, <2>3, <2>4, AgainFrame
  <2> QED BY <1>1, <1>2, <2>3, <2>5, AgainPrompt
<1>5. \/ stack' = Pop /\ requests' = requests
      \/ /\ Top.op = "ilm_layerCreateWithDimension"
         /\ Again(Absent, <<Request("create", Top.id)>>)
  BY ArrivedIs DEF EndChange
<1> QED BY <1>3, <1>4, <1>5

LEMMA GetterReturnsPrompt ==
    ASSUME Proceeding, Prompt, GetterReturns
    PROVE  Prompt'
<1>1. stack # <<>> /\ Top.pc = "return" /\ stack' = Pop /\ UNCHANGED <<mirror, requests>>
  BY DEF GetterReturns
<1> QED BY <1>1, PopPrompt, UnchangedProps DEF Waits

LEMMA ToListenerPrompt ==
    ASSUME Proceeding, Prompt, ToListener
    PROVE  Prompt'
<1>1. /\ stack # <<>> /\ Top.pc \in {"created", "changed"}
      /\ stack' = Pop /\ UNCHANGED <<mirror, requests>>
  BY DEF ToListener, ReturnTo, InCallback
<1> QED BY <1>1, PopPrompt, UnchangedProps DEF Waits

\* The context the callback of a removed object was for is freed.
LEMMA ToDestroyedListenerPrompt ==
    ASSUME Proceeding, Prompt, ToDestroyedListener
    PROVE  Prompt'
<1>1. stack # <<>> /\ Top.op = "callback" /\ Top.pc = "removed" /\ requests' = requests
  BY DEF ToDestroyedListener, ReturnTo, InCallback
<1>2. PICK n, p : n = Len(stack) - 1 /\ p = Top.ptr
  OBVIOUS
<1>3. n \in Nat /\ Len(stack) = n + 1 /\ n < Len(stack) /\ Top = stack[n + 1] /\ Idle(n)
  BY <1>1, <1>2, TopIdle DEF Waits
<1>4. p \in Ptrs
  <2>1. Top \in Frames /\ FrameSound(Top)
    BY <1>3, SoundParts, StackIs DEF Proceeding
  <2> QED BY <1>1, <1>2, <2>1 DEF Frames, FrameSound, Points, Callbacks
<1>5. CASE context[p] = Absent
  <2>1. UNCHANGED <<mirror, stack>>
    BY <1>2, <1>5 DEF ToDestroyedListener, Use
  <2> QED BY <1>1, <2>1, StutterPrompt
<1>6. CASE context[p] # Absent
  <2>1. Unlinked(p) /\ context' = [context EXCEPT ![p] = Absent] /\ stack' = Pop
    BY <1>2, <1>6 DEF ToDestroyedListener, Use
  <2>2. \A q \in Ptrs \ {p} : context'[q] = context[q]
    BY <2>1, SoundParts DEF Mirror, Proceeding
  <2>3. Dropped(p)
    BY <1>4, <2>1, <2>2 DEF Dropped
  <2>4. \A q \in Tracked' : q \in Tracked /\ q # p /\ context'[q] = context[q]
    BY <2>3, DroppedTracked DEF Proceeding
  <2>5. Ending(n)
    BY <1>1, <1>3, <2>1, SoundParts, PopEnds DEF Proceeding
  <2>6. \A q : q # p /\ Goes(q) => Goes(q)'
    <3> SUFFICES ASSUME NEW q, q # p, NEW i \in 1 .. Len(stack), stack[i].pc = "removed", stack[i].ptr = q
                 PROVE  i \in 1 .. Len(stack') /\ stack'[i] = stack[i]
      BY DEF Goes
    <3>1. i # n + 1
      BY <1>2, <1>3
    <3>2. i \in 1 .. n
      BY <1>3, <3>1
    <3> QED BY <2>5, <3>2 DEF Ending, Leaves
  <2>7. Unique'
    BY <2>4 DEF Prompt, Unique
  <2>8. \A A : Shows(A) => Shows(A)'
    BY <2>4, <2>6 DEF Shows
  <2> QED BY <1>1, <1>3, <2>5, <2>7, <2>8, EndingPrompt DEF Account, Proceeding
<1> QED BY <1>5, <1>6

\* A callback that is for a call below it may leave with it.
LEMMA TwoBelow ==
    ASSUME Proceeding, Prompt, stack # <<>>, Top.op = "callback", Top.pc \in {"registered", "added"},
           NEW m, m = Len(stack)
    PROVE  \E n \in Nat :
               /\ m = n + 2 /\ Top = stack[m] /\ stack[m - 1].done
               /\ Idle(n) /\ Idle(n + 1) /\ Stable(n) /\ Stable(n + 1)
               /\ (Top.pc = "registered" => stack[m - 1].op = "ilm_registerNotification")
               /\ (Top.pc = "added" =>
                      /\ stack[m - 1].op = "ilm_addNotification" /\ stack[m - 1].id \in Surfaces
                      /\ Top.ptr \in SurfacePtrs \cup {Absent})
<1>1. Stack /\ FramesSit /\ Rested
  BY SoundParts DEF Proceeding, Prompt
<1>2. m \in 1 .. m /\ Top = stack[m] /\ m \in Nat
  BY <1>1, TopIs
<1>3. m > 1 /\ stack[m - 1].done
  BY <1>1, <1>2 DEF Rested, Rests
<1>4. PICK n : n = m - 2
  OBVIOUS
<1>5. n \in Nat /\ m = n + 2
  BY <1>2, <1>3, <1>4
<1>6. /\ Top.pc = "registered" => stack[m - 1].op = "ilm_registerNotification"
      /\ Top.pc = "added" => /\ stack[m - 1].op = "ilm_addNotification" /\ stack[m - 1].id \in Surfaces
                             /\ Top.ptr \in SurfacePtrs \cup {Absent}
  <2>1. Sits(m)
    BY <1>1, <1>2 DEF FramesSit
  <2> QED BY <1>2, <2>1 DEF Sits
<1>7. \A i \in n + 1 .. m : i = m \/ i = m - 1
  BY <1>5
<1>8. stack[m].pc \notin Waits /\ stack[m].pc # "removed"
  BY <1>2 DEF Waits
<1>9. stack[m - 1].pc # "removed"
  <2>1. stack[m - 1].op # "callback" /\ m - 1 \in 1 .. Len(stack)
    BY <1>2, <1>3, <1>6
  <2>2. FrameSound(stack[m - 1])
    BY <1>1, <2>1, StackIs
  <2> QED BY <2>1, <2>2 DEF FrameSound, Callbacks
<1>10. Idle(n) /\ Idle(n + 1) /\ Stable(n) /\ Stable(n + 1)
  <2>1. \A i \in n + 1 .. m : ~Open(i) /\ stack[i].pc # "removed"
    BY <1>3, <1>7, <1>8, <1>9 DEF Open
  <2>2. \A i \in (n + 1) + 1 .. m : i \in n + 1 .. m
    BY <1>5
  <2> QED BY <2>1, <2>2 DEF Idle, Stable
<1> QED BY <1>2, <1>3, <1>5, <1>6, <1>10

LEMMA ToRegisterPrompt ==
    ASSUME Proceeding, Prompt, ToRegister
    PROVE  Prompt'
<1>1. stack # <<>> /\ Top.op = "callback" /\ Top.pc = "registered" /\ requests' = requests
  BY DEF ToRegister, ReturnTo, InCallback
<1>2. PICK m : m = Len(stack)
  OBVIOUS
<1>3. PICK n \in Nat : /\ m = n + 2 /\ stack[m - 1].done
                       /\ Idle(n) /\ Idle(n + 1) /\ Stable(n) /\ Stable(n + 1)
  BY <1>1, <1>2, TwoBelow
<1>4. CASE UNCHANGED <<mirror, stack>>
  BY <1>1, <1>4, StutterPrompt
<1>5. CASE UNCHANGED mirror /\ stack' = Front(Pop)
  <2>1. Ending(n) /\ n < Len(stack)
    BY <1>2, <1>3, <1>5, SoundParts, PopTwoEnds DEF Proceeding
  <2> QED BY <1>1, <1>3, <1>5, <2>1, UnchangedProps, KeptEnding DEF Proceeding
<1>6. CASE UNCHANGED mirror /\ \E i \in 2 .. Len(Listed) : stack' = Append(Pop, Callback("registered", Listed[i]))
  <2>1. PICK i \in 2 .. Len(Listed) : stack' = Append(Pop, Callback("registered", Listed[i]))
    BY <1>6
  <2>2. PICK p : p = Listed[i]
    OBVIOUS
  <2>3. p \in Ptrs
    BY <2>1, <2>2, SoundParts, ListedIs DEF Proceeding
  <2>4. PICK f : f = Callback("registered", p)
    OBVIOUS
  <2>5. f \in Frames /\ f.pc = "registered"
    <3>1. "registered" \in Callbacks /\ p \in Ptrs \cup {Absent} /\ p # Absent
      BY <2>3, Kinds DEF Callbacks
    <3> QED BY <2>4, <3>1, CallbackIs
  <2>6. stack' = Append(Pop, f)
    BY <2>1, <2>2, <2>4
  <2>7. PICK k : k = n + 1
    OBVIOUS
  <2>8. k \in Nat /\ Len(stack) = k + 1 /\ k > 0 /\ stack[k].done /\ Idle(k) /\ Stable(k)
    BY <1>2, <1>3, <2>7
  <2>9. Putting(k, f)
    BY <1>1, <2>5, <2>6, <2>8, SoundParts, SwapPuts DEF Proceeding
  <2>10. Mails(k) /\ PropsKept
    BY <1>1, <1>6, UnchangedProps DEF Mails
  <2>11. ASSUME NEW M, Outstanding' PROVE Claim(k + 1, M)'
    <3>1. stack'[k + 1] = f /\ k + 1 \in Nat /\ stack'[k + 1].pc \notin Waits /\ stack'[k + 1].pc # "return"
      BY <2>5, <2>8, <2>9 DEF Putting, Waits
    <3> QED BY <2>11, <3>1, IdleClaim
  <2> QED BY <2>5, <2>8, <2>9, <2>10, <2>11, KeptPutting DEF Proceeding
<1>7. \/ UNCHANGED <<mirror, stack>>
      \/ UNCHANGED mirror /\ stack' = Front(Pop)
      \/ UNCHANGED mirror /\ \E i \in 2 .. Len(Listed) : stack' = Append(Pop, Callback("registered", Listed[i]))
  BY ToRegisterCases
<1> QED BY <1>4, <1>5, <1>6, <1>7

\* A surface without a context gets one.
LEMMA AddSurfacePrompt ==
    ASSUME Proceeding, Prompt, requests' = requests, NEW n, Ending(n), n < Len(stack), Idle(n), Stable(n),
           NEW s \in Surfaces, NEW p \in FreePtrs(s),
           context' = [context EXCEPT ![p] = [Context(s) EXCEPT !.notification = TRUE]], Linked(s, p),
           Careful => \A q \in ToSet(list_surface) : context[q].id # s
    PROVE  Prompt'
<1>1. s \in Ids /\ s \notin Layers /\ Sound /\ Mirror /\ Listings /\ Unique
  BY SoundParts, Kinds DEF Proceeding, Prompt
<1>2. p \in Ptrs /\ context[p] = Absent /\ p \in SurfacePtrs
  BY Kinds DEF FreePtrs
<1>3. PICK c : c = [Context(s) EXCEPT !.notification = TRUE]
  OBVIOUS
<1>4. c \in Contexts /\ c.id = s /\ c # Absent /\ c.prop = Zero
  <2>1. PICK b : b = Context(s)
    OBVIOUS
  <2>2. b \in Contexts /\ b.id = s /\ b.prop = Zero
    BY <1>1, <2>1, ContextIs DEF Context
  <2>3. c \in Contexts /\ c.id = s /\ c.prop = Zero
    BY <1>3, <2>1, <2>2 DEF Contexts
  <2> QED BY <2>3, Kinds
<1>5. context'[p] = c /\ \A q \in Ptrs \ {p} : context'[q] = context[q]
  BY <1>1, <1>2, <1>3, <1>4 DEF Mirror
<1>6. Added(s, p)
  BY <1>1, <1>2, <1>4, <1>5 DEF Added, Linked
<1>7. \A q \in Tracked : context[q].id # s
  <2>1. \A q \in ToSet(list_layer) : context[q].id # s
    BY <1>1 DEF Listings, Layered
  <2> QED BY <2>1 DEF Tracked
<1>8. /\ Unique' /\ Tracked' \subseteq Tracked \cup {p}
      /\ \A q \in Tracked : q # p /\ context'[q] = context[q]
  BY <1>1, <1>6, <1>7, NewTracked
<1>9. Careful \/ Tracked' = Tracked
  <2>1. list_layer' = list_layer
    BY DEF Linked
  <2> QED BY <2>1 DEF Tracked, Careful
<1>10. \A q : Goes(q) => Goes(q)'
  <2> SUFFICES ASSUME NEW q, NEW i \in 1 .. Len(stack), stack[i].pc = "removed", stack[i].ptr = q
               PROVE  i \in 1 .. Len(stack') /\ stack'[i] = stack[i]
    BY DEF Goes
  <2>1. i \notin n + 1 .. Len(stack)
    BY DEF Stable
  <2> QED BY <2>1 DEF Ending, Leaves
<1>11. ASSUME NEW M, Account(M) PROVE Shows(M[0])'
  <2> SUFFICES ASSUME NEW q \in Tracked', ~Goes(q)'
               PROVE  context'[q].prop = Shown(M[0][context'[q].id])
    BY DEF Shows
  <2>1. CASE q = p /\ Careful
    <3>1. ~(\E r \in ToSet(list_surface) : context[r].id = s)
      BY <2>1
    <3>2. M[0][s] = Absent
      BY <1>11, <2>1, <3>1, KnownIs DEF Account, Proceeding
    <3>3. context'[q].id = s /\ context'[q].prop = Zero
      BY <1>4, <1>5, <2>1
    <3>4. Shown(M[0][s]) = Zero
      BY <3>2 DEF Shown
    <3> QED BY <3>3, <3>4
  <2>2. CASE q \in Tracked
    <3>1. context'[q] = context[q] /\ ~Goes(q)
      BY <1>8, <1>10, <2>2
    <3> QED BY <1>11, <2>2, <3>1 DEF Account, Shows
  <2> QED BY <1>8, <1>9, <2>1, <2>2
<1> QED BY <1>8, <1>11, EndingPrompt DEF Proceeding

LEMMA ToAddPrompt ==
    ASSUME Proceeding, Prompt, ToAdd
    PROVE  Prompt'
<1>1. stack # <<>> /\ Top.op = "callback" /\ Top.pc = "added" /\ requests' = requests
  BY DEF ToAdd, ReturnTo, InCallback
<1>2. PICK m, p : m = Len(stack) /\ p = Top.ptr
  OBVIOUS
<1>3. PICK n \in Nat :
          /\ m = n + 2 /\ Top = stack[m] /\ Idle(n) /\ Stable(n)
          /\ stack[m - 1].id \in Surfaces /\ p \in SurfacePtrs \cup {Absent}
  BY <1>1, <1>2, TwoBelow
<1>4. ASSUME stack' = Front(Pop) PROVE Ending(n) /\ n < Len(stack)
  BY <1>2, <1>3, <1>4, SoundParts, PopTwoEnds DEF Proceeding
<1>5. CASE p = Absent
  <2>1. PICK s : s = stack[m - 1].id
    OBVIOUS
  <2>2. s = Last(Pop).id
    BY <1>1, <1>2, <1>3, <2>1, SoundParts, TopIs DEF Proceeding
  <2>3. PICK q \in FreePtrs(s) :
           /\ context' = [context EXCEPT ![q] = [Context(s) EXCEPT !.notification = TRUE]]
           /\ Linked(s, q)
    BY <1>2, <1>5, <2>2 DEF ToAdd
  <2>4. stack' = Front(Pop)
    BY <1>2, <1>5 DEF ToAdd
  <2>5. Careful => \A r \in ToSet(list_surface) : context[r].id # s
    <3>1. m \in 2 .. Len(stack) /\ stack[m].pc = "added" /\ stack[m].ptr = Absent
      BY <1>1, <1>2, <1>3, <1>5
    <3> QED BY <1>2, <2>1, <3>1 DEF Prompt, AwaitsContext
  <2> QED BY <1>1, <1>3, <1>4, <2>1, <2>3, <2>4, <2>5, AddSurfacePrompt
<1>6. CASE p # Absent /\ context[p] = Absent
  <2>1. UNCHANGED <<mirror, stack>>
    BY <1>2, <1>6 DEF ToAdd, Use
  <2> QED BY <1>1, <2>1, StutterPrompt
<1>7. CASE p # Absent /\ context[p] # Absent
  <2>1. SetNotification(p, TRUE) /\ stack' = Front(Pop)
    BY <1>2, <1>7 DEF ToAdd, Use
  <2>2. PropsKept
    <3>1. PICK on \in BOOLEAN : SetNotification(p, on)
      BY <2>1
    <3>2. p \in Ptrs
      BY <1>3, <1>7, Kinds
    <3> QED BY <1>7, <3>1, <3>2, SoundParts, NotifiedKeepsProps DEF Proceeding
  <2> QED BY <1>1, <1>3, <1>4, <2>1, <2>2, KeptEnding DEF Proceeding
<1> QED BY <1>5, <1>6, <1>7

LEMMA ProceedPrompt ==
    ASSUME Sound, Prompt, Proceed
    PROVE  Prompt'
<1>1. Proceeding
  BY DEF Proceed, Proceeding
<1>2. CASE CallbackReturns
  BY <1>1, <1>2, ToListenerPrompt, ToDestroyedListenerPrompt, ToRegisterPrompt, ToAddPrompt
     DEF CallbackReturns
<1>3. CASE ~CallbackReturns
  BY <1>1, <1>3, EndGetIDsPrompt, EndGetPropertiesPrompt, EndGetSurfaceIDsOnLayerPrompt,
     FindForAddPrompt, EndAddPrompt, FindForRemovePrompt, EndRemovePrompt, EndRegisterPrompt,
     EndChangePrompt, GetterReturnsPrompt DEF Proceed
<1> QED BY <1>2, <1>3

-----------------------------------------------------------------------------
(* The getters are answered with what was true during the call.            *)

LEMMA InitPrompt ==
    ASSUME Init
    PROVE  Prompt
<1>1. requests = <<>> /\ events = <<>> /\ list_surface = <<>> /\ list_layer = <<>> /\ stack = <<>> /\ exists = {}
  BY DEF Init
<1>2. Len(requests) = 0 /\ Len(events) = 0 /\ Len(stack) = 0
  BY <1>1, EmptyIs
<1>3. Tracked = {}
  <2>1. ToSet(list_surface) = {} /\ ToSet(list_layer) = {}
    BY <1>1, EmptyIs
  <2> QED BY <2>1 DEF Tracked
<1>4. Unique /\ AwaitsContext /\ Rested
  BY <1>2, <1>3 DEF Unique, AwaitsContext, Rested
<1>5. Outstanding
  BY <1>2 DEF Outstanding, Ends
<1>6. \E M : Account(M)
  <2>1. PICK M : M = [k \in 0 .. 0 |-> [id \in Ids |-> Absent]]
    OBVIOUS
  <2>2. M \in [0 .. 0 -> [Ids -> Looks]] /\ \A id \in Ids : M[0][id] = Absent
    BY <2>1 DEF Looks
  <2>3. Recounts(M)
    BY <1>1, <1>2, <2>2 DEF Recounts
  <2> QED BY <1>2, <1>3, <2>3 DEF Account, Shows
<1> QED BY <1>4, <1>5, <1>6 DEF Prompt

LEMMA NextPrompt ==
    ASSUME Sound, Prompt, [Next]_vars
    PROVE  Prompt'
<1>1. CASE Next
  BY <1>1, OthersPrompt, HandlePrompt, BeginPrompt, DispatchPrompt, ProceedPrompt DEF Next
<1>2. CASE UNCHANGED vars
  <2>1. Proceeding /\ UNCHANGED <<mirror, stack, requests>>
    BY <1>2 DEF vars, Proceeding
  <2> QED BY <2>1, StutterPrompt
<1> QED BY <1>1, <1>2

\* What the contexts of layers show, and of surfaces when the callbacks of
\* removed and of added objects do not call the library, is what the events
\* so far told; each roundtrip has one end on its way.
THEOREM MirrorAlwaysPrompt == Spec => []Prompt
<1>1. Spec => Prompt
  BY InitPrompt DEF Spec
<1>2. Sound /\ Prompt /\ [Next]_vars => Prompt'
  BY NextPrompt
<1> QED BY <1>1, <1>2, MirrorAlwaysSound, PTL DEF Spec

\* A getter of a layer returns what the compositor had at some moment of the call.
LayersAnswer ==
    \A i \in DOMAIN stack :
        /\ stack[i].pc = "return"
        /\ \/ stack[i].op = "ilm_getLayerIDs"
           \/ stack[i].op = "ilm_getProperties" /\ stack[i].id \in Layers
        => Suits(stack[i], stack[i].value)

LEMMA PromptAnswers ==
    ASSUME Sound, Prompt
    PROVE  LayersAnswer /\ (Careful => GettersAnswer)
<1>1. PICK n : n = Len(stack) /\ n \in Nat /\ DOMAIN stack = 1 .. n
  BY SoundParts DEF Stack
<1>2. PICK M : Account(M)
  BY DEF Prompt
<1>3. \A i \in 1 .. n : stack[i].pc = "return" /\ Getter(stack[i]) => Suits(stack[i], stack[i].value)
  BY <1>1, <1>2 DEF Account, Claim
<1>4. \A i \in 1 .. n : stack[i].op = "ilm_getProperties" => stack[i].id \in Ids
  BY <1>1, SoundParts, StackIs DEF FrameSound, IdOps
<1>5. LayersAnswer
  BY <1>1, <1>3, Kinds DEF LayersAnswer, Getter, Followed
<1>6. Careful => GettersAnswer
  BY <1>1, <1>3, <1>4 DEF GettersAnswer, Getter, Followed, Suits
<1> QED BY <1>5, <1>6

\* ilm_getLayerIDs and the properties of a layer: they are what the compositor
\* had at some moment of the call, whatever the callbacks call and however many
\* calls, layers and events there are.
THEOREM LayersAlwaysAnswer == Spec => []LayersAnswer
<1>1. Sound /\ Prompt => LayersAnswer
  BY PromptAnswers
<1> QED BY <1>1, MirrorAlwaysSound, MirrorAlwaysPrompt, PTL

\* ilm_getLayerIDs, and the properties of a surface or a layer: they are what the
\* compositor had at some moment of the call, when no callback of a removed or of
\* an added object calls the library.
THEOREM GettersAlwaysAnswer ==
    ASSUME "removed" \notin CallIn, "added" \notin CallIn
    PROVE  Spec => []GettersAnswer
<1>1. Careful
  BY DEF Careful
<1>2. Sound /\ Prompt => GettersAnswer
  BY <1>1, PromptAnswers
<1> QED BY <1>2, MirrorAlwaysSound, MirrorAlwaysPrompt, PTL
=============================================================================
