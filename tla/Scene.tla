-------------------------------- MODULE Scene --------------------------------
(***************************************************************************)
(* What the compositor promises about the scene, whoever changes it: the   *)
(* looks on display (shown) change only as a whole, when everything that   *)
(* was asked for (wanted) is shown at once, or when an object comes or     *)
(* goes.  IviScene is shown to implement this.                             *)
(***************************************************************************)
EXTENDS Sequences, SequencesExt

CONSTANTS Objects,   \* what may be in the scene
          Blank      \* the look of an object that is not in the scene

VARIABLES objects,   \* what is in the scene
          shown,     \* the look of every object on display
          wanted     \* the look it gets when the changes are shown

vars == <<objects, shown, wanted>>

Init ==
    /\ objects \subseteq Objects
    /\ shown = [o \in Objects |-> Blank]
    /\ wanted = shown

\* A look has properties and an order of other objects, which one that is gone
\* leaves; an object is in an order once.
Without(order, o) == RemoveFirst(order, o)
Dropped(looks, o) ==
    [p \in Objects |-> IF p = o THEN Blank
                       ELSE [prop |-> looks[p].prop, order |-> Without(looks[p].order, o)]]

Come(o) ==
    /\ o \notin objects
    /\ objects' = objects \cup {o}
    /\ UNCHANGED <<shown, wanted>>

Go(o) ==
    /\ o \in objects
    /\ objects' = objects \ {o}
    /\ shown' = Dropped(shown, o)
    /\ wanted' = Dropped(wanted, o)

\* Someone asks for another look of one object of the scene.
Wish(o) ==
    /\ o \in objects
    /\ wanted' = [wanted EXCEPT ![o] = wanted'[o]]
    /\ UNCHANGED objects

Ask(o) == Wish(o) /\ UNCHANGED shown
\* An object asks for its own look and has everything shown in one step.
AskAndShow(o) == Wish(o) /\ shown' = wanted'
Show == shown' = wanted /\ UNCHANGED <<objects, wanted>>

Next ==
    \/ \E o \in Objects : Come(o) \/ Go(o) \/ Ask(o) \/ AskAndShow(o)
    \/ Show

Spec == Init /\ [][Next]_vars
=============================================================================
