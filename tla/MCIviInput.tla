----------------------------- MODULE MCIviInput -----------------------------
(* The instance of IviInput that TLC checks.  Surfaces and clients are     *)
(* interchangeable, seats are not (DefaultSeat).                           *)
EXTENDS IviInput, TLC

CONSTANTS default, other

\* The device whose focus can be forced, and the others at once.
MCMasks == {{POINTER}, {KEYBOARD, TOUCH}}

\* Both seats have a keyboard; one has the pointer, the other the touch screen.
MCHardware == default :> {POINTER, KEYBOARD} @@ other :> {KEYBOARD, TOUCH}

Symmetry == Permutations(Surfaces) \cup Permutations(Clients)
=============================================================================
