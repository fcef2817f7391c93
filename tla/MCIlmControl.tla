---------------------------- MODULE MCIlmControl ----------------------------
(* The instance of IlmControl that TLC checks.                             *)
EXTENDS IlmControl

\* Every callback may call the library (layer-add-surfaces.c does in two of them).
MCCallIn == Callbacks
=============================================================================
