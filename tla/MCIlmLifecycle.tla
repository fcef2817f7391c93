--------------------------- MODULE MCIlmLifecycle ---------------------------
(* The instance of IlmLifecycle that TLC checks. *)
EXTENDS IlmLifecycle
=============================================================================
