----------------------------- MODULE MCIlmInput -----------------------------
(* The instance of IlmInput that TLC checks: both seats may have a           *)
(* keyboard, which the mirror's one focus flag per surface cannot tell apart,*)
(* and a seat that went may come back under its name.                        *)
EXTENDS IlmInput

CONSTANTS s1, s2

MCFocusLists == {<<s1>>, <<s2, s1>>}
=============================================================================
