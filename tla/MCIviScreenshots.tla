-------------------------- MODULE MCIviScreenshots --------------------------
(* The instance of IviScreens and IviScreenshots that TLC checks: an output *)
(* that stands on its side and one whose screen id is configured.           *)
EXTENDS IviScreenshots

CONSTANTS o1, o2, l1

MCScreenIds == [o \in {o2} |-> 7]
MCOrders == {<<l1, Nothing>>}
MCModes == {<<2, 1>>, <<3, 2>>}
MCPreferred == <<2, 1>>
=============================================================================
