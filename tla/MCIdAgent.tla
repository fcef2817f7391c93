----------------------------- MODULE MCIdAgent -----------------------------
(* The instance of IdAgent that TLC checks.                                *)
EXTENDS IdAgent, TLC

CONSTANTS flower, radio, nameless

MCApps == {flower, radio, nameless}

\* Sections for one application, for two, and one without a parameter.
MCSections == [surface_id : Ids \cup {Invalid}, apps : {{flower}, {flower, radio}, MCApps}]

\* Every configuration with at most two sections.
MCFiles ==
    [default : {<<>>} \cup (Ids \cup {Invalid}) \X (Ids \cup {Invalid}),
     apps : {<<>>} \cup {<<e>> : e \in MCSections} \cup MCSections \X MCSections]

Symmetry == Permutations(Surfaces)
=============================================================================
