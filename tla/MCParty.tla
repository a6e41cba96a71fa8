-------------------------------- MODULE MCParty --------------------------------
(* An instance of Party for TLC.                                           *)
EXTENDS Party, TLC

CONSTANTS p1, p2, p3, h1, h2

MCProfiles == {p1, p2, p3}
MCHandlers == {h1, h2}
MCSymmetry == Permutations({p2, p3}) \cup Permutations(MCHandlers)

=============================================================================
