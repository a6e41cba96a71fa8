----------------------------- MODULE MCHousehold -----------------------------
(* An instance of Household for TLC.                                       *)
EXTENDS Household, TLC

CONSTANTS p1, q1, g1, h1, h2, l1, b1, b2, a1

MCProfiles  == {p1}
MCPairings  == {q1}
MCCodes     == {g1}
MCPolls     == {h1, h2}
MCLogins    == {l1}
MCCallbacks == {b1, b2}
MCAttempts  == {a1}
MCSymmetry  == Permutations(MCPolls) \cup Permutations(MCCallbacks)

=============================================================================
