------------------------- MODULE MCArtifactPipeline -------------------------
(* An instance of ArtifactPipeline for TLC: a batch of two transcodes and  *)
(* one of an original.                                                     *)
EXTENDS ArtifactPipeline, TLC

CONSTANTS c1, c2, k1, k2, k3

MCClients == {c1, c2}
MCOneClient == {c1}
MCSymmetry == Permutations(MCClients)
MCKeys == {k1, k2, k3}
MCOriginals == {k3}
MCBatches == {<<k1, k2>>, <<k3>>}

=============================================================================
