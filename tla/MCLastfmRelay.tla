--------------------------- MODULE MCLastfmRelay ---------------------------
(* An instance of LastfmRelay for TLC.                                     *)
EXTENDS LastfmRelay, TLC

CONSTANT p1

MCPlays == {p1}

=============================================================================
