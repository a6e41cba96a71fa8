----------------------------- MODULE MCEventBus -----------------------------
(* An instance of EventBus for TLC: two publishers and a stream of one      *)
(* profile that connects twice.                                             *)
EXTENDS EventBus

CONSTANTS p1, p2

MCPublishers == {p1, p2}

=============================================================================
