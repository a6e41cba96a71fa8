------------------------------ MODULE MCScanIndex ------------------------------
(* An instance of ScanIndex for TLC.                                       *)
EXTENDS ScanIndex

CONSTANTS x, y, t, u, h

MCFiles == 1..2
MCContents == {[artist |-> x, title |-> t, art |-> h],
               [artist |-> y, title |-> t, art |-> None],
               [artist |-> x, title |-> u, art |-> None]}

=============================================================================
