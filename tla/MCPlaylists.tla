------------------------------ MODULE MCPlaylists ------------------------------
(* An instance of Playlists for TLC.                                       *)
EXTENDS Playlists
=============================================================================
