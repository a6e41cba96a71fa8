---------------------------- MODULE MCAlbumIdentity ----------------------------
(* An instance of AlbumIdentity for TLC: three fragments of one release,   *)
(* two of which are all of another.  One of them names the first release   *)
(* in its tags.                                                            *)
EXTENDS AlbumIdentity, TLC

CONSTANTS a1, a2, a3, t1, t2, t3, p1, r1, r2, g1

MCAlbums   == {a1, a2, a3}
MCTracks   == {t1, t2, t3}
MCProfiles == {p1}
MCReleases == {r1, r2}
MCTitle    == [a \in MCAlbums |-> 1]
MCFiled    == (t1 :> a1) @@ (t2 :> a2) @@ (t3 :> a3)
MCTaggings == {[b \in MCAlbums |-> IF b = a THEN r1 ELSE None] : a \in {a1, a3}}
MCGroup    == [r \in MCReleases |-> g1]
MCFit      == (r1 :> {t1, t2, t3}) @@ (r2 :> {t1, t2})

=============================================================================
