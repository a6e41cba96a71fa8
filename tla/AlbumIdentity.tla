----------------------------- MODULE AlbumIdentity -----------------------------
(***************************************************************************)
(* The MusicBrainz pass over albums.  The resolver lists the albums that   *)
(* are due, asks MusicBrainz about each, and applies what it finds in one  *)
(* transaction per album, in which albums that turn out to be fragments of *)
(* one release are merged.  The list is a snapshot: an album on it may     *)
(* have been merged away by the time it is its turn.  Meanwhile profiles   *)
(* love and unlove albums in two steps; scans run between passes only.     *)
(*                                                                         *)
(* Titles stand for what makes two albums compatible: title or directory,  *)
(* and year.  Loves stand for ratings too.  What MusicBrainz answers and   *)
(* how candidates score is left open; Fit gives the tracks a release has.  *)
(* That holds for a release asked for by its id, too: MusicBrainz answers  *)
(* the id of a release merged into another one with that other one.        *)
(***************************************************************************)
EXTENDS Naturals, FiniteSets

CONSTANTS
  Albums, Tracks, Profiles, Releases,
  Title,            (* per album                                            *)
  Filed,            (* per track: the album the scan filed it under         *)
  Taggings,         (* per album: a release named in its tags, or None      *)
  Group,            (* per release: its release group                       *)
  Fit,              (* per release: the tracks that match its structure     *)
  None,
  MaxScans,         (* bound: scans that change something                   *)
  MaxLoves          (* bound: changes of a love                             *)

ASSUME IdentityAssumption ==
  /\ Filed \in [Tracks -> Albums] /\ Taggings \subseteq [Albums -> Releases \cup {None}]
  /\ Fit \in [Releases -> SUBSET Tracks]
  /\ MaxScans \in Nat /\ MaxLoves \in Nat

VARIABLES
  album,            (* albums: release, release group, missing              *)
  home,             (* tracks: the album of each                            *)
  present,          (* tracks: those not missing                            *)
  match,            (* album_musicbrainz_matches: see Matches               *)
  love,             (* loves: per profile and album                         *)
  loving,           (* SetLove, per profile: what it is about to write      *)
  pass,             (* RunWithProgress                                      *)
  wish,             (* history: what a profile last said of an album        *)
  strayed,          (* history: loves written to an album merged meanwhile  *)
  scans, loves      (* the counters behind the bounds                       *)

vars == <<album, home, present, match, love, loving, pass, wish, strayed, scans, loves>>

Opinions == {"loved", "not_for_me"}
Matches  == {"open", "named", "matched"}   \* without ids, with ids, done
NoPass   == [on |-> FALSE, due |-> {}, list |-> {}, before |-> 0, applied |-> FALSE]

Visible   == {a \in Albums : ~album[a].missing}
Of(a)     == {t \in Tracks : home[t] = a}
Held(a)   == Of(a) \cap present
Whole(a)  == Of(a) # {} /\ Of(a) \subseteq present
Unmatched == {a \in Visible : match[a] # "matched"}
Due       == pass.due \cap Unmatched
Like(a)   == {b \in Visible \ {a} : Title[b] = Title[a]}

-----------------------------------------------------------------------------
(* Scans and profiles                                                      *)

(* A scan finds files and misses others; what it finds again stays where a *)
(* match has put it.  Albums without a track are missing.                  *)
Scan ==
  /\ ~pass.on /\ scans < MaxScans /\ scans' = scans + 1
  /\ \E found \in SUBSET Tracks :
       /\ found # present /\ present' = found
       /\ album' = [a \in Albums |-> [album[a] EXCEPT !.missing = Of(a) \cap found = {}]]
  /\ UNCHANGED <<home, match, love, loving, pass, wish, strayed, loves>>

(* SetLove reads that the album is visible, then writes.  Saying what one  *)
(* said before is left out.                                                *)
ResolveRef(p, a, opinion) ==
  /\ loving[p] = <<>> /\ a \in Visible /\ opinion # love[p][a] /\ loves < MaxLoves
  /\ loving' = [loving EXCEPT ![p] = <<a, opinion>>] /\ loves' = loves + 1
  /\ UNCHANGED <<album, home, present, match, love, pass, wish, strayed, scans>>

SetLove(p) ==
  /\ loving[p] # <<>> /\ loving' = [loving EXCEPT ![p] = <<>>]
  /\ LET a == loving[p][1] IN
       /\ love' = [love EXCEPT ![p][a] = loving[p][2]]
       /\ wish' = [wish EXCEPT ![p][a] = loving[p][2]]
       /\ strayed' = IF a \in Visible THEN strayed ELSE strayed \cup {<<p, a>>}
  /\ UNCHANGED <<album, home, present, match, pass, scans, loves>>

-----------------------------------------------------------------------------
(* RunWithProgress                                                         *)

Snapshot(a) == [a |-> a, rel |-> album[a].rel, grp |-> album[a].grp, tracks |-> Held(a)]
Round(due) ==
  [on |-> TRUE, due |-> due, list |-> {Snapshot(a) : a \in due}, before |-> Cardinality(due), applied |-> FALSE]

(* Which unmatched albums have waited for 24 hours, 7 days or 30 days is   *)
(* left open; what is recorded in a pass is not due again before its end.  *)
StartPass ==
  /\ ~pass.on
  /\ \E due \in SUBSET Unmatched : due # {} /\ pass' = Round(due)
  /\ UNCHANGED <<album, home, present, match, love, loving, wish, strayed, scans, loves>>

(* Another round, unless nothing is due or nothing was achieved.           *)
EndRoundHopeful ==                 \* mutant: as long as something is due
  /\ pass.on /\ pass.list = {}
  /\ pass' = IF Due = {} THEN NoPass ELSE Round(Due)
  /\ UNCHANGED <<album, home, present, match, love, loving, wish, strayed, scans, loves>>
EndRound ==
  /\ pass.on /\ pass.list = {}
  /\ pass' = IF Due = {} \/ (Cardinality(Due) >= pass.before /\ ~pass.applied) THEN NoPass ELSE Round(Due)
  /\ UNCHANGED <<album, home, present, match, love, loving, wish, strayed, scans, loves>>

Cancel ==                          \* or an error that ends the pass
  /\ pass.on
  /\ pass' = NoPass
  /\ UNCHANGED <<album, home, present, match, love, loving, wish, strayed, scans, loves>>

-----------------------------------------------------------------------------
(* resolve, for one album of the list                                      *)

Turn(s, recorded, changed) ==
  /\ s \in pass.list
  /\ pass' = [pass EXCEPT !.list = @ \ {s}, !.due = @ \ recorded, !.applied = @ \/ changed]

CurrentAlways(s) == TRUE           \* mutant: the album may have changed since
Current(s) == s = Snapshot(s.a)    \* sameMusicBrainzSnapshot

(* RecordMusicBrainzResult does not look whether the snapshot is current.  *)
Record(s) ==
  /\ Turn(s, {s.a}, FALSE)
  /\ \E found \in {"open", "named"} :  \* an error or no match, or an ambiguous one
       match' = [match EXCEPT ![s.a] = found]
  /\ UNCHANGED <<album, home, present, love, loving, wish, strayed, scans, loves>>

(* Nothing is applied and nothing recorded: the snapshot is stale, a merge *)
(* is not safe, a statement fails, or all is as it was recorded before.    *)
NothingDone(s) ==
  /\ Turn(s, {}, FALSE)
  /\ UNCHANGED <<album, home, present, match, love, loving, wish, strayed, scans, loves>>

(* MusicBrainzAlbumUnionCandidate: what is scored together with a.         *)
Union(a) ==
  LET some == {b \in Like(a) : album[b].rel = None}
      groups == {album[b].grp : b \in some \cup {a}} \ {None}
  IN  IF Cardinality(groups) > 1 \/ \E b \in some : ~Whole(b) THEN {} ELSE some

(* planSplitAlbumReconciliation: fragments to merge into a, and whether    *)
(* that is safe.  Conflicting artwork, divergent editions and a statement  *)
(* that fails are further reasons to refuse, which are left open.          *)
Fragments(a, r) == {b \in Like(a) : album[b].grp \in {None, Group[r]}}

Evident(b) == album[b].rel # None \/ album[b].grp # None \/ match[b] # "open"
MergeableAny(b, r) == Whole(b)     \* mutant: evidence of another release is ignored
Mergeable(b, r) == Whole(b) /\ (Evident(b) => album[b].rel = None /\ album[b].grp = Group[r])
AgreedAlways(p, those) == TRUE     \* mutant: conflicting opinions are not looked for
Agreed(p, those) == Cardinality({love[p][b] : b \in those} \ {None}) <= 1

Safe(a, r, scored) ==
  LET those == Fragments(a, r) IN
  those # {} =>
    /\ \A b \in those : Mergeable(b, r)
    /\ scored = {} \/ scored = those
    /\ UNION {Held(b) : b \in those \cup {a}} = Fit[r]
    /\ \A p \in Profiles : Agreed(p, those \cup {a})

(* applySplitAlbumPlanTx, with the survivor's new release and group.       *)
Said(says, p, those) ==
  LET said == {says[p][b] : b \in those} \ {None} IN
  IF said = {} THEN None ELSE IF Cardinality(said) = 1 THEN CHOOSE o \in said : TRUE ELSE "torn"
Joined(says, a, those) ==
  [p \in Profiles |-> [b \in Albums |->
     IF b \in those THEN None ELSE IF b = a THEN Said(says, p, those \cup {a}) ELSE says[p][b]]]
Kept(a, those) ==                  \* the rows a merge leaves: one of each profile's
  [p \in Profiles |-> [b \in Albums |->
     IF b \in those THEN None
     ELSE IF b = a /\ \E c \in those \cup {a} : love[p][c] # None
          THEN love[p][CHOOSE c \in those \cup {a} : love[p][c] # None]
          ELSE love[p][b]]]

Merge(a, those) ==
  /\ home' = [t \in Tracks |-> IF home[t] \in those THEN a ELSE home[t]]
  /\ love' = Kept(a, those)
  /\ wish' = Joined(wish, a, those)
  /\ strayed' = strayed

Identify(a, those, rel, grp, state) ==
  /\ album' = [b \in Albums |->
       IF b \in those THEN [album[b] EXCEPT !.missing = TRUE]
       ELSE IF b = a THEN [album[b] EXCEPT !.rel = IF rel = None THEN @ ELSE rel,
                                           !.grp = IF grp = None THEN @ ELSE grp]
       ELSE album[b]]
  /\ match' = [b \in Albums |->
       IF b \in those THEN "open" ELSE IF b = a THEN state ELSE match[b]]
  /\ UNCHANGED <<present, loving, scans, loves>>

Free(a, r) == \A b \in Albums \ {a} : album[b].rel # r

(* ApplyMusicBrainzMatch: one candidate is strong, or it is the answer to  *)
(* the release the album has, which nobody compares with it.               *)
ApplyMatch(s, r) ==
  /\ \E changed \in BOOLEAN :
       /\ Turn(s, {s.a}, changed)
       /\ Fragments(s.a, r) # {} \/ s.rel # r \/ s.grp # Group[r] => changed
  /\ Current(s) /\ Free(s.a, r)
  /\ Safe(s.a, r, Union(s.a))
  /\ Merge(s.a, Fragments(s.a, r))
  /\ Identify(s.a, Fragments(s.a, r), r, Group[r], "matched")

(* ApplyMusicBrainzConsensus, ReconcileOnly: editions differ, but all have *)
(* the structure of the union.                                             *)
Reconcile(s, r) ==
  /\ Turn(s, {s.a}, TRUE)
  /\ s.rel = None /\ Current(s) /\ Union(s.a) # {}
  /\ Safe(s.a, r, Union(s.a))
  /\ Merge(s.a, Fragments(s.a, r))
  /\ Identify(s.a, Fragments(s.a, r), None, Group[r], "named")

(* ApplyMusicBrainzConsensus: all candidates share the artist, and perhaps *)
(* the release group.                                                      *)
Consensus(s) ==
  /\ s.rel = None /\ Current(s)
  /\ \E grp \in {Group[r] : r \in Releases} \cup {None}, changed \in BOOLEAN :
       /\ s.grp # grp => changed
       /\ Turn(s, {s.a}, changed)
       /\ Identify(s.a, {}, None, grp, "named")
  /\ UNCHANGED <<home, love, wish, strayed>>

-----------------------------------------------------------------------------
Init ==
  /\ present = Tracks
  /\ home = Filed
  /\ \E tagged \in Taggings :
       album = [a \in Albums |-> [rel |-> tagged[a], grp |-> IF tagged[a] = None THEN None ELSE Group[tagged[a]],
                                  missing |-> {t \in present : Filed[t] = a} = {}]]
  /\ match = [a \in Albums |-> "open"]
  /\ love = [p \in Profiles |-> [a \in Albums |-> None]] /\ wish = love
  /\ loving = [p \in Profiles |-> <<>>] /\ strayed = {}
  /\ pass = NoPass
  /\ scans = 0 /\ loves = 0

Resolve ==
  \E s \in pass.list :
    \/ Record(s) \/ NothingDone(s) \/ Consensus(s)
    \/ \E r \in Releases : ApplyMatch(s, r) \/ Reconcile(s, r)

PassStep == Resolve \/ EndRound

Next ==
  \/ Scan \/ StartPass \/ PassStep \/ Cancel
  \/ \E p \in Profiles :
       \/ \E a \in Albums, o \in Opinions \cup {None} : ResolveRef(p, a, o)
       \/ SetLove(p)

(* MusicBrainz answers, or its client gives up.                            *)
Spec == Init /\ [][Next]_vars /\ WF_vars(PassStep)

-----------------------------------------------------------------------------
(* Properties                                                              *)

(* The variables keep their types.                                         *)
TypeOK ==
  /\ album \in [Albums -> [rel : Releases \cup {None}, grp : {Group[r] : r \in Releases} \cup {None},
                           missing : BOOLEAN]]
  /\ home \in [Tracks -> Albums] /\ present \subseteq Tracks
  /\ match \in [Albums -> Matches]
  /\ love \in [Profiles -> [Albums -> Opinions \cup {None}]]
  /\ pass.on \in BOOLEAN /\ {s.a : s \in pass.list} \subseteq Albums
  /\ scans \in 0..MaxScans /\ loves \in 0..MaxLoves

(* splitProfileConflictTx, applySplitAlbumPlanTx: whatever is merged in    *)
(* whatever order, an album has the opinion each profile last gave of it   *)
(* or of the fragments it was made of, and none is left on an album that   *)
(* was merged away.  The exception is an opinion resolved before a merge   *)
(* and written after it, which stays behind (profile_data.go:296).         *)
OpinionsFollow ==
  \A p \in Profiles, a \in Albums :
    IF Of(a) = {} THEN love[p][a] # None => <<p, a>> \in strayed
    ELSE love[p][a] = wish[p][a]

(* sameMusicBrainzSnapshot, planSplitAlbumReconciliation: no track is      *)
(* moved to an album that cannot be seen, and no album is left without one.*)
VisibleTogether == \A a \in Albums : a \in Visible <=> Held(a) # {}

(* planSplitAlbumReconciliation, sameMusicBrainzSnapshot: during a pass an *)
(* album with a release is not merged into another one, nor does it lose   *)
(* its release or get another, whatever is merged or applied to others.    *)
(* The exception is its own turn, as it was when it was listed: MusicBrainz*)
(* may answer the release it has with the one that replaces it.            *)
ReleasesSurvive ==
  [][\A a \in Visible : pass.on /\ album[a].rel # None =>
       /\ ~album'[a].missing /\ album'[a].rel # None
       /\ \/ album'[a].rel = album[a].rel
          \/ \E s \in pass.list \ pass'.list : s = Snapshot(a)]_vars

(* RunWithProgress: a pass ends, even when albums stay due because nothing *)
(* could be recorded of them (runner.go:85).                               *)
PassEnds == pass.on ~> ~pass.on

=============================================================================
