---------------------------- MODULE CatalogueProofs ----------------------------
(***************************************************************************)
(* What is proved of the catalogue, for any values of the constants.       *)
(*                                                                         *)
(* Of AlbumIdentity: the types of all variables, albums that are seen when *)
(* and only when they hold a track, opinions that follow albums through    *)
(* merges, and releases that survive them.                                 *)
(*                                                                         *)
(* Of CatalogSync: its types, and a change feed that loses nothing unless  *)
(* it is overlapped.  The two have no variable in common.                  *)
(***************************************************************************)
EXTENDS AlbumIdentity, ChangeFeed, FiniteSetTheorems, WellFoundedInduction, TLAPS

Sync == INSTANCE CatalogSync   \* it extends ChangeFeed, whose variables it shares

-----------------------------------------------------------------------------
(* AlbumIdentity: the inductive invariants                                 *)

Groups    == {Group[r] : r \in Releases} \cup {None}
Rels      == Releases \cup {None}
Ids       == [rel : Rels, grp : Groups, missing : BOOLEAN]
Given     == Opinions \cup {None}
Snapshots == [a : Albums, rel : Rels, grp : Groups, tracks : SUBSET Tracks]
Passes ==
  [on : BOOLEAN, due : SUBSET Albums, list : SUBSET Snapshots,
   before : {Cardinality(d) : d \in SUBSET Albums} \cup {0}, applied : BOOLEAN]

(* The types of all variables, and of what is between two steps.           *)
IdentityTypes ==
  /\ album \in [Albums -> Ids] /\ home \in [Tracks -> Albums] /\ present \in SUBSET Tracks
  /\ match \in [Albums -> Matches]
  /\ love \in [Profiles -> [Albums -> Given]]
  /\ wish \in [Profiles -> [Albums -> Given \cup {"torn"}]]
  /\ DOMAIN loving = Profiles
  /\ \A p \in Profiles : loving[p] # <<>> => loving[p] \in Albums \X Given
  /\ pass \in Passes
  /\ scans \in 0..MaxScans /\ loves \in 0..MaxLoves

(* What is on the list of a pass held a track when it was listed.          *)
ListedHeld == \A s \in pass.list : s.tracks # {}

(* The inductive invariants.                                               *)
SeenInv     == IdentityTypes /\ ListedHeld /\ VisibleTogether
OpinionsInv == SeenInv /\ OpinionsFollow

-----------------------------------------------------------------------------
(* Types                                                                   *)

(* The initial values have their types.                                    *)
LEMMA TypesInit == Init => IdentityTypes
<1> SUFFICES ASSUME Init PROVE IdentityTypes
  OBVIOUS
<1>1. album \in [Albums -> Ids]
  <2> PICK tagged \in Taggings :
        album = [a \in Albums |-> [rel |-> tagged[a], grp |-> IF tagged[a] = None THEN None ELSE Group[tagged[a]],
                                   missing |-> {t \in present : Filed[t] = a} = {}]]
    BY DEF Init
  <2>1. tagged \in [Albums -> Rels]
    BY IdentityAssumption DEF Rels
  <2>2. \A a \in Albums : (IF tagged[a] = None THEN None ELSE Group[tagged[a]]) \in Groups
    BY <2>1 DEF Rels, Groups
  <2> QED
    BY <2>1, <2>2 DEF Ids
<1>2. pass \in Passes
  <2>1. NoPass \in Passes
    BY DEF NoPass, Passes
  <2> QED
    BY <2>1 DEF Init
<1>3. \A p \in Profiles : love[p] \in [Albums -> Given] /\ wish[p] \in [Albums -> Given \cup {"torn"}]
  BY DEF Init, Given
<1>4. love \in [Profiles -> [Albums -> Given]] /\ wish \in [Profiles -> [Albums -> Given \cup {"torn"}]]
  BY <1>3, Zenon DEF Init
<1>5. match \in [Albums -> Matches]
  BY DEF Init, Matches
<1>6. DOMAIN loving = Profiles /\ \A p \in Profiles : loving[p] = <<>>
  BY Zenon DEF Init
<1>7. home = Filed /\ present = Tracks /\ scans = 0 /\ loves = 0
  BY Zenon DEF Init
<1>8. home \in [Tracks -> Albums] /\ present \in SUBSET Tracks /\ scans \in 0..MaxScans /\ loves \in 0..MaxLoves
  BY <1>7, IdentityAssumption
<1> QED
  BY <1>1, <1>2, <1>4, <1>5, <1>6, <1>8, Zenon DEF IdentityTypes

(* What a pass lists has the type of a pass.                               *)
LEMMA RoundTypes ==
  ASSUME IdentityTypes, NEW due, due \subseteq Albums
  PROVE  Round(due) \in Passes
<1>1. \A a \in due : Snapshot(a) \in Snapshots
  BY DEF IdentityTypes, Ids, Snapshot, Snapshots, Held, Of
<1>2. {Snapshot(a) : a \in due} \in SUBSET Snapshots
  BY <1>1
<1> HIDE DEF Snapshots, Snapshot
<1> QED
  BY <1>2 DEF Round, Passes

(* A turn leaves a pass with fewer snapshots.                              *)
LEMMA TurnTypes ==
  ASSUME IdentityTypes, NEW s, NEW recorded, NEW changed \in BOOLEAN, Turn(s, recorded, changed)
  PROVE  /\ s \in Snapshots /\ pass' \in Passes
         /\ pass'.list = pass.list \ {s} /\ pass'.on = pass.on
<1>1. pass \in Passes /\ s \in pass.list
  BY DEF IdentityTypes, Turn
<1>2. pass' = [pass EXCEPT !.list = @ \ {s}, !.due = @ \ recorded, !.applied = @ \/ changed]
  BY DEF Turn
<1>3. (pass.applied \/ changed) \in BOOLEAN
  OBVIOUS
<1> HIDE DEF Snapshots
<1> QED
  BY <1>1, <1>2, <1>3 DEF Passes

(* What a merge changes keeps its types.                                   *)
LEMMA MergeTypes ==
  ASSUME IdentityTypes, NEW a \in Albums, NEW those, those \subseteq Albums, Merge(a, those)
  PROVE  /\ home' \in [Tracks -> Albums]
         /\ love' \in [Profiles -> [Albums -> Given]]
         /\ wish' \in [Profiles -> [Albums -> Given \cup {"torn"}]]
<1>1. home' \in [Tracks -> Albums]
  BY DEF Merge, IdentityTypes
<1>2. \A p \in Profiles : Kept(a, those)[p] \in [Albums -> Given]
  <2> SUFFICES ASSUME NEW p \in Profiles, NEW b \in Albums PROVE Kept(a, those)[p][b] \in Given
    BY Zenon DEF Kept
  <2> DEFINE kept == CHOOSE c \in those \cup {a} : love[p][c] # None
  <2>1. Kept(a, those)[p][b] = IF b \in those THEN None
          ELSE IF b = a /\ \E c \in those \cup {a} : love[p][c] # None THEN love[p][kept] ELSE love[p][b]
    BY DEF Kept
  <2>2. (\E c \in those \cup {a} : love[p][c] # None) => kept \in those \cup {a}
    BY Zenon
  <2>3. \A c \in Albums : love[p][c] \in Given
    BY DEF IdentityTypes
  <2> HIDE DEF kept
  <2> QED
    BY <2>1, <2>2, <2>3 DEF Given
<1>3. \A p \in Profiles : Joined(wish, a, those)[p] \in [Albums -> Given \cup {"torn"}]
  <2> SUFFICES ASSUME NEW p \in Profiles, NEW b \in Albums
               PROVE  Joined(wish, a, those)[p][b] \in Given \cup {"torn"}
    BY Zenon DEF Joined
  <2> DEFINE said == {wish[p][c] : c \in those \cup {a}} \ {None}
  <2>1. \A c \in Albums : wish[p][c] \in Given \cup {"torn"}
    BY DEF IdentityTypes
  <2>2. said \subseteq Given \cup {"torn"}
    BY <2>1
  <2>3. Said(wish, p, those \cup {a})
          = IF said = {} THEN None ELSE IF Cardinality(said) = 1 THEN CHOOSE o \in said : TRUE ELSE "torn"
    BY DEF Said
  <2>4. said # {} => (CHOOSE o \in said : TRUE) \in said
    BY Zenon
  <2>5. Said(wish, p, those \cup {a}) \in Given \cup {"torn"}
    <3> HIDE DEF said
    <3> QED
      BY <2>2, <2>3, <2>4 DEF Given
  <2>6. Joined(wish, a, those)[p][b]
          = IF b \in those THEN None ELSE IF b = a THEN Said(wish, p, those \cup {a}) ELSE wish[p][b]
    BY DEF Joined
  <2> QED
    BY <2>1, <2>5, <2>6 DEF Given
<1>4. love' = Kept(a, those) /\ DOMAIN Kept(a, those) = Profiles
  BY Zenon DEF Merge, Kept
<1>5. wish' = Joined(wish, a, those) /\ DOMAIN Joined(wish, a, those) = Profiles
  BY Zenon DEF Merge, Joined
<1>6. Kept(a, those) = [p \in Profiles |-> Kept(a, those)[p]]
  BY Zenon DEF Kept
<1>7. Joined(wish, a, those) = [p \in Profiles |-> Joined(wish, a, those)[p]]
  BY Zenon DEF Joined
<1> HIDE DEF Kept, Joined
<1>8. Kept(a, those) \in [Profiles -> [Albums -> Given]]
  BY <1>2, <1>6, Zenon
<1>9. Joined(wish, a, those) \in [Profiles -> [Albums -> Given \cup {"torn"}]]
  BY <1>3, <1>7, Zenon
<1> QED
  BY <1>1, <1>4, <1>5, <1>8, <1>9, Zenon

(* What an identification changes keeps its types.                         *)
LEMMA IdentifyTypes ==
  ASSUME IdentityTypes, NEW a, NEW those, NEW rel \in Rels, NEW grp \in Groups,
         NEW state \in Matches, Identify(a, those, rel, grp, state)
  PROVE  /\ album' \in [Albums -> Ids] /\ match' \in [Albums -> Matches]
         /\ UNCHANGED <<present, loving, scans, loves>>
<1>1. \A b \in Albums :
        (IF b \in those THEN [album[b] EXCEPT !.missing = TRUE]
         ELSE IF b = a THEN [album[b] EXCEPT !.rel = IF rel = None THEN @ ELSE rel,
                                             !.grp = IF grp = None THEN @ ELSE grp]
         ELSE album[b]) \in Ids
  <2> SUFFICES ASSUME NEW b \in Albums
               PROVE  /\ [album[b] EXCEPT !.missing = TRUE] \in Ids
                      /\ [album[b] EXCEPT !.rel = IF rel = None THEN @ ELSE rel,
                                          !.grp = IF grp = None THEN @ ELSE grp] \in Ids
                      /\ album[b] \in Ids
    BY Zenon
  <2>1. album[b] \in Ids
    BY DEF IdentityTypes
  <2> QED
    BY <2>1 DEF Ids
<1>2. \A b \in Albums : (IF b \in those THEN "open" ELSE IF b = a THEN state ELSE match[b]) \in Matches
  BY DEF IdentityTypes, Matches
<1> QED
  BY <1>1, <1>2 DEF Identify

(* Fragments are albums that are seen, and not the one they are merged to. *)
LEMMA FragmentsSeen ==
  ASSUME NEW a, NEW r PROVE Fragments(a, r) \subseteq Visible \ {a} /\ Fragments(a, r) \subseteq Albums
BY DEF Fragments, Like, Visible

(* A step keeps the types.                                                 *)
LEMMA TypesNext == IdentityTypes /\ [Next]_vars => IdentityTypes'
<1> SUFFICES ASSUME IdentityTypes, [Next]_vars PROVE IdentityTypes'
  OBVIOUS
<1> USE IdentityAssumption
<1>1. CASE Scan
  <2>1. PICK found \in SUBSET Tracks :
          /\ present' = found
          /\ album' = [a \in Albums |-> [album[a] EXCEPT !.missing = Of(a) \cap found = {}]]
    BY <1>1 DEF Scan
  <2>2. \A a \in Albums : [album[a] EXCEPT !.missing = Of(a) \cap found = {}] \in Ids
    <3> SUFFICES ASSUME NEW a \in Albums PROVE [album[a] EXCEPT !.missing = Of(a) \cap found = {}] \in Ids
      OBVIOUS
    <3> DEFINE none == Of(a) \cap found = {}
    <3>1. none \in BOOLEAN /\ album[a] \in Ids
      BY DEF IdentityTypes
    <3> HIDE DEF none
    <3>2. [album[a] EXCEPT !.missing = none] \in Ids
      BY <3>1 DEF Ids
    <3> QED
      BY <3>2 DEF none
  <2>3. album' \in [Albums -> Ids] /\ present' \in SUBSET Tracks
    BY <2>1, <2>2
  <2>4. scans' \in 0..MaxScans
    BY <1>1 DEF Scan, IdentityTypes
  <2> QED
    BY <1>1, <2>3, <2>4 DEF Scan, IdentityTypes
<1>2. CASE StartPass
  <2>1. pass' \in Passes
    BY <1>2, RoundTypes DEF StartPass, Unmatched, Visible
  <2> QED
    BY <1>2, <2>1 DEF StartPass, IdentityTypes
<1>3. CASE EndRound
  <2>1. NoPass \in Passes
    BY DEF NoPass, Passes
  <2>2. Round(Due) \in Passes
    BY RoundTypes DEF Due, Unmatched, Visible
  <2>3. pass' \in Passes
    BY <1>3, <2>1, <2>2, Zenon DEF EndRound
  <2> QED
    BY <1>3, <2>3 DEF EndRound, IdentityTypes
<1>4. CASE Cancel
  <2>1. NoPass \in Passes
    BY DEF NoPass, Passes
  <2> QED
    BY <1>4, <2>1 DEF Cancel, IdentityTypes
<1>5. ASSUME NEW s, Record(s) PROVE IdentityTypes'
  <2>1. pass' \in Passes
    BY <1>5, TurnTypes DEF Record
  <2>2. match' \in [Albums -> Matches]
    BY <1>5 DEF Record, IdentityTypes, Matches
  <2> QED
    BY <1>5, <2>1, <2>2 DEF Record, IdentityTypes
<1>6. ASSUME NEW s, NothingDone(s) PROVE IdentityTypes'
  <2>1. pass' \in Passes
    BY <1>6, TurnTypes DEF NothingDone
  <2> QED
    BY <1>6, <2>1 DEF NothingDone, IdentityTypes
<1>7. ASSUME NEW s, Consensus(s) PROVE IdentityTypes'
  <2>1. PICK grp \in Groups, changed \in BOOLEAN :
          Turn(s, {s.a}, changed) /\ Identify(s.a, {}, None, grp, "named")
    BY <1>7 DEF Consensus, Groups
  <2>2. pass' \in Passes
    BY <2>1, TurnTypes
  <2>3. album' \in [Albums -> Ids] /\ match' \in [Albums -> Matches] /\ UNCHANGED <<present, loving, scans, loves>>
    BY <2>1, IdentifyTypes DEF Matches, Rels
  <2> QED
    BY <1>7, <2>2, <2>3 DEF Consensus, IdentityTypes
<1>8. ASSUME NEW s, NEW r \in Releases, ApplyMatch(s, r) PROVE IdentityTypes'
  <2>1. PICK changed \in BOOLEAN : Turn(s, {s.a}, changed)
    BY <1>8 DEF ApplyMatch
  <2>2. pass' \in Passes /\ s.a \in Albums
    BY <2>1, TurnTypes DEF Snapshots
  <2>3. Merge(s.a, Fragments(s.a, r)) /\ Identify(s.a, Fragments(s.a, r), r, Group[r], "matched")
    BY <1>8 DEF ApplyMatch
  <2>4. album' \in [Albums -> Ids] /\ match' \in [Albums -> Matches] /\ UNCHANGED <<present, loving, scans, loves>>
    BY <2>3, IdentifyTypes DEF Matches, Rels, Groups
  <2>5. /\ home' \in [Tracks -> Albums]
        /\ love' \in [Profiles -> [Albums -> Given]]
        /\ wish' \in [Profiles -> [Albums -> Given \cup {"torn"}]]
    BY <2>2, <2>3, FragmentsSeen, MergeTypes
  <2> QED
    BY <2>2, <2>4, <2>5 DEF IdentityTypes
<1>9. ASSUME NEW s, NEW r \in Releases, Reconcile(s, r) PROVE IdentityTypes'
  <2>1. Turn(s, {s.a}, TRUE)
    BY <1>9 DEF Reconcile
  <2>2. pass' \in Passes /\ s.a \in Albums
    <3>1. TRUE \in BOOLEAN
      OBVIOUS
    <3>2. pass' \in Passes /\ s \in Snapshots
      BY <2>1, <3>1, TurnTypes, Zenon
    <3> QED
      BY <3>2 DEF Snapshots
  <2>3. Merge(s.a, Fragments(s.a, r)) /\ Identify(s.a, Fragments(s.a, r), None, Group[r], "named")
    BY <1>9 DEF Reconcile
  <2>4. album' \in [Albums -> Ids] /\ match' \in [Albums -> Matches] /\ UNCHANGED <<present, loving, scans, loves>>
    BY <2>3, IdentifyTypes DEF Matches, Rels, Groups
  <2>5. /\ home' \in [Tracks -> Albums]
        /\ love' \in [Profiles -> [Albums -> Given]]
        /\ wish' \in [Profiles -> [Albums -> Given \cup {"torn"}]]
    BY <2>2, <2>3, FragmentsSeen, MergeTypes
  <2> QED
    BY <2>2, <2>4, <2>5 DEF IdentityTypes
<1>10. ASSUME NEW p \in Profiles, NEW a \in Albums, NEW o \in Opinions \cup {None}, ResolveRef(p, a, o)
       PROVE  IdentityTypes'
  <2>1. loving' = [loving EXCEPT ![p] = <<a, o>>] /\ loves' \in 0..MaxLoves
    BY <1>10 DEF ResolveRef, IdentityTypes
  <2>2. <<a, o>> \in Albums \X Given
    BY DEF Given
  <2>3. DOMAIN loving' = Profiles /\ \A q \in Profiles : loving'[q] # <<>> => loving'[q] \in Albums \X Given
    <3> DEFINE pair == <<a, o>>
    <3>1. loving' = [loving EXCEPT ![p] = pair] /\ pair \in Albums \X Given
      BY <2>1, <2>2
    <3> HIDE DEF pair
    <3>2. \A q \in Profiles : loving'[q] = pair \/ loving'[q] = loving[q]
      BY <3>1, Zenon DEF IdentityTypes
    <3> QED
      BY <3>1, <3>2, Zenon DEF IdentityTypes
  <2> QED
    BY <1>10, <2>1, <2>3, Zenon DEF ResolveRef, IdentityTypes
<1>11. ASSUME NEW p \in Profiles, SetLove(p) PROVE IdentityTypes'
  <2>1. loving[p] \in Albums \X Given
    BY <1>11, Zenon DEF SetLove, IdentityTypes
  <2>2. loving[p][1] \in Albums /\ loving[p][2] \in Given
    BY <2>1
  <2>3. love' \in [Profiles -> [Albums -> Given]] /\ wish' \in [Profiles -> [Albums -> Given \cup {"torn"}]]
    <3> DEFINE a == loving[p][1]
               o == loving[p][2]
    <3>1. love' = [love EXCEPT ![p][a] = o] /\ wish' = [wish EXCEPT ![p][a] = o]
      BY <1>11, Zenon DEF SetLove
    <3>2. a \in Albums /\ o \in Given
      BY <2>2
    <3> HIDE DEF a, o
    <3> QED
      BY <3>1, <3>2 DEF IdentityTypes
  <2>4. DOMAIN loving' = Profiles /\ \A q \in Profiles : loving'[q] # <<>> => loving'[q] \in Albums \X Given
    <3>1. loving' = [loving EXCEPT ![p] = <<>>]
      BY <1>11, Zenon DEF SetLove
    <3>2. \A q \in Profiles : loving'[q] = <<>> \/ loving'[q] = loving[q]
      BY <3>1, Zenon DEF IdentityTypes
    <3> QED
      BY <3>1, <3>2, Zenon DEF IdentityTypes
  <2> QED
    BY <1>11, <2>3, <2>4, Zenon DEF SetLove, IdentityTypes
<1>12. CASE UNCHANGED vars
  BY <1>12, Zenon DEF vars, IdentityTypes
<1> QED
  BY <1>1, <1>2, <1>3, <1>4, <1>5, <1>6, <1>7, <1>8, <1>9, <1>10, <1>11, <1>12, Zenon
     DEF Next, PassStep, Resolve

(* The types of all variables hold always.                                 *)
LEMMA TypesAlways == Spec => []IdentityTypes
BY TypesInit, TypesNext, PTL DEF Spec

(* TypeOK: the variables keep their types, whatever passes, scans and      *)
(* profiles do in whatever order (IdentityTypes says more).                *)
THEOREM TypeCorrect == Spec => []TypeOK
<1>1. IdentityTypes => TypeOK
  BY DEF IdentityTypes, TypeOK, Ids, Rels, Groups, Given, Passes, Snapshots
<1> QED
  BY <1>1, TypesAlways, PTL

-----------------------------------------------------------------------------
(* Albums that can be seen                                                 *)

(* What is applied to a snapshot that is current is applied to an album    *)
(* that can be seen.                                                       *)
LEMMA CurrentIsSeen ==
  ASSUME SeenInv, NEW s \in pass.list, Current(s)
  PROVE  s.a \in Visible /\ s.rel = album[s.a].rel
<1>1. s.a \in Albums /\ s.tracks # {}
  BY DEF SeenInv, IdentityTypes, Passes, Snapshots, ListedHeld
<1>2. s.tracks = Held(s.a) /\ s.rel = album[s.a].rel
  <2>1. \A x : Snapshot(x).tracks = Held(x) /\ Snapshot(x).rel = album[x].rel
    BY DEF Snapshot
  <2> QED
    BY <2>1 DEF Current
<1> QED
  BY <1>1, <1>2, Zenon DEF SeenInv, VisibleTogether

(* What is merged holds the tracks of all, and the others keep theirs.     *)
LEMMA MergedTracks ==
  ASSUME IdentityTypes, NEW a \in Albums, NEW those, a \notin those, Merge(a, those)
  PROVE  /\ Of(a) \subseteq Of(a)'
         /\ \A b \in those : Of(b)' = {}
         /\ \A b \in Albums \ (those \cup {a}) : Of(b)' = Of(b)
         /\ \A t \in Of(a)' : t \in Of(a) \/ \E b \in those : t \in Of(b)
BY DEF IdentityTypes, Merge, Of

(* A merge into an album that can be seen, of others, keeps the tracks     *)
(* together that are seen.                                                 *)
LEMMA MergeSeen ==
  ASSUME SeenInv, NEW a \in Visible, NEW those, those \subseteq Visible \ {a}, Merge(a, those),
         NEW rel, NEW grp, NEW state, Identify(a, those, rel, grp, state)
  PROVE  VisibleTogether'
<1>1. a \in Albums /\ a \notin those /\ present' = present /\ IdentityTypes
  BY DEF Visible, Identify, SeenInv
<1>2. /\ Of(a) \subseteq Of(a)' /\ \A b \in those : Of(b)' = {}
      /\ \A b \in Albums \ (those \cup {a}) : Of(b)' = Of(b)
  BY <1>1, MergedTracks
<1>3. \A b \in Albums : album'[b].missing = IF b \in those THEN TRUE ELSE album[b].missing
  <2> SUFFICES ASSUME NEW b \in Albums
               PROVE  album'[b].missing = IF b \in those THEN TRUE ELSE album[b].missing
    OBVIOUS
  <2>1. album'[b] = IF b \in those THEN [album[b] EXCEPT !.missing = TRUE]
                    ELSE IF b = a THEN [album[b] EXCEPT !.rel = IF rel = None THEN @ ELSE rel,
                                                        !.grp = IF grp = None THEN @ ELSE grp]
                    ELSE album[b]
    BY DEF Identify
  <2>2. album[b] \in Ids
    BY <1>1 DEF IdentityTypes
  <2> QED
    BY <2>1, <2>2 DEF Ids
<1>4. \A b \in Albums : ~album[b].missing <=> Held(b) # {}
  BY DEF SeenInv, VisibleTogether, Visible
<1>5. ASSUME NEW b \in Albums PROVE ~album'[b].missing <=> Held(b)' # {}
  <2>1. CASE b \in those
    BY <1>2, <1>3, <2>1 DEF Held
  <2>2. CASE b = a
    BY <1>1, <1>2, <1>3, <1>4, <2>2 DEF Held, Visible
  <2>3. CASE b \in Albums \ (those \cup {a})
    BY <1>1, <1>2, <1>3, <1>4, <2>3 DEF Held
  <2> QED
    BY <2>1, <2>2, <2>3
<1> QED
  BY <1>5 DEF VisibleTogether, Visible

(* An identification without a merge keeps them together too.              *)
LEMMA IdentifySeen ==
  ASSUME SeenInv, NEW a, NEW rel, NEW grp, NEW state, Identify(a, {}, rel, grp, state), home' = home
  PROVE  VisibleTogether'
<1>1. \A b \in Albums : album'[b].missing = album[b].missing
  <2> SUFFICES ASSUME NEW b \in Albums PROVE album'[b].missing = album[b].missing
    OBVIOUS
  <2>1. album'[b] = IF b = a THEN [album[b] EXCEPT !.rel = IF rel = None THEN @ ELSE rel,
                                                   !.grp = IF grp = None THEN @ ELSE grp]
                    ELSE album[b]
    BY DEF Identify
  <2>2. album[b] \in Ids
    BY DEF IdentityTypes, SeenInv
  <2> QED
    BY <2>1, <2>2 DEF Ids
<1>2. \A b \in Albums : Held(b)' = Held(b)
  BY DEF Held, Of, Identify
<1> QED
  BY <1>1, <1>2 DEF VisibleTogether, Visible, SeenInv

(* A round lists what can be seen, and so what holds a track.              *)
LEMMA RoundHeld ==
  ASSUME VisibleTogether, NEW due, due \subseteq Visible, pass' = Round(due)
  PROVE  ListedHeld'
<1>1. pass'.list = {Snapshot(a) : a \in due}
  BY DEF Round
<1>2. \A a \in due : Snapshot(a).tracks # {}
  BY DEF Snapshot, VisibleTogether, Visible
<1> HIDE DEF Snapshot
<1> QED
  BY <1>1, <1>2 DEF ListedHeld

(* A step keeps the tracks of an album seen together.                      *)
LEMMA SeenNext == SeenInv /\ [Next]_vars => SeenInv'
<1> SUFFICES ASSUME SeenInv, [Next]_vars PROVE ListedHeld' /\ VisibleTogether'
  BY TypesNext DEF SeenInv
<1> USE IdentityAssumption
<1>t. IdentityTypes /\ ListedHeld /\ VisibleTogether
  BY DEF SeenInv
<1>s. ASSUME UNCHANGED <<album, home, present>> PROVE VisibleTogether'
  BY <1>t, <1>s DEF VisibleTogether, Visible, Held, Of
<1>p. ASSUME UNCHANGED pass PROVE ListedHeld'
  BY <1>t, <1>p DEF ListedHeld
<1>n. ASSUME pass' = NoPass PROVE ListedHeld'
  BY <1>n DEF ListedHeld, NoPass
<1>u. ASSUME NEW s, NEW recorded, NEW changed \in BOOLEAN, Turn(s, recorded, changed)
      PROVE  ListedHeld' /\ s \in pass.list /\ s.a \in Albums
  <2>1. pass'.list = pass.list \ {s} /\ s \in pass.list /\ s \in Snapshots
    BY <1>t, <1>u, TurnTypes DEF Turn
  <2> QED
    BY <1>t, <2>1 DEF ListedHeld, Snapshots
<1>1. CASE Scan
  <2>1. PICK found \in SUBSET Tracks :
          /\ present' = found
          /\ album' = [a \in Albums |-> [album[a] EXCEPT !.missing = Of(a) \cap found = {}]]
    BY <1>1 DEF Scan
  <2>2. UNCHANGED <<home, pass>>
    BY <1>1, Zenon DEF Scan
  <2>3. ASSUME NEW a \in Albums PROVE album'[a].missing = (Of(a) \cap found = {})
    <3> DEFINE none == Of(a) \cap found = {}
    <3>1. album'[a] = [album[a] EXCEPT !.missing = none] /\ album[a] \in Ids
      BY <1>t, <2>1 DEF IdentityTypes
    <3> HIDE DEF none
    <3>2. album'[a].missing = none
      BY <3>1 DEF Ids
    <3> QED
      BY <3>2 DEF none
  <2>4. \A a \in Albums : Held(a)' = Of(a) \cap found
    BY <2>1, <2>2 DEF Held, Of
  <2> QED
    BY <1>p, <2>2, <2>3, <2>4 DEF VisibleTogether, Visible
<1>2. CASE StartPass
  BY <1>2, <1>s, <1>t, RoundHeld DEF StartPass, Unmatched
<1>3. CASE EndRound
  <2>1. CASE pass' = NoPass
    BY <1>3, <1>n, <1>s, <2>1 DEF EndRound
  <2>2. CASE pass' = Round(Due)
    BY <1>3, <1>s, <1>t, <2>2, RoundHeld DEF EndRound, Due, Unmatched
  <2> QED
    BY <1>3, <2>1, <2>2, Zenon DEF EndRound
<1>4. CASE Cancel
  BY <1>4, <1>n, <1>s DEF Cancel
<1>5. ASSUME NEW s, Record(s) PROVE ListedHeld' /\ VisibleTogether'
  BY <1>5, <1>s, <1>u DEF Record
<1>6. ASSUME NEW s, NothingDone(s) PROVE ListedHeld' /\ VisibleTogether'
  BY <1>6, <1>s, <1>u DEF NothingDone
<1>7. ASSUME NEW s, Consensus(s) PROVE ListedHeld' /\ VisibleTogether'
  <2>1. PICK grp \in Groups, changed \in BOOLEAN :
          Turn(s, {s.a}, changed) /\ Identify(s.a, {}, None, grp, "named")
    BY <1>7 DEF Consensus, Groups
  <2>2. home' = home
    BY <1>7, Zenon DEF Consensus
  <2> QED
    BY <1>u, <2>1, <2>2, IdentifySeen
<1>8. ASSUME NEW s, NEW r \in Releases, ApplyMatch(s, r) PROVE ListedHeld' /\ VisibleTogether'
  <2>1. PICK changed \in BOOLEAN : Turn(s, {s.a}, changed)
    BY <1>8 DEF ApplyMatch
  <2>2. /\ Current(s) /\ Merge(s.a, Fragments(s.a, r))
        /\ Identify(s.a, Fragments(s.a, r), r, Group[r], "matched")
    BY <1>8, Zenon DEF ApplyMatch
  <2> QED
    BY <1>u, <2>1, <2>2, CurrentIsSeen, FragmentsSeen, MergeSeen
<1>9. ASSUME NEW s, NEW r \in Releases, Reconcile(s, r) PROVE ListedHeld' /\ VisibleTogether'
  <2>1. Turn(s, {s.a}, TRUE) /\ TRUE \in BOOLEAN
    BY <1>9, Zenon DEF Reconcile
  <2>2. /\ Current(s) /\ Merge(s.a, Fragments(s.a, r))
        /\ Identify(s.a, Fragments(s.a, r), None, Group[r], "named")
    BY <1>9, Zenon DEF Reconcile
  <2>3. ListedHeld' /\ s \in pass.list
    BY <1>u, <2>1, Zenon
  <2> QED
    BY <2>2, <2>3, CurrentIsSeen, FragmentsSeen, MergeSeen
<1>10. ASSUME NEW p \in Profiles, NEW a, NEW o, ResolveRef(p, a, o) PROVE ListedHeld' /\ VisibleTogether'
  BY <1>10, <1>p, <1>s DEF ResolveRef
<1>11. ASSUME NEW p \in Profiles, SetLove(p) PROVE ListedHeld' /\ VisibleTogether'
  BY <1>11, <1>p, <1>s DEF SetLove
<1>12. CASE UNCHANGED vars
  BY <1>12, <1>p, <1>s DEF vars
<1> QED
  BY <1>1, <1>2, <1>3, <1>4, <1>5, <1>6, <1>7, <1>8, <1>9, <1>10, <1>11, <1>12, Zenon
     DEF Next, PassStep, Resolve

(* At first an album is missing if it has no track.                        *)
LEMMA SeenInit == Init => SeenInv
<1> SUFFICES ASSUME Init PROVE SeenInv
  OBVIOUS
<1>1. ListedHeld
  BY DEF Init, ListedHeld, NoPass
<1>2. \A a \in Albums : album[a].missing = ({t \in present : Filed[t] = a} = {})
  BY DEF Init
<1>3. home = Filed /\ present = Tracks
  BY Zenon DEF Init
<1>4. VisibleTogether
  BY <1>2, <1>3 DEF VisibleTogether, Visible, Held, Of
<1> QED
  BY <1>1, <1>4, TypesInit DEF SeenInv

(* Albums that can be seen hold a track, always.                           *)
LEMMA SeenAlways == Spec => []SeenInv
BY SeenInit, SeenNext, PTL DEF Spec

(* VisibleTogether: no merge moves a track to an album that cannot be seen *)
(* or leaves one that can be without a track, however long ago the pass    *)
(* listed it (sameMusicBrainzSnapshot, planSplitAlbumReconciliation).      *)
THEOREM TracksStaySeen == Spec => []VisibleTogether
<1>1. SeenInv => VisibleTogether
  BY DEF SeenInv
<1> QED
  BY <1>1, SeenAlways, PTL

-----------------------------------------------------------------------------
(* Opinions                                                                *)

(* A set with at most one element has no two.                              *)
LEMMA AtMostOne ==
  ASSUME NEW S, IsFiniteSet(S), Cardinality(S) <= 1, NEW x \in S, NEW y \in S
  PROVE  x = y
<1> SUFFICES ASSUME x # y PROVE FALSE
  OBVIOUS
<1>1. IsFiniteSet(S \ {x}) /\ Cardinality(S \ {x}) = Cardinality(S) - 1
  BY FS_RemoveElement
<1>2. y \in S \ {x} /\ Cardinality(S) \in Nat /\ Cardinality(S \ {x}) \in Nat
  BY <1>1, FS_CardinalityType
<1>3. Cardinality(S \ {x}) = 0
  BY <1>1, <1>2
<1>4. S \ {x} = {}
  BY <1>1, <1>3, FS_EmptySet
<1> QED
  BY <1>2, <1>4

(* What a profile says of some albums, if it does not contradict itself,   *)
(* is what it says of each of those it has an opinion of.                  *)
LEMMA SaidOnce ==
  ASSUME IdentityTypes, NEW p \in Profiles, NEW those, those \subseteq Albums,
         \A b \in those : love[p][b] = wish[p][b],
         Agreed(p, those) \/ \E b : those = {b},
         NEW c \in those
  PROVE  /\ love[p][c] # None => Said(wish, p, those) = love[p][c]
         /\ (\A b \in those : love[p][b] = None) => Said(wish, p, those) = None
<1> DEFINE said  == {wish[p][b] : b \in those} \ {None}
           loved == {love[p][b] : b \in those} \ {None}
<1>1. said = loved
  OBVIOUS
<1>2. \A b \in Albums : love[p][b] \in Given
  BY DEF IdentityTypes
<1>3. loved \subseteq {"loved", "not_for_me"}
  BY <1>2 DEF Given, Opinions
<1>4. IsFiniteSet({"loved", "not_for_me"})
  <2>1. IsFiniteSet({"loved"})
    BY FS_Singleton
  <2>2. IsFiniteSet({"loved"} \cup {"not_for_me"})
    BY <2>1, FS_AddElement
  <2>3. {"loved"} \cup {"not_for_me"} = {"loved", "not_for_me"}
    OBVIOUS
  <2> QED
    BY <2>2, <2>3
<1>5. IsFiniteSet(loved)
  <2> HIDE DEF loved
  <2> QED
    BY <1>3, <1>4, FS_Subset
<1>6. Said(wish, p, those)
        = IF said = {} THEN None ELSE IF Cardinality(said) = 1 THEN CHOOSE o \in said : TRUE ELSE "torn"
  BY DEF Said
<1>7. ASSUME NEW x \in loved, NEW y \in loved PROVE x = y
  <2>1. CASE Agreed(p, those)
    <3>1. Cardinality(loved) <= 1
      BY <2>1, Zenon DEF Agreed
    <3> HIDE DEF loved
    <3> QED
      BY <1>5, <1>7, <3>1, AtMostOne
  <2>2. CASE \E b : those = {b}
    BY <2>2, <1>7
  <2> QED
    BY <2>1, <2>2
<1>8. ASSUME love[p][c] # None PROVE Said(wish, p, those) = love[p][c]
  <2>1. love[p][c] \in loved
    BY <1>8
  <2> HIDE DEF loved
  <2>2. loved = {love[p][c]}
    BY <1>7, <2>1
  <2>3. Cardinality(loved) = 1
    BY <2>2, FS_Singleton
  <2>4. (CHOOSE o \in loved : TRUE) = love[p][c]
    BY <2>2
  <2> HIDE DEF said
  <2> QED
    BY <1>1, <1>6, <2>1, <2>3, <2>4
<1>9. (\A b \in those : love[p][b] = None) => Said(wish, p, those) = None
  <2> SUFFICES ASSUME \A b \in those : love[p][b] = None PROVE said = {}
    BY <1>6, Zenon
  <2> QED
    BY <1>1
<1> QED
  BY <1>8, <1>9

(* A merge of albums whose opinions agree keeps opinions with their album. *)
LEMMA MergeOpinions ==
  ASSUME OpinionsInv, NEW a \in Visible, NEW those, those \subseteq Visible \ {a}, Merge(a, those),
         those # {} => \A p \in Profiles : Agreed(p, those \cup {a})
  PROVE  OpinionsFollow'
<1>1. a \in Albums /\ a \notin those /\ IdentityTypes /\ those \subseteq Albums /\ those \cup {a} \subseteq Albums
  BY DEF Visible, OpinionsInv, SeenInv
<1>2. /\ Of(a) \subseteq Of(a)' /\ \A b \in those : Of(b)' = {}
      /\ \A b \in Albums \ (those \cup {a}) : Of(b)' = Of(b)
  BY <1>1, MergedTracks
<1>3. strayed' = strayed /\ love' = Kept(a, those) /\ wish' = Joined(wish, a, those)
  BY Zenon DEF Merge
<1>4. \A b \in those \cup {a} : Of(b) # {}
  <2>1. \A b \in those \cup {a} : b \in Visible /\ b \in Albums
    BY <1>1
  <2>2. \A b \in Albums : b \in Visible <=> Held(b) # {}
    BY Zenon DEF OpinionsInv, SeenInv, VisibleTogether
  <2> QED
    BY <2>1, <2>2 DEF Held
<1> SUFFICES ASSUME NEW p \in Profiles, NEW b \in Albums
             PROVE  IF Of(b)' = {} THEN love'[p][b] # None => <<p, b>> \in strayed'
                    ELSE love'[p][b] = wish'[p][b]
  BY Zenon DEF OpinionsFollow
<1> DEFINE kept == CHOOSE c \in those \cup {a} : love[p][c] # None
<1>5. love'[p][b] = IF b \in those THEN None
         ELSE IF b = a /\ \E c \in those \cup {a} : love[p][c] # None THEN love[p][kept] ELSE love[p][b]
  BY <1>3 DEF Kept
<1>6. wish'[p][b]
        = IF b \in those THEN None ELSE IF b = a THEN Said(wish, p, those \cup {a}) ELSE wish[p][b]
  BY <1>3 DEF Joined
<1>7. (\E c \in those \cup {a} : love[p][c] # None) => kept \in those \cup {a} /\ love[p][kept] # None
  BY Zenon
<1> HIDE DEF kept
<1>8. CASE b \in those
  BY <1>2, <1>5, <1>8, Zenon
<1>9. CASE b = a
  <2>1. \A c \in those \cup {a} : love[p][c] = wish[p][c]
    BY <1>1, <1>4, Zenon DEF OpinionsInv, OpinionsFollow
  <2>2. Agreed(p, those \cup {a}) \/ \E c : those \cup {a} = {c}
    <3>1. CASE those = {}
      <4>1. those \cup {a} = {a}
        BY <3>1
      <4> QED
        BY <4>1, Zenon
    <3> QED
      BY <3>1, Zenon
  <2>3. \A c \in those \cup {a} :
          /\ love[p][c] # None => Said(wish, p, those \cup {a}) = love[p][c]
          /\ (\A d \in those \cup {a} : love[p][d] = None) => Said(wish, p, those \cup {a}) = None
    BY <1>1, <2>1, <2>2, SaidOnce
  <2>4. love'[p][a] = wish'[p][a]
    <3>1. CASE \E c \in those \cup {a} : love[p][c] # None
      <4>1. love'[p][a] = love[p][kept] /\ kept \in those \cup {a} /\ love[p][kept] # None
        BY <1>1, <1>5, <1>7, <1>9, <3>1, Zenon
      <4>2. Said(wish, p, those \cup {a}) = love[p][kept]
        BY <2>3, <4>1, Zenon
      <4> QED
        BY <1>1, <1>6, <1>9, <4>1, <4>2, Zenon
    <3>2. CASE \A c \in those \cup {a} : love[p][c] = None
      <4>1. a \in those \cup {a}
        OBVIOUS
      <4>2. love[p][a] = None /\ Said(wish, p, those \cup {a}) = None
        BY <2>3, <3>2, <4>1, Zenon
      <4>3. love'[p][a] = love[p][a]
        BY <1>1, <1>5, <1>9, <3>2, Zenon
      <4> QED
        BY <1>1, <1>6, <1>9, <4>2, <4>3, Zenon
    <3> QED
      BY <3>1, <3>2, Zenon
  <2>5. Of(a)' # {}
    BY <1>2, <1>4
  <2> QED
    BY <1>9, <2>4, <2>5, Zenon
<1>10. CASE b \notin those /\ b # a
  <2>1. love'[p][b] = love[p][b] /\ wish'[p][b] = wish[p][b]
    BY <1>5, <1>6, <1>10, Zenon
  <2>2. Of(b)' = Of(b)
    BY <1>2, <1>10
  <2>3. IF Of(b) = {} THEN love[p][b] # None => <<p, b>> \in strayed ELSE love[p][b] = wish[p][b]
    BY Zenon DEF OpinionsInv, OpinionsFollow
  <2> QED
    BY <1>3, <2>1, <2>2, <2>3, Zenon
<1> QED
  BY <1>8, <1>9, <1>10, Zenon

(* A merge that is safe joins opinions that agree.                         *)
LEMMA SafeAgrees ==
  ASSUME NEW a, NEW r, NEW scored, Safe(a, r, scored), Fragments(a, r) # {}
  PROVE  /\ \A p \in Profiles : Agreed(p, Fragments(a, r) \cup {a})
         /\ \A b \in Fragments(a, r) : Mergeable(b, r)
BY Zenon DEF Safe

(* An opinion that is written is the one last given, and one on an album   *)
(* without tracks has come too late.                                       *)
LEMMA SetLoveFollows ==
  ASSUME OpinionsInv, NEW p \in Profiles, SetLove(p)
  PROVE  OpinionsFollow'
<1> DEFINE a == loving[p][1]
           o == loving[p][2]
<1>1. /\ love' = [love EXCEPT ![p][a] = o] /\ wish' = [wish EXCEPT ![p][a] = o]
      /\ strayed' = IF a \in Visible THEN strayed ELSE strayed \cup {<<p, a>>}
      /\ home' = home
  BY Zenon DEF SetLove
<1>2. IdentityTypes /\ OpinionsFollow /\ VisibleTogether
  BY DEF OpinionsInv, SeenInv
<1>3. a \in Albums
  <2>1. loving[p] \in Albums \X Given
    BY <1>2, Zenon DEF SetLove, IdentityTypes
  <2> QED
    BY <2>1
<1> HIDE DEF a, o
<1> SUFFICES ASSUME NEW q \in Profiles, NEW b \in Albums
             PROVE  IF Of(b)' = {} THEN love'[q][b] # None => <<q, b>> \in strayed'
                    ELSE love'[q][b] = wish'[q][b]
  BY Zenon DEF OpinionsFollow
<1>4. Of(b)' = Of(b)
  BY <1>1 DEF Of
<1>5. IF Of(b) = {} THEN love[q][b] # None => <<q, b>> \in strayed ELSE love[q][b] = wish[q][b]
  BY <1>2, Zenon DEF OpinionsFollow
<1>6. strayed \subseteq strayed'
  BY <1>1
<1>7. CASE q = p /\ b = a
  <2>1. love'[q][b] = o /\ wish'[q][b] = o
    BY <1>1, <1>2, <1>3, <1>7 DEF IdentityTypes
  <2>2. Of(b) = {} => b \notin Visible
    BY <1>2 DEF VisibleTogether, Held
  <2>3. Of(b) = {} => <<q, b>> \in strayed'
    BY <1>1, <1>7, <2>2
  <2> QED
    BY <1>4, <2>1, <2>3, Zenon
<1>8. CASE ~(q = p /\ b = a)
  <2>1. love'[q][b] = love[q][b] /\ wish'[q][b] = wish[q][b]
    BY <1>1, <1>2, <1>3, <1>8 DEF IdentityTypes
  <2>2. <<q, b>> \in strayed => <<q, b>> \in strayed'
    BY <1>6
  <2> QED
    BY <1>4, <1>5, <2>1, <2>2, Zenon
<1> QED
  BY <1>7, <1>8, Zenon

(* A step keeps opinions with their album.                                 *)
LEMMA OpinionsNext == OpinionsInv /\ [Next]_vars => OpinionsInv'
<1> SUFFICES ASSUME OpinionsInv, [Next]_vars PROVE OpinionsFollow'
  BY SeenNext DEF OpinionsInv
<1> USE IdentityAssumption
<1>t. SeenInv /\ IdentityTypes /\ OpinionsFollow
  BY DEF OpinionsInv, SeenInv
<1>s. ASSUME UNCHANGED <<home, love, wish, strayed>> PROVE OpinionsFollow'
  BY <1>t, <1>s, Zenon DEF OpinionsFollow, Of
<1>1. CASE Scan \/ StartPass \/ EndRound \/ Cancel
  BY <1>1, <1>s, Zenon DEF Scan, StartPass, EndRound, Cancel
<1>2. ASSUME NEW s, Record(s) \/ NothingDone(s) \/ Consensus(s) PROVE OpinionsFollow'
  BY <1>2, <1>s, Zenon DEF Record, NothingDone, Consensus
<1>3. ASSUME NEW s \in pass.list, NEW r \in Releases, ApplyMatch(s, r) \/ Reconcile(s, r)
      PROVE  OpinionsFollow'
  <2>1. Current(s) /\ Merge(s.a, Fragments(s.a, r)) /\ Safe(s.a, r, Union(s.a))
    BY <1>3, Zenon DEF ApplyMatch, Reconcile
  <2>2. s.a \in Visible
    BY <1>t, <2>1, CurrentIsSeen
  <2>3. Fragments(s.a, r) # {} => \A p \in Profiles : Agreed(p, Fragments(s.a, r) \cup {s.a})
    BY <2>1, SafeAgrees
  <2> QED
    BY <2>1, <2>2, <2>3, FragmentsSeen, MergeOpinions
<1>4. ASSUME NEW p \in Profiles, NEW a, NEW o, ResolveRef(p, a, o) PROVE OpinionsFollow'
  BY <1>4, <1>s, Zenon DEF ResolveRef
<1>5. ASSUME NEW p \in Profiles, SetLove(p) PROVE OpinionsFollow'
  BY <1>5, SetLoveFollows
<1>6. CASE UNCHANGED vars
  BY <1>6, <1>s, Zenon DEF vars
<1> QED
  BY <1>1, <1>2, <1>3, <1>4, <1>5, <1>6, Zenon DEF Next, PassStep, Resolve

(* At first nobody has an opinion.                                         *)
LEMMA OpinionsInit == Init => OpinionsInv
<1> SUFFICES ASSUME Init PROVE OpinionsFollow
  BY SeenInit DEF OpinionsInv
<1>1. \A p \in Profiles, a \in Albums : love[p][a] = None /\ wish[p][a] = None
  BY DEF Init
<1> QED
  BY <1>1, Zenon DEF OpinionsFollow

(* Opinions are with their album, always.                                  *)
LEMMA OpinionsAlways == Spec => []OpinionsInv
BY OpinionsInit, OpinionsNext, PTL DEF Spec

(* OpinionsFollow: an album has the opinion each profile last gave of it   *)
(* or of its fragments, and none stays on an album merged away but what    *)
(* was resolved before the merge and written after (splitProfileConflictTx,*)
(* applySplitAlbumPlanTx).                                                 *)
THEOREM OpinionsFollowMerges == Spec => []OpinionsFollow
<1>1. OpinionsInv => OpinionsFollow
  BY DEF OpinionsInv
<1> QED
  BY <1>1, OpinionsAlways, PTL

-----------------------------------------------------------------------------
(* Releases                                                                *)

(* What is identified of b takes no release from an album that is not a    *)
(* fragment of it, and changes that of b only when it names one.           *)
LEMMA ReleaseKept ==
  ASSUME IdentityTypes, NEW a \in Visible, album[a].rel # None,
         NEW b, NEW those, a \notin those, NEW rel, NEW grp, NEW state,
         Identify(b, those, rel, grp, state)
  PROVE  /\ ~album'[a].missing /\ album'[a].rel # None
         /\ (a # b \/ rel = None) => album'[a].rel = album[a].rel
<1>1. a \in Albums /\ album[a] \in Ids /\ ~album[a].missing
  BY DEF Visible, IdentityTypes
<1>2. album'[a] = IF a = b THEN [album[a] EXCEPT !.rel = IF rel = None THEN @ ELSE rel,
                                                 !.grp = IF grp = None THEN @ ELSE grp]
                  ELSE album[a]
  BY <1>1 DEF Identify
<1> QED
  BY <1>1, <1>2 DEF Ids

(* What ReleasesSurvive asks of a step for one album.                      *)
ReleaseSafe(a) ==
  /\ ~album'[a].missing /\ album'[a].rel # None
  /\ \/ album'[a].rel = album[a].rel
     \/ \E s \in pass.list \ pass'.list : s = Snapshot(a)

(* A step of a pass changes the release of an album only in its own turn.  *)
LEMMA ReleasesNext ==
  SeenInv /\ [Next]_vars => \A a \in Visible : pass.on /\ album[a].rel # None => ReleaseSafe(a)
<1> SUFFICES ASSUME SeenInv, [Next]_vars, NEW a \in Visible, pass.on, album[a].rel # None
             PROVE  ReleaseSafe(a)
  OBVIOUS
<1>t. IdentityTypes
  BY DEF SeenInv
<1>s. ASSUME album' = album PROVE ReleaseSafe(a)
  BY <1>s DEF Visible, ReleaseSafe
<1>1. CASE Scan
  BY <1>1 DEF Scan
<1>2. CASE StartPass \/ EndRound \/ Cancel
  BY <1>2, <1>s, Zenon DEF StartPass, EndRound, Cancel
<1>3. ASSUME NEW s, Record(s) \/ NothingDone(s) PROVE album' = album
  BY <1>3, Zenon DEF Record, NothingDone
<1>4. ASSUME NEW s \in pass.list, Consensus(s) PROVE ReleaseSafe(a)
  <2>1. PICK grp \in Groups : Identify(s.a, {}, None, grp, "named")
    BY <1>4 DEF Consensus, Groups
  <2> QED
    BY <1>t, <2>1, ReleaseKept DEF ReleaseSafe
<1>5. ASSUME NEW s \in pass.list, NEW r \in Releases, ApplyMatch(s, r) \/ Reconcile(s, r)
      PROVE  ReleaseSafe(a)
  <2>1. /\ Current(s) /\ Safe(s.a, r, Union(s.a))
        /\ \E changed \in BOOLEAN : Turn(s, {s.a}, changed)
        /\ \E rel \in {None, r}, state \in Matches : Identify(s.a, Fragments(s.a, r), rel, Group[r], state)
    BY <1>5 DEF ApplyMatch, Reconcile, Matches
  <2>2. s \in pass.list \ pass'.list
    <3>1. PICK changed \in BOOLEAN : Turn(s, {s.a}, changed)
      BY <2>1, Zenon
    <3> QED
      BY <3>1, <1>t DEF Turn, IdentityTypes
  <2>3. a = s.a => \E u \in pass.list \ pass'.list : u = Snapshot(a)
    BY <2>1, <2>2, Zenon DEF Current
  <2>4. a \notin Fragments(s.a, r)
    <3> SUFFICES ASSUME a \in Fragments(s.a, r) PROVE FALSE
      OBVIOUS
    <3>1. Mergeable(a, r)
      BY <2>1, SafeAgrees
    <3> QED
      BY <3>1, Zenon DEF Mergeable, Evident
  <2>5. PICK rel \in {None, r}, state \in Matches : Identify(s.a, Fragments(s.a, r), rel, Group[r], state)
    BY <2>1, Zenon
  <2>6. /\ ~album'[a].missing /\ album'[a].rel # None
        /\ a # s.a => album'[a].rel = album[a].rel
    BY <1>t, <2>4, <2>5, ReleaseKept
  <2> QED
    BY <2>3, <2>6, Zenon DEF ReleaseSafe
<1>6. ASSUME NEW p \in Profiles, SetLove(p) \/ \E b, o : ResolveRef(p, b, o) PROVE album' = album
  BY <1>6, Zenon DEF SetLove, ResolveRef
<1>7. CASE UNCHANGED vars
  BY <1>7, <1>s, Zenon DEF vars
<1> QED
  BY <1>1, <1>2, <1>3, <1>4, <1>5, <1>6, <1>7, <1>s, Zenon DEF Next, PassStep, Resolve

(* ReleasesSurvive: in a pass an album with a release is not merged into   *)
(* another one and keeps a release; it gets another one only in its own    *)
(* turn, when the answer names it (planSplitAlbumReconciliation).          *)
THEOREM ReleasesStay == Spec => ReleasesSurvive
<1>1. SeenInv /\ SeenInv' /\ [Next]_vars =>
        [\A a \in Visible : pass.on /\ album[a].rel # None =>
           /\ ~album'[a].missing /\ album'[a].rel # None
           /\ \/ album'[a].rel = album[a].rel
              \/ \E s \in pass.list \ pass'.list : s = Snapshot(a)]_vars
  BY ReleasesNext, Zenon DEF ReleaseSafe
<1> QED
  BY <1>1, SeenAlways, PTL DEF Spec, ReleasesSurvive

-----------------------------------------------------------------------------
(* CatalogSync: the inductive invariant of the change feed                 *)

(* What is stamped from now on is later than v.                            *)
Fresh(v) == (scan = "run" => scanSeq > v) /\ (gap # 0 => gap > v)

(* No number is ahead of the feed's.                                       *)
Bounded ==
  /\ \A r \in Rows : stamp[r] <= seq
  /\ scanSeq <= seq /\ gap <= seq
  /\ since <= seq /\ upto <= seq /\ cursor.seq <= seq

(* A request whose looks saw no scan, and that none began during, is alone.*)
Unnoticed == client \in {"snapshot", "recheck"} /\ ~busy /\ ~began => scan = "idle"

(* The next sync will return whatever is out of date at the client.        *)
SinceInv ==
  client # "new" /\ causes = {} /\ (client = "list" => overlap = {}) =>
    /\ Fresh(since)
    /\ \A r \in stale : stamp[r] > since \/ (client = "list" /\ r \in page)
    /\ client \in {"recheck", "hydrate"} => \A r \in page : stamp[r] > since

(* So will the next page, from its cursor on.                              *)
CursorInv ==
  client \in {"look", "snapshot"} /\ cursor # Sync!NoCursor /\ causes = {} /\ overlap = {} =>
    /\ Fresh(cursor.seq)
    /\ \A r \in stale : Sync!Later(stamp[r], r, cursor.seq, cursor.row)

(* A page whose version may be taken, unless a scan is noticed.            *)
Sure ==
  \/ cursor # Sync!NoCursor
  \/ client = "recheck" /\ ~busy /\ ~began
  \/ client = "hydrate" /\ ~busy

(* What is out of date changed after the snapshot, is on the page as the   *)
(* page saw it, or comes after the cursor.                                 *)
PageInv ==
  client \in {"recheck", "hydrate"} /\ causes = {} /\ overlap = {} /\ Sure =>
    /\ Fresh(upto) /\ cursor.seq <= upto
    /\ \A r \in stale : \/ stamp[r] > upto
                        \/ r \in page /\ (r \in gone <=> r \in missing)
                        \/ cursor # Sync!NoCursor /\ Sync!Later(stamp[r], r, cursor.seq, cursor.row)
    /\ \A r \in page : stamp[r] > upto \/ (r \in gone <=> r \in missing)

FeedTypes == Sync!TypeOK /\ Bounded
FeedInv   == FeedTypes /\ Unnoticed /\ SinceInv /\ CursorInv /\ PageInv

-----------------------------------------------------------------------------
(* The order of the feed                                                   *)

(* A set of rows that is not empty has one that comes before all others.   *)
LEMMA LeastNumber ==
  ASSUME NEW S, S \subseteq Nat, S # {}
  PROVE  \E s \in S : \A t \in S : s <= t
<1>1. PICK s \in S : \A t \in S : ~(<<t, s>> \in OpToRel(<, Nat))
  BY NatLessThanWellFounded, WFMin
<1>2. \A t \in S : ~(t < s)
  BY <1>1 DEF OpToRel
<1> QED
  BY <1>2

(* CatalogSync counts as this module does.                                 *)
LEMMA SameCardinality == \A S : Sync!Cardinality(S) = Cardinality(S)
BY Zenon DEF Sync!Cardinality, Cardinality

After(R, r)  == {q \in R : Sync!Later(stamp[q], q, stamp[r], r)}
Before(R, r) == {q \in R : Sync!Later(stamp[r], r, stamp[q], q)}

(* The order of the feed is total.                                         *)
LEMMA FeedOrder ==
  ASSUME Sync!TypeOK
  PROVE  /\ \A p, q \in Rows : p = q \/ Sync!Later(stamp[p], p, stamp[q], q) \/ Sync!Later(stamp[q], q, stamp[p], p)
         /\ \A p \in Rows : ~Sync!Later(stamp[p], p, stamp[p], p)
         /\ \A p, q, r \in Rows : Sync!Later(stamp[p], p, stamp[q], q) /\ Sync!Later(stamp[q], q, stamp[r], r)
                                    => Sync!Later(stamp[p], p, stamp[r], r)
<1>1. \A p \in Rows : p \in Nat /\ stamp[p] \in Nat
  BY SyncAssumption DEF Sync!TypeOK
<1> QED
  BY <1>1 DEF Sync!Later

(* What comes after or before a row is finite.                             *)
LEMMA Countable ==
  ASSUME NEW R, R \subseteq Rows, NEW r
  PROVE  /\ IsFiniteSet(R)
         /\ IsFiniteSet(After(R, r)) /\ Cardinality(After(R, r)) \in Nat
         /\ IsFiniteSet(Before(R, r)) /\ Cardinality(Before(R, r)) \in Nat
<1>1. IsFiniteSet(R)
  BY SyncAssumption, FS_Subset
<1>2. After(R, r) \subseteq R /\ Before(R, r) \subseteq R
  BY DEF After, Before
<1>3. IsFiniteSet(After(R, r)) /\ IsFiniteSet(Before(R, r))
  BY <1>1, <1>2, FS_Subset
<1> QED
  BY <1>1, <1>3, FS_CardinalityType

(* What has the fewest rows after it has none, and so for before.          *)
LEMMA Ends ==
  ASSUME Sync!TypeOK, NEW R, R \subseteq Rows, R # {}
  PROVE  (\E r \in R : After(R, r) = {}) /\ (\E r \in R : Before(R, r) = {})
<1>1. \E r \in R : After(R, r) = {}
  <2> DEFINE counts == {Cardinality(After(R, r)) : r \in R}
  <2>1. counts \subseteq Nat /\ counts # {}
    BY Countable
  <2>2. PICK r \in R : \A q \in R : Cardinality(After(R, r)) <= Cardinality(After(R, q))
    <3>1. \E s \in counts : \A t \in counts : s <= t
      <4> HIDE DEF counts
      <4> QED
        BY <2>1, LeastNumber
    <3> QED
      BY <3>1
  <2>3. ASSUME NEW q \in After(R, r) PROVE FALSE
    <3>1. q \in R /\ Sync!Later(stamp[q], q, stamp[r], r)
      BY <2>3 DEF After
    <3>2. After(R, q) \subseteq After(R, r) /\ q \notin After(R, q)
      BY <3>1, FeedOrder DEF After
    <3>3. Cardinality(After(R, q)) < Cardinality(After(R, r))
      <4>1. After(R, q) # After(R, r)
        BY <2>3, <3>2
      <4>2. IsFiniteSet(After(R, r)) /\ Cardinality(After(R, r)) \in Nat /\ Cardinality(After(R, q)) \in Nat
        BY Countable
      <4>3. /\ Cardinality(After(R, q)) <= Cardinality(After(R, r))
            /\ Cardinality(After(R, q)) = Cardinality(After(R, r)) => After(R, q) = After(R, r)
        BY <3>2, <4>2, FS_Subset
      <4> QED
        BY <4>1, <4>2, <4>3
    <3>4. Cardinality(After(R, r)) \in Nat /\ Cardinality(After(R, q)) \in Nat
      BY Countable
    <3> QED
      BY <2>2, <3>1, <3>3, <3>4
  <2> QED
    BY <2>3
<1>2. \E r \in R : Before(R, r) = {}
  <2> DEFINE counts == {Cardinality(Before(R, r)) : r \in R}
  <2>1. counts \subseteq Nat /\ counts # {}
    BY Countable
  <2>2. PICK r \in R : \A q \in R : Cardinality(Before(R, r)) <= Cardinality(Before(R, q))
    <3>1. \E s \in counts : \A t \in counts : s <= t
      <4> HIDE DEF counts
      <4> QED
        BY <2>1, LeastNumber
    <3> QED
      BY <3>1
  <2>3. ASSUME NEW q \in Before(R, r) PROVE FALSE
    <3>1. q \in R /\ Sync!Later(stamp[r], r, stamp[q], q)
      BY <2>3 DEF Before
    <3>2. Before(R, q) \subseteq Before(R, r) /\ q \notin Before(R, q)
      BY <3>1, FeedOrder DEF Before
    <3>3. Cardinality(Before(R, q)) < Cardinality(Before(R, r))
      <4>1. Before(R, q) # Before(R, r)
        BY <2>3, <3>2
      <4>2. IsFiniteSet(Before(R, r)) /\ Cardinality(Before(R, r)) \in Nat /\ Cardinality(Before(R, q)) \in Nat
        BY Countable
      <4>3. /\ Cardinality(Before(R, q)) <= Cardinality(Before(R, r))
            /\ Cardinality(Before(R, q)) = Cardinality(Before(R, r)) => Before(R, q) = Before(R, r)
        BY <3>2, <4>2, FS_Subset
      <4> QED
        BY <4>1, <4>2, <4>3
    <3>4. Cardinality(Before(R, r)) \in Nat /\ Cardinality(Before(R, q)) \in Nat
      BY Countable
    <3> QED
      BY <2>2, <3>1, <3>3, <3>4
  <2> QED
    BY <2>3
<1> QED
  BY <1>1, <1>2

(* The last row of a set is one of it, and all others come before it.      *)
LEMMA LastIsLast ==
  ASSUME Sync!TypeOK, NEW R, R \subseteq Rows, R # {}
  PROVE  /\ Sync!LastOf(R) \in R
         /\ \A q \in R \ {Sync!LastOf(R)} : Sync!Later(stamp[Sync!LastOf(R)], Sync!LastOf(R), stamp[q], q)
<1>1. PICK r \in R : After(R, r) = {}
  BY Ends
<1>2. \A q \in R \ {r} : Sync!Later(stamp[r], r, stamp[q], q)
  BY <1>1, FeedOrder DEF After
<1>3. \E l \in R : \A q \in R \ {l} : Sync!Later(stamp[l], l, stamp[q], q)
  BY <1>2
<1> QED
  BY <1>3, Zenon DEF Sync!LastOf

(* A page holds the first of the rows that are due, and all up to its last.*)
LEMMA PageFacts ==
  ASSUME Sync!TypeOK, NEW R, R \subseteq Rows
  PROVE  /\ Sync!PageOf(R) \subseteq R
         /\ R # {} => Sync!PageOf(R) # {}
         /\ \A r \in R, l \in Sync!PageOf(R) :
              r \in Sync!PageOf(R) \/ Sync!Later(stamp[r], r, stamp[l], l)
<1>1. \A r \in R : r \in Sync!PageOf(R) <=> Cardinality(Before(R, r)) < PageSize
  <2> TAKE r \in R
  <2>1. r \in Sync!PageOf(R) <=>
          Cardinality({q \in R : Sync!Later(stamp[r], r, stamp[q], q)}) < PageSize
    BY SameCardinality, Zenon DEF Sync!PageOf
  <2> QED
    BY <2>1, Zenon DEF Before
<1>2. Sync!PageOf(R) \subseteq R
  BY DEF Sync!PageOf
<1>3. ASSUME R # {} PROVE Sync!PageOf(R) # {}
  <2>1. PICK r \in R : Before(R, r) = {}
    BY <1>3, Ends
  <2>2. Cardinality(Before(R, r)) = 0
    BY <2>1, FS_EmptySet
  <2> QED
    BY <1>1, <2>2, SyncAssumption
<1>4. ASSUME NEW r \in R, NEW l \in Sync!PageOf(R), ~Sync!Later(stamp[r], r, stamp[l], l)
      PROVE  r \in Sync!PageOf(R)
  <2>1. r = l \/ Sync!Later(stamp[l], l, stamp[r], r)
    BY <1>2, <1>4, FeedOrder
  <2>2. Before(R, r) \subseteq Before(R, l)
    BY <1>2, <2>1, FeedOrder DEF Before
  <2>3. /\ IsFiniteSet(Before(R, l)) /\ Cardinality(Before(R, l)) \in Nat
        /\ Cardinality(Before(R, r)) \in Nat
    BY Countable
  <2>4. Cardinality(Before(R, r)) <= Cardinality(Before(R, l))
    BY <2>2, <2>3, FS_Subset
  <2>5. Cardinality(Before(R, l)) < PageSize
    BY <1>1, <1>2
  <2> QED
    BY <1>1, <2>3, <2>4, <2>5, SyncAssumption
<1> QED
  BY <1>2, <1>3, <1>4

-----------------------------------------------------------------------------
(* What writers do                                                         *)

(* The numbers that are stamped.                                           *)
Newer(n) == n = seq + 1 \/ (scan = "run" /\ n = scanSeq) \/ (gap # 0 /\ n = gap)

(* What the invariant has to know of a writer's step: it leaves the client *)
(* alone, stamps what it changes, and takes only numbers that are new.     *)
Written ==
  /\ UNCHANGED <<client, since, busy, page, gone, upto, cursor, overlap, causes>>
  /\ seq' \in Nat /\ seq <= seq'
  /\ \A r \in Rows : \/ stamp'[r] = stamp[r] /\ (r \in stale' <=> r \in stale) /\ (r \in missing' <=> r \in missing)
                     \/ Newer(stamp'[r]) /\ (stamp'[r] \in {scanSeq, gap} \/ seq' = seq + 1)
  /\ scan' = "run" => (scan = "run" /\ scanSeq' = scanSeq) \/ scanSeq' = seq + 1
  /\ scanSeq' = scanSeq \/ (scanSeq' = seq + 1 /\ seq' = seq + 1)
  /\ gap' \in {gap, 0} \/ (gap' = seq + 1 /\ seq' = seq + 1)
  /\ began' = began \/ began'
  /\ scan = "idle" /\ scan' # "idle" => began'

(* A transaction stamps some rows and leaves the others.                   *)
LEMMA ChangeFacts ==
  ASSUME Sync!TypeOK, NEW S, S \subseteq Rows, NEW M, M \subseteq S, NEW n \in Nat, Sync!Change(S, M, n)
  PROVE  /\ stamp' \in [Rows -> Nat] /\ missing' \in SUBSET Rows /\ stale' \in SUBSET Rows
         /\ \A r \in Rows :
              \/ stamp'[r] = stamp[r] /\ (r \in stale' <=> r \in stale) /\ (r \in missing' <=> r \in missing)
              \/ stamp'[r] = n
BY DEF Sync!TypeOK, Sync!Change

(* A writer's step keeps the types and does what Written says.             *)
LEMMA WriterEffect ==
  ASSUME Sync!TypeOK, Sync!WriterStep
  PROVE  Sync!TypeOK' /\ Written
<1> USE SyncAssumption
<1>a. ASSUME NEW n \in Nat PROVE n <= n /\ n <= n + 1 /\ n + 1 \in Nat
  OBVIOUS
<1>1. CASE Sync!ScanBegin
  <2>1. /\ scan = "idle" /\ scan' = "wait" /\ fenced' = FALSE /\ began' = TRUE
        /\ UNCHANGED <<seq, stamp, missing, scanSeq, gap, client, since>>
        /\ UNCHANGED <<busy, page, gone, upto, cursor, stale, overlap, causes>>
    BY <1>1 DEF Sync!ScanBegin, Sync!feedVars, Sync!pageVars
  <2>2. Sync!TypeOK'
    BY <2>1 DEF Sync!TypeOK
  <2>3. Written
    BY <1>a, <2>1 DEF Written, Sync!TypeOK
  <2> QED
    BY <2>2, <2>3
<1>2. CASE Sync!ScanAllocate
  BY <1>2 DEF Sync!ScanAllocate, Sync!TypeOK, Written, Sync!pageVars, Sync!noteVars
<1>3. ASSUME NEW r \in Rows, Sync!ScanWrite(r) PROVE Sync!TypeOK' /\ Written
  <2>1. Sync!Change({r}, {}, scanSeq) /\ scan = "run" /\ seq' = seq /\ scanSeq \in Nat
    BY <1>3 DEF Sync!ScanWrite, Sync!TypeOK
  <2>2. UNCHANGED <<scan, scanSeq, fenced, gap, client, since, busy, page, gone, upto, cursor, began, overlap, causes>>
    BY <1>3 DEF Sync!ScanWrite, Sync!writerVars, Sync!pageVars, Sync!noteVars
  <2>3. /\ stamp' \in [Rows -> Nat] /\ missing' \in SUBSET Rows /\ stale' \in SUBSET Rows
        /\ \A q \in Rows :
             \/ stamp'[q] = stamp[q] /\ (q \in stale' <=> q \in stale) /\ (q \in missing' <=> q \in missing)
             \/ stamp'[q] = scanSeq
    BY <2>1, ChangeFacts
  <2>4. Sync!TypeOK'
    BY <2>1, <2>2, <2>3 DEF Sync!TypeOK
  <2>5. Written
    BY <1>a, <2>1, <2>2, <2>3 DEF Written, Newer, Sync!TypeOK
  <2> QED
    BY <2>4, <2>5
<1>4. ASSUME NEW S \in SUBSET Rows, NEW M \in SUBSET Rows, Sync!ScanFinalize(S, M) PROVE Sync!TypeOK' /\ Written
  <2>1. Sync!Change(S, M, scanSeq) /\ scan = "run" /\ scan' = "finish" /\ seq' = seq /\ scanSeq \in Nat /\ M \subseteq S
    BY <1>4 DEF Sync!ScanFinalize, Sync!TypeOK
  <2>2. UNCHANGED <<scanSeq, fenced, gap, client, since, busy, page, gone, upto, cursor, began, overlap, causes>>
    BY <1>4 DEF Sync!ScanFinalize, Sync!pageVars, Sync!noteVars
  <2>3. /\ stamp' \in [Rows -> Nat] /\ missing' \in SUBSET Rows /\ stale' \in SUBSET Rows
        /\ \A q \in Rows :
             \/ stamp'[q] = stamp[q] /\ (q \in stale' <=> q \in stale) /\ (q \in missing' <=> q \in missing)
             \/ stamp'[q] = scanSeq
    BY <2>1, ChangeFacts
  <2>4. Sync!TypeOK'
    BY <2>1, <2>2, <2>3 DEF Sync!TypeOK
  <2>5. Written
    BY <1>a, <2>1, <2>2, <2>3 DEF Written, Newer, Sync!TypeOK
  <2> QED
    BY <2>4, <2>5
<1>5. CASE Sync!ScanStop
  BY <1>5 DEF Sync!ScanStop, Sync!TypeOK, Written, Sync!feedVars, Sync!pageVars, Sync!noteVars
<1>6. CASE Sync!ScanFinish
  <2>1. /\ scan = "finish" /\ UNCHANGED <<seq, stamp, missing, scanSeq, gap, client, since>>
        /\ UNCHANGED <<busy, page, gone, upto, cursor, stale, overlap, causes>>
    BY <1>6 DEF Sync!ScanFinish, Sync!feedVars, Sync!pageVars
  <2>2. CASE scan' = "idle" /\ UNCHANGED <<fenced, began>>
    <3>1. Sync!TypeOK'
      BY <2>1, <2>2 DEF Sync!TypeOK
    <3>2. Written
      BY <1>a, <2>1, <2>2 DEF Written, Sync!TypeOK
    <3> QED
      BY <3>1, <3>2
  <2>3. CASE scan' = "wait" /\ fenced' = FALSE /\ began' = TRUE
    <3>1. Sync!TypeOK'
      BY <2>1, <2>3 DEF Sync!TypeOK
    <3>2. Written
      BY <1>a, <2>1, <2>3 DEF Written, Sync!TypeOK
    <3> QED
      BY <3>1, <3>2
  <2> QED
    BY <1>6, <2>2, <2>3 DEF Sync!ScanFinish, Sync!AfterScan
<1>7. ASSUME NEW S \in SUBSET Rows, Sync!AttachAtNextSequence(S) PROVE Sync!TypeOK' /\ Written
  <2>1. Sync!Change(S, {}, seq + 1) /\ seq' = seq + 1 /\ seq \in Nat /\ seq + 1 \in Nat
    BY <1>7 DEF Sync!AttachAtNextSequence, Sync!TypeOK
  <2>2. UNCHANGED <<scan, scanSeq, fenced, gap, client, since, busy, page, gone, upto, cursor, began, overlap, causes>>
    BY <1>7 DEF Sync!AttachAtNextSequence, Sync!writerVars, Sync!pageVars, Sync!noteVars
  <2>3. /\ stamp' \in [Rows -> Nat] /\ missing' \in SUBSET Rows /\ stale' \in SUBSET Rows
        /\ \A q \in Rows :
             \/ stamp'[q] = stamp[q] /\ (q \in stale' <=> q \in stale) /\ (q \in missing' <=> q \in missing)
             \/ stamp'[q] = seq + 1
    BY <2>1, ChangeFacts
  <2>4. Sync!TypeOK'
    BY <2>1, <2>2, <2>3 DEF Sync!TypeOK
  <2>5. Written
    BY <1>a, <2>1, <2>2, <2>3 DEF Written, Newer, Sync!TypeOK
  <2> QED
    BY <2>4, <2>5
<1>8. CASE Sync!ResolverAllocate
  BY <1>8 DEF Sync!ResolverAllocate, Sync!TypeOK, Written, Sync!pageVars, Sync!noteVars
<1>9. ASSUME NEW S \in SUBSET Rows, NEW M \in SUBSET Rows, Sync!ResolverApply(S, M) PROVE Sync!TypeOK' /\ Written
  <2>1. Sync!Change(S, M, gap) /\ gap # 0 /\ gap' = 0 /\ seq' = seq /\ gap \in Nat /\ M \subseteq S
    BY <1>9 DEF Sync!ResolverApply, Sync!TypeOK
  <2>2. UNCHANGED <<scan, scanSeq, fenced, client, since, busy, page, gone, upto, cursor, began, overlap, causes>>
    BY <1>9 DEF Sync!ResolverApply, Sync!pageVars, Sync!noteVars
  <2>3. /\ stamp' \in [Rows -> Nat] /\ missing' \in SUBSET Rows /\ stale' \in SUBSET Rows
        /\ \A q \in Rows :
             \/ stamp'[q] = stamp[q] /\ (q \in stale' <=> q \in stale) /\ (q \in missing' <=> q \in missing)
             \/ stamp'[q] = gap
    BY <2>1, ChangeFacts
  <2>4. Sync!TypeOK'
    BY <2>1, <2>2, <2>3 DEF Sync!TypeOK
  <2>5. Written
    BY <1>a, <2>1, <2>2, <2>3 DEF Written, Newer, Sync!TypeOK
  <2> QED
    BY <2>4, <2>5
<1>10. CASE Sync!Relink
  <2>1. /\ Sync!Change(Rows \ missing, Rows \ missing, seq + 1) /\ seq' = seq + 1
        /\ seq \in Nat /\ seq + 1 \in Nat /\ fenced' \in BOOLEAN
    BY <1>10 DEF Sync!Relink, Sync!TypeOK, Sync!scanning
  <2>2. UNCHANGED <<scan, scanSeq, gap, client, since, busy, page, gone, upto, cursor, began, overlap, causes>>
    BY <1>10 DEF Sync!Relink, Sync!pageVars, Sync!noteVars
  <2>3. /\ stamp' \in [Rows -> Nat] /\ missing' \in SUBSET Rows /\ stale' \in SUBSET Rows
        /\ \A q \in Rows :
             \/ stamp'[q] = stamp[q] /\ (q \in stale' <=> q \in stale) /\ (q \in missing' <=> q \in missing)
             \/ stamp'[q] = seq + 1
    BY <2>1, ChangeFacts
  <2>4. Sync!TypeOK'
    BY <2>1, <2>2, <2>3 DEF Sync!TypeOK
  <2>5. Written
    BY <1>a, <2>1, <2>2, <2>3 DEF Written, Newer, Sync!TypeOK
  <2> QED
    BY <2>4, <2>5
<1> QED
  BY <1>1, <1>2, <1>3, <1>4, <1>5, <1>6, <1>7, <1>8, <1>9, <1>10, Zenon DEF Sync!WriterStep

(* What is stamped stays new for any version up to the feed's.             *)
LEMMA StaysFresh ==
  ASSUME Sync!TypeOK, Written, NEW v \in Nat, v <= seq, Fresh(v)
  PROVE  /\ scan' = "run" => scanSeq' > v
         /\ gap' # 0 => gap' > v
         /\ \A n : Newer(n) => n \in Nat /\ n > v
BY DEF Sync!TypeOK, Written, Fresh, Newer

(* A writer's step keeps the types.                                        *)
LEMMA WriterBounded ==
  ASSUME FeedTypes, Sync!WriterStep PROVE FeedTypes'
<1>1. Sync!TypeOK' /\ Written /\ Sync!TypeOK /\ Bounded
  BY WriterEffect DEF FeedTypes
<1>2. \A r \in Rows : stamp'[r] <= seq'
  BY <1>1 DEF Sync!TypeOK, Written, Newer, Bounded
<1>3. scanSeq' <= seq' /\ gap' <= seq' /\ since' <= seq' /\ upto' <= seq'
  BY <1>1 DEF Sync!TypeOK, Written, Bounded
<1>4. cursor'.seq <= seq'
  <2>1. cursor' = cursor /\ cursor.seq \in Nat /\ cursor.seq <= seq /\ seq \in Nat /\ seq' \in Nat /\ seq <= seq'
    BY <1>1 DEF Sync!TypeOK, Written, Bounded
  <2> QED
    BY <2>1
<1> QED
  BY <1>1, <1>2, <1>3, <1>4 DEF FeedTypes, Bounded

(* A writer's step keeps the invariant.                                    *)
LEMMA WriterKeeps ==
  ASSUME FeedInv, Sync!WriterStep PROVE FeedInv'
<1>1. FeedTypes /\ Sync!TypeOK /\ Sync!TypeOK' /\ Written
  BY WriterEffect DEF FeedInv, FeedTypes
<1>2. FeedTypes'
  BY WriterBounded DEF FeedInv
<1>3. /\ since \in Nat /\ since <= seq /\ upto \in Nat /\ upto <= seq
      /\ cursor.seq \in Nat /\ cursor.seq <= seq /\ cursor.row \in Nat
  BY <1>1 DEF FeedTypes, Sync!TypeOK, Bounded
<1>4. UNCHANGED <<client, since, busy, page, gone, upto, cursor, overlap, causes>>
  BY <1>1 DEF Written
<1>5. \A r \in Rows : \/ stamp'[r] = stamp[r] /\ (r \in stale' <=> r \in stale) /\ (r \in missing' <=> r \in missing)
                      \/ Newer(stamp'[r])
  BY <1>1 DEF Written
<1>6. page \subseteq Rows /\ stale' \subseteq Rows /\ \A r \in Rows : stamp[r] \in Nat /\ stamp'[r] \in Nat /\ r \in Nat
  BY <1>1, SyncAssumption DEF Sync!TypeOK
<1>7. Unnoticed'
  <2>1. /\ began' = began \/ began'
        /\ scan = "idle" /\ scan' # "idle" => began'
    BY <1>1 DEF Written
  <2> QED
    BY <1>4, <2>1 DEF FeedInv, Unnoticed
<1>8. SinceInv'
  <2> SUFFICES ASSUME client # "new", causes = {}, client = "list" => overlap = {}
               PROVE  /\ Fresh(since)'
                      /\ \A r \in stale' : stamp'[r] > since \/ (client = "list" /\ r \in page)
                      /\ client \in {"recheck", "hydrate"} => \A r \in page : stamp'[r] > since
    BY <1>4 DEF SinceInv
  <2>1. /\ Fresh(since)
        /\ \A r \in stale : stamp[r] > since \/ (client = "list" /\ r \in page)
        /\ client \in {"recheck", "hydrate"} => \A r \in page : stamp[r] > since
    BY DEF FeedInv, SinceInv
  <2>2. /\ scan' = "run" => scanSeq' > since
        /\ gap' # 0 => gap' > since
        /\ \A n : Newer(n) => n \in Nat /\ n > since
    BY <1>1, <1>3, <2>1, StaysFresh
  <2>3. Fresh(since)'
    BY <1>4, <2>2 DEF Fresh
  <2>4. ASSUME NEW r \in stale' PROVE stamp'[r] > since \/ (client = "list" /\ r \in page)
    BY <1>5, <1>6, <2>1, <2>2
  <2>5. ASSUME client \in {"recheck", "hydrate"}, NEW r \in page PROVE stamp'[r] > since
    BY <1>5, <1>6, <2>1, <2>2, <2>5
  <2> QED
    BY <2>3, <2>4, <2>5
<1>9. CursorInv'
  <2> SUFFICES ASSUME client \in {"look", "snapshot"}, cursor # Sync!NoCursor, causes = {}, overlap = {}
               PROVE  /\ Fresh(cursor.seq)'
                      /\ \A r \in stale' : Sync!Later(stamp'[r], r, cursor.seq, cursor.row)
    BY <1>4 DEF CursorInv, Sync!NoCursor, Sync!Later
  <2>1. Fresh(cursor.seq) /\ \A r \in stale : Sync!Later(stamp[r], r, cursor.seq, cursor.row)
    BY DEF FeedInv, CursorInv
  <2>2. /\ scan' = "run" => scanSeq' > cursor.seq
        /\ gap' # 0 => gap' > cursor.seq
        /\ \A n : Newer(n) => n \in Nat /\ n > cursor.seq
    BY <1>1, <1>3, <2>1, StaysFresh
  <2>3. Fresh(cursor.seq)'
    BY <1>4, <2>2 DEF Fresh
  <2>4. ASSUME NEW r \in stale' PROVE Sync!Later(stamp'[r], r, cursor.seq, cursor.row)
    <3>1. CASE Newer(stamp'[r])
      BY <2>2, <3>1 DEF Sync!Later
    <3>2. CASE stamp'[r] = stamp[r] /\ r \in stale
      BY <2>1, <3>2, Zenon
    <3> QED
      BY <1>5, <1>6, <3>1, <3>2
  <2> QED
    BY <2>3, <2>4
<1>10. PageInv'
  <2> DEFINE Behind(r) == cursor # Sync!NoCursor /\ Sync!Later(stamp[r], r, cursor.seq, cursor.row)
             OnPage(r) == r \in page /\ (r \in gone <=> r \in missing)
  <2> SUFFICES ASSUME client \in {"recheck", "hydrate"}, causes = {}, overlap = {}, Sure'
               PROVE  /\ Fresh(upto)' /\ cursor.seq <= upto
                      /\ \A r \in stale' : \/ stamp'[r] > upto
                                           \/ r \in page /\ (r \in gone <=> r \in missing')
                                           \/ cursor # Sync!NoCursor /\ Sync!Later(stamp'[r], r, cursor.seq, cursor.row)
                      /\ \A r \in page : stamp'[r] > upto \/ (r \in gone <=> r \in missing')
    BY <1>4 DEF PageInv, Sync!NoCursor, Sync!Later
  <2>1. Sure
    <3>1. began' = began \/ began'
      BY <1>1 DEF Written
    <3> QED
      BY <1>4, <3>1 DEF Sure, Sync!NoCursor
  <2>2. /\ Fresh(upto) /\ cursor.seq <= upto
        /\ \A r \in stale : stamp[r] > upto \/ OnPage(r) \/ Behind(r)
        /\ \A r \in page : stamp[r] > upto \/ (r \in gone <=> r \in missing)
    BY <2>1, Zenon DEF FeedInv, PageInv
  <2>3. /\ scan' = "run" => scanSeq' > upto
        /\ gap' # 0 => gap' > upto
        /\ \A n : Newer(n) => n \in Nat /\ n > upto
    BY <1>1, <1>3, <2>2, StaysFresh
  <2>4. Fresh(upto)'
    BY <1>4, <2>3 DEF Fresh
  <2>5. ASSUME NEW r \in Rows
        PROVE  \/ stamp'[r] > upto
               \/ stamp'[r] = stamp[r] /\ (r \in stale' <=> r \in stale) /\ (r \in missing' <=> r \in missing)
    BY <1>5, <2>3, Zenon
  <2>6. ASSUME NEW r \in stale'
        PROVE  \/ stamp'[r] > upto
               \/ r \in page /\ (r \in gone <=> r \in missing')
               \/ cursor # Sync!NoCursor /\ Sync!Later(stamp'[r], r, cursor.seq, cursor.row)
    <3>1. r \in Rows
      BY <1>6
    <3>2. CASE stamp'[r] = stamp[r] /\ r \in stale /\ (r \in missing' <=> r \in missing)
      BY <2>2, <3>2, Zenon
    <3> QED
      BY <2>5, <3>1, <3>2, Zenon
  <2>7. ASSUME NEW r \in page PROVE stamp'[r] > upto \/ (r \in gone <=> r \in missing')
    <3>1. r \in Rows
      BY <1>6
    <3> QED
      BY <2>2, <2>5, <3>1, Zenon
  <2> QED
    BY <2>2, <2>4, <2>6, <2>7
<1> QED
  BY <1>2, <1>7, <1>8, <1>9, <1>10 DEF FeedInv

-----------------------------------------------------------------------------
(* What the client does                                                    *)

(* A snapshot's page and cursor are of rows.                               *)
LEMMA SnapshotFacts ==
  ASSUME Sync!TypeOK, Sync!Snapshot
  PROVE  /\ page' \subseteq Sync!Due /\ Sync!Due \subseteq Rows
         /\ \/ page' = Sync!Due /\ cursor' = Sync!NoCursor
            \/ /\ page' # Sync!Due /\ cursor'.row \in page' /\ cursor'.seq = stamp[cursor'.row]
               /\ cursor' \in [seq : Nat, row : Nat] /\ cursor' # Sync!NoCursor
               /\ \A r \in Sync!Due : r \in page' \/ Sync!Later(stamp[r], r, cursor'.seq, cursor'.row)
<1>1. page' = Sync!PageOf(Sync!Due) /\ Sync!Due \subseteq Rows
  BY DEF Sync!Snapshot, Sync!Due
<1>2. cursor' = IF page' = Sync!Due THEN Sync!NoCursor
                ELSE [seq |-> stamp[Sync!LastOf(page')], row |-> Sync!LastOf(page')]
  BY DEF Sync!Snapshot
<1>3. page' \subseteq Sync!Due
  BY <1>1, PageFacts
<1>4. CASE page' # Sync!Due
  <2> DEFINE last == Sync!LastOf(page')
  <2>1. Sync!Due # {}
    BY <1>3, <1>4
  <2>2. page' # {}
    BY <1>1, <2>1, PageFacts
  <2>3. Sync!LastOf(Sync!PageOf(Sync!Due)) \in Sync!PageOf(Sync!Due)
    <3>1. Sync!PageOf(Sync!Due) \subseteq Rows /\ Sync!PageOf(Sync!Due) # {}
      BY <1>1, <1>3, <2>2
    <3> QED
      BY <3>1, LastIsLast
  <2>4. last \in page'
    BY <1>1, <2>3
  <2> HIDE DEF last
  <2>5. cursor' = [seq |-> stamp[last], row |-> last]
    BY <1>2, <1>4 DEF last
  <2>6. last \in Rows /\ last \in Nat /\ last # 0 /\ stamp[last] \in Nat
    BY <1>1, <1>3, <2>4, SyncAssumption DEF Sync!TypeOK
  <2>7. cursor'.row = last /\ cursor'.seq = stamp[last] /\ cursor' \in [seq : Nat, row : Nat]
    BY <2>5, <2>6
  <2>8. cursor' # Sync!NoCursor
    BY <2>6, <2>7 DEF Sync!NoCursor
  <2>9. \A r \in Sync!Due : r \in page' \/ Sync!Later(stamp[r], r, stamp[last], last)
    BY <1>1, <2>4, PageFacts
  <2> QED
    BY <1>1, <1>3, <1>4, <2>4, <2>7, <2>8, <2>9
<1> QED
  BY <1>1, <1>2, <1>3, <1>4

(* A client's step keeps the types.                                        *)
LEMMA ClientTypes ==
  ASSUME FeedTypes, Sync!ClientStep PROVE FeedTypes'
<1> USE SyncAssumption
<1>t. Sync!TypeOK /\ Bounded
  BY DEF FeedTypes
<1>0. Sync!NoCursor \in [seq : Nat, row : Nat] /\ Sync!NoCursor.seq = 0
  BY DEF Sync!NoCursor
<1>1. CASE Sync!Bootstrap
  BY <1>t, <1>1 DEF FeedTypes, Sync!Bootstrap, Sync!TypeOK, Sync!Causes, Bounded, Sync!feedVars, Sync!writerVars
<1>2. ASSUME NEW r \in Rows, Sync!List(r) PROVE FeedTypes'
  BY <1>t, <1>2 DEF FeedTypes, Sync!List, Sync!TypeOK, Bounded, Sync!feedVars, Sync!writerVars
<1>3. CASE Sync!StartSync
  BY <1>t, <1>0, <1>3 DEF FeedTypes, Sync!StartSync, Sync!TypeOK, Bounded, Sync!feedVars, Sync!writerVars
<1>4. CASE Sync!LookBefore
  BY <1>t, <1>4 DEF FeedTypes, Sync!LookBefore, Sync!TypeOK, Sync!scanning, Bounded, Sync!feedVars, Sync!writerVars
<1>5. CASE Sync!Snapshot
  <2>1. page' \subseteq Rows /\ cursor' \in [seq : Nat, row : Nat] /\ cursor'.seq <= seq
    <3>1. CASE cursor' = Sync!NoCursor
      BY <1>t, <1>0, <1>5, <3>1, SnapshotFacts DEF Sync!TypeOK
    <3>2. CASE cursor' # Sync!NoCursor
      <4>1. cursor'.row \in Rows /\ cursor'.seq = stamp[cursor'.row] /\ cursor' \in [seq : Nat, row : Nat]
        BY <1>t, <1>5, <3>2, SnapshotFacts
      <4> QED
        BY <1>t, <1>5, <4>1, SnapshotFacts DEF Bounded
    <3> QED
      BY <3>1, <3>2
  <2>2. /\ client' = "recheck" /\ upto' = seq /\ gone' \subseteq page'
        /\ overlap' \subseteq overlap \cup {"resolver", "paging"}
        /\ UNCHANGED <<seq, stamp, missing, scan, scanSeq, fenced, gap, since, busy, stale, began, causes>>
    BY <1>5 DEF Sync!Snapshot, Sync!feedVars, Sync!writerVars
  <2>3. Sync!TypeOK'
    BY <1>t, <2>1, <2>2 DEF Sync!TypeOK, Sync!Causes
  <2>4. Bounded'
    BY <1>t, <2>1, <2>2 DEF Sync!TypeOK, Bounded
  <2> QED
    BY <2>3, <2>4 DEF FeedTypes
<1>6. CASE Sync!LookAfter
  <2>1. /\ client' = "hydrate" /\ busy' = (busy \/ scan # "idle")
        /\ overlap' \subseteq overlap \cup {"unnoticed"}
        /\ UNCHANGED <<seq, stamp, missing, scan, scanSeq, fenced, gap, since, page, gone, upto, cursor, stale, began, causes>>
    BY <1>6 DEF Sync!LookAfter, Sync!scanning, Sync!feedVars, Sync!writerVars
  <2>2. busy' \in BOOLEAN
    BY <2>1
  <2>3. Sync!TypeOK'
    BY <1>t, <2>1, <2>2 DEF Sync!TypeOK, Sync!Causes
  <2>4. Bounded'
    BY <1>t, <2>1 DEF Bounded
  <2> QED
    BY <2>3, <2>4 DEF FeedTypes
<1>7. ASSUME NEW r \in Rows, Sync!Hydrate(r) PROVE FeedTypes'
  <2>1. /\ page' = page \ {r} /\ stale' \subseteq stale \cup {r}
        /\ UNCHANGED <<seq, stamp, missing, scan, scanSeq, fenced, gap, client, since, busy, gone, upto, cursor>>
        /\ UNCHANGED <<began, overlap, causes>>
    BY <1>7 DEF Sync!Hydrate, Sync!feedVars, Sync!writerVars, Sync!noteVars
  <2>2. Sync!TypeOK'
    BY <1>t, <2>1 DEF Sync!TypeOK
  <2>3. Bounded'
    BY <1>t, <2>1 DEF Bounded
  <2> QED
    BY <2>2, <2>3 DEF FeedTypes
<1>8. CASE Sync!Respond
  <2>1. /\ client' \in {"look", "idle"} /\ since' \in {since, upto} /\ causes' \subseteq causes \cup overlap
        /\ UNCHANGED <<seq, stamp, missing, scan, scanSeq, fenced, gap, stale, began, overlap>>
        /\ UNCHANGED <<busy, page, gone, upto, cursor>>
    BY <1>8 DEF Sync!Respond, Sync!StableChangesVersion, Sync!feedVars, Sync!writerVars, Sync!pageVars
  <2>2. Sync!TypeOK'
    BY <1>t, <2>1 DEF Sync!TypeOK
  <2>3. Bounded'
    BY <1>t, <2>1 DEF Bounded
  <2> QED
    BY <2>2, <2>3 DEF FeedTypes
<1> QED
  BY <1>1, <1>2, <1>3, <1>4, <1>5, <1>6, <1>7, <1>8, Zenon DEF Sync!ClientStep

(* A client's step keeps what is said of looks.                            *)
LEMMA ClientUnnoticed ==
  ASSUME FeedInv, Sync!ClientStep PROVE Unnoticed'
<1>t. Unnoticed
  BY DEF FeedInv
<1>1. CASE Sync!Bootstrap \/ Sync!StartSync \/ \E r \in Rows : Sync!List(r)
  BY <1>1, <1>t DEF Sync!Bootstrap, Sync!StartSync, Sync!List, Unnoticed
<1>2. CASE Sync!LookBefore
  BY <1>2 DEF Sync!LookBefore, Unnoticed, Sync!scanning, Sync!writerVars
<1>3. CASE Sync!Snapshot
  BY <1>3, <1>t DEF Sync!Snapshot, Unnoticed, Sync!writerVars
<1>4. CASE Sync!LookAfter \/ Sync!Respond \/ \E r \in Rows : Sync!Hydrate(r)
  BY <1>4, <1>t DEF Sync!LookAfter, Sync!Respond, Sync!Hydrate, Unnoticed, Sync!writerVars, Sync!noteVars
<1> QED
  BY <1>1, <1>2, <1>3, <1>4, Zenon DEF Sync!ClientStep

(* A snapshot leaves out of date what changes later, what its page holds,  *)
(* and what comes after its cursor.                                        *)
LEMMA SnapshotPages ==
  ASSUME FeedInv, Sync!Snapshot PROVE PageInv' /\ SinceInv'
<1>t. Sync!TypeOK /\ Bounded /\ SinceInv /\ CursorInv /\ Unnoticed
  BY DEF FeedInv, FeedTypes
<1>1. /\ client = "snapshot" /\ client' = "recheck" /\ upto' = seq
      /\ gone' = page' \cap missing
      /\ overlap' = overlap \cup (IF gap # 0 THEN {"resolver"} ELSE {})
                            \cup (IF scan # "idle" /\ page' # Sync!Due THEN {"paging"} ELSE {})
      /\ UNCHANGED <<seq, stamp, missing, scan, scanSeq, fenced, gap, since, busy, stale, began, causes>>
  BY DEF Sync!Snapshot, Sync!scanning, Sync!feedVars, Sync!writerVars
<1>2. /\ page' \subseteq Sync!Due /\ Sync!Due \subseteq Rows
      /\ \/ page' = Sync!Due /\ cursor' = Sync!NoCursor
         \/ /\ page' # Sync!Due /\ cursor'.row \in page' /\ cursor'.seq = stamp[cursor'.row]
            /\ cursor' \in [seq : Nat, row : Nat] /\ cursor' # Sync!NoCursor
            /\ \A r \in Sync!Due : r \in page' \/ Sync!Later(stamp[r], r, cursor'.seq, cursor'.row)
  BY <1>t, SnapshotFacts
<1>3. SinceInv'
  <2>1. \A r \in page' : stamp[r] > since
    BY <1>2 DEF Sync!Due
  <2> QED
    BY <1>1, <1>t, <2>1 DEF SinceInv, Fresh
<1>4. ASSUME causes = {}, overlap' = {}, Sure'
      PROVE  /\ Fresh(upto)' /\ cursor'.seq <= upto'
             /\ \A r \in stale : \/ r \in page' /\ (r \in gone' <=> r \in missing)
                                 \/ cursor' # Sync!NoCursor /\ Sync!Later(stamp[r], r, cursor'.seq, cursor'.row)
             /\ \A r \in page' : r \in gone' <=> r \in missing
  <2>1. gap = 0 /\ overlap = {} /\ (page' # Sync!Due => scan = "idle")
    BY <1>1, <1>4
  <2>2. scan = "idle"
    <3>1. CASE page' = Sync!Due
      <4>1. ~busy /\ ~began
        BY <1>1, <1>2, <1>4, <3>1 DEF Sure
      <4> QED
        BY <1>1, <1>t, <4>1 DEF Unnoticed
    <3> QED
      BY <2>1, <3>1
  <2>3. Fresh(upto)'
    BY <1>1, <2>1, <2>2 DEF Fresh
  <2>4. cursor'.seq <= upto'
    <3>1. Sync!NoCursor.seq = 0 /\ seq \in Nat
      BY <1>t DEF Sync!NoCursor, Sync!TypeOK
    <3>2. CASE cursor' = Sync!NoCursor
      BY <1>1, <3>1, <3>2
    <3>3. CASE cursor' # Sync!NoCursor
      <4>1. cursor'.row \in Rows /\ cursor'.seq = stamp[cursor'.row]
        BY <1>2, <3>3
      <4> QED
        BY <1>1, <1>t, <4>1 DEF Bounded
    <3> QED
      BY <3>2, <3>3
  <2>5. \A r \in page' : r \in gone' <=> r \in missing
    BY <1>1
  <2>6. ASSUME NEW r \in stale PROVE r \in Sync!Due
    <3>1. stamp[r] > since /\ r \in Rows /\ r \in Nat /\ stamp[r] \in Nat /\ since \in Nat
      BY <1>1, <1>4, <1>t, SyncAssumption DEF SinceInv, Sync!TypeOK
    <3>2. Sync!Later(stamp[r], r, cursor.seq, cursor.row)
      <4>1. CASE cursor = Sync!NoCursor
        BY <3>1, <4>1 DEF Sync!NoCursor, Sync!Later
      <4>2. CASE cursor # Sync!NoCursor
        BY <1>1, <1>4, <1>t, <2>1, <4>2 DEF CursorInv
      <4> QED
        BY <4>1, <4>2
    <3> QED
      BY <3>1, <3>2 DEF Sync!Due
  <2>7. ASSUME NEW r \in stale
        PROVE  \/ r \in page' /\ (r \in gone' <=> r \in missing)
               \/ cursor' # Sync!NoCursor /\ Sync!Later(stamp[r], r, cursor'.seq, cursor'.row)
    <3>1. r \in Sync!Due
      BY <2>6
    <3> QED
      BY <1>2, <2>5, <3>1, Zenon
  <2> QED
    BY <2>3, <2>4, <2>5, <2>7
<1>5. PageInv'
  <2> SUFFICES ASSUME causes' = {}, overlap' = {}, Sure'
               PROVE  /\ Fresh(upto)' /\ cursor'.seq <= upto'
                      /\ \A r \in stale' : \/ stamp'[r] > upto'
                                           \/ r \in page' /\ (r \in gone' <=> r \in missing')
                                           \/ cursor' # Sync!NoCursor /\ Sync!Later(stamp'[r], r, cursor'.seq, cursor'.row)
                      /\ \A r \in page' : stamp'[r] > upto' \/ (r \in gone' <=> r \in missing')
    BY Zenon DEF PageInv, Sync!NoCursor, Sync!Later
  <2>1. causes = {} /\ stale' = stale /\ stamp' = stamp /\ missing' = missing
    BY <1>1
  <2> QED
    BY <1>4, <2>1, Zenon
<1> QED
  BY <1>3, <1>5

(* Hydrating a row settles it, or leaves it out of date by a later change. *)
LEMMA HydrateSettles ==
  ASSUME FeedInv, NEW r \in Rows, Sync!Hydrate(r) PROVE PageInv' /\ SinceInv' /\ CursorInv'
<1>t. SinceInv /\ PageInv
  BY DEF FeedInv
<1>1. /\ client = "hydrate" /\ r \in page /\ page' = page \ {r}
      /\ stale' = IF (r \in gone) <=> (r \in missing) THEN stale \ {r} ELSE stale \cup {r}
      /\ UNCHANGED <<seq, stamp, missing, scan, scanSeq, fenced, gap, client, since, busy, gone, upto, cursor>>
      /\ UNCHANGED <<began, overlap, causes>>
  BY DEF Sync!Hydrate, Sync!feedVars, Sync!writerVars, Sync!noteVars
<1>2. CursorInv'
  BY <1>1 DEF CursorInv
<1>3. SinceInv'
  <2> SUFFICES ASSUME causes = {}
               PROVE  Fresh(since)' /\ (\A q \in stale' : stamp[q] > since) /\ \A q \in page' : stamp[q] > since
    BY <1>1 DEF SinceInv
  <2>1. Fresh(since) /\ (\A q \in stale : stamp[q] > since) /\ \A q \in page : stamp[q] > since
    BY <1>1, <1>t DEF SinceInv
  <2>2. \A q \in stale' : q \in stale \/ q \in page
    BY <1>1
  <2> QED
    BY <1>1, <2>1, <2>2 DEF Fresh
<1>4. PageInv'
  <2> SUFFICES ASSUME causes = {}, overlap = {}, Sure'
               PROVE  /\ Fresh(upto)' /\ cursor.seq <= upto
                      /\ \A q \in stale' : \/ stamp[q] > upto
                                           \/ q \in page' /\ (q \in gone <=> q \in missing)
                                           \/ cursor # Sync!NoCursor /\ Sync!Later(stamp[q], q, cursor.seq, cursor.row)
                      /\ \A q \in page' : stamp[q] > upto \/ (q \in gone <=> q \in missing)
    BY <1>1 DEF PageInv, Sync!NoCursor, Sync!Later
  <2>1. /\ Fresh(upto) /\ cursor.seq <= upto
        /\ \A q \in stale : \/ stamp[q] > upto
                            \/ q \in page /\ (q \in gone <=> q \in missing)
                            \/ cursor # Sync!NoCursor /\ Sync!Later(stamp[q], q, cursor.seq, cursor.row)
        /\ \A q \in page : stamp[q] > upto \/ (q \in gone <=> q \in missing)
    <3>1. Sure
      BY <1>1 DEF Sure, Sync!NoCursor
    <3> QED
      BY <1>1, <1>t, <3>1, Zenon DEF PageInv
  <2>2. Fresh(upto)'
    BY <1>1, <2>1 DEF Fresh
  <2>3. \A q \in page' : q \in page
    BY <1>1
  <2>4. \A q \in stale \ {r} : q \in page => q \in page'
    BY <1>1
  <2>5. ASSUME r \in stale' PROVE stamp[r] > upto
    <3>1. ~((r \in gone) <=> (r \in missing))
      BY <1>1, <2>5
    <3> QED
      BY <1>1, <2>1, <3>1, Zenon
  <2>6. \A q \in stale' : q = r \/ q \in stale \ {r}
    BY <1>1
  <2>7. \A q \in stale' : \/ stamp[q] > upto
                          \/ q \in page' /\ (q \in gone <=> q \in missing)
                          \/ cursor # Sync!NoCursor /\ Sync!Later(stamp[q], q, cursor.seq, cursor.row)
    <3> TAKE q \in stale'
    <3>1. CASE q = r
      BY <2>5, <3>1
    <3>2. CASE q \in stale \ {r}
      <4>1. q \in stale
        BY <3>2
      <4> QED
        BY <2>1, <2>4, <3>2, <4>1, Zenon
    <3> QED
      BY <2>6, <3>1, <3>2
  <2> QED
    BY <2>1, <2>2, <2>3, <2>7
<1> QED
  BY <1>2, <1>3, <1>4

(* A response hands over to the next page, or to the version taken.        *)
LEMMA RespondHandsOver ==
  ASSUME FeedInv, Sync!Respond PROVE PageInv' /\ SinceInv' /\ CursorInv'
<1>t. Sync!TypeOK /\ SinceInv /\ PageInv
  BY DEF FeedInv, FeedTypes
<1>1. /\ client = "hydrate" /\ page = {}
      /\ UNCHANGED <<seq, stamp, missing, scan, scanSeq, fenced, gap, stale, began, overlap>>
      /\ UNCHANGED <<busy, page, gone, upto, cursor>>
  BY DEF Sync!Respond, Sync!feedVars, Sync!writerVars, Sync!pageVars
<1>2. ASSUME causes = {}, overlap = {}, Sure
      PROVE  /\ Fresh(upto) /\ cursor.seq <= upto
             /\ \A r \in stale : \/ stamp[r] > upto
                                 \/ cursor # Sync!NoCursor /\ Sync!Later(stamp[r], r, cursor.seq, cursor.row)
  <2>1. \A r : r \notin page
    BY <1>1
  <2> QED
    BY <1>1, <1>2, <1>t, <2>1, Zenon DEF PageInv
<1>3. CASE cursor # Sync!NoCursor
  <2>1. client' = "look" /\ since' = since /\ causes' = causes
    BY <1>3, Zenon DEF Sync!Respond
  <2>2. CursorInv'
    <3> SUFFICES ASSUME causes = {}, overlap = {}
                 PROVE  Fresh(cursor.seq)' /\ \A r \in stale : Sync!Later(stamp[r], r, cursor.seq, cursor.row)
      BY <1>1, <2>1 DEF CursorInv, Sync!Later, Sync!NoCursor
    <3>1. /\ Fresh(upto) /\ cursor.seq <= upto
          /\ \A r \in stale : stamp[r] > upto \/ Sync!Later(stamp[r], r, cursor.seq, cursor.row)
      BY <1>2, <1>3, Zenon DEF Sure
    <3>2. cursor.seq \in Nat /\ upto \in Nat /\ scanSeq \in Nat /\ gap \in Nat /\ \A r \in stale : stamp[r] \in Nat
      BY <1>t DEF Sync!TypeOK
    <3>3. Fresh(cursor.seq)'
      BY <1>1, <3>1, <3>2 DEF Fresh
    <3> QED
      BY <3>1, <3>2, <3>3 DEF Sync!Later
  <2>3. PageInv'
    BY <2>1 DEF PageInv
  <2>4. SinceInv'
    BY <1>1, <1>t, <2>1 DEF SinceInv, Fresh
  <2> QED
    BY <2>2, <2>3, <2>4
<1>4. CASE cursor = Sync!NoCursor
  <2>1. /\ client' = "idle" /\ since' = IF busy THEN since ELSE upto
        /\ causes' = IF busy THEN causes ELSE causes \cup overlap
    BY <1>4, Zenon DEF Sync!Respond, Sync!StableChangesVersion
  <2>2. PageInv' /\ CursorInv'
    BY <2>1 DEF PageInv, CursorInv
  <2>3. SinceInv'
    <3> SUFFICES ASSUME causes' = {} PROVE Fresh(since)' /\ \A r \in stale : stamp[r] > since'
      BY <1>1, <2>1 DEF SinceInv
    <3>1. CASE busy
      <4>1. since' = since /\ causes = {}
        BY <2>1, <3>1
      <4>2. Fresh(since) /\ \A r \in stale : stamp[r] > since
        BY <1>1, <1>t, <4>1 DEF SinceInv
      <4> QED
        BY <1>1, <4>1, <4>2 DEF Fresh
    <3>2. CASE ~busy
      <4>1. since' = upto /\ causes = {} /\ overlap = {}
        BY <2>1, <3>2
      <4>2. Fresh(upto) /\ \A r \in stale : stamp[r] > upto
        BY <1>1, <1>2, <1>4, <3>2, <4>1, Zenon DEF Sure
      <4> QED
        BY <1>1, <4>1, <4>2 DEF Fresh
    <3> QED
      BY <3>1, <3>2
  <2> QED
    BY <2>2, <2>3
<1> QED
  BY <1>3, <1>4

(* Listing a row settles it; the list ends with every row settled.         *)
LEMMA ListSettles ==
  ASSUME FeedInv, NEW r \in Rows, Sync!List(r) PROVE PageInv' /\ SinceInv' /\ CursorInv'
<1>1. /\ client = "list" /\ r \in page /\ page' = page \ {r} /\ stale' = stale \ {r}
      /\ client' \in {"list", "idle"}
      /\ client' = "idle" => page' = {}
      /\ causes' = (IF client' = "idle" THEN causes \cup overlap ELSE causes)
      /\ UNCHANGED <<seq, stamp, missing, scan, scanSeq, fenced, gap, since, overlap>>
  BY DEF Sync!List, Sync!feedVars, Sync!writerVars
<1>2. PageInv' /\ CursorInv'
  BY <1>1 DEF PageInv, CursorInv
<1>3. SinceInv'
  <2> SUFFICES ASSUME causes' = {}, client' = "list" => overlap' = {}
               PROVE  Fresh(since)' /\ \A q \in stale' : stamp[q] > since \/ (client' = "list" /\ q \in page')
    BY <1>1 DEF SinceInv
  <2>1. causes = {} /\ overlap = {}
    BY <1>1
  <2>2. Fresh(since) /\ \A q \in stale : stamp[q] > since \/ q \in page
    BY <1>1, <2>1 DEF FeedInv, SinceInv
  <2>3. ASSUME NEW q \in stale' PROVE stamp[q] > since \/ (client' = "list" /\ q \in page')
    BY <1>1, <2>2
  <2> QED
    BY <1>1, <2>2, <2>3 DEF Fresh
<1> QED
  BY <1>2, <1>3

(* A client's step keeps the invariant.                                    *)
LEMMA ClientKeeps ==
  ASSUME FeedInv, Sync!ClientStep PROVE FeedInv'
<1>t. Sync!TypeOK /\ SinceInv /\ CursorInv /\ PageInv
  BY DEF FeedInv, FeedTypes
<1>0. FeedTypes' /\ Unnoticed'
  BY ClientTypes, ClientUnnoticed DEF FeedInv
<1>1. CASE Sync!Bootstrap
  <2>1. /\ client' = "list" /\ since' = seq /\ page' = Rows /\ stale' = stale
        /\ overlap' = IF scan # "idle" \/ gap # 0 THEN {"bootstrap"} ELSE {}
        /\ UNCHANGED <<scan, scanSeq, gap, stamp>>
    BY <1>1 DEF Sync!Bootstrap, Sync!scanning, Sync!feedVars, Sync!writerVars
  <2>2. PageInv' /\ CursorInv'
    BY <2>1 DEF PageInv, CursorInv
  <2>3. SinceInv'
    BY <1>t, <2>1 DEF SinceInv, Fresh, Sync!TypeOK
  <2> QED
    BY <1>0, <2>2, <2>3 DEF FeedInv
<1>2. ASSUME NEW r \in Rows, Sync!List(r) PROVE FeedInv'
  BY <1>0, <1>2, ListSettles DEF FeedInv
<1>3. CASE Sync!StartSync
  <2>1. /\ client = "idle" /\ client' = "look" /\ cursor' = Sync!NoCursor
        /\ UNCHANGED <<scan, scanSeq, gap, stamp, since, page, stale, causes>>
    BY <1>3 DEF Sync!StartSync, Sync!feedVars, Sync!writerVars
  <2>2. PageInv'
    BY <2>1 DEF PageInv
  <2>3. CursorInv'
    BY <2>1 DEF CursorInv, Sync!NoCursor
  <2>4. SinceInv'
    BY <1>t, <2>1 DEF SinceInv, Fresh
  <2> QED
    BY <1>0, <2>2, <2>3, <2>4 DEF FeedInv
<1>4. CASE Sync!LookBefore
  <2>1. /\ client = "look" /\ client' = "snapshot"
        /\ UNCHANGED <<scan, scanSeq, gap, stamp, since, page, cursor, stale, overlap, causes>>
    BY <1>4 DEF Sync!LookBefore, Sync!feedVars, Sync!writerVars
  <2>2. PageInv'
    BY <2>1 DEF PageInv
  <2>3. CursorInv'
    BY <1>t, <2>1 DEF CursorInv, Fresh, Sync!NoCursor, Sync!Later
  <2>4. SinceInv'
    BY <1>t, <2>1 DEF SinceInv, Fresh
  <2> QED
    BY <1>0, <2>2, <2>3, <2>4 DEF FeedInv
<1>5. CASE Sync!Snapshot
  <2>1. client' = "recheck"
    BY <1>5 DEF Sync!Snapshot
  <2>2. CursorInv'
    BY <2>1 DEF CursorInv
  <2> QED
    BY <1>0, <1>5, <2>2, SnapshotPages DEF FeedInv
<1>6. CASE Sync!LookAfter
  <2>1. /\ client = "recheck" /\ client' = "hydrate" /\ busy' = (busy \/ scan # "idle")
        /\ overlap' = overlap \cup (IF began /\ ~busy' THEN {"unnoticed"} ELSE {})
        /\ UNCHANGED <<missing, scan, scanSeq, gap, stamp, since, page, gone, upto, cursor, stale, began, causes>>
    BY <1>6 DEF Sync!LookAfter, Sync!scanning, Sync!feedVars, Sync!writerVars
  <2>2. CursorInv'
    BY <2>1 DEF CursorInv
  <2>3. SinceInv'
    BY <1>t, <2>1 DEF SinceInv, Fresh
  <2>4. overlap' = {} => overlap = {} /\ (Sure' => Sure)
    <3>1. overlap' = {} => overlap = {} /\ ~(began /\ ~busy')
      BY <2>1
    <3>2. ~busy' => ~busy
      BY <2>1
    <3>3. cursor' = cursor /\ Sync!NoCursor' = Sync!NoCursor
      BY <2>1 DEF Sync!NoCursor
    <3> QED
      BY <2>1, <3>1, <3>2, <3>3 DEF Sure
  <2>5. PageInv'
    BY <1>t, <2>1, <2>4 DEF PageInv, Fresh, Sync!NoCursor, Sync!Later
  <2> QED
    BY <1>0, <2>2, <2>3, <2>5 DEF FeedInv
<1>7. ASSUME NEW r \in Rows, Sync!Hydrate(r) PROVE FeedInv'
  BY <1>0, <1>7, HydrateSettles DEF FeedInv
<1>8. CASE Sync!Respond
  BY <1>0, <1>8, RespondHandsOver DEF FeedInv
<1> QED
  BY <1>1, <1>2, <1>3, <1>4, <1>5, <1>6, <1>7, <1>8, Zenon DEF Sync!ClientStep

(* A step that changes nothing keeps the invariant.                        *)
LEMMA FeedStutters ==
  ASSUME FeedInv, UNCHANGED Sync!vars PROVE FeedInv'
<1>1. /\ UNCHANGED <<seq, stamp, missing, scan, scanSeq, fenced, gap, client, since>>
      /\ UNCHANGED <<busy, page, gone, upto, cursor, stale, began, overlap, causes>>
  BY DEF Sync!vars, Sync!feedVars, Sync!writerVars, Sync!pageVars, Sync!noteVars
<1>2. FeedTypes' /\ Unnoticed'
  BY <1>1 DEF FeedInv, FeedTypes, Sync!TypeOK, Sync!Causes, Bounded, Unnoticed
<1>3. SinceInv' /\ CursorInv'
  BY <1>1 DEF FeedInv, SinceInv, CursorInv, Fresh, Sync!NoCursor, Sync!Later
<1>4. PageInv'
  BY <1>1 DEF FeedInv, PageInv, Sure, Fresh, Sync!NoCursor, Sync!Later
<1> QED
  BY <1>2, <1>3, <1>4 DEF FeedInv

(* Before a client has anything, nothing of it is out of date.             *)
LEMMA FeedInit == Sync!Init => FeedInv
<1> SUFFICES ASSUME Sync!Init PROVE FeedInv
  OBVIOUS
<1>1. FeedTypes
  <2>1. Sync!NoCursor \in [seq : Nat, row : Nat] /\ Sync!NoCursor.seq = 0
    BY DEF Sync!NoCursor
  <2>2. stamp \in [Rows -> Nat] /\ \A r \in Rows : stamp[r] = 0
    BY DEF Sync!Init
  <2>3. Sync!TypeOK
    BY <2>1, <2>2 DEF Sync!Init, Sync!TypeOK, Sync!Causes
  <2>4. Bounded
    BY <2>1, <2>2 DEF Sync!Init, Bounded
  <2> QED
    BY <2>3, <2>4 DEF FeedTypes
<1>2. Unnoticed /\ SinceInv /\ CursorInv /\ PageInv
  BY DEF Sync!Init, Unnoticed, SinceInv, CursorInv, PageInv
<1> QED
  BY <1>1, <1>2 DEF FeedInv

(* A step of a writer or of the client keeps the invariant.                *)
LEMMA FeedNext == FeedInv /\ [Sync!Next]_(Sync!vars) => FeedInv'
BY WriterKeeps, ClientKeeps, FeedStutters DEF Sync!Next

(* CompleteUnlessOverlapped: for any rows and pages, a client that follows *)
(* the feed finds out by its next sync about every change it does not have *)
(* yet, unless a scan or the resolver got between its pages, its looks or  *)
(* its bootstrap (ListChanges, ChangesSnapshot).                           *)
THEOREM SyncLosesNothing == Sync!Spec => []CompleteUnlessOverlapped
<1>1. FeedInv => CompleteUnlessOverlapped
  BY DEF FeedInv, SinceInv, CompleteUnlessOverlapped, Complete
<1> QED
  BY <1>1, FeedInit, FeedNext, PTL DEF Sync!Spec

(* TypeOK of CatalogSync: the variables keep their types.                  *)
THEOREM FeedTypeCorrect == Sync!Spec => []Sync!TypeOK
<1>1. FeedInv => Sync!TypeOK
  BY DEF FeedInv, FeedTypes
<1> QED
  BY <1>1, FeedInit, FeedNext, PTL DEF Sync!Spec

=============================================================================
