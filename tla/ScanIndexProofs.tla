--------------------------- MODULE ScanIndexProofs ---------------------------
(***************************************************************************)
(* That the file cache tells the truth, that tracks are filed by their     *)
(* tags, and that a track goes missing only with a file that could not be  *)
(* read, for any directory, any contents and any number of edits, faults   *)
(* and albums.                                                             *)
(***************************************************************************)
EXTENDS ScanIndex, TLAPS

(* FiledByTags, of missing tracks too: they come back as they were.        *)
Filed ==
  \A f \in Files \ misfiled : Linked(f) /\ ~album[track[f].album].resolved =>
    Key(album[track[f].album]) = Key(track[f].read)

(* What a scan has walked past was seen, unless it could not be read.      *)
Accounted ==
  scan.on =>
    /\ \A f \in Files : file[f] = None => f \in unread
    /\ Files \ scan.todo \subseteq scan.seen \cup unread

(* The inductive invariant.                                                *)
IndexInv == TypeOK /\ CacheHonest /\ Filed /\ Accounted

-----------------------------------------------------------------------------
(* The catalogue: what a step does to albums and tracks                    *)

LEMMA ContentFacts ==
  ASSUME TypeOK, NEW f \in Files, file[f] # None
  PROVE  file[f] \in Contents /\ file[f].art \in Images
BY DEF TypeOK, Images

LEMMA LinkedFacts ==
  ASSUME TypeOK, NEW f \in Files, Linked(f)
  PROVE  track[f] \in Tracks /\ track[f].album \in DOMAIN album /\ track[f].art \in Images
BY DEF TypeOK, Linked, Tracks

LEMMA AlbumDomain ==
  ASSUME TypeOK
  PROVE  /\ Len(album) \in Nat /\ DOMAIN album = 1..Len(album)
         /\ \A a \in DOMAIN album : album[a] \in Albums
BY DEF TypeOK

(* The row that UpsertTrack writes.                                        *)
LEMMA RowFacts ==
  ASSUME TypeOK, NEW f \in Files, NEW c \in Contents, NEW a \in 1..MaxAlbums, NEW image \in {None, c.art}
  PROVE  /\ Row(f, c, a, image) \in Tracks /\ Row(f, c, a, image) # None
         /\ Row(f, c, a, image).album = a /\ Row(f, c, a, image).read = c
         /\ ~Row(f, c, a, image).missing
         /\ image # None => Row(f, c, a, image).art = image
<1> DEFINE kept == IF image # None THEN image ELSE IF Linked(f) THEN track[f].art ELSE None
           r == [album |-> a, read |-> c, missing |-> FALSE, art |-> kept]
<1>1. kept \in Images
  BY LinkedFacts DEF Images
<1> HIDE DEF kept
<1>2. r \in Tracks
  BY <1>1 DEF Tracks
<1>3. r.album = a /\ r.read = c /\ r.art = kept
  OBVIOUS
<1>4. r.missing = FALSE
  OBVIOUS
<1>5. Row(f, c, a, image) = r
  BY DEF Row, kept
<1> HIDE DEF r
<1>6. image # None => kept = image
  BY DEF kept
<1>7. QED BY <1>2, <1>3, <1>4, <1>5, <1>6, IndexAssumption

LEMMA TrackPut ==
  ASSUME TypeOK, NEW f \in Files, NEW r \in Tracks, track' = [track EXCEPT ![f] = r]
  PROVE  /\ track' \in [Files -> Tracks \cup {None}] /\ track'[f] = r
         /\ \A g \in Files : g # f => track'[g] = track[g]
BY DEF TypeOK

(* UpsertTrack: the album it goes to has its tags, or is resolved; another *)
(* album keeps its own, and a track taken along is noted.                  *)
LEMMA UpsertFacts ==
  ASSUME TypeOK, NEW f \in Files, NEW c \in Contents, NEW a \in Homes(f, c), NEW upto,
         Upsert(f, c, a, upto)
  PROVE  /\ album' \in Seq(Albums) /\ Len(album') <= MaxAlbums
         /\ DOMAIN album \subseteq DOMAIN album'
         /\ a \in 1..MaxAlbums
         /\ \A b \in DOMAIN album : b # a => album'[b] = album[b]
         /\ \A b \in DOMAIN album : album'[b].resolved = album[b].resolved
         /\ upto # "artist" => a \in DOMAIN album' /\ (album'[a].resolved \/ Key(album'[a]) = Key(c))
         /\ misfiled' = (misfiled \cup (IF a \in DOMAIN album /\ Key(album'[a]) # Key(album[a]) THEN On(a) ELSE {}))
                          \ (IF upto = "track" THEN {f} ELSE {})
<1>1. /\ Len(album) \in Nat /\ DOMAIN album = 1..Len(album)
      /\ \A b \in DOMAIN album : album[b] \in Albums
      /\ album \in Seq(Albums) /\ Len(album) <= MaxAlbums
      /\ Linked(f) => track[f].album \in DOMAIN album
  BY AlbumDomain, LinkedFacts DEF TypeOK
<1>2. a <= MaxAlbums /\ album' = Album(f, c, a, upto)
  BY DEF Upsert
<1>3. a \in DOMAIN album \/ a = Len(album) + 1
  BY <1>1 DEF Homes, Kept, Untagged
<1>4. a \in 1..MaxAlbums
  BY <1>1, <1>2, <1>3, IndexAssumption
<1>5. misfiled' = (misfiled \cup (IF a \in DOMAIN album /\ Key(album'[a]) # Key(album[a]) THEN On(a) ELSE {}))
                    \ (IF upto = "track" THEN {f} ELSE {})
  BY DEF Upsert
<1>6. CASE Kept(f)
  <2>1. album' = album
    BY <1>2, <1>6 DEF Album
  <2>2. a \in DOMAIN album /\ album[a].resolved
    BY <1>1, <1>6 DEF Homes, Kept
  <2>3. QED BY <1>1, <1>4, <1>5, <2>1, <2>2
<1>7. CASE ~Kept(f) /\ a \notin DOMAIN album
  <2> DEFINE r == [artist |-> c.artist, title |-> c.title, resolved |-> FALSE, missing |-> FALSE]
  <2>1. r \in Albums /\ Key(r) = Key(c)
    BY DEF Albums, Key
  <2>2. album' = Append(album, r)
    BY <1>2, <1>7 DEF Album
  <2> HIDE DEF r
  <2>3. /\ album' \in Seq(Albums) /\ Len(album') = Len(album) + 1 /\ DOMAIN album' = 1..(Len(album) + 1)
        /\ \A b \in DOMAIN album : album'[b] = album[b]
        /\ album'[Len(album) + 1] = r
    BY <1>1, <2>1, <2>2
  <2>4. a = Len(album) + 1 /\ a \in DOMAIN album' /\ album'[a] = r
    BY <1>1, <1>3, <1>7, <2>3
  <2>5. Len(album') <= MaxAlbums /\ DOMAIN album \subseteq DOMAIN album'
    BY <1>1, <1>2, <2>3, <2>4
  <2>6. QED BY <1>1, <1>4, <1>5, <2>1, <2>3, <2>4, <2>5
<1>8. CASE ~Kept(f) /\ a \in DOMAIN album
  <2> DEFINE r == [album[a] EXCEPT !.artist = c.artist, !.title = IF upto = "artist" THEN album[a].title ELSE c.title]
  <2>1. album' = [album EXCEPT ![a] = r]
    <3>1. album' = [album EXCEPT ![a].artist = c.artist, ![a].title = IF upto = "artist" THEN @ ELSE c.title]
      BY <1>2, <1>8 DEF Album
    <3>2. [album EXCEPT ![a].artist = c.artist, ![a].title = IF upto = "artist" THEN @ ELSE c.title]
            = [album EXCEPT ![a] = r]
      BY <1>1, <1>8
    <3>3. QED BY <3>1, <3>2
  <2>2. r.artist = c.artist /\ r.title = (IF upto = "artist" THEN album[a].title ELSE c.title)
    BY <1>1, <1>8 DEF Albums
  <2>3. r.resolved = album[a].resolved
    BY <1>1, <1>8 DEF Albums
  <2>4. r \in Albums
    <3>1. album[a] \in Albums /\ c.artist \in {d.artist : d \in Contents}
          /\ (IF upto = "artist" THEN album[a].title ELSE c.title) \in {d.title : d \in Contents}
      BY <1>1, <1>8 DEF Albums
    <3>2. QED BY <3>1 DEF Albums
  <2> HIDE DEF r
  <2>5. /\ album' \in Seq(Albums) /\ Len(album') = Len(album) /\ DOMAIN album' = DOMAIN album
        /\ album'[a] = r /\ \A b \in DOMAIN album : b # a => album'[b] = album[b]
    BY <1>1, <1>8, <2>1, <2>4
  <2>6. \A b \in DOMAIN album : album'[b].resolved = album[b].resolved
    BY <1>8, <2>3, <2>5
  <2>7. upto # "artist" => Key(album'[a]) = Key(c)
    BY <2>2, <2>5 DEF Key
  <2>8. QED BY <1>1, <1>4, <1>5, <1>8, <2>5, <2>6, <2>7
<1>9. QED BY <1>6, <1>7, <1>8

(* A file is upserted, its album is only given other tags, its row is      *)
(* given its image.                                                        *)
Upserts(f) ==
  \E a \in Homes(f, file[f]), image \in {None, file[f].art} :
    /\ Upsert(f, file[f], a, "track")
    /\ track' = [track EXCEPT ![f] = Row(f, file[f], a, image)]
Renames(f) ==
  /\ \E a \in Homes(f, file[f]), upto \in {"artist", "album"} : Upsert(f, file[f], a, upto)
  /\ track' = track
Touches(f) ==
  /\ Cached(f) /\ track' = [track EXCEPT ![f].art = file[f].art]
  /\ album' = album /\ misfiled' = misfiled
Leaves == track' = track /\ album' = album /\ misfiled' = misfiled

LEMMA CutKinds ==
  ASSUME NEW f \in Files, NEW upto \in {"artist", "album", "track"}, NEW attached \in BOOLEAN,
         CutIndex(f, upto, attached)
  PROVE  /\ file[f] # None /\ Ends /\ cache' = cache
         /\ \/ upto = "track" /\ Upserts(f) /\ cut' = cut \cup {f}
            \/ Renames(f) /\ cut' = cut
<1>1. file[f] # None /\ Ends /\ cache' = cache
  BY DEF CutIndex, Meets
<1>2. PICK a \in Homes(f, file[f]) :
        /\ Upsert(f, file[f], a, upto)
        /\ track' = IF upto = "track"
                    THEN [track EXCEPT ![f] = Row(f, file[f], a, IF attached THEN file[f].art ELSE None)]
                    ELSE track
  BY DEF CutIndex
<1>3. CASE upto = "track"
  <2> DEFINE image == IF attached THEN file[f].art ELSE None
  <2>1. image \in {None, file[f].art} /\ cut' = cut \cup {f}
    BY <1>3 DEF CutIndex
  <2>2. track' = [track EXCEPT ![f] = Row(f, file[f], a, image)]
    BY <1>2, <1>3
  <2> HIDE DEF image
  <2>3. Upserts(f)
    BY <1>2, <1>3, <2>1, <2>2 DEF Upserts
  <2>4. QED BY <1>1, <1>3, <2>1, <2>3
<1>4. CASE upto # "track"
  <2>1. Renames(f) /\ cut' = cut
    BY <1>2, <1>4 DEF Renames, CutIndex
  <2>2. QED BY <1>1, <2>1
<1>5. QED BY <1>3, <1>4

LEMMA IndexKinds ==
  ASSUME NEW f \in Files, NEW pending \in BOOLEAN, Index(f, pending)
  PROVE  /\ Meets(f) /\ cut' = cut \ {f}
         /\ cache' = [cache EXCEPT ![f] = [content |-> file[f], pending |-> pending]]
         /\ Upserts(f)
         /\ \E a \in Homes(f, file[f]) :
              track' = [track EXCEPT ![f] = Row(f, file[f], a, IF pending THEN None ELSE file[f].art)]
<1>1. /\ Meets(f) /\ cut' = cut \ {f}
      /\ cache' = [cache EXCEPT ![f] = [content |-> file[f], pending |-> pending]]
  BY DEF Index
<1> DEFINE image == IF pending THEN None ELSE file[f].art
<1>2. PICK a \in Homes(f, file[f]) :
        /\ Upsert(f, file[f], a, "track")
        /\ track' = [track EXCEPT ![f] = Row(f, file[f], a, image)]
  BY DEF Index
<1>3. image \in {None, file[f].art}
  OBVIOUS
<1>4. Upserts(f)
  <2> HIDE DEF image
  <2>1. QED BY <1>2, <1>3 DEF Upserts
<1>5. QED BY <1>1, <1>2, <1>4

LEMMA StorageKinds ==
  ASSUME NEW f \in Files, ArtStorageFails(f)
  PROVE  /\ Meets(f) /\ Ends /\ cut' = cut \ {f}
         /\ cache' = [cache EXCEPT ![f] = [content |-> file[f], pending |-> TRUE]]
         /\ Upserts(f)
         /\ \E a \in Homes(f, file[f]) : track' = [track EXCEPT ![f] = Row(f, file[f], a, None)]
<1>1. /\ Meets(f) /\ Ends /\ cut' = cut \ {f}
      /\ cache' = [cache EXCEPT ![f] = [content |-> file[f], pending |-> TRUE]]
  BY DEF ArtStorageFails
<1>2. PICK a \in Homes(f, file[f]) :
        /\ Upsert(f, file[f], a, "track")
        /\ track' = [track EXCEPT ![f] = Row(f, file[f], a, None)]
  BY DEF ArtStorageFails
<1>3. Upserts(f)
  BY <1>2 DEF Upserts
<1>4. QED BY <1>1, <1>2, <1>3

LEMMA CollisionKinds ==
  ASSUME NEW f \in Files, Collision(f)
  PROVE  /\ file[f] # None /\ Ends /\ cache' = cache /\ cut' = cut
         /\ Leaves \/ Renames(f)
BY DEF Collision, Meets, Leaves, Renames

LEMMA RetryKinds ==
  ASSUME NEW f \in Files,
         RetryArt(f) \/ \E attached \in BOOLEAN : CutRetry(f, attached)
  PROVE  /\ file[f] # None /\ cut' = cut
         /\ Touches(f) \/ Leaves
BY DEF RetryArt, CutRetry, Meets, Touches, Leaves, history

(* Every step is one of these.                                             *)
LEMMA NextKinds ==
  ASSUME [Next]_vars
  PROVE  \/ Leaves
         \/ \E f \in Files : file[f] # None /\ (Upserts(f) \/ Renames(f) \/ Touches(f))
         \/ Finalize
         \/ \E a \in DOMAIN album : Resolve(a)
<1> DEFINE Goal ==
         \/ Leaves
         \/ \E f \in Files : file[f] # None /\ (Upserts(f) \/ Renames(f) \/ Touches(f))
         \/ Finalize
         \/ \E a \in DOMAIN album : Resolve(a)
<1> SUFFICES Goal
  OBVIOUS
<1>1. CASE StartScan \/ FinalizeCollides \/ Abort \/ UNCHANGED vars
  BY <1>1 DEF StartScan, FinalizeCollides, Abort, vars, history, Leaves
<1>2. ASSUME NEW f \in Files, (\E c \in Contents \cup {None} : Edit(f, c)) \/ WalkPast(f) \/ Reuse(f)
                                \/ RetryArtFails(f) \/ ParseFails(f)
      PROVE  Goal
  BY <1>2 DEF Edit, WalkPast, Reuse, RetryArtFails, ParseFails, history, Leaves
<1>3. ASSUME NEW f \in Files, RetryArt(f) \/ \E attached \in BOOLEAN : CutRetry(f, attached)
      PROVE  Goal
  BY <1>3, RetryKinds
<1>4. ASSUME NEW f \in Files, Index(f, FALSE) \/ Index(f, TRUE)
      PROVE  Goal
  BY <1>4, IndexKinds DEF Meets
<1>5. ASSUME NEW f \in Files, ArtStorageFails(f)
      PROVE  Goal
  BY <1>5, StorageKinds DEF Meets
<1>6. ASSUME NEW f \in Files, Collision(f)
      PROVE  Goal
  BY <1>6, CollisionKinds
<1>7. ASSUME NEW f \in Files, NEW attached \in BOOLEAN, NEW upto \in {"artist", "album", "track"},
             CutIndex(f, upto, attached)
      PROVE  Goal
  BY <1>7, CutKinds
<1>8. Finalize \/ (\E a \in DOMAIN album : Resolve(a)) => Goal
  OBVIOUS
<1> HIDE DEF Goal
<1>9. CASE ScanStep
  BY <1>1, <1>2, <1>3, <1>4, <1>6, <1>8, <1>9 DEF ScanStep
<1>10. CASE Failure
  BY <1>1, <1>2, <1>3, <1>4, <1>5, <1>7, <1>10 DEF Failure
<1>11. QED BY <1>1, <1>2, <1>8, <1>9, <1>10 DEF Next

(* Rows after an upsert.                                                   *)
LEMMA UpsertsFacts ==
  ASSUME TypeOK, NEW f \in Files, file[f] # None, Upserts(f)
  PROVE  \E a \in Homes(f, file[f]) :
           /\ Upsert(f, file[f], a, "track")
           /\ track' \in [Files -> Tracks \cup {None}]
           /\ track'[f] \in Tracks /\ track'[f].album = a /\ track'[f].read = file[f] /\ ~track'[f].missing
           /\ \A g \in Files : g # f => track'[g] = track[g]
<1>1. file[f] \in Contents
  BY ContentFacts
<1>2. PICK a \in Homes(f, file[f]), image \in {None, file[f].art} :
    /\ Upsert(f, file[f], a, "track")
    /\ track' = [track EXCEPT ![f] = Row(f, file[f], a, image)]
  BY DEF Upserts
<1>3. a \in 1..MaxAlbums
  BY <1>1, <1>2, UpsertFacts
<1>4. Row(f, file[f], a, image) \in Tracks
  BY <1>1, <1>3, RowFacts
<1>5. track' \in [Files -> Tracks \cup {None}] /\ track'[f] = Row(f, file[f], a, image)
         /\ \A g \in Files : g # f => track'[g] = track[g]
  BY <1>2, <1>4, TrackPut
<1>6. QED BY <1>1, <1>2, <1>3, <1>4, <1>5, RowFacts

LEMMA TouchesFacts ==
  ASSUME TypeOK, NEW f \in Files, file[f] # None, Touches(f)
  PROVE  /\ track' \in [Files -> Tracks \cup {None}] /\ Linked(f)
         /\ track'[f] \in Tracks /\ track'[f].album = track[f].album /\ track'[f].read = track[f].read
         /\ track'[f].missing = track[f].missing /\ track'[f].art = file[f].art
         /\ \A g \in Files : g # f => track'[g] = track[g]
<1> DEFINE r == [track[f] EXCEPT !.art = file[f].art]
<1>1. track[f] \in Tracks /\ Linked(f) /\ file[f].art \in Images
  BY LinkedFacts, ContentFacts DEF Touches, Cached
<1>2. track' = [track EXCEPT ![f] = r]
  BY DEF Touches
<1>3. r \in Tracks /\ r.album = track[f].album /\ r.read = track[f].read /\ r.art = file[f].art
  BY <1>1 DEF Tracks
<1>4. r.missing = track[f].missing
  BY <1>1 DEF Tracks
<1> HIDE DEF r
<1>5. track' \in [Files -> Tracks \cup {None}] /\ track'[f] = r
      /\ \A g \in Files : g # f => track'[g] = track[g]
  BY <1>2, <1>3, TrackPut
<1>6. QED BY <1>1, <1>3, <1>4, <1>5

LEMMA FinalizeFacts ==
  ASSUME TypeOK, Finalize
  PROVE  /\ track' \in [Files -> Tracks \cup {None}]
         /\ \A f \in Files :
              IF Linked(f)
              THEN /\ track'[f] \in Tracks /\ track'[f].album = track[f].album
                   /\ track'[f].read = track[f].read /\ track'[f].art = track[f].art
                   /\ track'[f].missing <=> f \notin scan.seen
              ELSE track'[f] = None
         /\ album' \in Seq(Albums) /\ Len(album') = Len(album) /\ DOMAIN album' = DOMAIN album
         /\ \A a \in DOMAIN album : album'[a].resolved = album[a].resolved /\ Key(album'[a]) = Key(album[a])
<1>1. track' = [f \in Files |-> IF Linked(f) THEN [track[f] EXCEPT !.missing = f \notin scan.seen] ELSE None]
  BY DEF Finalize, Marked
<1>2. ASSUME NEW f \in Files, Linked(f)
      PROVE  /\ track'[f] \in Tracks /\ track'[f].album = track[f].album
             /\ track'[f].read = track[f].read /\ track'[f].art = track[f].art
             /\ track'[f].missing <=> f \notin scan.seen
  <2> DEFINE b == f \notin scan.seen
  <2>1. track'[f] = [track[f] EXCEPT !.missing = b] /\ track[f] \in Tracks
    BY <1>1, <1>2, LinkedFacts
  <2>2. b \in BOOLEAN
    OBVIOUS
  <2> HIDE DEF b
  <2>3. /\ track'[f] \in Tracks /\ track'[f].album = track[f].album
        /\ track'[f].read = track[f].read /\ track'[f].art = track[f].art
    BY <2>1, <2>2 DEF Tracks
  <2>4. track'[f].missing = b
    BY <2>1 DEF Tracks
  <2>5. QED BY <2>3, <2>4 DEF b
<1>3. \A f \in Files : ~Linked(f) => track'[f] = None
  BY <1>1
<1>4. track' \in [Files -> Tracks \cup {None}]
  BY <1>1, <1>2, <1>3
<1>5. album' = [a \in DOMAIN album |-> [album[a] EXCEPT !.missing = ~Shown(a)]]
  BY DEF Finalize
<1>6. ASSUME NEW a \in DOMAIN album
      PROVE  /\ album'[a] \in Albums
             /\ album'[a].resolved = album[a].resolved /\ Key(album'[a]) = Key(album[a])
  <2> DEFINE b == ~Shown(a)
  <2>1. album'[a] = [album[a] EXCEPT !.missing = b] /\ album[a] \in Albums
    BY <1>5, <1>6, AlbumDomain
  <2>2. b \in BOOLEAN
    OBVIOUS
  <2> HIDE DEF b
  <2>3. /\ album'[a] \in Albums
        /\ album'[a].artist = album[a].artist /\ album'[a].title = album[a].title
    BY <2>1, <2>2 DEF Albums
  <2>4. album'[a].resolved = album[a].resolved
    BY <2>1 DEF Albums
  <2>5. QED BY <2>3, <2>4 DEF Key
<1>7. album' \in Seq(Albums) /\ Len(album') = Len(album) /\ DOMAIN album' = DOMAIN album
  BY <1>5, <1>6, AlbumDomain
<1>8. QED BY <1>2, <1>3, <1>4, <1>6, <1>7

LEMMA ResolveFacts ==
  ASSUME TypeOK, NEW a \in DOMAIN album, Resolve(a)
  PROVE  /\ album' \in Seq(Albums) /\ Len(album') = Len(album) /\ DOMAIN album' = DOMAIN album
         /\ \A b \in DOMAIN album :
              (album[b].resolved => album'[b].resolved) /\ Key(album'[b]) = Key(album[b])
<1> DEFINE r == [album[a] EXCEPT !.resolved = TRUE]
<1>1. album \in Seq(Albums) /\ album[a] \in Albums /\ album' = [album EXCEPT ![a] = r]
  BY AlbumDomain DEF Resolve, TypeOK
<1>2. r \in Albums /\ r.artist = album[a].artist /\ r.title = album[a].title
  BY <1>1 DEF Albums
<1>3. r.resolved = TRUE
  BY <1>1 DEF Albums
<1> HIDE DEF r
<1>4. /\ album' \in Seq(Albums) /\ Len(album') = Len(album) /\ DOMAIN album' = DOMAIN album
      /\ album'[a] = r /\ \A b \in DOMAIN album : b # a => album'[b] = album[b]
  BY <1>1, <1>2
<1>5. QED BY <1>2, <1>3, <1>4 DEF Key

-----------------------------------------------------------------------------
(* The cache: an entry is written with the track, or left                  *)

LEMMA CachePut ==
  ASSUME TypeOK, NEW f \in Files, NEW e \in Entries, cache' = [cache EXCEPT ![f] = e]
  PROVE  /\ cache' \in [Files -> Entries \cup {None}] /\ cache'[f] = e
         /\ \A g \in Files : g # f => cache'[g] = cache[g]
BY DEF TypeOK

Honest(f) ==
  f \notin cut /\ cache[f] # None /\ Linked(f) =>
    /\ track[f].read = cache[f].content
    /\ cache[f].content.art \in {None, track[f].art} \/ cache[f].pending

Enters(f, pending) ==
  /\ Upserts(f) /\ cut' = cut \ {f}
  /\ cache' = [cache EXCEPT ![f] = [content |-> file[f], pending |-> pending]]
  /\ pending \/ \E a \in Homes(f, file[f]) : track' = [track EXCEPT ![f] = Row(f, file[f], a, file[f].art)]
Retries(f) ==
  /\ Touches(f) /\ cut' = cut
  /\ cache' = cache \/ (cache[f].pending /\ cache' = [cache EXCEPT ![f].pending = FALSE])

LEMMA NextCache ==
  ASSUME [Next]_vars
  PROVE  \/ cache' = cache /\ cut' = cut /\
              (Leaves \/ (\E a \in DOMAIN album : Resolve(a)) \/ \E f \in Files : file[f] # None /\ Renames(f))
         \/ \E f \in Files : file[f] # None /\ Upserts(f) /\ cut' = cut \cup {f} /\ cache' = cache
         \/ \E f \in Files, pending \in BOOLEAN : file[f] # None /\ Enters(f, pending)
         \/ \E f \in Files : file[f] # None /\ Retries(f)
         \/ Finalize
<1> DEFINE Goal ==
         \/ cache' = cache /\ cut' = cut /\
              (Leaves \/ (\E a \in DOMAIN album : Resolve(a)) \/ \E f \in Files : file[f] # None /\ Renames(f))
         \/ \E f \in Files : file[f] # None /\ Upserts(f) /\ cut' = cut \cup {f} /\ cache' = cache
         \/ \E f \in Files, pending \in BOOLEAN : file[f] # None /\ Enters(f, pending)
         \/ \E f \in Files : file[f] # None /\ Retries(f)
         \/ Finalize
<1> SUFFICES Goal
  OBVIOUS
<1>1. CASE StartScan \/ FinalizeCollides \/ Abort \/ UNCHANGED vars
  BY <1>1 DEF StartScan, FinalizeCollides, Abort, vars, history, Leaves
<1>2. ASSUME NEW f \in Files, (\E c \in Contents \cup {None} : Edit(f, c)) \/ WalkPast(f) \/ Reuse(f)
                                \/ RetryArtFails(f) \/ ParseFails(f)
      PROVE  Goal
  BY <1>2 DEF Edit, WalkPast, Reuse, RetryArtFails, ParseFails, history, Leaves
<1>3. ASSUME NEW f \in Files, RetryArt(f)
      PROVE  Goal
  BY <1>3 DEF RetryArt, Meets, Retries, Touches, history
<1>4. ASSUME NEW f \in Files, NEW attached \in BOOLEAN, CutRetry(f, attached)
      PROVE  Goal
  BY <1>4 DEF CutRetry, Meets, Retries, Touches, Leaves, history
<1>5. ASSUME NEW f \in Files, Index(f, FALSE)
      PROVE  Goal
  <2>1. Enters(f, FALSE) /\ file[f] # None
    BY <1>5, IndexKinds DEF Enters, Meets
  <2>2. QED BY <2>1
<1>6. ASSUME NEW f \in Files, Index(f, TRUE) \/ ArtStorageFails(f)
      PROVE  Goal
  <2>1. Enters(f, TRUE) /\ file[f] # None
    BY <1>6, IndexKinds, StorageKinds DEF Enters, Meets
  <2>2. QED BY <2>1
<1>7. ASSUME NEW f \in Files, Collision(f)
      PROVE  Goal
  BY <1>7, CollisionKinds
<1>8. ASSUME NEW f \in Files, NEW attached \in BOOLEAN, NEW upto \in {"artist", "album", "track"},
             CutIndex(f, upto, attached)
      PROVE  Goal
  BY <1>8, CutKinds
<1>9. ASSUME NEW a \in DOMAIN album, Resolve(a)
      PROVE  Goal
  BY <1>9 DEF Resolve, history
<1>10. Finalize => Goal
  OBVIOUS
<1> HIDE DEF Goal
<1>11. CASE ScanStep
  BY <1>1, <1>2, <1>3, <1>5, <1>7, <1>10, <1>11 DEF ScanStep
<1>12. CASE Failure
  BY <1>1, <1>2, <1>4, <1>6, <1>8, <1>12 DEF Failure
<1>13. QED BY <1>1, <1>2, <1>9, <1>11, <1>12 DEF Next

LEMMA EntersFacts ==
  ASSUME TypeOK, NEW f \in Files, NEW pending \in BOOLEAN, file[f] # None, Enters(f, pending)
  PROVE  /\ cache' \in [Files -> Entries \cup {None}]
         /\ cache'[f].content = file[f] /\ (pending => cache'[f].pending)
         /\ \A g \in Files : g # f => cache'[g] = cache[g]
<1> DEFINE e == [content |-> file[f], pending |-> pending]
<1>1. e \in Entries /\ e.content = file[f]
  BY ContentFacts DEF Entries
<1>2. e.pending = pending
  OBVIOUS
<1>3. cache' = [cache EXCEPT ![f] = e]
  BY DEF Enters
<1> HIDE DEF e
<1>4. /\ cache' \in [Files -> Entries \cup {None}] /\ cache'[f] = e
      /\ \A g \in Files : g # f => cache'[g] = cache[g]
  BY <1>1, <1>3, CachePut
<1>5. QED BY <1>1, <1>2, <1>4

LEMMA RetriesFacts ==
  ASSUME TypeOK, NEW f \in Files, file[f] # None, Retries(f)
  PROVE  /\ cache' \in [Files -> Entries \cup {None}]
         /\ cache[f].content = file[f] /\ cache'[f].content = file[f]
         /\ \A g \in Files : g # f => cache'[g] = cache[g]
<1>1. cache[f] \in Entries /\ cache[f].content = file[f]
  BY DEF TypeOK, Retries, Touches, Cached
<1>2. CASE cache' = cache
  BY <1>1, <1>2 DEF TypeOK
<1>3. CASE cache' = [cache EXCEPT ![f].pending = FALSE]
  <2> DEFINE e == [cache[f] EXCEPT !.pending = FALSE]
  <2>1. e \in Entries /\ e.content = file[f]
    BY <1>1 DEF Entries
  <2>2. cache' = [cache EXCEPT ![f] = e]
    BY <1>3
  <2> HIDE DEF e
  <2>3. /\ cache' \in [Files -> Entries \cup {None}] /\ cache'[f] = e
        /\ \A g \in Files : g # f => cache'[g] = cache[g]
    BY <2>1, <2>2, CachePut
  <2>4. QED BY <1>1, <2>1, <2>3
<1>4. QED BY <1>2, <1>3 DEF Retries

LEMMA FinalizeCache ==
  ASSUME TypeOK, Finalize
  PROVE  /\ cache' \in [Files -> Entries \cup {None}] /\ cut' = cut
         /\ \A f \in Files : cache'[f] \in {cache[f], None}
<1>1. cache' = [f \in Files |-> IF f \in scan.encountered THEN cache[f] ELSE None] /\ cut' = cut
  BY DEF Finalize, history
<1>2. QED BY <1>1 DEF TypeOK

-----------------------------------------------------------------------------
(* The invariant, part by part                                             *)

LEMMA InitInv == Init => IndexInv
<1> SUFFICES ASSUME Init PROVE IndexInv
  OBVIOUS
<1>1. scan = NoScan /\ NoScan.on = FALSE /\ NoScan.todo = {} /\ NoScan.seen = {} /\ NoScan.encountered = {}
  BY DEF Init, NoScan
<1>2. NoScan \in [on : BOOLEAN, todo : SUBSET Files, encountered : SUBSET Files, seen : SUBSET Files]
  BY DEF NoScan
<1>3. \A f \in Files : ~Linked(f)
  BY DEF Init, Linked
<1>4. album \in Seq(Albums) /\ Len(album) <= MaxAlbums
  BY IndexAssumption DEF Init
<1>5. TypeOK
  BY <1>1, <1>2, <1>3, <1>4, IndexAssumption DEF Init, TypeOK
<1>6. QED BY <1>1, <1>3, <1>5 DEF IndexInv, CacheHonest, Filed, Accounted

LEMMA CatalogueType ==
  ASSUME IndexInv, [Next]_vars
  PROVE  /\ track' \in [Files -> Tracks \cup {None}] /\ album' \in Seq(Albums) /\ Len(album') <= MaxAlbums
         /\ \A f \in Files : Linked(f)' => track'[f].album \in DOMAIN album'
         /\ misfiled' \subseteq Files
<1>1. /\ TypeOK /\ track \in [Files -> Tracks \cup {None}] /\ album \in Seq(Albums)
      /\ Len(album) <= MaxAlbums /\ misfiled \subseteq Files
      /\ \A f \in Files : Linked(f) => track[f].album \in DOMAIN album
  BY DEF IndexInv, TypeOK
<1>2. \A a : On(a) \subseteq Files
  BY DEF On
<1>3. CASE Leaves
  BY <1>1, <1>3 DEF Leaves, Linked
<1>4. ASSUME NEW f \in Files, file[f] # None, Upserts(f)
      PROVE  /\ track' \in [Files -> Tracks \cup {None}] /\ album' \in Seq(Albums) /\ Len(album') <= MaxAlbums
             /\ \A g \in Files : Linked(g)' => track'[g].album \in DOMAIN album'
             /\ misfiled' \subseteq Files
  <2>1. PICK a \in Homes(f, file[f]) :
           /\ Upsert(f, file[f], a, "track")
           /\ track' \in [Files -> Tracks \cup {None}]
           /\ track'[f] \in Tracks /\ track'[f].album = a
           /\ \A g \in Files : g # f => track'[g] = track[g]
    BY <1>1, <1>4, UpsertsFacts
  <2>2. file[f] \in Contents
    BY <1>1, <1>4, ContentFacts
  <2>3. /\ album' \in Seq(Albums) /\ Len(album') <= MaxAlbums
        /\ DOMAIN album \subseteq DOMAIN album' /\ a \in DOMAIN album'
        /\ misfiled' \subseteq misfiled \cup On(a)
    BY <1>1, <2>1, <2>2, UpsertFacts
  <2>4. QED BY <1>1, <1>2, <2>1, <2>3 DEF Linked
<1>5. ASSUME NEW f \in Files, file[f] # None, Renames(f)
      PROVE  /\ track' \in [Files -> Tracks \cup {None}] /\ album' \in Seq(Albums) /\ Len(album') <= MaxAlbums
             /\ \A g \in Files : Linked(g)' => track'[g].album \in DOMAIN album'
             /\ misfiled' \subseteq Files
  <2>1. PICK a \in Homes(f, file[f]), upto \in {"artist", "album"} : Upsert(f, file[f], a, upto)
    BY <1>5 DEF Renames
  <2>2. file[f] \in Contents
    BY <1>1, <1>5, ContentFacts
  <2>3. /\ album' \in Seq(Albums) /\ Len(album') <= MaxAlbums
        /\ DOMAIN album \subseteq DOMAIN album'
        /\ misfiled' \subseteq misfiled \cup On(a)
    BY <1>1, <2>1, <2>2, UpsertFacts
  <2>4. QED BY <1>1, <1>2, <1>5, <2>3 DEF Linked, Renames
<1>6. ASSUME NEW f \in Files, file[f] # None, Touches(f)
      PROVE  /\ track' \in [Files -> Tracks \cup {None}] /\ album' \in Seq(Albums) /\ Len(album') <= MaxAlbums
             /\ \A g \in Files : Linked(g)' => track'[g].album \in DOMAIN album'
             /\ misfiled' \subseteq Files
  <2>1. album' = album /\ misfiled' = misfiled
    BY <1>6 DEF Touches
  <2>2. QED BY <1>1, <1>6, <2>1, TouchesFacts DEF Linked
<1>7. CASE Finalize
  <2>1. misfiled' = misfiled
    BY <1>7 DEF Finalize, history
  <2>2. QED BY <1>1, <1>7, <2>1, FinalizeFacts DEF Linked
<1>8. ASSUME NEW a \in DOMAIN album, Resolve(a)
      PROVE  /\ track' \in [Files -> Tracks \cup {None}] /\ album' \in Seq(Albums) /\ Len(album') <= MaxAlbums
             /\ \A f \in Files : Linked(f)' => track'[f].album \in DOMAIN album'
             /\ misfiled' \subseteq Files
  <2>1. track' = track /\ misfiled' = misfiled
    BY <1>8 DEF Resolve, history
  <2>2. QED BY <1>1, <1>8, <2>1, ResolveFacts DEF Linked
<1>9. QED BY <1>3, <1>4, <1>5, <1>6, <1>7, <1>8, NextKinds

LEMMA FiledStep ==
  ASSUME IndexInv, [Next]_vars
  PROVE  Filed'
<1> SUFFICES ASSUME NEW g \in Files, g \notin misfiled', Linked(g)', ~album'[track'[g].album].resolved
             PROVE  Key(album'[track'[g].album]) = Key(track'[g].read)
  BY DEF Filed, Key
<1>1. /\ TypeOK
      /\ Linked(g) => track[g].album \in DOMAIN album
      /\ g \notin misfiled /\ Linked(g) /\ ~album[track[g].album].resolved
           => Key(album[track[g].album]) = Key(track[g].read)
  BY DEF IndexInv, TypeOK, Filed
<1>2. CASE Leaves
  BY <1>1, <1>2 DEF Leaves, Linked
<1>3. ASSUME NEW f \in Files, file[f] # None, Upserts(f)
      PROVE  Key(album'[track'[g].album]) = Key(track'[g].read)
  <2>1. PICK a \in Homes(f, file[f]) :
           /\ Upsert(f, file[f], a, "track")
           /\ track'[f].album = a /\ track'[f].read = file[f]
           /\ \A h \in Files : h # f => track'[h] = track[h]
    BY <1>1, <1>3, UpsertsFacts
  <2>2. file[f] \in Contents
    BY <1>1, <1>3, ContentFacts
  <2>3. /\ \A b \in DOMAIN album : b # a => album'[b] = album[b]
        /\ \A b \in DOMAIN album : album'[b].resolved = album[b].resolved
        /\ album'[a].resolved \/ Key(album'[a]) = Key(file[f])
        /\ misfiled' = (misfiled \cup (IF a \in DOMAIN album /\ Key(album'[a]) # Key(album[a]) THEN On(a) ELSE {})) \ {f}
    BY <1>1, <2>1, <2>2, UpsertFacts
  <2>4. CASE g = f
    BY <2>1, <2>3, <2>4
  <2>5. CASE g # f
    <3>1. track'[g] = track[g] /\ Linked(g) /\ g \notin misfiled
      BY <2>1, <2>3, <2>5 DEF Linked
    <3>2. CASE track[g].album = a
      <4>1. g \in On(a) /\ a \in DOMAIN album
        BY <1>1, <3>1, <3>2 DEF On
      <4>2. Key(album'[a]) = Key(album[a])
        BY <2>3, <2>5, <4>1
      <4>3. QED BY <1>1, <2>3, <3>1, <3>2, <4>1, <4>2
    <3>3. CASE track[g].album # a
      BY <1>1, <2>3, <3>1, <3>3
    <3>4. QED BY <3>2, <3>3
  <2>6. QED BY <2>4, <2>5
<1>4. ASSUME NEW f \in Files, file[f] # None, Renames(f)
      PROVE  Key(album'[track'[g].album]) = Key(track'[g].read)
  <2>1. PICK a \in Homes(f, file[f]), upto \in {"artist", "album"} : Upsert(f, file[f], a, upto)
    BY <1>4 DEF Renames
  <2>2. file[f] \in Contents
    BY <1>1, <1>4, ContentFacts
  <2>3. /\ \A b \in DOMAIN album : b # a => album'[b] = album[b]
        /\ \A b \in DOMAIN album : album'[b].resolved = album[b].resolved
        /\ misfiled' = (misfiled \cup (IF a \in DOMAIN album /\ Key(album'[a]) # Key(album[a]) THEN On(a) ELSE {})) \ {}
    BY <1>1, <2>1, <2>2, UpsertFacts
  <2>4. track'[g] = track[g] /\ Linked(g) /\ g \notin misfiled
    BY <1>4, <2>3 DEF Renames, Linked
  <2>5. CASE track[g].album = a
    <3>1. g \in On(a) /\ a \in DOMAIN album
      BY <1>1, <2>4, <2>5 DEF On
    <3>2. Key(album'[a]) = Key(album[a])
      BY <2>3, <3>1
    <3>3. QED BY <1>1, <2>3, <2>4, <2>5, <3>1, <3>2
  <2>6. CASE track[g].album # a
    BY <1>1, <2>3, <2>4, <2>6
  <2>7. QED BY <2>5, <2>6
<1>5. ASSUME NEW f \in Files, file[f] # None, Touches(f)
      PROVE  Key(album'[track'[g].album]) = Key(track'[g].read)
  <2>1. album' = album /\ misfiled' = misfiled
    BY <1>5 DEF Touches
  <2>2. Linked(g) /\ track'[g].album = track[g].album /\ track'[g].read = track[g].read
    BY <1>1, <1>5, TouchesFacts DEF Linked
  <2>3. QED BY <1>1, <2>1, <2>2
<1>6. CASE Finalize
  <2>1. misfiled' = misfiled
    BY <1>6 DEF Finalize, history
  <2>2. Linked(g) /\ track'[g].album = track[g].album /\ track'[g].read = track[g].read
    BY <1>1, <1>6, FinalizeFacts DEF Linked
  <2>3. /\ album'[track[g].album].resolved = album[track[g].album].resolved
        /\ Key(album'[track[g].album]) = Key(album[track[g].album])
    BY <1>1, <1>6, <2>2, FinalizeFacts
  <2>4. QED BY <1>1, <2>1, <2>2, <2>3
<1>7. ASSUME NEW a \in DOMAIN album, Resolve(a)
      PROVE  Key(album'[track'[g].album]) = Key(track'[g].read)
  <2>1. track' = track /\ misfiled' = misfiled
    BY <1>7 DEF Resolve, history
  <2>2. QED BY <1>1, <1>7, <2>1, ResolveFacts DEF Linked
<1>8. QED BY <1>2, <1>3, <1>4, <1>5, <1>6, <1>7, NextKinds

LEMMA HonestStep ==
  ASSUME IndexInv, [Next]_vars
  PROVE  CacheHonest' /\ cache' \in [Files -> Entries \cup {None}] /\ cut' \subseteq Files
<1>1. /\ TypeOK /\ cache \in [Files -> Entries \cup {None}] /\ cut \subseteq Files
      /\ \A f \in Files : Honest(f)
  BY DEF IndexInv, TypeOK, CacheHonest, Honest
<1> DEFINE Goal == (\A f \in Files : Honest(f)') /\ cache' \in [Files -> Entries \cup {None}] /\ cut' \subseteq Files
<1>2. CASE cache' = cache /\ cut' = cut /\
              (Leaves \/ (\E a \in DOMAIN album : Resolve(a)) \/ \E f \in Files : file[f] # None /\ Renames(f))
  <2>1. track' = track
    BY <1>2 DEF Leaves, Resolve, Renames
  <2>2. Goal
    BY <1>1, <1>2, <2>1 DEF Honest, Linked
  <2>3. QED BY <2>2 DEF CacheHonest, Honest
<1>3. ASSUME NEW f \in Files, file[f] # None, Upserts(f), cut' = cut \cup {f}, cache' = cache
      PROVE  Goal
  <2>1. \A g \in Files : g # f => track'[g] = track[g]
    BY <1>1, <1>3, UpsertsFacts
  <2>2. QED BY <1>1, <1>3, <2>1 DEF Honest, Linked
<1>4. ASSUME NEW f \in Files, NEW pending \in BOOLEAN, file[f] # None, Enters(f, pending)
      PROVE  Goal
  <2>1. /\ cache' \in [Files -> Entries \cup {None}]
        /\ cache'[f].content = file[f] /\ (pending => cache'[f].pending)
        /\ \A g \in Files : g # f => cache'[g] = cache[g]
    BY <1>1, <1>4, EntersFacts
  <2>2. Upserts(f) /\ cut' = cut \ {f}
    BY <1>4 DEF Enters
  <2>3. track'[f].read = file[f] /\ \A g \in Files : g # f => track'[g] = track[g]
    BY <1>1, <1>4, <2>2, UpsertsFacts
  <2>4. pending \/ file[f].art \in {None, track'[f].art}
    <3>1. ASSUME ~pending, file[f].art # None
          PROVE  track'[f].art = file[f].art
      <4>1. PICK a \in Homes(f, file[f]) : track' = [track EXCEPT ![f] = Row(f, file[f], a, file[f].art)]
        BY <1>4, <3>1 DEF Enters
      <4>2. track'[f] = Row(f, file[f], a, file[f].art)
        BY <1>1, <4>1 DEF TypeOK
      <4>3. QED BY <3>1, <4>2 DEF Row
    <3>2. QED BY <3>1
  <2>5. Honest(f)'
    BY <2>1, <2>3, <2>4 DEF Honest
  <2>6. \A g \in Files : g # f => Honest(g)'
    BY <1>1, <2>1, <2>2, <2>3 DEF Honest, Linked
  <2>7. QED BY <1>1, <2>1, <2>2, <2>5, <2>6
<1>5. ASSUME NEW f \in Files, file[f] # None, Retries(f)
      PROVE  Goal
  <2>1. /\ cache' \in [Files -> Entries \cup {None}]
        /\ cache[f].content = file[f] /\ cache'[f].content = file[f]
        /\ \A g \in Files : g # f => cache'[g] = cache[g]
    BY <1>1, <1>5, RetriesFacts
  <2>2. /\ Touches(f) /\ cut' = cut /\ cache[f] # None
    BY <1>5 DEF Retries, Touches, Cached
  <2>3. /\ Linked(f) /\ track'[f].read = track[f].read /\ track'[f].art = file[f].art
        /\ \A g \in Files : g # f => track'[g] = track[g]
    BY <1>1, <1>5, <2>2, TouchesFacts
  <2>4. Honest(f)'
    BY <1>1, <2>1, <2>2, <2>3 DEF Honest
  <2>5. \A g \in Files : g # f => Honest(g)'
    BY <1>1, <2>1, <2>2, <2>3 DEF Honest, Linked
  <2>6. QED BY <1>1, <2>1, <2>2, <2>4, <2>5
<1>6. CASE Finalize
  <2>1. /\ cache' \in [Files -> Entries \cup {None}] /\ cut' = cut
        /\ \A f \in Files : cache'[f] \in {cache[f], None}
    BY <1>1, <1>6, FinalizeCache
  <2>2. \A f \in Files : Linked(f)' => Linked(f) /\ track'[f].read = track[f].read /\ track'[f].art = track[f].art
    BY <1>1, <1>6, FinalizeFacts DEF Linked
  <2>3. \A f \in Files : Honest(f)'
    BY <1>1, <2>1, <2>2 DEF Honest
  <2>4. QED BY <1>1, <2>1, <2>3 DEF CacheHonest, Honest
<1>7. Goal => CacheHonest' /\ cache' \in [Files -> Entries \cup {None}] /\ cut' \subseteq Files
  BY DEF CacheHonest, Honest
<1> HIDE DEF Goal
<1>8. QED BY <1>2, <1>3, <1>4, <1>5, <1>6, <1>7, NextCache

Passes(f) ==
  /\ Walking(f) /\ file' = file /\ faults' \in {faults, faults + 1}
  /\ \/ file[f] = None /\ unread' = unread /\ scan' = [scan EXCEPT !.todo = @ \ {f}]
     \/ unread' = unread /\ Encounter(f, {f})
     \/ unread' = unread \cup {f} /\ Encounter(f, {})

(* The scan starts, ends, or passes a file; files change in between.       *)
LEMMA NextScan ==
  ASSUME [Next]_vars
  PROVE  \/ scan' = scan /\ file' = file /\ unread' = unread
         \/ \E f \in Files, c \in Contents \cup {None} : Edit(f, c)
         \/ StartScan
         \/ Ends /\ file' = file /\ unread' = unread
         \/ \E f \in Files : Passes(f)
<1> DEFINE Goal ==
         \/ scan' = scan /\ file' = file /\ unread' = unread
         \/ \E f \in Files, c \in Contents \cup {None} : Edit(f, c)
         \/ StartScan
         \/ Ends /\ file' = file /\ unread' = unread
         \/ \E f \in Files : Passes(f)
<1> SUFFICES Goal
  OBVIOUS
<1>1. CASE UNCHANGED vars \/ \E a \in DOMAIN album : Resolve(a)
  BY <1>1 DEF Resolve, vars, history
<1>2. CASE FinalizeCollides \/ Abort \/ Finalize
  BY <1>2 DEF FinalizeCollides, Abort, Finalize, Ends, history
<1>3. ASSUME NEW f \in Files, WalkPast(f)
      PROVE  Passes(f)
  BY <1>3 DEF WalkPast, Passes, history
<1>4. ASSUME NEW f \in Files, Reuse(f) \/ RetryArt(f) \/ RetryArtFails(f) \/ ParseFails(f)
      PROVE  Passes(f)
  BY <1>4 DEF Reuse, RetryArt, RetryArtFails, ParseFails, Fault, Meets, Passes, history
<1>5. ASSUME NEW f \in Files, Index(f, FALSE) \/ Index(f, TRUE)
      PROVE  Passes(f)
  BY <1>5 DEF Index, Fault, Meets, Passes
<1>6. ASSUME NEW f \in Files, ArtStorageFails(f) \/ Collision(f)
                                \/ (\E attached \in BOOLEAN : CutRetry(f, attached))
                                \/ (\E attached \in BOOLEAN, upto \in {"artist", "album", "track"} : CutIndex(f, upto, attached))
      PROVE  Ends /\ file' = file /\ unread' = unread
  BY <1>6 DEF ArtStorageFails, Collision, CutRetry, CutIndex, history
<1>7. StartScan \/ (\E f \in Files, c \in Contents \cup {None} : Edit(f, c)) => Goal
  OBVIOUS
<1> HIDE DEF Goal
<1>8. (\E f \in Files : Passes(f)) \/ (Ends /\ file' = file /\ unread' = unread) => Goal
  BY DEF Goal
<1>9. CASE ScanStep
  BY <1>2, <1>3, <1>4, <1>5, <1>6, <1>7, <1>8, <1>9 DEF ScanStep
<1>10. CASE Failure
  BY <1>2, <1>4, <1>5, <1>6, <1>8, <1>10 DEF Failure
<1>11. QED BY <1>1, <1>7, <1>9, <1>10 DEF Next

Scans == [on : BOOLEAN, todo : SUBSET Files, encountered : SUBSET Files, seen : SUBSET Files]
ScanType(s) == s \in Scans /\ s.seen \subseteq s.encountered /\ s.todo \cap s.encountered = {}

LEMMA NoScanFacts == ScanType(NoScan) /\ NoScan.on = FALSE
<1>1. NoScan \in Scans /\ NoScan.seen = {} /\ NoScan.todo = {}
  BY DEF NoScan, Scans
<1>2. NoScan.on = FALSE
  BY DEF NoScan
<1>3. QED BY <1>1, <1>2 DEF ScanType

LEMMA StartFacts ==
  ASSUME StartScan
  PROVE  ScanType(scan') /\ scan'.todo = Files
<1>1. scan' = [NoScan EXCEPT !.on = TRUE, !.todo = Files]
  BY DEF StartScan
<1>2. scan'.todo = Files /\ scan'.seen = {} /\ scan'.encountered = {}
  BY <1>1 DEF NoScan
<1>3. scan' \in Scans
  BY <1>1 DEF NoScan, Scans
<1>4. QED BY <1>2, <1>3 DEF ScanType

LEMMA PassesFacts ==
  ASSUME TypeOK, NEW f \in Files, Passes(f)
  PROVE  /\ ScanType(scan') /\ scan.on /\ scan'.todo = scan.todo \ {f} /\ scan.seen \subseteq scan'.seen
         /\ f \in scan'.seen \cup unread' \/ file[f] = None
         /\ unread \subseteq unread' /\ unread' \subseteq unread \cup {f}
<1>1. scan \in Scans /\ scan.seen \subseteq scan.encountered /\ scan.todo \cap scan.encountered = {} /\ scan.on
  BY DEF TypeOK, Scans, Passes, Walking
<1>2. CASE scan' = [scan EXCEPT !.todo = @ \ {f}] /\ file[f] = None /\ unread' = unread
  <2>1. /\ scan'.todo = scan.todo \ {f} /\ scan'.seen = scan.seen /\ scan'.encountered = scan.encountered
        /\ scan' \in Scans
    BY <1>1, <1>2 DEF Scans
  <2>2. QED BY <1>1, <1>2, <2>1 DEF ScanType
<1>3. ASSUME NEW seen \in SUBSET {f}, Encounter(f, seen)
      PROVE  /\ ScanType(scan') /\ scan'.todo = scan.todo \ {f} /\ scan'.seen = scan.seen \cup seen
  <2>1. scan' = [scan EXCEPT !.todo = @ \ {f}, !.encountered = @ \cup {f}, !.seen = @ \cup seen]
    BY <1>3 DEF Encounter
  <2>2. /\ scan'.todo = scan.todo \ {f} /\ scan'.seen = scan.seen \cup seen
        /\ scan'.encountered = scan.encountered \cup {f}
    BY <1>1, <2>1 DEF Scans
  <2>3. scan' \in Scans
    <3>1. /\ scan.todo \ {f} \in SUBSET Files /\ scan.encountered \cup {f} \in SUBSET Files
          /\ scan.seen \cup seen \in SUBSET Files
      BY <1>1 DEF Scans
    <3>2. QED BY <1>1, <2>1, <3>1 DEF Scans
  <2>4. QED BY <1>1, <2>2, <2>3 DEF ScanType
<1>4. CASE unread' = unread /\ Encounter(f, {f})
  BY <1>1, <1>3, <1>4
<1>5. CASE unread' = unread \cup {f} /\ Encounter(f, {})
  BY <1>1, <1>3, <1>5
<1>6. QED BY <1>2, <1>4, <1>5 DEF Passes

LEMMA AccountedStep ==
  ASSUME IndexInv, [Next]_vars
  PROVE  /\ Accounted' /\ ScanType(scan')
         /\ file' \in [Files -> Contents \cup {None}] /\ unread' \subseteq Files
<1>1. /\ TypeOK /\ Accounted /\ ScanType(scan)
      /\ file \in [Files -> Contents \cup {None}] /\ unread \subseteq Files
  BY DEF IndexInv, TypeOK, ScanType, Scans
<1>2. CASE scan' = scan /\ file' = file /\ unread' = unread
  BY <1>1, <1>2 DEF Accounted
<1>3. ASSUME NEW f \in Files, NEW c \in Contents \cup {None}, Edit(f, c)
      PROVE  /\ Accounted' /\ ScanType(scan')
             /\ file' \in [Files -> Contents \cup {None}] /\ unread' \subseteq Files
  <2>1. /\ scan' = scan /\ file' = [file EXCEPT ![f] = c]
        /\ unread' = IF scan.on /\ c = None THEN unread \cup {f} ELSE unread
    BY <1>3 DEF Edit
  <2>2. Accounted'
    BY <1>1, <2>1 DEF Accounted
  <2>3. QED BY <1>1, <2>1, <2>2
<1>4. CASE StartScan
  <2>1. file' = file /\ unread' = {f \in Files : file[f] = None}
    BY <1>4 DEF StartScan
  <2>2. Accounted'
    BY <1>4, <2>1, StartFacts DEF Accounted
  <2>3. QED BY <1>1, <1>4, <2>1, <2>2, StartFacts
<1>5. CASE Ends /\ file' = file /\ unread' = unread
  BY <1>1, <1>5, NoScanFacts DEF Accounted, Ends
<1>6. ASSUME NEW f \in Files, Passes(f)
      PROVE  /\ Accounted' /\ ScanType(scan')
             /\ file' \in [Files -> Contents \cup {None}] /\ unread' \subseteq Files
  <2>1. file' = file
    BY <1>6 DEF Passes
  <2>2. /\ ScanType(scan') /\ scan.on /\ scan'.todo = scan.todo \ {f} /\ scan.seen \subseteq scan'.seen
        /\ f \in scan'.seen \cup unread' \/ file[f] = None
        /\ unread \subseteq unread' /\ unread' \subseteq unread \cup {f}
    BY <1>1, <1>6, PassesFacts
  <2>3. Accounted'
    BY <1>1, <2>1, <2>2 DEF Accounted
  <2>4. QED BY <1>1, <2>1, <2>2, <2>3
<1>7. QED BY <1>2, <1>3, <1>4, <1>5, <1>6, NextScan

LEMMA BoundsType ==
  ASSUME IndexInv, [Next]_vars
  PROVE  edits' \in 0..MaxEdits /\ faults' \in 0..MaxFaults
<1> DEFINE Goal == edits' \in 0..MaxEdits /\ faults' \in 0..MaxFaults
<1> SUFFICES Goal
  OBVIOUS
<1>1. edits \in 0..MaxEdits /\ faults \in 0..MaxFaults
  BY DEF IndexInv, TypeOK
<1>2. ASSUME edits' = edits, faults' = faults PROVE Goal
  BY <1>1, <1>2
<1>3. ASSUME edits' = edits, Fault PROVE Goal
  BY <1>1, <1>3, IndexAssumption DEF Fault
<1>4. CASE StartScan \/ FinalizeCollides \/ Finalize \/ UNCHANGED vars \/ \E a \in DOMAIN album : Resolve(a)
  BY <1>2, <1>4 DEF StartScan, FinalizeCollides, Finalize, Resolve, vars
<1>5. ASSUME NEW f \in Files, NEW c \in Contents \cup {None}, Edit(f, c) PROVE Goal
  BY <1>1, <1>5, IndexAssumption DEF Edit
<1>6. ASSUME NEW f \in Files, WalkPast(f) \/ Reuse(f) \/ RetryArt(f) \/ Collision(f) PROVE Goal
  BY <1>2, <1>6 DEF WalkPast, Reuse, RetryArt, Collision
<1>7. ASSUME NEW f \in Files, RetryArtFails(f) \/ ParseFails(f) \/ ArtStorageFails(f)
                                \/ \E attached \in BOOLEAN : CutRetry(f, attached)
      PROVE  Goal
  BY <1>3, <1>7 DEF RetryArtFails, ParseFails, ArtStorageFails, CutRetry
<1>8. ASSUME NEW f \in Files, Index(f, FALSE) PROVE Goal
  BY <1>2, <1>8 DEF Index
<1>9. ASSUME NEW f \in Files, Index(f, TRUE) PROVE Goal
  BY <1>3, <1>9 DEF Index
<1>10. CASE Abort
  BY <1>3, <1>10 DEF Abort
<1>11. ASSUME NEW f \in Files, NEW attached \in BOOLEAN, NEW upto \in {"artist", "album", "track"},
              CutIndex(f, upto, attached)
       PROVE  Goal
  BY <1>3, <1>11 DEF CutIndex
<1> HIDE DEF Goal
<1>12. CASE ScanStep
  BY <1>4, <1>6, <1>8, <1>12 DEF ScanStep
<1>13. CASE Failure
  BY <1>7, <1>9, <1>10, <1>11, <1>13 DEF Failure
<1>14. QED BY <1>4, <1>5, <1>12, <1>13 DEF Next

-----------------------------------------------------------------------------
(* The theorems                                                            *)

LEMMA InvStep == IndexInv /\ [Next]_vars => IndexInv'
<1> SUFFICES ASSUME IndexInv, [Next]_vars
             PROVE  IndexInv'
  OBVIOUS
<1>1. TypeOK'
  BY CatalogueType, HonestStep, AccountedStep, BoundsType DEF TypeOK, ScanType, Scans
<1>2. CacheHonest' /\ Filed' /\ Accounted'
  BY HonestStep, FiledStep, AccountedStep
<1>3. QED BY <1>1, <1>2 DEF IndexInv

LEMMA Invariance == Spec => []IndexInv
<1>1. Init => IndexInv
  BY InitInv
<1>2. IndexInv /\ [Next]_vars => IndexInv'
  BY InvStep
<1>3. QED BY <1>1, <1>2, PTL DEF Spec

(* The variables keep their types.                                         *)
THEOREM TypeCorrect == Spec => []TypeOK
<1>1. IndexInv => TypeOK
  BY DEF IndexInv
<1>2. QED BY <1>1, Invariance, PTL

(* What the file cache lets a scan skip is in the catalogue as it was      *)
(* read, with its image attached or pending, unless a later upsert of the  *)
(* file was cut off before its entry.                                      *)
THEOREM CacheIsHonest == Spec => []CacheHonest
<1>1. IndexInv => CacheHonest
  BY DEF IndexInv
<1>2. QED BY <1>1, Invariance, PTL

(* An album that is not matched has the artist and title of each of its    *)
(* files, but for those that another file's tags took along.               *)
THEOREM TracksFiled == Spec => []FiledByTags
<1>1. IndexInv => FiledByTags
  BY DEF IndexInv, Filed, FiledByTags, Present
<1>2. QED BY <1>1, Invariance, PTL

(* Only the finalization makes a track missing, and only one that the scan *)
(* has not seen.                                                           *)
LEMMA MissingStep ==
  ASSUME IndexInv, [Next]_vars, NEW g \in Files, Present(g), ~Present(g)'
  PROVE  g \in unread
<1>1. TypeOK /\ Linked(g) /\ ~track[g].missing
  BY DEF IndexInv, Present
<1>2. CASE Leaves \/ \E a \in DOMAIN album : Resolve(a)
  BY <1>2 DEF Leaves, Resolve, Present, Linked
<1>3. ASSUME NEW f \in Files, file[f] # None, Upserts(f)
      PROVE  FALSE
  <2>1. track'[f] \in Tracks /\ ~track'[f].missing /\ \A h \in Files : h # f => track'[h] = track[h]
    BY <1>1, <1>3, UpsertsFacts
  <2>2. QED BY <1>1, <2>1, IndexAssumption DEF Present, Linked
<1>4. ASSUME NEW f \in Files, file[f] # None, Renames(f)
      PROVE  FALSE
  BY <1>4 DEF Renames, Present, Linked
<1>5. ASSUME NEW f \in Files, file[f] # None, Touches(f)
      PROVE  FALSE
  <2>1. /\ track'[f] \in Tracks /\ track'[f].missing = track[f].missing
        /\ \A h \in Files : h # f => track'[h] = track[h]
    BY <1>1, <1>5, TouchesFacts
  <2>2. QED BY <1>1, <2>1, IndexAssumption DEF Present, Linked
<1>6. CASE Finalize
  <2>1. track'[g] \in Tracks /\ (track'[g].missing <=> g \notin scan.seen)
    BY <1>1, <1>6, FinalizeFacts
  <2>2. g \notin scan.seen
    BY <2>1, IndexAssumption DEF Present, Linked
  <2>3. scan.on /\ scan.todo = {}
    BY <1>6 DEF Finalize, Walked
  <2>4. QED BY <2>2, <2>3 DEF IndexInv, Accounted
<1>7. QED BY <1>2, <1>3, <1>4, <1>5, <1>6, NextKinds

(* A track goes missing only if its file could not be read at some time    *)
(* during the scan that says so.                                           *)
THEOREM StaysReadable == Spec => StaysWhileReadable
<1>1. IndexInv /\ [Next]_vars => [\A f \in Files : Present(f) /\ ~Present(f)' => f \in unread]_vars
  BY MissingStep
<1>2. QED BY <1>1, Invariance, PTL DEF Spec, StaysWhileReadable

=============================================================================
