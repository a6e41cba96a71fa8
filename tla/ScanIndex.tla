------------------------------- MODULE ScanIndex -------------------------------
(***************************************************************************)
(* What a scan of the music directory does to the catalogue, file by file: *)
(* the file cache that lets it skip what it read before, UpsertTrack that  *)
(* finds an album for a file, embedded artwork and its retries, and the    *)
(* finalization that decides what is missing.  Files change at any time,   *)
(* and a scan may end in the middle of any file.  LibraryManager models    *)
(* who scans, and that nobody else writes to the catalogue meanwhile.      *)
(*                                                                         *)
(* A content is what Parse reads from a file: album artist, album title,   *)
(* the hash of the embedded image, and all else that distinguishes it.     *)
(* Size and modification time stand for the content; tags carry no         *)
(* MusicBrainz ids; a plain artist is its name.                            *)
(***************************************************************************)
EXTENDS Naturals, Sequences, FiniteSets

CONSTANTS
  Files,            (* native ids, numbered in the order of their paths     *)
  Contents,         (* records [artist, title, art]                         *)
  None,             (* no file, no row, no image                            *)
  MaxAlbums,        (* bound: album rows                                    *)
  MaxEdits,         (* bound: changes to files                              *)
  MaxFaults         (* bound: failing reads and statements, crashes         *)

(* What a row of source_file_cache, tracks and albums holds.               *)
Images  == {c.art : c \in Contents} \cup {None}
Entries == [content : Contents, pending : BOOLEAN]
Tracks  == [album : 1..MaxAlbums, read : Contents, missing : BOOLEAN, art : Images]
Albums  == [artist : {c.artist : c \in Contents}, title : {c.title : c \in Contents},
            resolved : BOOLEAN, missing : BOOLEAN]

ASSUME IndexAssumption ==
  /\ Files \subseteq Nat /\ None \notin Contents \cup Entries \cup Tracks
  /\ \A c \in Contents : DOMAIN c = {"artist", "title", "art"}
  /\ MaxAlbums \in Nat /\ MaxEdits \in Nat /\ MaxFaults \in Nat

VARIABLES
  file,             (* the directory: content per file, or None             *)
  cache,            (* source_file_cache: content and art_pending, or None  *)
  track,            (* tracks: album, content read, image, missing, or None *)
  album,            (* albums, in the order of insertion                    *)
  art,              (* art: hashes with a valid file                        *)
  scan,             (* runScan: files to walk to, encountered, seen         *)
  unread,           (* history: files that could not be read in this scan   *)
  cut,              (* history: files upserted last without a cache entry   *)
  misfiled,         (* history: files whose album was renamed over them     *)
  edits, faults     (* the counters behind the bounds                       *)

history == <<unread, cut, misfiled>>
vars == <<file, cache, track, album, art, scan, history, edits, faults>>

NoScan == [on |-> FALSE, todo |-> {}, encountered |-> {}, seen |-> {}]

Linked(f)  == track[f] # None
Present(f) == Linked(f) /\ ~track[f].missing
On(a)      == {f \in Files : Linked(f) /\ track[f].album = a}
Key(c)     == <<c.artist, c.title>>

Fault ==
  /\ faults < MaxFaults
  /\ faults' = faults + 1

-----------------------------------------------------------------------------
(* The music directory                                                     *)

Edit(f, c) ==
  /\ edits < MaxEdits /\ edits' = edits + 1
  /\ file[f] # c /\ file' = [file EXCEPT ![f] = c]
  /\ unread' = IF scan.on /\ c = None THEN unread \cup {f} ELSE unread
  /\ UNCHANGED <<cache, track, album, art, scan, cut, misfiled, faults>>

-----------------------------------------------------------------------------
(* UpsertTrack: autocommitted statements, one after the other              *)

(* preserveResolved: the linked album is matched or its artist identified, *)
(* and the tags have no ids.                                               *)
Kept(f) == Linked(f) /\ album[track[f].album].resolved

Untagged(key) == {a \in DOMAIN album : ~album[a].resolved /\ Key(album[a]) = key}

(* The album a file goes to: its own, another with its artist and title,   *)
(* or a new one.                                                           *)
Homes(f, c) ==
  IF Kept(f) THEN {track[f].album}
  ELSE LET others == Untagged(Key(c)) \ (IF Linked(f) THEN {track[f].album} ELSE {})
       IN  IF others # {} THEN others
           ELSE IF Linked(f) THEN {track[f].album} ELSE {Len(album) + 1}

(* albums_untagged_identity: no two visible albums share artist and title. *)
Fits(a, key) ==
  a \in DOMAIN album /\ ~album[a].missing => \A b \in Untagged(key) \ {a} : album[b].missing

(* First the artist is set, then the title: both must fit.                 *)
ArtistFits(f, c, a) == Kept(f) \/ a \notin DOMAIN album \/ Fits(a, <<c.artist, album[a].title>>)
TitleFits(f, c, a)  == Kept(f) \/ a \notin DOMAIN album \/ Fits(a, Key(c))
Collides(f, c) == \A a \in Homes(f, c) : ~ArtistFits(f, c, a) \/ ~TitleFits(f, c, a)

(* What has been written when it ends after the artist, the album's        *)
(* title, or the track.                                                    *)
AlbumKeepsTitle(f, c, a, upto) ==       \* mutant: an album is never renamed
  IF Kept(f) \/ a \in DOMAIN album THEN album
  ELSE Append(album, [artist |-> c.artist, title |-> c.title, resolved |-> FALSE, missing |-> FALSE])
Album(f, c, a, upto) ==
  IF Kept(f) THEN album
  ELSE IF a \notin DOMAIN album
       THEN Append(album, [artist |-> c.artist, title |-> c.title, resolved |-> FALSE, missing |-> FALSE])
       ELSE [album EXCEPT ![a].artist = c.artist, ![a].title = IF upto = "artist" THEN @ ELSE c.title]

Upsert(f, c, a, upto) ==
  /\ a <= MaxAlbums
  /\ ArtistFits(f, c, a) /\ (upto # "artist" => TitleFits(f, c, a))
  /\ album' = Album(f, c, a, upto)
  /\ misfiled' =
       LET renamed == a \in DOMAIN album /\ Key(album'[a]) # Key(album[a])
       IN  (misfiled \cup (IF renamed THEN On(a) ELSE {})) \ (IF upto = "track" THEN {f} ELSE {})

(* The row keeps an image it had.                                          *)
Row(f, c, a, image) ==
  [album |-> a, read |-> c, missing |-> FALSE,
   art |-> IF image # None THEN image ELSE IF Linked(f) THEN track[f].art ELSE None]

-----------------------------------------------------------------------------
(* The scan                                                                *)

StartScan ==
  /\ ~scan.on
  /\ scan' = [NoScan EXCEPT !.on = TRUE, !.todo = Files]
  /\ unread' = {f \in Files : file[f] = None}
  /\ UNCHANGED <<file, cache, track, album, art, cut, misfiled, edits, faults>>

(* WalkDir walks in lexical order.                                         *)
Walking(f) == scan.on /\ f \in scan.todo /\ \A g \in scan.todo : f <= g

WalkPast(f) ==                     \* it is not in the directory
  /\ Walking(f) /\ file[f] = None
  /\ scan' = [scan EXCEPT !.todo = @ \ {f}]
  /\ UNCHANGED <<file, cache, track, album, art, history, edits, faults>>

Meets(f) ==                        \* Enumerate's callback for f
  /\ Walking(f) /\ file[f] # None
Encounter(f, seen) ==
  scan' = [scan EXCEPT !.todo = @ \ {f}, !.encountered = @ \cup {f}, !.seen = @ \cup seen]

CachedBlind(f) == cache[f] # None /\ Linked(f)         \* mutant: a changed file counts as read
Cached(f) == cache[f] # None /\ Linked(f) /\ cache[f].content = file[f]

ReuseUnseen(f) ==                  \* mutant: the batch of seen tracks is forgotten
  /\ Meets(f) /\ Cached(f) /\ ~cache[f].pending
  /\ Encounter(f, {})
  /\ UNCHANGED <<file, cache, track, album, art, history, edits, faults>>
Reuse(f) ==
  /\ Meets(f) /\ Cached(f) /\ ~cache[f].pending
  /\ Encounter(f, {f})
  /\ UNCHANGED <<file, cache, track, album, art, history, edits, faults>>

(* retryPendingArt: the image is known by now, or is extracted.            *)
RetryArt(f) ==
  /\ Meets(f) /\ Cached(f) /\ cache[f].pending
  /\ art' = art \cup {file[f].art}
  /\ track' = [track EXCEPT ![f].art = file[f].art]
  /\ cache' = [cache EXCEPT ![f].pending = FALSE]
  /\ Encounter(f, {f})
  /\ UNCHANGED <<file, album, history, edits, faults>>

RetryArtFails(f) ==                \* the file is seen, the image stays pending
  /\ Meets(f) /\ Cached(f) /\ cache[f].pending /\ file[f].art \notin art
  /\ Fault
  /\ Encounter(f, {f})
  /\ UNCHANGED <<file, cache, track, album, art, history, edits>>

ParseFails(f) ==
  /\ Meets(f) /\ ~Cached(f)
  /\ Fault
  /\ Encounter(f, {})
  /\ unread' = unread \cup {f}
  /\ UNCHANGED <<file, cache, track, album, art, cut, misfiled, edits>>

(* Parse, Art, UpsertTrack, UpsertArt, AttachTrackArt, PutSourceFileCache. *)
Index(f, pending) ==
  LET c == file[f] IN
  /\ Meets(f) /\ ~Cached(f)
  /\ pending => c.art # None /\ c.art \notin art /\ Fault
  /\ ~pending => UNCHANGED faults
  /\ \E a \in Homes(f, c) :
       /\ Upsert(f, c, a, "track")
       /\ track' = [track EXCEPT ![f] = Row(f, c, a, IF pending THEN None ELSE c.art)]
  /\ art' = IF pending \/ c.art = None THEN art ELSE art \cup {c.art}
  /\ cache' = [cache EXCEPT ![f] = [content |-> c, pending |-> pending]]
  /\ cut' = cut \ {f}
  /\ Encounter(f, {f})
  /\ UNCHANGED <<file, unread, edits>>

-----------------------------------------------------------------------------
(* The scan ends before its time and is not finalized                      *)

Ends == scan' = NoScan

(* An error of the walk or between files, a cancellation, a crash.         *)
Abort ==
  /\ scan.on /\ Fault
  /\ Ends
  /\ UNCHANGED <<file, cache, track, album, art, history, edits>>

(* Within UpsertTrack, or before the cache entry: after the artist, after  *)
(* the album, after the track, or with the image attached.                 *)
CutIndex(f, upto, attached) ==
  LET c == file[f] IN
  /\ Meets(f) /\ ~Cached(f) /\ Fault
  /\ attached => upto = "track" /\ c.art # None
  /\ \E a \in Homes(f, c) :
       /\ Upsert(f, c, a, upto)
       /\ track' = IF upto = "track" THEN [track EXCEPT ![f] = Row(f, c, a, IF attached THEN c.art ELSE None)]
                   ELSE track
  /\ cut' = IF upto = "track" THEN cut \cup {f} ELSE cut
  /\ art' = IF attached THEN art \cup {c.art} ELSE art
  /\ Ends
  /\ UNCHANGED <<file, cache, unread, edits>>

(* UpsertArt fails: the cache entry is written, the image is pending.      *)
(* Mutant: the entry says that nothing is.                                 *)
ArtStorageForgotten(f) ==
  LET c == file[f] IN
  /\ Meets(f) /\ ~Cached(f) /\ c.art # None /\ c.art \notin art /\ Fault
  /\ \E a \in Homes(f, c) :
       /\ Upsert(f, c, a, "track")
       /\ track' = [track EXCEPT ![f] = Row(f, c, a, None)]
  /\ cache' = [cache EXCEPT ![f] = [content |-> c, pending |-> FALSE]]
  /\ cut' = cut \ {f}
  /\ Ends
  /\ UNCHANGED <<file, art, unread, edits>>
ArtStorageFails(f) ==
  LET c == file[f] IN
  /\ Meets(f) /\ ~Cached(f) /\ c.art # None /\ c.art \notin art /\ Fault
  /\ \E a \in Homes(f, c) :
       /\ Upsert(f, c, a, "track")
       /\ track' = [track EXCEPT ![f] = Row(f, c, a, None)]
  /\ cache' = [cache EXCEPT ![f] = [content |-> c, pending |-> TRUE]]
  /\ cut' = cut \ {f}
  /\ Ends
  /\ UNCHANGED <<file, art, unread, edits>>

(* A retry ends with the image stored or attached, and still pending.      *)
CutRetry(f, attached) ==
  /\ Meets(f) /\ Cached(f) /\ cache[f].pending /\ Fault
  /\ art' = art \cup {file[f].art}
  /\ track' = IF attached THEN [track EXCEPT ![f].art = file[f].art] ELSE track
  /\ Ends
  /\ UNCHANGED <<file, cache, album, history, edits>>

(* The database refuses the album's new artist or title.                   *)
Collision(f) ==
  LET c == file[f] IN
  /\ Meets(f) /\ ~Cached(f)
  /\ \E a \in Homes(f, c) :
       \/ ~ArtistFits(f, c, a) /\ UNCHANGED <<album, misfiled>>
       \/ ~TitleFits(f, c, a) /\ Upsert(f, c, a, "artist")
  /\ Ends
  /\ UNCHANGED <<file, cache, track, art, unread, cut, edits, faults>>

-----------------------------------------------------------------------------
(* FinalizeSourceScan: one transaction                                     *)

Walked == scan.on /\ scan.todo = {}

Marked == [f \in Files |-> IF Linked(f) THEN [track[f] EXCEPT !.missing = f \notin scan.seen] ELSE None]
Shown(a) == \E f \in On(a) \cap scan.seen : TRUE

(* Albums are updated one by one, and the index holds after each.          *)
Unique ==
  \A a \in DOMAIN album : Shown(a) /\ ~album[a].resolved =>
    \A b \in Untagged(Key(album[a])) \ {a} : ~Shown(b) /\ (b > a => album[b].missing)

Finalize ==
  /\ Walked /\ Unique
  /\ track' = Marked
  /\ album' = [a \in DOMAIN album |-> [album[a] EXCEPT !.missing = ~Shown(a)]]
  /\ cache' = [f \in Files |-> IF f \in scan.encountered THEN cache[f] ELSE None]
  /\ scan' = NoScan
  /\ UNCHANGED <<file, art, history, edits, faults>>

FinalizeCollides ==
  /\ Walked /\ ~Unique
  /\ Ends
  /\ UNCHANGED <<file, cache, track, album, art, history, edits, faults>>

(* An enrichment pass matched the album with a release, or identified its  *)
(* artist by matching another.                                             *)
Resolve(a) ==
  /\ ~scan.on /\ a \in DOMAIN album /\ ~album[a].resolved
  /\ album' = [album EXCEPT ![a].resolved = TRUE]
  /\ UNCHANGED <<file, cache, track, art, scan, history, edits, faults>>

-----------------------------------------------------------------------------
Init ==
  /\ file \in [Files -> Contents \cup {None}]
  /\ cache = [f \in Files |-> None] /\ track = [f \in Files |-> None]
  /\ album = <<>> /\ art = {}
  /\ scan = NoScan
  /\ unread = {} /\ cut = {} /\ misfiled = {}
  /\ edits = 0 /\ faults = 0

ScanStep ==
  \/ StartScan
  \/ \E f \in Files :
       \/ WalkPast(f) \/ Reuse(f) \/ RetryArt(f) \/ Index(f, FALSE) \/ Collision(f)
  \/ Finalize \/ FinalizeCollides

Failure ==
  \/ Abort
  \/ \E f \in Files :
       \/ RetryArtFails(f) \/ ParseFails(f) \/ Index(f, TRUE) \/ ArtStorageFails(f)
       \/ \E attached \in BOOLEAN :
            \/ CutRetry(f, attached)
            \/ \E upto \in {"artist", "album", "track"} : CutIndex(f, upto, attached)

Next ==
  \/ \E f \in Files, c \in Contents \cup {None} : Edit(f, c)
  \/ ScanStep \/ Failure
  \/ \E a \in DOMAIN album : Resolve(a)

(* Scans are scheduled again and again, and a scan goes on.                *)
Spec == Init /\ [][Next]_vars /\ WF_vars(ScanStep)

-----------------------------------------------------------------------------
(* Properties                                                              *)

(* The variables keep their types.                                         *)
TypeOK ==
  /\ file \in [Files -> Contents \cup {None}]
  /\ cache \in [Files -> Entries \cup {None}] /\ track \in [Files -> Tracks \cup {None}]
  /\ album \in Seq(Albums) /\ Len(album) <= MaxAlbums
  /\ \A f \in Files : Linked(f) => track[f].album \in DOMAIN album
  /\ scan \in [on : BOOLEAN, todo : SUBSET Files, encountered : SUBSET Files, seen : SUBSET Files]
  /\ scan.seen \subseteq scan.encountered /\ scan.todo \cap scan.encountered = {}
  /\ unread \cup cut \cup misfiled \subseteq Files
  /\ edits \in 0..MaxEdits /\ faults \in 0..MaxFaults

(* PutSourceFileCache "publishes a parse only after its canonical upsert   *)
(* succeeds" (source_file_cache.go:60): what the cache lets a scan skip is *)
(* in the catalogue as it was read, and its image is attached or pending.  *)
(* Not so for a file whose later upsert was cut off before its entry: if   *)
(* the earlier content comes back, the entry fits again.                   *)
CacheHonest ==
  \A f \in Files \ cut : cache[f] # None /\ Linked(f) =>
    /\ track[f].read = cache[f].content
    /\ cache[f].content.art \in {None, track[f].art} \/ cache[f].pending

(* UpsertTrack: "untagged albums fall back to (artist, title)"             *)
(* (library.go:138).  A track's album, unless matched, has the artist and  *)
(* title of the file, whichever files were retagged in which order; but    *)
(* not when another file of the album, retagged alone, took it along.      *)
FiledByTags ==
  \A f \in Files \ misfiled : Present(f) /\ ~album[track[f].album].resolved =>
    Key(album[track[f].album]) = Key(track[f].read)

(* MarkTracksSeen, FinalizeSourceScan: a track goes missing only if its    *)
(* file could not be read at some time during the scan, never because the  *)
(* scan ended early, skipped the file as unchanged, or failed on its image.*)
StaysWhileReadable ==
  [][\A f \in Files : Present(f) /\ ~Present(f)' => f \in unread]_vars

UpToDate(f) ==
  IF file[f] = None THEN ~Present(f)
  ELSE Present(f) /\ track[f].read = file[f] /\ file[f].art \in {None, track[f].art}

(* What keeps a scan from ever catching up: a file that was cut off and    *)
(* put back; a retagged file whose album would pass through the name of    *)
(* another one, which the unique index refuses, so that this scan and each *)
(* later one end with the error at this file; and an album that was cut    *)
(* off with another one's name, whose file was put back, so that each scan *)
(* ends with the same error in its finalization.                           *)
PutBack(f) == f \in cut /\ Cached(f) /\ track[f].read # file[f]
Refused(f) == file[f] # None /\ ~Cached(f) /\ Collides(f, file[f])
Namesakes(f, g) ==
  /\ Cached(f) /\ Cached(g) /\ track[f].album # track[g].album
  /\ track[g].album \in Untagged(Key(album[track[f].album])) /\ ~album[track[f].album].resolved
Stuck == \E f \in Files : PutBack(f) \/ Refused(f) \/ \E g \in Files : Namesakes(f, g)

(* Scheduled scans: when files and failures come to rest, every file is    *)
(* in the catalogue as it is, with its image, and what is gone is missing. *)
CatchesUp == []<>(Stuck \/ \A f \in Files : UpToDate(f))

=============================================================================
