# BlitterServer in TLA+

Specifications of the concurrent core of BlitterServer, a self-hosted music server: one Go process
with SQLite, goroutines for scanning, enrichment, transcoding and relaying, and an HTTP API that
clients follow through a change feed and an event stream. The modules are written from the code
under `src/`; file and line of every modelled definition are in `PROJECT.json` (`map`).

- `*.tla` without a prefix: the components. Actions first, then properties.
- `MC*.tla` and `*.cfg`: small instances for TLC.
- `*Proofs.tla`: theorems, checked by TLAPS.
- `PROJECT.json`: components, runs, mutants, map to the source, findings, hazards, theorems.

Check a run with `tlc -config LibraryManager.cfg MCLibraryManager`, a proof with
`tlapm LibraryManagerProofs.tla`.

## 1. The system

| component | code | state | interacts by |
|---|---|---|---|
| library manager | `internal/library/manager.go`, `scan.go`, `scheduling.go` | configured source and its generation, `scanning`, `scanPending`, reset flags, the one-slot `operation` channel, lifecycle context | settings rows of the store; `library.changed` on the bus; starts scans and the enrichment worker |
| scan indexing, file cache | `library/scan.go`, `store/library.go`, `store/source_file_cache.go` | rows of artists, albums, tracks; per-file cache; `library_scan_seq` | writes under `m.mu` and only if its source is still current |
| change feed | `server/library_changes.go`, `store/library_changes_snapshot.go` | `change_seq` per row | reads `Manager.Status` twice around one read transaction |
| event bus, SSE | `events/bus.go`, `httpserver/sse.go`, events table | durable log, per-stream channels | everybody publishes; streams replay and follow |
| artifacts | `artifacts/manager.go`, `store/artifacts.go` | artifact rows, cache directory, `wake` channel | requests insert rows and kick the worker; the worker publishes |
| listening parties | `party/manager.go`, `server/parties.go` | in-memory parties: members, invitations, queue, timeline | one mutex; publishes per member after releasing it |
| pairing, tokens, profiles | `store/pairing.go`, `store/tokens.go`, `store/profiles.go`, `server/pairing.go`, `server/profiles.go` | pairings, codes, devices, token hashes, PINs | polls race with approval, expiry and deletion |
| Last.fm relay | `store/lastfm.go`, `server/lastfm_worker.go`, `server/profiles.go` | authorization attempts and connections, play sessions with claims | browser callbacks; playback events; one worker; Last.fm |
| MusicBrainz resolver, split albums | `mbresolver/`, `store/musicbrainz.go`, `store/split_album_reconciliation.go` | matches, candidates, due dates; the albums themselves | runs inside the enrichment pass; moves loves and ratings |
| enrichment, provider pacing | `enrich/`, `providercache/` | retry dates, cached answers, pacers | run inside the enrichment pass |
| profile data | `store/profile_data.go`, `server/profile_data.go` | playlists, loves, ratings, playback | single statements and paged reads |
| the rest | configuration, credentials, activity, discovery, probing, routing, generated API | | see `PROJECT.json` |

Start-up (`cmd/blitterserver/main.go`, `bootstrap.go`): the store, `library.NewManager` (which restores
the source from the settings), the server, and `SetEnricher` (`httpserver/server.go:99`), which starts the
scan of a restored source, before the listener accepts. The bus is set after the manager was made: a publication before that is dropped, and no client
is connected yet. Shutdown drains HTTP for at most ten seconds, then `Server.Close`
(`server/server.go:71`) stops artifacts, the Last.fm worker and the library manager, in this order.

### What is hard about it

- **Interleaving.** A scan parses files outside `m.mu` while `Configure` and `Unlink` replace its source; scans
  and enrichment share a token; publishers take sequence numbers in one order and fan out in another.
- **Sequence numbers as a protocol.** A version is honest only if every row stamped with a number at or
  below it is visible, but a scan stamps with one number in many transactions, and the resolver
  takes its number in one transaction and stamps in another.
- **Partial failure.** Batches that fail half-way, reset requests that must survive a failed reset, an
  eviction that removes a file and cannot remove its row.
- **Limits.** Channels of 64 events, a log of 10,000, a cache budget.
- **Crashes.** Between append and fan-out, between a configuration and its scan, in a transcode, between a scrobble and its
  answer, after any statement of `UpsertTrack`, most of which commit on their own.
- **Things that change during a call.** A profile disconnects while the worker talks to Last.fm, an album is merged away while
  MusicBrainz is asked about it, a second callback takes over an attempt, a device is deleted during its login.

What makes each component correct, in a sentence each: one scan or pass at a time and nothing of a replaced source in the
catalogue; a cache that skips only what the catalogue has; a feed and a stream that lose nothing; artifacts that settle and
have their file; one device per pairing, tokens only for those who gave the PIN; no connection without an attempt that is
still valid; a play scrobbled twice only if nobody can know better; opinions and releases that survive merges; party members
who know the timeline.

`PROJECT.json` lists the hazards, each at its line, with the properties that would catch them going wrong. The one without
a property, and those that are exceptions of one, have a note.

## 2. The modules

### LibraryManager

One action per critical section of `m.mu`, per store transaction, or per operation on the
channel; these are the points where goroutines interleave.

| in the module | in the code |
|---|---|
| `conf` | `m.src`, `m.sourceID`, `m.sourceGeneration` |
| `db`, `rows`, `cached` | the settings rows of the source; the source ids with tracks that are present; those with files in `source_file_cache`, whose tracks a scan can find again |
| `pc`, `cap`, `outcome`, `mutated` per job | a scan goroutine: its position, its `scanJob`, its result and whether it wrote |
| `op` | the token of `m.operation`, or who received it |
| `StartScan` (a part of other actions), `ScanAcquire`, `ScanWrite`, `ScanEnd`, `FinishStale`, `FinishCurrent`, `ScanRelease`, `ScanTrigger` | `startScanLocked`, `scan`, `runScan`, `finishScanJob` |
| `Configure`, `UnlinkFence`, `UnlinkStore`, `UnlinkDone`, `UnlinkFailed`, `Rescan` | the administrator's handlers |
| `RequestReset`, `SchedulerTick`, `EnrichTake` ... `EnrichBackoff` | triggers and `runEnrichment` |
| `SetEnricher`, `CloseBegin`, `CloseWait`, `Restart` | the life cycle |

What a scan writes is abstracted to the ids of the sources with present tracks. `libraryIdentity`, a mutex that is
only taken by holders of the token, adds no exclusion and is left out. `ScanEnd` is the end of `runScan`: the finalization commits what is
missing and what is back, and the scan may still fail then. `unannounced` is history: changes that were committed and not announced,
`upserts` or `finalized`; what was finalized is taken out (`AfterStalePublish`) also when the scan ends without announcing it.

### CatalogSync

The change feed, all its writers, and a client that does what `api/openapi.yaml` tells it to: read
`Library.version`, page through the lists, then follow `GET /v1/changes`. `ListChanges` is four
actions (`LookBefore`, `Snapshot`, `LookAfter`, `Hydrate`/`Respond`) because the looks at `Status` and the
re-reading of rows are outside the snapshot's transaction. `overlap` and `causes` record which of four named races
happened, so that the invariant can be exact: `CompleteUnlessOverlapped` says that *every other*
interleaving is lossless. The bootstrap is modelled in the order that favours the client (version
before lists). Constants, variables and the invariant are in `ChangeFeed`, which says what the client holds and is promised;
`CatalogSync` extends it with what writers and client do. `CatalogueProofs` holds its theorems and AlbumIdentity's.

### EventBus

Publishers (`AppendEvent`, `FanOut`, `Prune`), one stream's goroutine (`Attach`, `Query`, `Replay`, `TakeLive`,
`SendLive`, `Detach`), and a client that reconnects with `Last-Event-ID`. `causes` names what endangers delivery: a
full channel, publishers that overtake each other, pruning, a failed replay query. Heartbeats and encoding are left
out. `EventBusProofs` holds its theorems.

### ArtifactPipeline

Requests (`Ask`, `Find`, `Insert`, `Refused`, `Reread`, `Publish`, `Finish`, each a statement of
`UpsertArtifact` or a step of `Manager.Request`), the worker (`LookForWork` ... `DeleteArtifact`, each one statement,
one publication, or one file operation), and the process (`Start`, `Stop`, `Exit`, `Crash`).

A key stands for a track at a source version with a format and a bitrate. Sizes are one unit. Queued rows are taken in
any order, since `created_at` counts seconds and ties are broken by random ids. The order of eviction is left open, so
`TouchArtifact` and `ReleaseArtifact` change nothing and what is checked holds for every order. `cut` and `unwoken` are
history variables: rows whose handling was cut short, and rows left queued by a failed request or query.

### ScanIndex

What `runScan` does to single files, which LibraryManager takes as one step: `Reuse`, `RetryArt`, `ParseFails` and `Index` are
the outcomes of one callback of `Enumerate`; `CutIndex`, `ArtStorageFails`, `CutRetry`, `Collision` and `Abort` are the places
where it stops, since `UpsertTrack` is a sequence of statements that commit one by one; `Finalize` is the transaction that decides
what is missing. `Homes` is the choice of an album, `Fits` the unique index of visible untagged albums
(`migrations/0020`). `Edit` is whoever changes the directory, also during a scan. `Resolve` is a match found by a
pass between scans, after which tags do not rename the album. `unread`, `cut` and `misfiled` are history, for exact exceptions.

A content stands for tags, image hash, size and modification time. Tags carry no MusicBrainz ids; years, credits, genres,
moving images up to albums and artists, and the artists' rows are left out.

### AlbumIdentity

A pass of `RunWithProgress` over the albums that are due. `pass.list` holds the snapshots of `DueMusicBrainzAlbums`; for each,
`Record`, `NothingDone`, `ApplyMatch`, `Reconcile` or `Consensus` is the transaction the resolver ends in. `Union` is
`MusicBrainzAlbumUnionCandidate`, `Fragments`, `Mergeable`, `Agreed` and `Safe` are the guards of
`planSplitAlbumReconciliation`, `Merge` and `Identify` what `applySplitAlbumPlanTx` and `applyMusicBrainzRelease`
write. `ResolveRef` and `SetLove` are the two steps in which a profile loves an album.

What MusicBrainz answers is any release, also to a lookup by the id of the release that an album has, since nothing compares the two; `Fit` gives the tracks that match its structure. Conflicting artwork, divergent editions,
stale evidence of a fragment and failing statements are further reasons to do nothing and covered by `NothingDone`, which
may happen at any turn. Canonical artists, track titles and credits are left out.

### LastfmRelay and ScrobblePromise

Play sessions, each with its `relay` and now-playing state, and the worker's run as its single statements and calls: list,
claim, read back, fetch the connection, call, finish, and the purge after an invalid session. `life` counts how often a session id
was inserted, so that a row deleted and inserted anew is not taken for the old one; `mine` says that the claim id is of this run; `late`
that a back-off or a lease has passed. `Disconnect`, `Connect`, `Configure` and playback events come at any time, `StatementFails`
and `Down` between any two steps. A call's `Answers` are the `Final` ones, which Last.fm gave and the worker read;
`temporary`, which includes an answer that is lost before it begins; and `unread`, one that breaks off in its body or cannot be parsed, which
`providerKind` turns into a permanent error although the play may have been taken or not.

`ScrobblePromise` is the abstract specification: a session is opened once, sent while no answer is known, sent again only
if an answer was lost or could not be kept, and settled after a final answer or one that could not be read. `KeepsPromise` is the refinement: rows
that are pending or claimed are `open`, terminal rows are `settled`, each as the life it is in.

### LastfmConnect, DeviceAccess, Household

`LastfmConnect`: authorization attempts with their one-minute claim and fifteen-minute life, callbacks that claim, exchange
and complete or release, disconnection, and the administrator who clears the credentials and then the data. `DeviceAccess`:
pairings and polls, codes, devices with their tokens, and the login of a profile (`Login`, `VerifyPin`, `CreateProfileToken`).
`Household` composes the two by INSTANCE: their steps interleave, and `DeleteProfile` is one statement whose cascade changes both.

### Playlists

Rows with a numeric position, and a client that reads them page by page. `Text` and `After` are `cast(position as text)` and its
comparison, which the cursor uses.

### Party

One party. Changes (`Join`, `Leave`, `Kick`, `AppendQueue`, `Act`) happen under the manager's mutex. `LookUp` takes the mutex
again; `Copy`, `Tell` and `Walked` are `publishUpdated`, which reads the timeline and walks the member map without it, so that
whoever comes during a walk may be visited or not (`Changed`) and a copy may fall into a transport action. `told` is what
each profile heard last. A position with its time is the time it was set, since clients extrapolate. `Invite` and `Ask` are
the list under the mutex and the events after it. `PartyProofs` holds its theorems.

### Between the modules

The modules share no variable, except within `Household`. `CatalogSync` contains the library manager's scans and token as its
environment (a scan waits, runs, is fenced, finishes; enrichment's writers run only while no scan does) and so rests on
`OperationExclusive` and the fence proved in LibraryManager; so do ScanIndex and AlbumIdentity, in which scans and passes
exclude each other. `LastfmRelay` takes the making of a connection as one step, which LastfmConnect takes apart. `EventBus` is
used by all others; their models record *that* something is published, and EventBus says what happens to it then.

## 3. What is checked

All passing runs are exhaustive for their instance. Every property has a mutant in `PROJECT.json`: a plausible
bug in a mapped definition that makes TLC report exactly this property.

| run | instance | checks | shows |
|---|---|---|---|
| `library_manager` | 2 goroutines, 2 roots, 2 source objects, 3 generations, 1 reset request, 1 restart | `OperationExclusive` `OnlyLinkedRows` `PendingScanHasStarter` `ChangesAnnounced` `ResetsNotLost` `CloseJoins`, steps `StaleForever` `PassSeesResets` | nothing of a replaced source enters the catalogue, no waiting scan and no reset is forgotten, nor a change but what a finalization alone changed, one catalogue writer at a time, `Close` leaves nothing behind |
| `library_manager_live` | 2 goroutines, 1 root, 2 source objects, 1 reset request, 1 restart, no `Unlink` | `LinkedSourceIsScanned` `TriggerIsServed` `CloseReturns` | liveness, of a source that replaces another during its scan or that a restart finds in the settings too, under the fairness below |
| `catalog_sync` | 2 rows, pages of 1, numbers to 2 | `CompleteUnlessOverlapped` `SyncCatchesUp` | no change is lost but in the four named overlaps |
| `event_bus` | 2 publishers, channels of 1, log of 2, 3 events, 2 connections | `LosslessUnlessEndangered`, steps `IdsIncrease`, `EventReceived` | ids grow across connections; resuming is lossless unless endangered |
| `artifact_pipeline` | 2 requests at a time, a batch of two transcodes and one of an original, budget 1, 3 rows, 1 interruption | `WakeNotLost` `ReadyHasFile` `WithinBudget` `SettledIsTold`, steps `NoNeedlessEviction` | no lost wake-up; files, rows and budget agree; every end is announced |
| `artifact_live` | 1 request at a time, 4 rows, 1 interruption | `SettlesUnlessCut` | queued artifacts settle |
| `scan_index` | 2 files, 3 contents, 2 edits, 2 faults, 4 albums | `CacheHonest` `FiledByTags`, steps `StaysWhileReadable`, `CatchesUp` | what a scan skips is in the catalogue as it is; tracks are filed by their tags; nothing readable goes missing; scans catch up unless `Stuck` |
| `album_identity` | 3 albums of one track, one of them tagged, 2 releases of a group, 1 profile, 2 loves, 1 scan | `OpinionsFollow` `VisibleTogether`, steps `ReleasesSurvive`, `PassEnds` | merges lose no opinion, track or release; a release changes in its album's own turn only; a pass ends |
| `lastfm_relay` | 1 play inserted twice, 2 connections, 1 interruption | `AnnouncedOnce` `PurgesOnlyRefused` `KeepsPromise` `PlaysSettle` | the relay implements ScrobblePromise, never announces twice, deletes no innocent connection but one made during the call, and settles |
| `household` | 1 profile, pairing, code, attempt and login, 2 polls, 2 callbacks, 2 devices | `OneDeviceEach` `TokensAreGranted` `DisconnectIsFinal` `LeaseProtects` | the composition: no second device, no token or connection that outlives what it hangs on |
| `party` | a host and two guests, 2 requests at a time, 4 changes, 1 fault | `EveryoneTold` `InvitedAreTold` | members know the timeline, invited profiles know it |
| `playlist_paging` | 11 items, pages of 3, 1 removal | `EachItemOnce` violated | items come twice, against what the code and `openapi.yaml` say |

Every module but Playlists states its types in `TypeOK`, which served TLC while the modules were written and is proved.

### Why the bounds are enough

- *Library manager.* Two goroutine slots are what the code can have at a time in different roles: one that
  answers for `m.scanning` and one that was replaced and is finishing, releasing or triggering; slots are reused. Two
  sources and three generations give a source, its replacement, and the same object restored under a third generation
  by a failed `Unlink`. Liveness takes TLC much longer, so that its instance leaves `Unlink` out: what a failed one leaves
  waiting is covered by `PendingScanHasStarter`. A single reset request can arrive in each of the worker's positions. The
  theorems hold without these bounds.
- *Change feed.* Two rows on pages of one are the least with a row behind and a row ahead of the cursor. Two or three
  numbers give a sync that finishes and one that misses a change.
- *Bus.* A channel of one is full as soon as the stream lags by one event; a log of two is pruned below a
  client's id with three events; one reconnection is the least in which resuming matters.
- *Artifacts.* Budget 1 with two transcodes makes every second transcode evict, three rows allow an evicted key
  to be requested again by a concurrent request, and one interruption may be a failing statement at any place, a crash
  or a stop, each followed by a restart.
- *Scan.* Two files can share an album and collide; three contents give a change of artist alone, of title alone and of
  both, and one with an image; two edits let a file change and come back, or another one follow. Two faults let an image fail
  and its retry too, or cut two steps; scans after them show whether their traces stay. Directories are walked in order of names.
- *Albums.* A union is an anchor and two fragments; of two releases of one group the first needs all three tracks and the second two.
  One album is tagged with the first release, either one that the second
  holds or the one that it lacks; the others are untagged. Two loves may conflict, move, or come late.
- *Relay.* One session, deleted and inserted anew, meets every position of the worker; two connections are one replaced
  during a call. One interruption loses the outcome of a call or the process in any position and leaves a claim behind; temporary failures and
  answers that cannot be read come as often as they like. The theorems hold without these bounds.
- *Household.* The races are between two handlers of a row. The theorems hold without these bounds.
- *Party.* Two requests are one that publishes and one that changes; a guest who comes and one who goes.

Symmetry is used only where no temporal formula is checked that it could break: goroutine slots and roots, clients of
the artifact pipeline, polls and callbacks, guests and requests of a party. `CHECK_DEADLOCK FALSE` is set where the system may come to rest: nobody has to ask for anything,
and the counters behind the bounds run out.

The runs reach 4.8 million distinct states (`artifact_pipeline`), 3.1 million (`library_manager`), 1.0 million (`scan_index`),
0.8 million (`album_identity`, `party`), 0.6 million (`catalog_sync`, `household`), and 0.5 million (`lastfm_relay`). The cache budget is a setting the code reads at each enforcement; the model holds it fixed, so a
change shows at the next transcode only.

### Fairness

- *LibraryManager.* Weak fairness of the steps a goroutine takes by itself. Strong fairness of the two receivers of
  `m.operation`: a Go channel serves waiting receivers in order of arrival, so neither scan nor worker starves. Strong
  fairness of a reset that succeeds: the store does not fail for ever. Nothing is assumed of administrators, the
  scheduler's timer, or `Close`.
- *CatalogSync.* The client keeps asking; scans that began end; the resolver applies what it looked up.
- *EventBus.* Publishers that appended go on, a connected stream moves, and the client reconnects, as
  an `EventSource` does.
- *ArtifactPipeline.* The worker's goroutine and requests run on, and a server that went down is started again. Nobody
  has to ask, and nothing has to succeed: each failure is one of the bounded interruptions.
- *ScanIndex.* Scans are scheduled again and again (LibraryManager), and a scan goes on; the directory comes to rest because edits
  and faults are bounded.
- *AlbumIdentity.* A pass goes on: MusicBrainz answers, or its client gives up.
- *LastfmRelay.* The worker runs on, its ticker ticks, back-offs and leases pass, a process that went down is started again, and
  Last.fm does not answer every attempt at one play with a temporary failure (the one strong fairness).

## 4. Where code and documents disagree

`playlist_paging` states a document as its property, which TLC finds violated by what the code does:
`ListPlaylistItems` orders by the number and continues by the text of a position, so that after position 9 none of 10 to 89 is
greater, and after 10 the items 2 to 9 come again.

Seen while modelling; where a property covers the place, the case is one of its named exceptions:

- *Library manager* (`ChangesAnnounced`: `AfterStalePublish`). `FinalizeSourceScan` (`scan.go:299-301`) commits that tracks are missing or there again. If
  `ScanChangeCounts` fails after it (`scan.go:303-306`), or the source is replaced, the scan announces that only if it upserted something (`scan.go:65`,
  `88`), and a later scan finds nothing changed. The tests expect an event of a failed or a replaced scan that has committed a change
  (`scan_failure_test.go:337`, `387`); they try changes by upserts only.
- *Change feed* (`CompleteUnlessOverlapped`). A scan between two pages stamps rows behind the cursor, and the last page's looks see no
  scan (`paging`); the resolver's number is visible one transaction before its rows (`resolver`); `Library.version` is already
  the number of the scan that is still running (`bootstrap`); a scan that begins and ends between the two looks (`unnoticed`).
- *Event stream* (`LosslessUnlessEndangered`). "drop; replay covers it" (`bus.go`) does not hold once a later event gets through.
- *Artifacts* (`SettlesUnlessCut`). A row that is `processing` when the process ends, or whose marking fails, stays so. A request that
  finds a row which is evicted before the second read answers with an empty artifact. A failed artifact is never retried; a
  file whose removal fails stays in the cache directory; a request's `queued` event can follow the worker's later ones.
- *Scan* (`CatchesUp`: `Stuck`; `FiledByTags`: `misfiled`; `CacheHonest`: `cut`). Retagging may take an album through the name of
  another one, which the unique index refuses: the scan ends with an error at this file, as does each later one, and is never
  finalized. A retag cut off between artist and title leaves an album with another one's name; if the file is put back, every
  scan ends with the same error in its finalization. Retagging one of two tracks renames the album over the other. A file whose upsert was cut before its cache
  entry and which then gets its old content back is skipped with the wrong row. An image that a file no longer has is kept by
  `COALESCE`.
- *Albums* (`OpinionsFollow`: `strayed`). A love that was resolved before a merge and written after it stays on the merged album.
  (`ReleasesSurvive`: the own turn.) A lookup by release id takes whatever release the answer holds (`resolver.go:62-68`), and
  `applyMusicBrainzRelease` writes it over the one the album has (`musicbrainz.go:223-231`): a release that MusicBrainz has merged into another one
  is replaced by that.
  `RecordMusicBrainzResult` does not look whether its snapshot is current. A stale snapshot, an unsafe merge or a refused statement
  record nothing, so that the album is due again at once in the next pass. `README.md:21-23` says that matched albums are
  eligible after seven days and that ambiguous evidence does not change the library; the due query leaves matched albums out
  (`musicbrainz.go:46`), and a consensus does change it.
- *Devices.* `pairing.go:165` says that the token is delivered exactly once: after the device of a pairing that is still approved has been
  deleted, another poll mints a second one. `OneDeviceEach` says at most one *at a time*.
- *Last.fm* (`PurgesOnlyRefused`: `overtaken`). The worker may delete a connection made during its call for the old one's invalid session.
  `SetLove` also deletes the connection when Last.fm calls its session invalid (`server/profile_data.go:425`), which is not modelled: the property is of
  the worker. (`KeepsPromise`: `unread`.) An answer whose body cannot be read to its end (`lastfm/client.go:122-125`), or of a 2xx whose body cannot be
  parsed (`138-143`), has no kind or a permanent one; `providerKind` counts both as permanent (`server/profile_data.go:545-554`), so
  that the worker settles the play (`lastfm_worker.go:100-106`) although it may not have been taken.
- *Parties* (`EveryoneTold`). Publications carry copies, so that a member may hear an older one last. The member map is walked while
  it may be written, at which the Go runtime may end the process, and a copied timeline may be half changed. A failed invitation leaves
  earlier profiles invited without an event. A host who kicks himself can only end the party, and one whose
  profile is deleted leaves a party that nobody controls. `Invite` holds the one mutex during statements.
- `syncLovedTracksPlaylist` (`server/profile_data.go:342-398`, not modelled) reads items and appends in separate statements, so that
  two loves at once can append a track twice.

## 5. What is proved

The theorems hold for all values of the constants that satisfy the modules' assumptions
(`ConstantsAssumption`, `PipelineAssumption`, `IndexAssumption`, `RelayAssumption`, `HouseholdAssumption`, `PartyAssumption`,
`BusAssumption`, `IdentityAssumption`, `SyncAssumption`: bounds are naturals, the host is a profile, the names of goroutines differ from "free" and "enrich", batches are sequences of keys,
the listener is a profile, files are numbered, a content has an artist, a title and an image, `None` is nothing else, attempts are
finitely many, rows of the change feed are finitely many and numbered in their order, a page has room for one): any number of
goroutines, sources, requests, rows, files, albums, plays, connections, polls, callbacks and failures. None of them uses fairness:
they are theorems of `Spec`, of which the specifications with fairness are a part. Every invariant and every action property of a
passing run is one of them.

| theorem | says | inductive invariant |
|---|---|---|
| `LibraryManagerProofs!TypeCorrect` | `TypeOK` | itself, one lemma per group of actions |
| `...!TokenCorrect` | `OperationExclusive` | `TokenInv`: besides, a goroutine that began is between acquire and release. Without it the release of a scan that never acquired could not be told from one that did |
| `...!ReplacedStaysReplaced` | `StaleForever` | `FenceInv`: `LinkInv` (settings, `m.src` and what `Unlink` remembers agree) and `GenerationInv` (a job's source is another one or carries no later generation than the configured, and an *earlier* one than a failing Unlink restores). The last part is what makes the failed Unlink safe |
| `...!OnlyLinkedSource` | `OnlyLinkedRows` | `FenceInv` again: a job that may write is current, so its id is the linked one |
| `...!ResetsAreKept`, `...!PassesSeeResets` | `ResetsNotLost`, step `PassSeesResets` | `ResetInv`: with `TakenInv`, the worker has nothing in hand outside a pass. Without it what it holds could be overwritten when it takes the flags again |
| `...!CloseHasJoined` | `CloseJoins` | `CloseInv`: how far `Close` has come, so that the goroutines it waited for are not started again while it waits for the next |
| `...!PendingScanIsStarted` | `PendingScanHasStarter` | `ScansInv`: with `FenceInv` (a replaced job never becomes current again, so that it does start the waiting scan) |
| `...!ChangesAreAnnounced` | `ChangesAnnounced` | `ScansInv` again, with `StoppedInv`: a scan stops without a failure only when it was fenced or the manager closed, so that it announces what it wrote. What a finalization changed in a scan that upserted nothing is the exception: it is forgotten when that scan fails or is replaced |
| `ArtifactPipelineProofs!TypeCorrect` | `TypeOK` | with `PlacesOK`: a request that works on a key has one, and whoever works on a row knows its id |
| `...!WakeIsNotLost` | `WakeNotLost` | with `MadeInv`: a request that made a row that is still queued knows that something is queued or is about to read it; and idle requests made nothing |
| `...!ReadyFiles` | `ReadyHasFile` | with `FileInv` (what is marked ready has been made, victims are cached rows) and that the worker is off while the process is down |
| `...!SettledAreTold` | `SettledIsTold` | with `ToldInv`: a request answers only for originals, the rows it inserts as ready. Without it the insertion of a transcode could look like an announcement to come |
| `...!StaysWithinBudget` | `WithinBudget` | `BudgetInv`, see below |
| `...!EvictsOnlyWhenFull` | step `NoNeedlessEviction` | `BudgetInv` again: the victims are what exceeds the budget |
| `ScanIndexProofs!TypeCorrect` | `TypeOK` | `IndexInv`: `TypeOK`, `CacheHonest`, `Filed` and `Accounted` together; the types tie what the scan holds to where it is |
| `...!CacheIsHonest` | `CacheHonest` | itself, with the types |
| `...!TracksFiled` | `FiledByTags` | `Filed`: the same for tracks that are missing, which come back as they were |
| `...!StaysReadable` | step `StaysWhileReadable` | `Accounted`: a scan saw each file that it has walked past, or could not read it |
| `LastfmRelayProofs!TypeCorrect` | `TypeOK` | with `Shape`: what the worker holds at which statement, and that no row is twice in its batch |
| `...!AnnouncesOnce` | `AnnouncedOnce` | `Announcements`, see below |
| `...!PurgesRefused` | `PurgesOnlyRefused` | `Keys`: the connection there is the one whose key the worker called with, or was made during the call |
| `...!Promised` | `KeepsPromise` | `RelayInv`, the conjunction of all parts, see below |
| `HouseholdProofs!TypeCorrect` | `TypeOK` of both parts | `AccessTypes` and `ConnectTypes`, which also tie a handler's position to what it holds |
| `...!DevicesAreUnique` | `OneDeviceEach` | `Sourced`: a device that exists is the one its pairing names, and a code that made a device is used. Without the first a second poll could not be told from one after a deletion |
| `...!TokensGranted` | `TokensAreGranted` | with the types: a login at `create` was verified, and the profile is shared by both parts |
| `...!ConnectionsEnd` | `DisconnectIsFinal` | `EndedIsGone`: an attempt that was completed or removed is gone for good, so nobody holds it |
| `...!LeasesProtect` | `LeaseProtects` | `LeaseInv`: the same for each callback, with the attempt's `late` and the callback's `over` moving together |
| `PartyProofs!TypeCorrect` | `TypeOK` | itself, from what each step does to the record of a request |
| `...!EveryoneIsTold` | `EveryoneTold` | `Order` and `AllServed`, see below |
| `...!InvitedAreAsked` | `InvitedAreTold` | itself |
| `EventBusProofs!TypeCorrect` | `TypeOK` | part of `BusInv` |
| `...!ResumesWithoutLoss` | `LosslessUnlessEndangered` | `BusInv`, see below |
| `...!IdsGrow` | step `IdsIncrease` | `Ordered`, part of `BusInv`: what is on its way to the client is in order and newer than what it has, whatever endangers delivery |
| `CatalogueProofs!TypeCorrect` | `TypeOK` of AlbumIdentity | `IdentityTypes`: also what a profile is about to write and what a pass has listed |
| `...!TracksStaySeen` | `VisibleTogether` | `SeenInv`: with `ListedHeld`, whatever a pass lists held a track when it was listed, so that a snapshot that is still current is of an album that can be seen |
| `...!OpinionsFollowMerges` | `OpinionsFollow` | `OpinionsInv`: with `SeenInv`, since an opinion written to an album without tracks must be one that cannot be seen |
| `...!ReleasesStay` | step `ReleasesSurvive` | `SeenInv`, and per action that the release of another album than the one whose turn it is stays |
| `...!SyncLosesNothing` | `CompleteUnlessOverlapped` of CatalogSync | `FeedInv`, see below |
| `...!FeedTypeCorrect` | `TypeOK` of CatalogSync | itself; that a cursor is of a row needs that a page of a set that is not empty is not empty, and has a last row |

`LosslessUnlessEndangered` relates the two ends of a stream only. `BusInv` follows an event through it: while nothing endangers
delivery, an event not yet sent is among the rows of the replay, in the goroutine's hand, in the channel, or with a publisher that
has appended it (`OnItsWay`); the rows of the replay come before all others (`ReplayFirst`), the hand before the channel and
the channel before what publishers still hold (`Sorted`), so that sending the first of them skips none; and what was sent has been
received or is on the wire (`SentIsThere`). Without the order among these places the goroutine's rule to skip what is not newer than
the last id it sent could drop an event that was overtaken.

`CompleteUnlessOverlapped` speaks of the moment between two syncs. `FeedInv` says for each position of the client which rows
may be out of date: those stamped after the version it holds (`SinceInv`), which stays so because a number that is stamped later is
greater (`Fresh`); between pages, those after the cursor (`CursorInv`); and from the snapshot to the response those stamped after the
snapshot, those on the page as the page saw them, and those after the cursor (`PageInv`). `PageInv` holds only if the response may
count (`Sure`): on the last page a scan that runs makes it false, and the second look notices. `Written` is all that has to be
known of a writer, so that ten writers need one argument. That `PageOf` cuts the feed at its last row rests on the order of the
feed being total and on counting (`PageFacts`), and so on rows being finitely many.

`OpinionsFollow` in a merge is about sets: the opinions of the merged albums, without `None`, are finitely many, as there are two; if
they are at most one, the row a merge keeps and what the profile last said are both that one (`SaidOnce`). `ReleasesSurvive` needs
that an album with a release of its own is evidence and is therefore never a fragment that may be merged (`Mergeable`). Of the album whose turn
it is, it says only that it keeps a release, and that the snapshot the pass took of it is current.

The Household theorems are one invariant, `HouseholdInv`, proved per part for the part's own steps, with one lemma
each that the other part's steps leave it alone, and two for the deletion of a profile, which is a step of both.

`EveryoneTold` alone is not inductive: a request with an old copy could tell a member who already heard of the present. `Order`
says why that is an overtaken publication and nothing else: timelines have times of their own, so that none comes back
(`Times`, with `Acting` for the one action under way); copies are numbered as they are made, and an older timeline has a smaller
number both in the hands of requests (`Ordered`) and in the ears of members (`HeardOrdered`). `AllServed` then says that a member who
missed the newest copy missed one newer than every stale copy still on its way, so that no later one makes it worse. Most steps
are `Silent`: they touch neither timeline nor what was told, and one lemma serves them all.

`WithinBudget` speaks of the moment between two transcodes only. `BudgetInv` says what is true at every statement: the cached rows
fit the budget without `Spare`, which is the transcode just made, or the victims still to be deleted; and while victims are deleted,
what stays is exactly the budget. The second part holds although requests go on, since a request inserts no ready transcode. That a row
leaves the cache only as a victim, and that finite sets lose by it, is `CountedStep`.

`KeepsPromise` is proved as a refinement: the initial state is one of `ScrobblePromise`, and each step is an `Open`, a `Send`, a
`Settle` or changes nothing there. This needs what the worker knows to be true of the row it works on, many statements after it
read it. A row may be deleted and inserted anew between any two of them. `Claims` says that a play in the worker's hands is
still claimed by this run, unless the row went, and that a row in its place does not carry this run's claim; `Doubts`
that a play already sent that could be sent again is in doubt, except while its acceptance is being written; `Outcomes` that an outcome
is written only for an answer, read or not; `Inserted` that what the worker or Last.fm knows of was inserted before, so that a new life is unknown
to both; and `Announcements` that what was announced is not pending again in the same life, and that the worker is not about
to announce it.

The proof of the relay found a fault in the model: two of `StatementFails`'s CASE arms overlapped, of which TLC took the
first and a proof can take neither. They are disjoint now, and the runs show the same behaviour. ScanIndex's assumption said
too little of `None`, which must differ from cache entries and tracks as well as from contents.

The strengthenings were first checked by TLC. The two `...Effects` lemmas of the pipeline say once what each
step does to the record of a request or of the worker; the invariance proofs cite them.

Only model-checked: all liveness, which rests on fairness and `ENABLED` and is out of the proof system's reach
(`LinkedSourceIsScanned`, `TriggerIsServed`, `CloseReturns`, `SyncCatchesUp`, `EventReceived`, `SettlesUnlessCut`, `PlaysSettle`,
`CatchesUp`, `PassEnds`), and Playlists, whose property is one the code violates.

## 6. Not modelled

- *Credentials sidecar.* One file, replaced by a rename after each change and read only to seed a new database. A failed write leaves
  the earlier file and is reported, although the settings are committed.
- *Provider pacing and cache.* A rate limiter and cached answers per provider: a matter of durations; nothing but the time of a
  call depends on them.
- *Enrichment stages and artwork retries.* One item at a time, each a statement guarded by the row it fills.
- *Artist consolidation and credits.* Rewrites of names by string comparison, without steps that interleave.
- *Profiles, folders, tags, presence, statistics, ratings, recommendations.* Single statements or reads; ratings move with albums
  as loves do.
- *Activity tracker.* A snapshot replaced as a whole under a lock.
- *Music source, probing, ffmpeg, HTTP routing, byte ranges.* I/O and formats; their outcomes are nondeterministic choices.
- *The generated API.* 30,184 of the 47,750 lines are `api/api.gen.go`, so that a map of all of the rest would cover a third of them.

What could still be stated, and proved: an atomic change feed that `CatalogSync` implements while nothing overlaps, a lossless
stream for `EventBus`, and that the scans of LibraryManager are those that CatalogSync, ScanIndex and AlbumIdentity assume.
