---------------------------- MODULE CatalogSync ----------------------------
(***************************************************************************)
(* The catalogue's change feed: rows of artists, albums and tracks carry   *)
(* the change sequence of their last client-visible change, and a client   *)
(* that holds version v asks GET /v1/changes for what changed since v.     *)
(*                                                                         *)
(* The writers are those of the store and of library.Manager: a scan takes *)
(* one sequence number and stamps rows with it in many transactions;       *)
(* enrichment's writers take the number and stamp in one transaction; the  *)
(* MusicBrainz resolver takes it in one transaction and stamps in another; *)
(* Configure and Unlink mark every row missing in one, at any time.  The   *)
(* reader is Server.ListChanges, step by step, and a client that follows   *)
(* the flow openapi.yaml describes.                                        *)
(***************************************************************************)
EXTENDS ChangeFeed

feedVars   == <<seq, stamp, missing>>
writerVars == <<scan, scanSeq, fenced, gap>>
pageVars   == <<busy, page, gone, upto, cursor>>
noteVars   == <<began, overlap, causes>>
vars == <<feedVars, writerVars, client, since, pageVars, stale, noteVars>>

NoCursor == [seq |-> 0, row |-> 0]
scanning == scan # "idle"          \* m.scanning

-----------------------------------------------------------------------------
(* Writers                                                                 *)

(* One transaction that stamps the rows of S with n and leaves those of M, *)
(* which were there, missing.                                              *)
Change(S, M, n) ==
  /\ stamp' = [r \in Rows |-> IF r \in S THEN n ELSE stamp[r]]
  /\ missing' = (missing \ S) \cup M
  /\ stale' = stale \cup S

(* startScanLocked: m.scanning is set before the scan has a number *)
ScanBegin ==
  /\ scan = "idle" /\ seq < MaxSeq
  /\ scan' = "wait" /\ fenced' = FALSE
  /\ began' = TRUE
  /\ UNCHANGED <<feedVars, scanSeq, gap, client, since, pageVars, stale, overlap, causes>>

(* runScan, holding the operation token: NextScanSeq *)
ScanAllocate ==
  /\ scan = "wait" /\ gap = 0
  /\ scan' = "run"
  /\ seq' = seq + 1 /\ scanSeq' = seq + 1
  /\ UNCHANGED <<stamp, missing, fenced, gap, client, since, pageVars, stale, noteVars>>

(* UpsertTrack and attachments: rows appear or change, one at a time *)
ScanWrite(r) ==
  /\ scan = "run" /\ ~fenced
  /\ Change({r}, {}, scanSeq)
  /\ UNCHANGED <<seq, writerVars, client, since, pageVars, noteVars>>

(* FinalizeSourceScan, in one transaction: rows not seen become missing,   *)
(* art spreads from tracks to albums and artists.                          *)
ScanFinalize(S, M) ==
  /\ scan = "run" /\ ~fenced
  /\ M \subseteq S \ missing
  /\ Change(S, M, scanSeq)
  /\ scan' = "finish"
  /\ UNCHANGED <<seq, scanSeq, fenced, gap, client, since, pageVars, noteVars>>

(* A scan that fails, or that finds itself fenced, ends where it is *)
ScanStop ==
  /\ scan = "run"
  /\ scan' = "finish"
  /\ UNCHANGED <<feedVars, scanSeq, fenced, gap, client, since, pageVars, stale, noteVars>>

(* finishScanJob: m.scanning is cleared, unless a scan waited for this one *)
NeverFinished == "finish"          \* mutant: m.scanning stays set
AfterScan == "idle"

ScanFinish ==
  /\ scan = "finish"
  /\ \/ scan' = AfterScan /\ UNCHANGED <<fenced, began>>
     \/ fenced /\ scan' = "wait" /\ fenced' = FALSE /\ began' = TRUE
  /\ UNCHANGED <<feedVars, scanSeq, gap, client, since, pageVars, stale, overlap, causes>>

(* ...AtNextSequence: take the number and stamp, in one transaction, while *)
(* enrichment holds the operation token.                                   *)
AttachAtNextSequence(S) ==
  /\ scan \in {"idle", "wait"} /\ gap = 0 /\ seq < MaxSeq
  /\ S # {} /\ S \cap missing = {}
  /\ seq' = seq + 1
  /\ Change(S, {}, seq + 1)
  /\ UNCHANGED <<writerVars, client, since, pageVars, noteVars>>

(* mbresolver: NextScanSeq in a transaction of its own ... *)
ResolverAllocate ==
  /\ scan \in {"idle", "wait"} /\ gap = 0 /\ seq < MaxSeq
  /\ seq' = seq + 1 /\ gap' = seq + 1
  /\ UNCHANGED <<stamp, missing, scan, scanSeq, fenced, client, since, pageVars, stale, noteVars>>

(* ... then ApplyMusicBrainzMatch; it applies nothing, and changes nothing, *)
(* when the album is no longer the one that was looked up.                  *)
ResolverApply(S, M) ==
  /\ gap # 0
  /\ M \subseteq S /\ S \cap missing = {}
  /\ Change(S, M, gap)
  /\ gap' = 0
  /\ UNCHANGED <<seq, scan, scanSeq, fenced, client, since, pageVars, noteVars>>

(* Configure with another directory, or Unlink *)
Relink ==
  /\ seq < MaxSeq
  /\ seq' = seq + 1
  /\ Change(Rows \ missing, Rows \ missing, seq + 1)
  /\ fenced' = scanning
  /\ UNCHANGED <<scan, scanSeq, gap, client, since, pageVars, noteVars>>

-----------------------------------------------------------------------------
(* The client and Server.ListChanges                                       *)

(* A new client reads Library.version, then the paged lists, row by row *)
Bootstrap ==
  /\ client = "new"
  /\ client' = "list"
  /\ since' = seq
  /\ page' = Rows /\ gone' = {}
  /\ overlap' = IF scanning \/ gap # 0 THEN {"bootstrap"} ELSE {}
  /\ UNCHANGED <<feedVars, writerVars, busy, upto, cursor, stale, began, causes>>

List(r) ==
  /\ client = "list" /\ r \in page
  /\ page' = page \ {r}
  /\ stale' = stale \ {r}
  /\ IF page' = {}
     THEN client' = "idle" /\ causes' = causes \cup overlap
     ELSE UNCHANGED <<client, causes>>
  /\ UNCHANGED <<feedVars, writerVars, since, busy, gone, upto, cursor, began, overlap>>

StartSync ==
  /\ client = "idle"
  /\ client' = "look"
  /\ cursor' = NoCursor
  /\ overlap' = {}
  /\ UNCHANGED <<feedVars, writerVars, since, busy, page, gone, upto, stale, began, causes>>

(* The first look at Status.Scanning *)
LookBefore ==
  /\ client = "look"
  /\ client' = "snapshot"
  /\ busy' = scanning
  /\ began' = FALSE
  /\ UNCHANGED <<feedVars, writerVars, since, page, gone, upto, cursor, stale, overlap, causes>>

(* The order of the feed: change_seq, then kind and id *)
Later(s, r, t, q) == s > t \/ (s = t /\ r > q)

Due == {r \in Rows : stamp[r] > since /\ Later(stamp[r], r, cursor.seq, cursor.row)}

PageOf(R) ==
  {r \in R : Cardinality({q \in R : Later(stamp[r], r, stamp[q], q)}) < PageSize}

LastOf(R) == CHOOSE r \in R : \A q \in R \ {r} : Later(stamp[r], r, stamp[q], q)

(* ChangesSnapshot: one page and the version, in one read transaction *)
Snapshot ==
  /\ client = "snapshot"
  /\ client' = "recheck"
  /\ upto' = seq
  /\ page' = PageOf(Due)
  /\ gone' = page' \cap missing
  /\ cursor' = IF page' = Due THEN NoCursor
               ELSE [seq |-> stamp[LastOf(page')], row |-> LastOf(page')]
  /\ overlap' = overlap \cup (IF gap # 0 THEN {"resolver"} ELSE {})
                        \cup (IF scanning /\ page' # Due THEN {"paging"} ELSE {})
  /\ UNCHANGED <<feedVars, writerVars, since, busy, stale, began, causes>>

(* The second look.  A scan that began after the first look and is over by *)
(* the second goes unnoticed.                                              *)
LookAfter ==
  /\ client = "recheck"
  /\ client' = "hydrate"
  /\ busy' = (busy \/ scanning)
  /\ overlap' = overlap \cup (IF began /\ ~busy' THEN {"unnoticed"} ELSE {})
  /\ UNCHANGED <<feedVars, writerVars, since, page, gone, upto, cursor, stale, began, causes>>

(* One row is read again in full, after the snapshot: a row seen missing   *)
(* is reported as removed, and any other is left out if it is missing now. *)
Hydrate(r) ==
  /\ client = "hydrate" /\ r \in page
  /\ page' = page \ {r}
  /\ stale' = IF (r \in gone) <=> (r \in missing) THEN stale \ {r} ELSE stale \cup {r}
  /\ UNCHANGED <<feedVars, writerVars, client, since, busy, gone, upto, cursor, noteVars>>

(* stableChangesVersion *)
VersionUnlooked == upto            \* mutant: scans are not considered
VersionHeld == since               \* mutant: the version never moves
StableChangesVersion == IF busy THEN since ELSE upto

(* The response: the client asks for the next page, or takes the version *)
Respond ==
  /\ client = "hydrate" /\ page = {}
  /\ IF cursor # NoCursor
     THEN /\ client' = "look"
          /\ UNCHANGED <<since, causes>>
     ELSE /\ client' = "idle"
          /\ since' = StableChangesVersion
          /\ causes' = IF busy THEN causes ELSE causes \cup overlap
  /\ UNCHANGED <<feedVars, writerVars, pageVars, stale, began, overlap>>

-----------------------------------------------------------------------------
Init ==
  /\ seq = 0 /\ stamp = [r \in Rows |-> 0] /\ missing = Rows
  /\ scan = "idle" /\ scanSeq = 0 /\ fenced = FALSE /\ gap = 0
  /\ client = "new" /\ since = 0 /\ busy = FALSE
  /\ page = {} /\ gone = {} /\ upto = 0 /\ cursor = NoCursor
  /\ stale = {} /\ began = FALSE /\ overlap = {} /\ causes = {}

WriterStep ==
  \/ ScanBegin \/ ScanAllocate \/ (\E r \in Rows : ScanWrite(r))
  \/ \E S, M \in SUBSET Rows : ScanFinalize(S, M)
  \/ ScanStop \/ ScanFinish
  \/ \E S \in SUBSET Rows : AttachAtNextSequence(S)
  \/ ResolverAllocate \/ (\E S, M \in SUBSET Rows : ResolverApply(S, M))
  \/ Relink

ClientStep ==
  \/ Bootstrap \/ (\E r \in Rows : List(r))
  \/ StartSync \/ LookBefore \/ Snapshot \/ LookAfter \/ (\E r \in Rows : Hydrate(r)) \/ Respond

Next == WriterStep \/ ClientStep

Spec == Init /\ [][Next]_vars

(* The client keeps asking; a scan that has begun gets the token, walks to *)
(* its end and finishes; the resolver applies what it looked up.           *)
Fairness ==
  /\ WF_vars(ClientStep)
  /\ SF_vars(ScanAllocate) /\ SF_vars(ScanStop) /\ WF_vars(ScanFinish)
  /\ WF_vars(\E S, M \in SUBSET Rows : ResolverApply(S, M))

FairSpec == Spec /\ Fairness

-----------------------------------------------------------------------------
(* Properties                                                              *)

Causes == {"bootstrap", "paging", "resolver", "unnoticed"}

(* The types of the variables. *)
TypeOK ==
  /\ seq \in Nat /\ stamp \in [Rows -> Nat] /\ missing \in SUBSET Rows
  /\ scan \in {"idle", "wait", "run", "finish"} /\ scanSeq \in Nat /\ gap \in Nat
  /\ fenced \in BOOLEAN /\ busy \in BOOLEAN /\ began \in BOOLEAN
  /\ client \in {"new", "list", "idle", "look", "snapshot", "recheck", "hydrate"}
  /\ since \in Nat /\ upto \in Nat /\ cursor \in [seq : Nat, row : Nat]
  /\ page \in SUBSET Rows /\ gone \in SUBSET Rows /\ stale \in SUBSET Rows
  /\ overlap \in SUBSET Causes /\ causes \in SUBSET Causes

(* Once nothing is written any more, the client comes to hold the version  *)
(* of the feed, however many scans made it keep its own.                   *)
SyncCatchesUp == <>[](since = seq)

=============================================================================
