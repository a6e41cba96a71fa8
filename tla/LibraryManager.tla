--------------------------- MODULE LibraryManager ---------------------------
(***************************************************************************)
(* The life cycle of library.Manager (internal/library): which music       *)
(* source is configured, the scan goroutines, the coalescing enrichment    *)
(* worker, the one-slot operation channel the two share, the scheduler,    *)
(* and Close.                                                              *)
(*                                                                         *)
(* Every action below is one critical section of m.mu, one transaction of  *)
(* the store, or one operation on the channel: the points at which         *)
(* goroutines of the program can interleave.  What a scan writes is        *)
(* abstracted to the set of source ids that have present tracks; ScanIndex *)
(* of the plan refines it file by file.                                    *)
(***************************************************************************)
EXTENDS Naturals

CONSTANTS
  Jobs,         (* slots for scan goroutines; a slot is reused once its goroutine ends *)
  Roots,        (* directories an administrator may configure                          *)
  NoRoot,       (* the empty filesystem_path setting                                   *)
  MaxSources,   (* bound: source objects created by filesystem.New                     *)
  MaxGen,       (* bound: source generations handed out                                *)
  MaxRequests,  (* bound: administrator requests that reset retries                    *)
  MaxRestarts   (* bound: restarts of the process                                      *)

ASSUME ConstantsAssumption ==
  /\ NoRoot \notin Roots
  /\ "free" \notin Jobs /\ "enrich" \notin Jobs
  /\ MaxSources \in Nat /\ MaxGen \in Nat
  /\ MaxRequests \in Nat /\ MaxRestarts \in Nat

VARIABLES
  db,           (* settings rows: root, id, generation of the source            *)
  rows,         (* source ids that have tracks not marked missing               *)
  cached,       (* source ids that have had tracks, parsed into source_file_cache *)
  conf,         (* m.src (0 = nil), m.sourceID (0 = ""), m.sourceGeneration     *)
  stage,        (* start-up: boot, then wiring (SetEnricher), then serving      *)
  closed,       (* m.closed, and with it the cancelled lifecycle context        *)
  scanning, scanPending,
  op,           (* m.operation: "free", or who received its token               *)
  pc, cap, outcome,   (* per scan goroutine: where it is, its scanJob, what runScan said *)
  mutated, began,     (* the scan goroutines that wrote, that acquired the operation     *)
  unlink,       (* the Unlink in progress; it holds m.sourceConfig              *)
  epc, taken, verdict,                (* the runEnrichment goroutine            *)
  enrichmentPending, resets,          (* m.resetArtists, m.resetAlbums          *)
  closer,       (* how far Close has come                                       *)
  owed,         (* history: resets requested and not yet applied by the store   *)
  wanted,       (* history: a trigger was accepted and no pass has begun since  *)
  unannounced,  (* history: what changed since the last library.changed         *)
  unscanned,    (* history: the linked source has not been scanned to an end      *)
  sources, requests, restarts         (* the counters behind the bounds         *)

storeVars   == <<db, rows, cached>>
srcVars     == <<conf, unlink>>
lifeVars    == <<stage, closed, closer>>
flagVars    == <<scanning, scanPending>>
jobVars     == <<pc, cap, mutated, outcome, began>>
scanVars    == <<flagVars, jobVars>>
workerVars  == <<epc, taken, verdict>>
triggerVars == <<enrichmentPending, resets, owed, wanted>>
enrichVars  == <<workerVars, triggerVars>>
noteVars    == <<unannounced, unscanned>>
bounds      == <<sources, requests, restarts>>
vars == <<storeVars, srcVars, lifeVars, scanVars, op, enrichVars, noteVars, bounds>>

Kinds     == {"artist", "album"}
NoConf    == [src |-> 0, id |-> 0, gen |-> 0]
NoUnlink  == [pc |-> "none", src |-> 0, id |-> 0, gen |-> 0]

(* A scan goroutine that still answers for m.scanning: finishScanJob has   *)
(* not yet run its critical section.                                       *)
Unfinished(j) == pc[j] \in {"wait", "scan", "finish"}

(* jobCurrentLocked: the job's captured source is still the configured one *)
Current(j) == cap[j] = conf

-----------------------------------------------------------------------------
(* Scans: startScanLocked, scan, runScan, finishScanJob                    *)

(* startScanLocked in slot j for the configuration c.  It is a part of     *)
(* Configure, of a failed Unlink, of Rescan and of finishing a stale job,  *)
(* each of which first settles the fields of the job it replaces (p, o).   *)
StartScan(j, c, p, o) ==
  /\ p[j] = "idle"
  /\ scanning' = TRUE
  /\ pc' = [p EXCEPT ![j] = "wait"]
  /\ cap' = [cap EXCEPT ![j] = c]
  /\ mutated' = mutated \ {j}
  /\ outcome' = [o EXCEPT ![j] = "none"]
  /\ began' = began \ {j}

(* acquireOperation gives up once the lifecycle context is cancelled *)
NeverGivesUp == FALSE          \* mutant: waits for the token only
GivesUp == closed

(* acquireOperation of scan *)
ScanAcquire(j) ==
  /\ pc[j] = "wait"
  /\ \/ /\ op = "free" /\ ~closed
        /\ op' = j
        /\ pc' = [pc EXCEPT ![j] = "scan"]
        /\ began' = began \cup {j}
        /\ UNCHANGED outcome
     \/ /\ GivesUp
        /\ pc' = [pc EXCEPT ![j] = "finish"]
        /\ outcome' = [outcome EXCEPT ![j] = "stopped"]
        /\ UNCHANGED <<op, began>>
  /\ UNCHANGED <<storeVars, srcVars, lifeVars, flagVars, cap, mutated, enrichVars, noteVars,
                 bounds>>

(* withCurrentSource: a write happens under m.mu, only if the job is current *)
MayWriteUnfenced(j) == ~closed           \* mutant: the generation is not checked
MayWrite(j) == Current(j) /\ ~closed

(* One file: the canonical upsert, and its parse for later scans to reuse *)
ScanWrite(j) ==
  /\ pc[j] = "scan" /\ MayWrite(j)
  /\ rows' = rows \cup {cap[j].id}
  /\ cached' = cached \cup {cap[j].id}
  /\ mutated' = mutated \cup {j}
  /\ unannounced' = unannounced \cup {"upserts"}
  /\ UNCHANGED <<db, srcVars, lifeVars, flagVars, op, pc, cap, outcome, began, enrichVars,
                 unscanned, bounds>>

(* The end of runScan.  FinalizeSourceScan marks whatever was not seen     *)
(* missing and what is seen again as there, in one transaction after which *)
(* counting the changes can still fail.  What a scan upserted it has seen; *)
(* what it finalizes is not counted as a mutation.                         *)
(* A fenced job stops; any error of the source or the store stops it, and  *)
(* so does the cancelled context.                                          *)
ScanEnd(j) ==
  /\ pc[j] = "scan"
  /\ \/ /\ MayWrite(j)
        /\ \E o \in {"done", "error"} : outcome' = [outcome EXCEPT ![j] = o]
        /\ \E seen \in SUBSET (cached \cap {cap[j].id}) :
             /\ j \in mutated => seen # {}
             /\ rows' = seen
             /\ \E changes \in {rows # seen, rows \cup seen # {}} :
                  unannounced' = IF changes THEN unannounced \cup {"finalized"} ELSE unannounced
     \/ /\ outcome' = [outcome EXCEPT ![j] = IF MayWrite(j) THEN "error" ELSE "stopped"]
        /\ UNCHANGED <<rows, unannounced>>
  /\ pc' = [pc EXCEPT ![j] = "finish"]
  /\ UNCHANGED <<db, cached, srcVars, lifeVars, flagVars, op, cap, mutated, began, enrichVars,
                 unscanned, bounds>>

(* What remains to be announced once a job that was replaced or failed has *)
(* published, which it does only if it upserted: else what its             *)
(* finalization changed is forgotten, and no scan will announce it.        *)
SilentStale(j) == unannounced            \* mutant: a stale scan publishes nothing
AfterStalePublish(j) ==
  IF j \in mutated THEN {}
  ELSE unannounced \ {"finalized"}

(* startPendingScanLocked's test *)
ForgetPending == FALSE                   \* mutant: a stale scan starts no other
StartsPending == scanPending /\ conf.src # 0 /\ ~closed

(* finishScanJob's critical section when the job was replaced meanwhile:   *)
(* publish what it wrote, and start the scan that waited for it.           *)
FinishStale(j) ==
  /\ pc[j] = "finish" /\ ~Current(j)
  /\ unannounced' = AfterStalePublish(j)
  /\ LET p == [pc EXCEPT ![j] = "release"]
         o == [outcome EXCEPT ![j] = "none"]
     IN IF StartsPending
        THEN /\ scanPending' = FALSE
             /\ \E k \in Jobs : StartScan(k, conf, p, o)
        ELSE /\ scanning' = FALSE
             /\ pc' = p
             /\ outcome' = o
             /\ UNCHANGED <<scanPending, cap, mutated, began>>
  /\ UNCHANGED <<storeVars, srcVars, lifeVars, op, enrichVars, unscanned, bounds>>

(* finishScanJob's critical section for a current job: cancelled; failed,  *)
(* published only if it wrote; or finished.                                *)
FinishCurrent(j) ==
  /\ pc[j] = "finish" /\ Current(j)
  /\ scanning' = FALSE
  /\ pc' = [pc EXCEPT ![j] = "release"]
  /\ IF closed \/ outcome[j] = "stopped"
     THEN /\ outcome' = [outcome EXCEPT ![j] = "none"]
          /\ UNCHANGED noteVars
     ELSE /\ unannounced' = IF outcome[j] = "error" THEN AfterStalePublish(j) ELSE {}
          /\ unscanned' = FALSE
          /\ UNCHANGED outcome
  /\ UNCHANGED <<storeVars, srcVars, lifeVars, scanPending, op, cap, mutated, began,
                 enrichVars, bounds>>

(* The token after a scan goroutine's releaseOperation: only a holder      *)
(* returns it.                                                             *)
ReleasedByAnyone(j) == "free"            \* mutant: operationHeld is not tested
ReleasedBy(j) == IF j \in began THEN "free" ELSE op

(* releaseOperation, outside m.mu; a goroutine that has nothing to trigger *)
(* ends here.                                                              *)
ScanRelease(j) ==
  /\ pc[j] = "release"
  /\ op' = ReleasedBy(j)
  /\ began' = began \ {j}
  /\ cap' = [cap EXCEPT ![j] = NoConf]
  /\ mutated' = mutated \ {j}
  /\ outcome' = [outcome EXCEPT ![j] = "none"]
  /\ pc' = [pc EXCEPT ![j] = IF outcome[j] = "none" THEN "idle" ELSE "trigger"]
  /\ UNCHANGED <<storeVars, srcVars, lifeVars, flagVars, enrichVars, noteVars, bounds>>

(* triggerEnrichment: refused when closed or without an enricher, joined   *)
(* to the running worker when there is one.                                *)
RefusedUnwired == stage = "boot"         \* mutant: m.closed is not tested
Refused == closed \/ stage = "boot"

TriggerEnrichment(K) ==
  IF Refused
  THEN UNCHANGED enrichVars
  ELSE /\ enrichmentPending' = TRUE
       /\ resets' = resets \cup K
       /\ owed' = owed \cup K
       /\ wanted' = TRUE
       /\ epc' = IF epc = "none" THEN "take" ELSE epc
       /\ UNCHANGED <<taken, verdict>>

(* The goroutine's last act *)
ScanTrigger(j) ==
  /\ pc[j] = "trigger"
  /\ TriggerEnrichment({})
  /\ pc' = [pc EXCEPT ![j] = "idle"]
  /\ UNCHANGED <<storeVars, srcVars, lifeVars, flagVars, op, cap, mutated, outcome, began,
                 noteVars, bounds>>

-----------------------------------------------------------------------------
(* The administrator: Configure, Unlink, Rescan, retry resets              *)

(* ConfigureFilesystemSource: keeps the identity of an unchanged root, and *)
(* otherwise takes a new one; an id is named by the generation that made   *)
(* it.  Replacing a root marks every track missing.                        *)
Reconfigured(r) ==
  IF db.root = r /\ db.id # 0 THEN db
  ELSE [root |-> r, id |-> db.gen + 1, gen |-> db.gen + 1]

Configure(r) ==
  /\ ~closed /\ unlink.pc = "none"
  /\ stage = "serving" \/ (stage = "boot" /\ db.root = NoRoot)   \* bootstrapFromEnvironment
  /\ sources < MaxSources /\ Reconfigured(r).gen <= MaxGen
  /\ sources' = sources + 1
  /\ db' = Reconfigured(r)
  /\ conf' = [src |-> sources + 1, id |-> db'.id, gen |-> db'.gen]
  /\ cached' = (IF db' = db THEN cached ELSE {})
  /\ IF db.root # NoRoot /\ db.root # r
     THEN rows' = {} /\ unannounced' = {}
     ELSE UNCHANGED <<rows, unannounced>>
  /\ IF scanning
     THEN /\ scanPending' = TRUE
          /\ UNCHANGED <<scanning, jobVars>>
     ELSE /\ \E j \in Jobs : StartScan(j, conf', pc, outcome)
          /\ UNCHANGED scanPending
  /\ unscanned' = TRUE
  /\ UNCHANGED <<lifeVars, op, unlink, enrichVars, requests, restarts>>

(* Unlink, first critical section: fence every job before touching the store *)
UnlinkFence ==
  /\ ~closed /\ stage = "serving" /\ unlink.pc = "none"
  /\ conf.gen < MaxGen /\ db.gen < MaxGen
  /\ conf' = [src |-> 0, id |-> 0, gen |-> conf.gen + 1]
  /\ unlink' = [pc |-> "fenced", src |-> conf.src, id |-> conf.id, gen |-> conf.gen + 1]
  /\ scanPending' = FALSE
  /\ unscanned' = FALSE
  /\ UNCHANGED <<storeVars, lifeVars, scanning, op, jobVars, enrichVars, unannounced, bounds>>

(* UnlinkFilesystemSource: one transaction, which may fail *)
UnlinkStore ==
  /\ unlink.pc = "fenced"
  /\ \/ /\ db' = [root |-> NoRoot, id |-> 0, gen |-> db.gen + 1]
        /\ rows' = {} /\ cached' = {}
        /\ unlink' = [pc |-> "done", src |-> 0, id |-> 0, gen |-> db.gen + 1]
     \/ /\ unlink' = [unlink EXCEPT !.pc = "failed"]
        /\ UNCHANGED storeVars
  /\ UNCHANGED <<conf, lifeVars, scanVars, op, enrichVars, noteVars, bounds>>

(* Unlink, last critical section after a commit: publish the change *)
UnlinkDone ==
  /\ unlink.pc = "done"
  /\ conf' = [conf EXCEPT !.gen = unlink.gen]
  /\ unannounced' = {}
  /\ unlink' = NoUnlink
  /\ UNCHANGED <<storeVars, lifeVars, scanVars, op, enrichVars, unscanned, bounds>>

(* The source a failed Unlink puts back *)
RestoredUnfenced == [src |-> unlink.src, id |-> unlink.id, gen |-> unlink.gen - 1]
                                         \* mutant: under its old generation
RestoredConf == [src |-> unlink.src, id |-> unlink.id, gen |-> unlink.gen]

(* Unlink, last critical section after a failure: put the source back under *)
(* the new generation, so that jobs of the old one stay fenced, and rescan. *)
UnlinkFailed ==
  /\ unlink.pc = "failed"
  /\ unlink' = NoUnlink
  /\ IF closed
     THEN UNCHANGED <<conf, scanVars, unscanned>>
     ELSE /\ unscanned' = (unlink.src # 0)
          /\ conf' = RestoredConf
          /\ \/ /\ unlink.src # 0 /\ ~scanning
                /\ \E j \in Jobs : StartScan(j, conf', pc, outcome)
                /\ UNCHANGED scanPending
             \/ /\ unlink.src = 0 \/ scanning
                /\ scanPending' = (IF unlink.src # 0 THEN TRUE ELSE scanPending)
                /\ UNCHANGED <<scanning, jobVars>>
  /\ UNCHANGED <<storeVars, lifeVars, op, enrichVars, unannounced, bounds>>

(* Rescan of a configured source when no scan runs; refused otherwise *)
Rescan ==
  /\ ~closed /\ stage = "serving" /\ conf.src # 0 /\ ~scanning
  /\ \E j \in Jobs : StartScan(j, conf, pc, outcome)
  /\ UNCHANGED <<storeVars, srcVars, lifeVars, scanPending, op, enrichVars, noteVars, bounds>>

(* TriggerArtistEnrichment, TriggerAlbumEnrichment *)
RequestReset(k) ==
  /\ stage = "serving" /\ requests < MaxRequests
  /\ requests' = requests + 1
  /\ TriggerEnrichment({k})
  /\ UNCHANGED <<storeVars, srcVars, lifeVars, scanVars, op, noteVars, sources, restarts>>

(* scheduleEnrichment: the timer fires *)
SchedulerTick ==
  /\ stage = "serving" /\ ~closed
  /\ TriggerEnrichment({})
  /\ UNCHANGED <<storeVars, srcVars, lifeVars, scanVars, op, noteVars, bounds>>

-----------------------------------------------------------------------------
(* The enrichment worker: one goroutine, and m.enriching is epc # "none"   *)

(* The top of runEnrichment's loop: the flags are taken in one section *)
EnrichTake ==
  /\ epc = "take"
  /\ verdict' = "ok"
  /\ IF closed
     THEN /\ epc' = "none"
          /\ UNCHANGED <<enrichmentPending, taken, resets>>
     ELSE /\ epc' = "acquire"
          /\ enrichmentPending' = FALSE
          /\ taken' = resets
          /\ resets' = {}
  /\ UNCHANGED <<storeVars, srcVars, lifeVars, scanVars, op, owed, wanted, noteVars, bounds>>

EnrichAcquire ==
  /\ epc = "acquire"
  /\ \/ op = "free" /\ ~closed /\ op' = "enrich" /\ epc' = "reset"
     \/ GivesUp /\ epc' = "none" /\ UNCHANGED op
  /\ UNCHANGED <<storeVars, srcVars, lifeVars, scanVars, taken, verdict, triggerVars,
                 noteVars, bounds>>

(* Artists first *)
NextReset == IF "artist" \in taken THEN "artist" ELSE "album"

(* The flags after a failed reset *)
DroppedReset == resets                   \* mutant: the flag is not set again
RetriedReset == resets \cup {NextReset}

(* resetArtRetries for one taken kind; a failure sets the flag again *)
EnrichReset(succeeds) ==
  /\ epc = "reset" /\ taken # {}
  /\ taken' = taken \ {NextReset}
  /\ IF succeeds
     THEN owed' = owed \ {NextReset} /\ UNCHANGED <<resets, verdict>>
     ELSE resets' = RetriedReset /\ verdict' = "failed" /\ UNCHANGED owed
  /\ UNCHANGED <<storeVars, srcVars, lifeVars, scanVars, op, epc, enrichmentPending, wanted,
                 noteVars, bounds>>

(* moreResets *)
MoreResetsIgnored == FALSE               \* mutant: the flags are not read again
MoreResets == verdict = "ok" /\ resets # {}

(* Resets that arrived since the flags were taken send the worker round    *)
(* again before it runs the pipeline.                                      *)
EnrichCheck ==
  /\ epc = "reset" /\ taken = {}
  /\ verdict' = IF MoreResets THEN "more" ELSE verdict
  /\ IF verdict' = "ok" /\ ~closed
     THEN epc' = "run" /\ wanted' = FALSE
     ELSE epc' = "release" /\ UNCHANGED wanted
  /\ UNCHANGED <<storeVars, srcVars, lifeVars, scanVars, op, taken, enrichmentPending,
                 resets, owed, noteVars, bounds>>

(* The pipeline (Enricher.Run) ends *)
EnrichRun ==
  /\ epc = "run"
  /\ epc' = "release"
  /\ UNCHANGED <<storeVars, srcVars, lifeVars, scanVars, op, taken, verdict, triggerVars,
                 noteVars, bounds>>

(* releaseOperation *)
EnrichRelease ==
  /\ epc = "release"
  /\ op' = "free"
  /\ epc' = IF verdict = "more" THEN "take" ELSE "settle"
  /\ UNCHANGED <<storeVars, srcVars, lifeVars, scanVars, taken, verdict, triggerVars,
                 noteVars, bounds>>

(* The bottom of the loop: stop, back off after a failed reset, or go round *)
AfterPassForgetful ==                    \* mutant: a trigger during the pass is dropped
  CASE closed -> "none"
    [] ~closed /\ verdict = "failed" -> "backoff"
    [] ~closed /\ verdict # "failed" /\ resets # {} -> "take"
    [] OTHER -> "none"
AfterPass ==
  CASE closed -> "none"
    [] ~closed /\ verdict = "failed" -> "backoff"
    [] ~closed /\ verdict # "failed" /\ (enrichmentPending \/ resets # {}) -> "take"
    [] OTHER -> "none"

EnrichSettle ==
  /\ epc = "settle"
  /\ epc' = AfterPass
  /\ verdict' = "ok"
  /\ UNCHANGED <<storeVars, srcVars, lifeVars, scanVars, op, taken, triggerVars, noteVars,
                 bounds>>

(* waitResetRetry: the timer, or the cancelled context *)
EnrichBackoff ==
  /\ epc = "backoff"
  /\ epc' = IF closed THEN "none" ELSE "take"
  /\ UNCHANGED <<storeVars, srcVars, lifeVars, scanVars, op, taken, verdict, triggerVars,
                 noteVars, bounds>>

-----------------------------------------------------------------------------
(* Start-up, shutdown and restart                                          *)

(* SetEnricher, first section: the enricher is there for triggers to see *)
SetEnricher ==
  /\ stage = "boot" /\ ~closed
  /\ stage' = "wiring"
  /\ UNCHANGED <<storeVars, srcVars, closed, scanVars, op, enrichVars, closer, noteVars,
                 bounds>>

(* SetEnricher, after it read m.src: Rescan or TriggerEnrichment, and the  *)
(* scheduler starts.                                                       *)
StartServing ==
  /\ stage = "wiring"
  /\ stage' = "serving"
  /\ \/ /\ conf.src # 0 /\ ~scanning
        /\ \E j \in Jobs : StartScan(j, conf, pc, outcome)
        /\ UNCHANGED <<enrichVars, scanPending>>
     \/ conf.src # 0 /\ scanning /\ UNCHANGED <<enrichVars, scanVars>>
     \/ conf.src = 0 /\ TriggerEnrichment({}) /\ UNCHANGED scanVars
  /\ UNCHANGED <<storeVars, srcVars, closed, op, closer, noteVars, bounds>>

(* Close: set the flag and cancel; then join scans, worker and scheduler *)
CloseBegin ==
  /\ ~closed /\ stage # "wiring"
  /\ closed' = TRUE
  /\ closer' = "scans"
  /\ UNCHANGED <<storeVars, srcVars, stage, scanVars, op, enrichVars, noteVars, bounds>>

CloseWait ==
  /\ \/ closer = "scans"  /\ (\A j \in Jobs : pc[j] = "idle") /\ closer' = "worker"
     \/ closer = "worker" /\ epc = "none" /\ closer' = "joined"
  /\ UNCHANGED <<storeVars, srcVars, stage, closed, scanVars, op, enrichVars, noteVars, bounds>>

(* The process ends, at any point, and NewManager restores the source from *)
(* the settings if its directory can still be opened.                      *)
NewManager ==
  \/ conf' = NoConf /\ UNCHANGED sources
  \/ /\ db.root # NoRoot
     /\ conf' = [src |-> sources + 1, id |-> db.id, gen |-> db.gen]
     /\ sources' = sources + 1

Restart ==
  /\ restarts < MaxRestarts /\ sources < MaxSources
  /\ restarts' = restarts + 1
  /\ NewManager
  /\ stage' = "boot" /\ closed' = FALSE
  /\ scanning' = FALSE /\ scanPending' = FALSE /\ op' = "free"
  /\ pc' = [j \in Jobs |-> "idle"] /\ cap' = [j \in Jobs |-> NoConf]
  /\ outcome' = [j \in Jobs |-> "none"] /\ mutated' = {} /\ began' = {}
  /\ unlink' = NoUnlink
  /\ epc' = "none" /\ taken' = {} /\ verdict' = "ok"
  /\ enrichmentPending' = FALSE /\ resets' = {} /\ owed' = {} /\ wanted' = FALSE
  /\ closer' = "none" /\ unannounced' = {} /\ unscanned' = (conf'.src # 0)
  /\ UNCHANGED <<storeVars, requests>>

-----------------------------------------------------------------------------
Init ==
  /\ db = [root |-> NoRoot, id |-> 0, gen |-> 0] /\ rows = {} /\ cached = {}
  /\ conf = NoConf /\ stage = "boot" /\ closed = FALSE
  /\ scanning = FALSE /\ scanPending = FALSE /\ op = "free"
  /\ pc = [j \in Jobs |-> "idle"] /\ cap = [j \in Jobs |-> NoConf]
  /\ outcome = [j \in Jobs |-> "none"] /\ mutated = {} /\ began = {}
  /\ unlink = NoUnlink
  /\ epc = "none" /\ taken = {} /\ verdict = "ok"
  /\ enrichmentPending = FALSE /\ resets = {} /\ owed = {} /\ wanted = FALSE
  /\ closer = "none" /\ unannounced = {} /\ unscanned = FALSE
  /\ sources = 0 /\ requests = 0 /\ restarts = 0

ScanStep(j) ==
  \/ ScanAcquire(j) \/ ScanWrite(j) \/ ScanEnd(j) \/ FinishStale(j) \/ FinishCurrent(j)
  \/ ScanRelease(j) \/ ScanTrigger(j)

EnrichStep ==
  \/ EnrichTake \/ EnrichAcquire \/ (\E s \in BOOLEAN : EnrichReset(s)) \/ EnrichCheck
  \/ EnrichRun \/ EnrichRelease \/ EnrichSettle \/ EnrichBackoff

AdminStep ==
  \/ \E r \in Roots : Configure(r)
  \/ UnlinkFence \/ UnlinkStore \/ UnlinkDone \/ UnlinkFailed \/ Rescan
  \/ \E k \in Kinds : RequestReset(k)

ProcessStep ==
  SchedulerTick \/ SetEnricher \/ StartServing \/ CloseBegin \/ CloseWait \/ Restart

Next == (\E j \in Jobs : ScanStep(j)) \/ EnrichStep \/ AdminStep \/ ProcessStep

Spec == Init /\ [][Next]_vars

(***************************************************************************)
(* Fairness.  Goroutines keep running, a handler that began Unlink ends it,*)
(* start-up reaches SetEnricher's end; a walk over a directory ends.  A    *)
(* channel hands its token to the receiver that waited longest, hence      *)
(* strong fairness of the two receivers.  A retried reset of the store     *)
(* does not fail forever.  Nothing is assumed of the administrator, of the *)
(* scheduler's timer or of Close.                                          *)
(***************************************************************************)
Fairness ==
  /\ \A j \in Jobs :
       /\ SF_vars(ScanAcquire(j))
       /\ WF_vars(ScanEnd(j)) /\ WF_vars(FinishStale(j)) /\ WF_vars(FinishCurrent(j))
       /\ WF_vars(ScanRelease(j) \/ ScanTrigger(j))
  /\ SF_vars(EnrichAcquire) /\ SF_vars(EnrichReset(TRUE)) /\ WF_vars(EnrichStep)
  /\ WF_vars(UnlinkStore \/ UnlinkDone \/ UnlinkFailed)
  /\ WF_vars(SetEnricher \/ StartServing) /\ WF_vars(CloseWait)

FairSpec == Spec /\ Fairness

-----------------------------------------------------------------------------
(* Properties                                                              *)

Config == [src : Nat, id : Nat, gen : Nat]
JobPCs == {"idle", "wait", "scan", "finish", "release", "trigger"}
Outcomes == {"none", "done", "error", "stopped"}

FlagsOK ==
  /\ closed \in BOOLEAN /\ scanning \in BOOLEAN /\ scanPending \in BOOLEAN
  /\ enrichmentPending \in BOOLEAN /\ wanted \in BOOLEAN
  /\ unscanned \in BOOLEAN

StateOK ==
  /\ db \in [root : Roots \cup {NoRoot}, id : Nat, gen : Nat]
  /\ rows \in SUBSET Nat /\ cached \in SUBSET Nat
  /\ unannounced \in SUBSET {"upserts", "finalized"}
  /\ conf \in Config /\ stage \in {"boot", "wiring", "serving"}
  /\ op \in Jobs \cup {"free", "enrich"}
  /\ pc \in [Jobs -> JobPCs] /\ cap \in [Jobs -> Config] /\ outcome \in [Jobs -> Outcomes]
  /\ mutated \in SUBSET Jobs /\ began \in SUBSET Jobs
  /\ unlink \in [pc : {"none", "fenced", "done", "failed"}, src : Nat, id : Nat, gen : Nat]
  /\ epc \in {"none", "take", "acquire", "reset", "run", "release", "settle", "backoff"}
  /\ taken \in SUBSET Kinds /\ verdict \in {"ok", "failed", "more"}
  /\ resets \in SUBSET Kinds /\ owed \in SUBSET Kinds
  /\ closer \in {"none", "scans", "worker", "joined"}
  /\ sources \in Nat /\ requests \in Nat /\ restarts \in Nat

(* The types of the variables. *)
TypeOK == FlagsOK /\ StateOK

(* Whoever holds the operation token, and only it, is inside a scan or an  *)
(* enrichment pass, so the two never touch the catalogue together          *)
(* (acquireOperation, releaseOperation; the release of a scan that never   *)
(* acquired must not put a second token into the channel).                 *)
OperationExclusive ==
  /\ \A j \in Jobs : (op = j) <=> (j \in began /\ pc[j] \in {"scan", "finish", "release"})
  /\ (op = "enrich") <=> (epc \in {"reset", "run", "release"})

(* Tracks that are not marked missing all belong to the source that is     *)
(* linked: a scan that outlives Configure or Unlink, in whatever order     *)
(* their steps fall, cannot bring tracks of the old source back            *)
(* (withCurrentSource, the fence at the top of Unlink).                    *)
OnlyLinkedRows == rows \subseteq (IF db.root = NoRoot THEN {} ELSE {db.id})

(* m.scanning stands for exactly one scan goroutine that has not finished, *)
(* and a waiting scan (m.scanPending) always has a replaced job before it, *)
(* whose end will start it: it can be neither forgotten nor swallowed by a *)
(* job that believes itself current.                                       *)
PendingScanHasStarter ==
  /\ \A i, j \in Jobs : Unfinished(i) /\ Unfinished(j) => i = j
  /\ scanning <=> \E j \in Jobs : Unfinished(j)
  /\ scanPending /\ ~closed =>
       /\ scanning /\ conf.src # 0
       /\ \A j \in Jobs : Unfinished(j) => ~Current(j)

(* A job that was replaced is never current again, not even when a failed  *)
(* Unlink puts the very same source object back.                           *)
StaleForever ==
  [][\A j \in Jobs : Unfinished(j) /\ ~Current(j) /\ Unfinished(j)' => ~Current(j)']_vars

(* What scans changed since the last library.changed will still be         *)
(* announced (publishLibraryChangedLocked), also by a scan that fails or   *)
(* is replaced.  The exception are the tracks that a finalization marked   *)
(* missing or as there again, when its scan upserted nothing and then      *)
(* fails or is replaced: AfterStalePublish forgets them (scan.go:65, 88).  *)
ChangesAnnounced ==
  ~closed =>
    /\ "upserts" \in unannounced => \E j \in Jobs : Unfinished(j) /\ j \in mutated
    /\ "finalized" \in unannounced => \E j \in Jobs : pc[j] = "finish"

(* A requested retry reset is applied by the store, or is still set in the *)
(* flags or in the hands of the worker, until the manager is closed.       *)
ResetsNotLost == closed \/ owed \subseteq (resets \cup taken)

(* The pipeline only ever starts with every requested reset applied: none  *)
(* that failed or arrived while the worker waited is skipped over.         *)
PassSeesResets == [][epc # "run" /\ epc' = "run" => owed = {}]_vars

(* After Close returned, no scan and no enrichment goroutine is left, and  *)
(* none can be started.                                                    *)
CloseJoins == closer = "joined" => epc = "none" /\ \A j \in Jobs : pc[j] = "idle"

(***************************************************************************)
(* The inductive strengthening of the invariants above                     *)
(***************************************************************************)

(* The token: who took it is in the section between acquire and release *)
TokenInv ==
  /\ OperationExclusive
  /\ \A j \in Jobs : j \in began => pc[j] \in {"scan", "finish", "release"}

(* The settings, m.src and what an Unlink in progress remembers agree *)
LinkInv ==
  /\ db.root # NoRoot <=> db.id # 0
  /\ conf.src # 0 => conf.id = db.id /\ db.root # NoRoot /\ unlink.pc = "none"
  /\ unlink.pc \in {"fenced", "failed"} /\ unlink.src # 0 => unlink.id = db.id /\ db.root # NoRoot
  /\ conf.src <= sources /\ unlink.src <= sources

(* A job's source is an old one, or carries no later generation than the   *)
(* configured one, and an earlier one than a failing Unlink will put back. *)
GenerationInv ==
  \A j \in Jobs : Unfinished(j) =>
    /\ cap[j].src # 0 /\ cap[j].src <= sources
    /\ cap[j].src = conf.src => cap[j].gen <= conf.gen
    /\ unlink.pc \in {"fenced", "failed"} /\ cap[j].src = unlink.src => cap[j].gen < unlink.gen

(* A scan that was stopped was fenced or cancelled, and stays so *)
StoppedInv ==
  \A j \in Jobs : pc[j] = "finish" /\ outcome[j] = "stopped" => closed \/ ~Current(j)

(* The worker has nothing in hand outside a pass *)
TakenInv == closed \/ epc \in {"acquire", "reset"} \/ taken = {}

(* How far Close has come *)
CloseInv ==
  /\ closer # "none" => closed /\ stage # "wiring"
  /\ closer \in {"worker", "joined"} => \A j \in Jobs : pc[j] = "idle"
  /\ closer = "joined" => epc = "none"

(* A linked source is scanned to an end, unless it is replaced or unlinked *)
(* or the manager is closed first.                                         *)
LinkedSourceIsScanned == unscanned ~> (~unscanned \/ closed)

(* An accepted trigger is followed by a pass that begins after it.         *)
TriggerIsServed == wanted ~> (~wanted \/ closed)

(* Close returns.                                                          *)
CloseReturns == closed ~> (closer = "joined" \/ ~closed)

=============================================================================
