-------------------------- MODULE ArtifactPipeline --------------------------
(***************************************************************************)
(* artifacts.Manager and its table: requests enter rows that one worker    *)
(* transcodes into the cache directory; after each transcode the worker    *)
(* evicts until the cache fits its budget.                                 *)
(*                                                                         *)
(* A key is a track at a source version with a format and a bitrate.       *)
(* Sizes are one unit each.  created_at has a resolution of a second and   *)
(* ties are broken by random ids, so queued rows are taken in any order.   *)
(* Which rows are evicted first (released, last_access) is left open, so   *)
(* that touching and releasing a row change nothing here.                  *)
(***************************************************************************)
EXTENDS Naturals, Sequences, FiniteSets

CONSTANTS
  Clients,          (* requests that can be in flight at once               *)
  Keys,             (* what can be asked for                                *)
  Originals,        (* the keys whose format is original                    *)
  Batches,          (* the batches that are requested                       *)
  Budget,           (* artifact_cache_max_bytes, in artifacts               *)
  MaxRows,          (* bound: rows ever created                             *)
  MaxInterruptions  (* bound: failing statements, crashes and stops         *)

ASSUME PipelineAssumption ==
  /\ Keys # {} /\ Originals \subseteq Keys /\ Batches \subseteq Seq(Keys)
  /\ Budget \in Nat /\ MaxRows \in Nat /\ MaxInterruptions \in Nat

Ids == 1..MaxRows
InTable == {"queued", "processing", "ready", "failed"}
Settled == {"ready", "failed"}

VARIABLES
  status,         (* per id: unused, a status of the table, or deleted      *)
  key,            (* per id: track and version, format, bitrate             *)
  files,          (* the ids whose file is in the cache directory           *)
  told,           (* history: rows whose ready or failed was published      *)
  wake,           (* Manager.wake holds a token                             *)
  life,           (* the process: down, up, stopping, stopped               *)
  worker,         (* where the worker is, its row, the victims left and the
                     one in hand                                            *)
  req,            (* per client: Request's position and local variables     *)
  cut,            (* history: rows whose handling was cut short             *)
  unwoken,        (* history: rows left queued with nobody told to look     *)
  interruptions   (* the counter behind the bound                           *)

rowVars  == <<status, key>>
restVars == <<told, wake, life, cut, unwoken, interruptions>>
vars == <<rowVars, files, restVars, worker, req>>

Rows      == {i \in Ids : status[i] \in InTable}
RowsOf(k) == {i \in Rows : key[i] = k}
Queued    == {i \in Ids : status[i] = "queued"}
Cached    == {i \in Ids : status[i] = "ready" /\ key[i] \notin Originals}
Unused    == {i \in Ids : status[i] = "unused"}

Interrupt ==                       \* something goes wrong, or is stopped
  /\ interruptions < MaxInterruptions
  /\ interruptions' = interruptions + 1

Idle == [at |-> "idle", todo |-> <<>>, id |-> 0, created |-> FALSE,
         seen |-> "none", queuedAny |-> FALSE, made |-> {}]
Off  == [at |-> "off", id |-> 0, victims |-> {}, victim |-> 0]

-----------------------------------------------------------------------------
(* Request                                                                 *)

Becomes(c, r) == req' = [req EXCEPT ![c] = r]

Ask(c) ==
  /\ life = "up" /\ req[c].at = "idle"
  /\ \E batch \in Batches : Becomes(c, [Idle EXCEPT !.at = "next", !.todo = batch])
  /\ UNCHANGED <<rowVars, files, restVars, worker>>

(* UpsertArtifact or Request returns an error: no kick.                    *)
GiveUp(c) ==
  /\ Becomes(c, Idle)
  /\ unwoken' = unwoken \cup (req[c].made \cap Queued)
  /\ cut' = IF req[c].at = "reread" /\ req[c].created THEN cut \cup {req[c].id} ELSE cut

TrackMissing(c) ==
  /\ req[c].at = "next" /\ req[c].todo # <<>>
  /\ GiveUp(c)
  /\ UNCHANGED <<rowVars, files, told, wake, life, worker, interruptions>>

RequestFails(c) ==                 \* a failing statement, or a client that hung up
  /\ req[c].at \in {"insert", "reread"} \/ (req[c].at = "next" /\ req[c].todo # <<>>)
  /\ Interrupt
  /\ GiveUp(c)
  /\ UNCHANGED <<rowVars, files, told, wake, life, worker>>

Find(c) ==
  /\ req[c].at = "next" /\ req[c].todo # <<>>
  /\ LET found == RowsOf(Head(req[c].todo)) IN
       \/ \E i \in found : Becomes(c, [req[c] EXCEPT !.at = "reread", !.id = i, !.seen = "none"])
       \/ found = {} /\ Becomes(c, [req[c] EXCEPT !.at = "insert", !.seen = "none"])
  /\ UNCHANGED <<rowVars, files, restVars, worker>>

Insert(c) ==
  LET k == Head(req[c].todo) IN
  /\ req[c].at = "insert" /\ RowsOf(k) = {}
  /\ \E i \in Unused :
       /\ \A l \in Unused : i <= l
       /\ status' = [status EXCEPT ![i] = IF k \in Originals THEN "ready" ELSE "queued"]
       /\ key' = [key EXCEPT ![i] = k]
       /\ Becomes(c, [req[c] EXCEPT !.at = "reread", !.id = i, !.created = TRUE, !.made = @ \cup {i}])
  /\ UNCHANGED <<files, restVars, worker>>

(* The unique index refuses the row of a request that lost the race.  (The *)
(* bound MaxRows ends a request the same way.)                             *)
Refused(c) ==
  /\ req[c].at = "insert" /\ (RowsOf(Head(req[c].todo)) # {} \/ Unused = {})
  /\ GiveUp(c)
  /\ UNCHANGED <<rowVars, files, told, wake, life, worker, interruptions>>

(* GetArtifact at the end of UpsertArtifact, which ignores "not found"; so *)
(* does the UPDATE before it, if the row has been evicted since Find.      *)
Reread(c) ==
  /\ req[c].at = "reread"
  /\ LET seen == IF req[c].id \in Rows THEN status[req[c].id] ELSE "nothing" IN
       Becomes(c, IF req[c].created
                  THEN [req[c] EXCEPT !.at = "publish", !.seen = seen]
                  ELSE [req[c] EXCEPT !.at = "next", !.seen = seen, !.todo = Tail(@), !.id = 0])
  /\ UNCHANGED <<rowVars, files, restVars, worker>>

(* Mutant: a row that came back queued does not count.                     *)
QueuedIgnored(before, seen) == before
QueuedAny(before, seen) == before \/ seen = "queued"

Publish(c) ==
  LET r == req[c] IN
  /\ r.at = "publish"
  /\ Becomes(c, [r EXCEPT !.at = "next", !.todo = Tail(@), !.id = 0, !.created = FALSE,
                           !.seen = "none", !.queuedAny = QueuedAny(@, r.seen)])
  /\ \/ /\ told' = IF r.seen \in Settled THEN told \cup {r.id} ELSE told
        /\ UNCHANGED <<cut, interruptions>>
     \/ Interrupt /\ cut' = cut \cup {r.id} /\ UNCHANGED told
  /\ UNCHANGED <<rowVars, files, wake, life, unwoken, worker>>

Finish(c) ==                       \* the kick, if anything was queued
  /\ req[c].at = "next" /\ req[c].todo = <<>>
  /\ wake' = (wake \/ req[c].queuedAny)
  /\ Becomes(c, Idle)
  /\ UNCHANGED <<rowVars, files, told, life, cut, unwoken, interruptions, worker>>

RequestStep(c) ==
  \/ TrackMissing(c) \/ RequestFails(c) \/ Find(c)
  \/ Insert(c) \/ Refused(c) \/ Reread(c) \/ Publish(c) \/ Finish(c)

-----------------------------------------------------------------------------
(* The worker                                                              *)

WorkerAt(place) == worker' = [worker EXCEPT !.at = place]
WorkerRests(place) == worker' = [Off EXCEPT !.at = place]

(* NextQueuedArtifact; a failing query counts as an empty queue.           *)
LookForWork ==
  /\ worker.at = "look"
  /\ \/ Queued = {} /\ WorkerRests("wait") /\ unwoken' = {} /\ UNCHANGED interruptions
     \/ /\ \E i \in Queued : worker' = [worker EXCEPT !.at = "took", !.id = i]
        /\ unwoken' = {} /\ UNCHANGED interruptions
     \/ Interrupt /\ WorkerRests("wait") /\ unwoken' = unwoken \cup Queued
  /\ UNCHANGED <<rowVars, files, told, wake, life, cut, req>>

WakeUp ==
  /\ worker.at = "wait" /\ wake
  /\ wake' = FALSE /\ WorkerRests("look")
  /\ UNCHANGED <<rowVars, files, told, life, cut, unwoken, interruptions, req>>

Leave ==                           \* work returns and closes stopped
  /\ life = "stopping" /\ worker.at \in {"wait", "took"}
  /\ life' = "stopped" /\ worker' = Off
  /\ UNCHANGED <<rowVars, files, told, wake, cut, unwoken, interruptions, req>>

MarkProcessing ==                  \* and the event that says so
  /\ worker.at = "took" /\ life # "stopping"
  /\ \/ /\ status' = [status EXCEPT ![worker.id] = "processing"]
        /\ WorkerAt("transcode") /\ UNCHANGED interruptions
     \/ Interrupt /\ WorkerRests("look") /\ UNCHANGED status
  /\ UNCHANGED <<key, files, told, wake, life, cut, unwoken, req>>

(* Opening the source, ffmpeg into a .partial file, its rename and a look  *)
(* at its size, which may fail by itself.  Mutant: ffmpeg's exit status is *)
(* not looked at.                                                          *)
AfterTranscodeBlind(done) == "made"
AfterTranscode(done) == IF done THEN "made" ELSE "failed"

Transcode ==
  /\ worker.at = "transcode"
  /\ \/ /\ \E done \in BOOLEAN :
             /\ files' = IF done THEN files \cup {worker.id} ELSE files
             /\ WorkerAt(AfterTranscode(done))
        /\ UNCHANGED interruptions
     \/ Interrupt /\ files' = files \cup {worker.id} /\ WorkerAt("failed")
  /\ UNCHANGED <<rowVars, told, wake, life, cut, unwoken, req>>

(* MarkArtifactReady or MarkArtifactFailed.  After an error the worker     *)
(* only logs it and looks for other work.                                  *)
Mark(from, new, next) ==
  /\ worker.at = from
  /\ \/ /\ status' = [status EXCEPT ![worker.id] = new]
        /\ WorkerAt(next) /\ UNCHANGED <<cut, interruptions>>
     \/ Interrupt /\ WorkerRests("look") /\ cut' = cut \cup {worker.id} /\ UNCHANGED status
  /\ UNCHANGED <<key, files, told, wake, life, unwoken, req>>

MarkReady  == Mark("made", "ready", "tellReady")
MarkFailed == Mark("failed", "failed", "tellFailed")

(* Publishing the row; an error is logged and the worker goes on.  Mutant: *)
(* nothing is published.                                                   *)
TellNobody == UNCHANGED <<told, cut, interruptions>>
Tell ==
  \/ told' = told \cup {worker.id} /\ UNCHANGED <<cut, interruptions>>
  \/ Interrupt /\ cut' = cut \cup {worker.id} /\ UNCHANGED told

TellReady ==
  /\ worker.at = "tellReady"
  /\ WorkerAt("measure") /\ Tell
  /\ UNCHANGED <<rowVars, files, wake, life, unwoken, req>>

TellFailed ==
  /\ worker.at = "tellFailed"
  /\ WorkerRests("look") /\ Tell
  /\ UNCHANGED <<rowVars, files, wake, life, unwoken, req>>

-----------------------------------------------------------------------------
(* EnforceBudget                                                           *)

(* Mutants: one candidate too few, or one too many.                        *)
NeedShort(used) == used - Budget - 1
NeedMore(used) == used - Budget + 1
Need(used) == used - Budget

Measure ==                         \* ArtifactCacheUsage and ArtifactEvictionCandidates
  LET used == Cardinality(Cached) IN
  /\ worker.at = "measure"
  /\ \/ /\ used <= Budget /\ WorkerRests("look") /\ UNCHANGED <<cut, interruptions>>
     \/ /\ used > Budget
        /\ \E S \in SUBSET Cached :
             /\ Cardinality(S) = Need(used)
             /\ worker' = [worker EXCEPT !.at = IF S = {} THEN "look" ELSE "file", !.victims = S]
        /\ UNCHANGED <<cut, interruptions>>
     \/ Interrupt /\ WorkerRests("look") /\ cut' = cut \cup {worker.id}
  /\ UNCHANGED <<rowVars, files, told, wake, life, unwoken, req>>

RemoveFile ==                      \* an error is logged and the row still goes
  /\ worker.at = "file"
  /\ \E v \in worker.victims :
       /\ worker' = [worker EXCEPT !.at = "row", !.victim = v]
       /\ \/ files' = files \ {v} /\ UNCHANGED interruptions
          \/ Interrupt /\ UNCHANGED files
  /\ UNCHANGED <<rowVars, told, wake, life, cut, unwoken, req>>

DeleteArtifact ==
  LET left == worker.victims \ {worker.victim} IN
  /\ worker.at = "row"
  /\ \/ /\ status' = [status EXCEPT ![worker.victim] = "deleted"]
        /\ told' = told \ {worker.victim} /\ cut' = cut \ {worker.victim}
        /\ IF left = {} THEN WorkerRests("look")
           ELSE worker' = [worker EXCEPT !.at = "file", !.victims = left, !.victim = 0]
        /\ UNCHANGED interruptions
     \/ /\ Interrupt
        /\ cut' = cut \cup worker.victims \cup {worker.id}
        /\ WorkerRests("look") /\ UNCHANGED <<status, told>>
  /\ UNCHANGED <<key, files, wake, life, unwoken, req>>

WorkerStep ==
  \/ LookForWork \/ WakeUp \/ Leave \/ MarkProcessing \/ Transcode
  \/ MarkReady \/ MarkFailed \/ TellReady \/ TellFailed \/ Measure \/ RemoveFile \/ DeleteArtifact

-----------------------------------------------------------------------------
(* The process                                                             *)

Start ==                           \* a fresh Manager; Start kicks
  /\ life = "down"
  /\ life' = "up" /\ wake' = TRUE /\ worker' = [Off EXCEPT !.at = "look"]
  /\ UNCHANGED <<rowVars, files, told, cut, unwoken, interruptions, req>>

Stop ==                            \* waits for the worker to leave
  /\ life = "up" /\ Interrupt
  /\ life' = "stopping"
  /\ UNCHANGED <<rowVars, files, told, wake, cut, unwoken, worker, req>>

(* What the end of the process cuts short: the row being transcoded or     *)
(* announced, an eviction, and the rows of requests not announced yet.     *)
InHand ==
  (IF worker.at \in {"off", "look", "wait", "took"} THEN {} ELSE {worker.id} \cup worker.victims)
  \cup {req[c].id : c \in {d \in Clients : req[d].at \in {"reread", "publish"} /\ req[d].created}}

Ends ==
  /\ life' = "down" /\ wake' = FALSE /\ worker' = Off
  /\ req' = [c \in Clients |-> Idle]
  /\ cut' = cut \cup InHand
  /\ UNCHANGED <<rowVars, files, told, unwoken>>

Exit  == life = "stopped" /\ Ends /\ UNCHANGED interruptions
Crash == life # "down" /\ Interrupt /\ Ends

Init ==
  /\ status = [i \in Ids |-> "unused"] /\ key = [i \in Ids |-> CHOOSE k \in Keys : TRUE]
  /\ files = {} /\ told = {}
  /\ wake = FALSE /\ life = "down" /\ worker = Off
  /\ req = [c \in Clients |-> Idle]
  /\ cut = {} /\ unwoken = {} /\ interruptions = 0

Next ==
  \/ \E c \in Clients : Ask(c) \/ RequestStep(c)
  \/ WorkerStep \/ Start \/ Stop \/ Exit \/ Crash

Spec == Init /\ [][Next]_vars

(* Goroutines are scheduled, requests run to their end, and a server that  *)
(* went down is started again.  Nobody has to ask or stop.                 *)
FairSpec ==
  /\ Spec
  /\ WF_vars(WorkerStep) /\ WF_vars(Start) /\ WF_vars(Exit)
  /\ \A c \in Clients : WF_vars(RequestStep(c))

-----------------------------------------------------------------------------
(* Properties                                                              *)

InHandPlaces == {"took", "transcode", "made", "failed", "tellReady", "tellFailed", "measure",
                 "file", "row"}
Worker == [at : {"off", "look", "wait"} \cup InHandPlaces,
           id : Ids \cup {0}, victims : SUBSET Ids, victim : Ids \cup {0}]
Request == [at : {"idle", "next", "insert", "reread", "publish"}, todo : Seq(Keys),
            id : Ids \cup {0}, created : BOOLEAN, seen : InTable \cup {"none", "nothing"},
            queuedAny : BOOLEAN, made : SUBSET Ids]

(* The type invariant.                                                     *)
TypeOK ==
  /\ status \in [Ids -> InTable \cup {"unused", "deleted"}]
  /\ key \in [Ids -> Keys]
  /\ files \subseteq Ids /\ told \subseteq Ids
  /\ wake \in BOOLEAN /\ life \in {"down", "up", "stopping", "stopped"}
  /\ worker \in Worker /\ req \in [Clients -> Request]
  /\ cut \subseteq Ids /\ unwoken \subseteq Ids /\ interruptions \in 0..MaxInterruptions

(* The worker never sleeps on work: while it waits without a wake token,   *)
(* every queued row belongs to a request that is still going to kick, or   *)
(* was left behind by a request that failed half-way or by a failing query *)
(* of the queue (Request returns errors before the kick).                  *)
WakeNotLost ==
  worker.at = "wait" /\ ~wake
    => \A i \in Queued : i \in unwoken \/ \E c \in Clients : i \in req[c].made

(* A transcode that is ready can be downloaded: its file is there until    *)
(* the worker deletes file and row, unless that was cut short (Open,       *)
(* EnforceBudget).                                                         *)
ReadyHasFile ==
  \A i \in Cached : i \in files \/ i \in cut \/ (worker.at = "row" /\ worker.victim = i)

(* Between two transcodes the cache fits its budget, not counting rows of  *)
(* a transcode or an eviction that was cut short.                          *)
WithinBudget ==
  worker.at \in {"off", "look", "wait", "took"} => Cardinality(Cached \ cut) <= Budget

(* Nothing is evicted from a cache that fits its budget, although the      *)
(* victims are chosen once and deleted one after the other.                *)
NoNeedlessEviction ==
  [][\A i \in Ids : status[i] = "ready" /\ status'[i] = "deleted" => Cardinality(Cached) > Budget]_vars

(* A client that waits for artifact.updated hears how its artifact ended   *)
(* up: whoever made the row ready or failed, or created it so, has said so *)
(* or is about to, unless it was cut short.                                *)
SettledIsTold ==
  \A i \in Ids : status[i] \in Settled =>
    \/ i \in told \/ i \in cut
    \/ worker.at \in {"tellReady", "tellFailed"} /\ worker.id = i
    \/ \E c \in Clients : req[c].at \in {"reread", "publish"} /\ req[c].created /\ req[c].id = i

(* The strengthenings that make the invariants above inductive.  A request *)
(* that works on a key has one, and a request or a worker that works on a  *)
(* row knows its id.                                                       *)
Placed(r) ==
  /\ r.at \in {"insert", "reread", "publish"} => r.todo # <<>>
  /\ r.at \in {"reread", "publish"} => r.id \in Ids

PlacesOK ==
  /\ \A c \in Clients : Placed(req[c])
  /\ worker.at \in InHandPlaces => worker.id \in Ids

(* A request that made a queued row will kick: it knows already that       *)
(* something is queued, or is about to find out.                           *)
FindsQueued(r, i) ==
  /\ r.id = i /\ r.created
  /\ r.at = "reread" \/ (r.at = "publish" /\ r.seen = "queued")

MadeInv ==
  \A c \in Clients :
    /\ req[c].made \cap Unused = {}
    /\ \A i \in req[c].made \cap Queued : req[c].queuedAny \/ FindsQueued(req[c], i)

(* The worker marks ready only what it has made, and evicts only what is   *)
(* cached.                                                                 *)
FileInv ==
  /\ worker.at = "made" => worker.id \in files
  /\ worker.at \in {"file", "row"} => worker.victims \subseteq Cached
  /\ worker.at = "row" => worker.victim \in worker.victims

(* SettledIsTold, where a request answers for originals only.              *)
AnsweredBy(c, i) ==
  /\ key[i] \in Originals /\ req[c].created /\ req[c].id = i
  /\ req[c].at = "reread" \/ (req[c].at = "publish" /\ req[c].seen \in Settled)

ToldInv ==
  \A i \in Ids : status[i] \in Settled =>
    \/ i \in told \/ i \in cut
    \/ worker.at \in {"tellReady", "tellFailed"} /\ worker.id = i
    \/ \E c \in Clients : AnsweredBy(c, i)

(* A queued artifact gets ready or failed, unless its transcode was cut    *)
(* short or its request failed before the kick.                            *)
SettlesUnlessCut ==
  \A i \in Ids : status[i] = "queued"
    ~> (status[i] \in Settled \cup {"deleted"} \/ i \in cut \cup unwoken)

=============================================================================
