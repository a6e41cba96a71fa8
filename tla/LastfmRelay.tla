------------------------------ MODULE LastfmRelay ------------------------------
(***************************************************************************)
(* The Last.fm relay of one profile: the play sessions that playback       *)
(* events open, and the single worker that announces and scrobbles them.   *)
(* A run of the worker is many statements and calls to the provider; in    *)
(* between the profile may disconnect and connect anew, sessions may be    *)
(* deleted and inserted again, a lease may pass, the process may crash.    *)
(* How a connection comes about is the subject of LastfmConnect.           *)
(*                                                                         *)
(* A connection stands for its session key and is numbered as it is made.  *)
(* A play session is a row per id; its life counts how often the id was    *)
(* inserted anew.  A claim id matters only in being drawn by this run or   *)
(* by an earlier one: "mine".  Time is what it does to a row: "late" means *)
(* that next_attempt_at has come, or that a claim is older than its lease. *)
(***************************************************************************)
EXTENDS Naturals, FiniteSets

CONSTANTS
  Plays,            (* play session ids                                     *)
  MaxLives,         (* bound: how often a session id is inserted            *)
  MaxConns,         (* bound: connections made                              *)
  MaxInterruptions  (* bound: failing statements, crashes and stops         *)

ASSUME RelayAssumption == MaxLives \in Nat /\ MaxConns \in Nat /\ MaxInterruptions \in Nat

VARIABLES
  configured,       (* the instance has an API key and a secret             *)
  conn,             (* lastfm_profiles: the connection, or 0                *)
  made,             (* history: connections made so far                     *)
  row,              (* lastfm_play_sessions, per id                         *)
  life,             (* history: per id, insertions so far                   *)
  worker,           (* runOnce: position and local variables                *)
  interruptions,    (* the counter behind the bound                         *)
  taken, again,     (* history: lives Last.fm took a scrobble of; twice     *)
  answered, unread, (* history: lives answered for good; answers not read   *)
  doubt,            (* history: lives taken, but the answer lost or not kept*)
  announced, echo,  (* history: lives announced as now playing; twice       *)
  refused,          (* history: connections Last.fm called invalid          *)
  wronged,          (* history: connections the worker deleted otherwise    *)
  overtaken         (* history: connections made during a call of the worker*)

heardVars == <<taken, again, answered, unread, announced, echo, refused>>
connVars  == <<conn, made, wronged, overtaken>>
vars == <<configured, connVars, row, life, worker, interruptions, heardVars, doubt>>

Lives == Plays \X (1..MaxLives)
Absent == [relay |-> "absent", mine |-> FALSE, late |-> FALSE, far |-> FALSE, np |-> "none"]
Rest   == [at |-> "rest", todo |-> {}, batch |-> {}, play |-> <<>>, key |-> 0, answer |-> "none"]
Off    == [Rest EXCEPT !.at = "off"]

Life(s) == <<s, life[s]>>
Rows    == {s \in Plays : row[s].relay # "absent"}

Interrupt ==
  /\ interruptions < MaxInterruptions
  /\ interruptions' = interruptions + 1

(* DeleteLastfmData and DeleteAllLastfmData: one transaction.              *)
Erase ==
  /\ conn' = 0
  /\ row' = [s \in Plays |-> Absent]

-----------------------------------------------------------------------------
(* The administrator's credentials, and the profile's connection           *)

Configure ==
  /\ configured' = ~configured
  /\ UNCHANGED <<connVars, row, life, worker, interruptions, heardVars, doubt>>

Connect ==                         \* CompleteLastfmAttempt, over an old one perhaps
  /\ made < MaxConns
  /\ conn' = made + 1 /\ made' = made + 1
  /\ overtaken' = IF worker.key # 0 THEN overtaken \cup {made + 1} ELSE overtaken
  /\ UNCHANGED <<configured, wronged, row, life, worker, interruptions, heardVars, doubt>>

Disconnect ==                      \* by the profile or by the administrator
  /\ conn # 0
  /\ Erase
  /\ UNCHANGED <<configured, made, wronged, overtaken, life, worker, interruptions, heardVars, doubt>>

-----------------------------------------------------------------------------
(* Playback events: IngestPlaybackEvents is one transaction                *)

Started(s) ==
  /\ conn # 0 /\ row[s] = Absent /\ life[s] < MaxLives
  /\ \E far \in BOOLEAN :
       row' = [row EXCEPT ![s] = [relay |-> "pending", mine |-> FALSE, late |-> TRUE, far |-> far, np |-> "pending"]]
  /\ life' = [life EXCEPT ![s] = @ + 1]
  /\ UNCHANGED <<configured, connVars, worker, interruptions, heardVars, doubt>>

Progressed(s) ==                   \* the greatest position reported so far
  /\ conn # 0 /\ s \in Rows /\ ~row[s].far
  /\ row' = [row EXCEPT ![s].far = TRUE]
  /\ UNCHANGED <<configured, connVars, life, worker, interruptions, heardVars, doubt>>

PlayLate(s) ==
  /\ row[s].relay \in {"pending", "claimed"} /\ ~row[s].late
  /\ row' = [row EXCEPT ![s].late = TRUE]
  /\ UNCHANGED <<configured, connVars, life, worker, interruptions, heardVars, doubt>>

-----------------------------------------------------------------------------
(* The worker: announcing what plays now                                   *)

At(p) == worker.at = p

(* The loops end when nothing is left to claim, to announce, to scrobble.  *)
Onward(w) ==
  LET c == IF w.at = "claim_np" /\ w.todo = {} THEN [w EXCEPT !.at = "tell"]
           ELSE IF w.at = "claim" /\ w.todo = {} THEN [w EXCEPT !.at = "play"] ELSE w
  IN  IF c.at = "tell" /\ c.batch = {} THEN [c EXCEPT !.at = "list"]
      ELSE IF c.at = "play" /\ c.batch = {} THEN Rest ELSE c
Turns(w) == worker' = Onward(w)

(* runOnce, woken or ticked: what is too old is deleted first.             *)
Begin ==
  /\ At("rest")
  /\ \E old \in SUBSET Rows :
       row' = [s \in Plays |-> IF s \in old THEN Absent ELSE [row[s] EXCEPT !.mine = FALSE]]
  /\ IF configured THEN worker' = [worker EXCEPT !.at = "list_np"] ELSE UNCHANGED worker
  /\ UNCHANGED <<configured, connVars, life, interruptions, heardVars, doubt>>

List(from, to, those) ==
  /\ At(from)
  /\ Turns([worker EXCEPT !.at = to, !.todo = those])
  /\ UNCHANGED <<configured, connVars, row, life, interruptions, heardVars, doubt>>

ListNowPlaying == List("list_np", "claim_np", {s \in Rows : conn # 0 /\ row[s].np = "pending"})

(* One listed row: claimed if it still may be, and then read.              *)
Claim(from, reading, s, may, claimed) ==
  /\ At(from) /\ s \in worker.todo
  /\ row' = IF may THEN [row EXCEPT ![s] = claimed] ELSE row
  /\ Turns([worker EXCEPT !.todo = @ \ {s}, !.at = IF may THEN reading ELSE from,
                         !.play = IF may THEN Life(s) ELSE <<>>])
  /\ UNCHANGED <<configured, connVars, life, interruptions, heardVars, doubt>>

(* Mutant: the row is left pending until the call has returned.            *)
ClaimNowPlayingUnmarked(s) == Claim("claim_np", "read_np", s, row[s].np = "pending", row[s])
ClaimNowPlaying(s) ==
  Claim("claim_np", "read_np", s, row[s].np = "pending", [row[s] EXCEPT !.np = "attempted"])

(* A row deleted since fails the whole run; one inserted anew since goes   *)
(* into the batch as the one that was claimed.                             *)
Read(from, back) ==
  /\ At(from)
  /\ IF worker.play[1] \in Rows
     THEN Turns([worker EXCEPT !.at = back, !.batch = @ \cup {worker.play}, !.play = <<>>])
     ELSE worker' = Rest
  /\ UNCHANGED <<configured, connVars, row, life, interruptions, heardVars, doubt>>

ReadNowPlaying == Read("read_np", "claim_np")

(* GetLastfmConnection for the next of the batch; without one it is left.  *)
Fetch(from, to, p) ==
  /\ At(from) /\ p \in worker.batch
  /\ Turns([worker EXCEPT !.batch = @ \ {p}, !.at = IF conn # 0 THEN to ELSE from,
                         !.play = IF conn # 0 THEN p ELSE <<>>, !.key = conn])
  /\ UNCHANGED <<configured, connVars, row, life, interruptions, heardVars, doubt>>

Announce ==                        \* the call: Last.fm hears it whatever it answers
  /\ At("call_np")
  /\ \E answer \in {"ok", "failed", "invalid"} :
       /\ worker' = [worker EXCEPT !.at = "finish_np", !.answer = answer]
       /\ refused' = IF answer = "invalid" THEN refused \cup {worker.key} ELSE refused
  /\ announced' = announced \cup {worker.play}
  /\ echo' = IF worker.play \in announced THEN echo \cup {worker.play} ELSE echo
  /\ UNCHANGED <<configured, connVars, row, life, interruptions, taken, again, answered, unread, doubt>>

Following(at) == Onward([worker EXCEPT !.at = at, !.play = <<>>, !.key = 0, !.answer = "none"])

(* Mutant: any failure counts as an invalid session.                       *)
FinishNowPlayingHasty ==
  /\ At("finish_np")
  /\ row' = [row EXCEPT ![worker.play[1]].np = IF @ = "attempted" THEN "failed" ELSE @]
  /\ worker' = IF worker.answer # "ok" THEN [worker EXCEPT !.at = "purge_np"] ELSE Following("tell")
  /\ UNCHANGED <<configured, connVars, life, interruptions, heardVars, doubt>>
FinishNowPlaying ==
  /\ At("finish_np")
  /\ LET s == worker.play[1] IN
       row' = IF row[s].np \in {"attempted", "delivered", "failed"}
              THEN [row EXCEPT ![s].np = IF worker.answer = "ok" THEN "delivered" ELSE "failed"] ELSE row
  /\ worker' = IF worker.answer = "invalid" THEN [worker EXCEPT !.at = "purge_np"] ELSE Following("tell")
  /\ UNCHANGED <<configured, connVars, life, interruptions, heardVars, doubt>>

(* The worker deletes the profile's data: whatever connection it is now.   *)
Purge ==
  /\ Erase
  /\ wronged' = IF conn # 0 /\ conn \notin refused THEN wronged \cup {conn} ELSE wronged
  /\ UNCHANGED <<configured, made, overtaken, life, interruptions, heardVars, doubt>>

PurgeNowPlaying == At("purge_np") /\ worker' = Following("tell") /\ Purge

-----------------------------------------------------------------------------
(* The worker: scrobbling                                                  *)

MayOnce(s) == row[s].relay = "pending" /\ row[s].late   \* mutant: no lease is taken over
May(s) == row[s].relay \in {"pending", "claimed"} /\ row[s].late

ListPlays == List("list", "claim", {s \in Rows : conn # 0 /\ row[s].far /\ May(s)})
ClaimPlay(s) ==
  Claim("claim", "read", s, May(s), [row[s] EXCEPT !.relay = "claimed", !.mine = TRUE, !.late = FALSE])
ReadPlay == Read("read", "claim")

Final   == {"accepted", "declined", "invalid"}
Answers == Final \cup {"unread", "temporary"}

(* Last.fm takes the play or not, and its answer arrives, or is lost, or   *)
(* begins to arrive and cannot be read: then the error has no kind and     *)
(* counts as permanent.                                                    *)
Scrobble(takes, answer) ==
  /\ At("call")
  /\ answer \in Final => (takes <=> answer = "accepted")
  /\ worker' = [worker EXCEPT !.at = IF answer = "invalid" THEN "purge" ELSE "finish", !.answer = answer]
  /\ taken' = IF takes THEN taken \cup {worker.play} ELSE taken
  /\ again' = IF takes /\ worker.play \in taken THEN again \cup {worker.play} ELSE again
  /\ answered' = IF answer \in Final THEN answered \cup {worker.play} ELSE answered
  /\ unread' = IF answer = "unread" THEN unread \cup {worker.play} ELSE unread
  /\ doubt' = IF takes /\ answer = "temporary" THEN doubt \cup {worker.play} ELSE doubt
  /\ refused' = IF answer = "invalid" THEN refused \cup {worker.key} ELSE refused
  /\ UNCHANGED <<configured, connVars, row, life, interruptions, announced, echo>>

PurgePlay == At("purge") /\ worker' = [worker EXCEPT !.at = "finish"] /\ Purge

(* Mutant: the outcome is written by the session id alone.                 *)
FinishPlayById ==
  /\ At("finish")
  /\ LET s == worker.play[1] IN
       row' = IF s \in Rows
              THEN [row EXCEPT ![s].mine = FALSE, ![s].late = FALSE,
                               ![s].relay = IF worker.answer = "temporary" THEN "pending" ELSE "terminal"]
              ELSE row
  /\ worker' = Following("play")
  /\ UNCHANGED <<configured, connVars, life, interruptions, heardVars, doubt>>
FinishPlay ==
  /\ At("finish")
  /\ LET s == worker.play[1] IN
       row' = IF row[s].relay = "claimed" /\ row[s].mine
              THEN [row EXCEPT ![s].mine = FALSE, ![s].late = FALSE,
                               ![s].relay = IF worker.answer = "temporary" THEN "pending" ELSE "terminal"]
              ELSE row
  /\ worker' = Following("play")
  /\ UNCHANGED <<configured, connVars, life, interruptions, heardVars, doubt>>

Doubtful == IF worker.play \in taken THEN doubt \cup {worker.play} ELSE doubt

(* A statement fails.  Those that write an outcome are ignored, the others *)
(* end the run or skip the row; what was claimed stays claimed.            *)
StatementFails ==
  /\ worker.at \notin {"off", "rest", "call", "call_np"}
  /\ Interrupt
  /\ \/ worker.at \in {"tell", "play"}
        /\ \E p \in worker.batch : Turns([worker EXCEPT !.batch = @ \ {p}])
     \/ worker.at \notin {"tell", "play"}
        /\ worker' = CASE At("finish_np") /\ worker.answer = "invalid" -> [worker EXCEPT !.at = "purge_np"]
                       [] At("finish_np") /\ worker.answer # "invalid" -> Following("tell")
                       [] At("purge_np") -> Following("tell")
                       [] At("purge") -> [worker EXCEPT !.at = "finish"]
                       [] At("finish") -> Following("play")
                       [] OTHER -> Rest
  /\ doubt' = IF At("finish") THEN Doubtful ELSE doubt
  /\ UNCHANGED <<configured, connVars, row, life, heardVars>>

(* The process stops or crashes, in the middle of a call perhaps.          *)
Down ==
  /\ worker.at # "off" /\ Interrupt
  /\ worker' = Off
  /\ doubt' = Doubtful
  /\ UNCHANGED <<configured, connVars, row, life, heardVars>>

Start ==
  /\ At("off") /\ worker' = Rest
  /\ UNCHANGED <<configured, connVars, row, life, interruptions, heardVars, doubt>>

-----------------------------------------------------------------------------
Init ==
  /\ configured = TRUE
  /\ conn = 0 /\ made = 0
  /\ row = [s \in Plays |-> Absent] /\ life = [s \in Plays |-> 0]
  /\ worker = Rest /\ interruptions = 0
  /\ taken = {} /\ again = {} /\ answered = {} /\ unread = {} /\ doubt = {}
  /\ announced = {} /\ echo = {} /\ refused = {} /\ wronged = {} /\ overtaken = {}

WorkerStep ==
  \/ ListNowPlaying \/ ReadNowPlaying \/ ListPlays \/ ReadPlay
  \/ \E s \in worker.todo : ClaimNowPlaying(s) \/ ClaimPlay(s)
  \/ \E p \in worker.batch : Fetch("tell", "call_np", p) \/ Fetch("play", "call", p)
  \/ Announce \/ FinishNowPlaying \/ PurgeNowPlaying
  \/ \E takes \in BOOLEAN, answer \in Answers : Scrobble(takes, answer)
  \/ PurgePlay \/ FinishPlay

Next ==
  \/ Configure \/ Connect \/ Disconnect
  \/ \E s \in Plays : Started(s) \/ Progressed(s) \/ PlayLate(s)
  \/ Begin \/ WorkerStep
  \/ StatementFails \/ Down \/ Start

(* The worker runs on, its ticker ticks, leases and back-offs pass, a      *)
(* process that went down is started again, and Last.fm does not answer    *)
(* every attempt at the same play with a temporary failure.                *)
Responds(s) ==
  /\ At("call") /\ worker.play[1] = s
  /\ \E takes \in BOOLEAN, answer \in Answers \ {"temporary"} : Scrobble(takes, answer)

Fairness ==
  /\ WF_vars(WorkerStep) /\ WF_vars(Begin) /\ WF_vars(Start)
  /\ \A s \in Plays : WF_vars(PlayLate(s)) /\ SF_vars(Responds(s))

Spec == Init /\ [][Next]_vars /\ Fairness

-----------------------------------------------------------------------------
(* Properties                                                              *)

Places  == {"off", "rest", "list_np", "claim_np", "read_np", "tell", "call_np", "finish_np", "purge_np",
            "list", "claim", "read", "play", "call", "purge", "finish"}
Replies == {"none", "ok", "failed"} \cup Answers
Workers == [at : Places, todo : SUBSET Plays, batch : SUBSET Lives, play : Lives \cup {<<>>},
            key : 0..MaxConns, answer : Replies]
Session == [relay : {"absent", "pending", "claimed", "terminal"}, mine : BOOLEAN, late : BOOLEAN, far : BOOLEAN,
            np : {"none", "pending", "attempted", "delivered", "failed"}]

(* The variables keep their types.                                         *)
TypeOK ==
  /\ configured \in BOOLEAN
  /\ made \in 0..MaxConns /\ conn \in 0..made
  /\ row \in [Plays -> Session] /\ life \in [Plays -> 0..MaxLives]
  /\ worker \in Workers
  /\ interruptions \in 0..MaxInterruptions
  /\ taken \cup again \cup answered \cup unread \cup doubt \cup announced \cup echo \subseteq Lives
  /\ refused \cup wronged \cup overtaken \subseteq 1..made

(* "Last.fm explicitly says failures must not be retried" (lastfm.go:269): *)
(* no play session is announced twice, whatever fails or crashes.          *)
AnnouncedOnce == echo = {}

(* runOnce deletes a profile's connection only after Last.fm called it     *)
(* invalid, or when the profile connected anew while the worker was in the *)
(* middle of a call: then the new connection is deleted for the old one.   *)
PurgesOnlyRefused == wronged \subseteq overtaken

(* What the relay promises for each play session; see ScrobblePromise.  A  *)
(* play whose answer could not be read is settled like an answered one     *)
(* (client.go:123, providerKind), although nobody knows whether Last.fm    *)
(* took it: that is the exception the promise makes for unread.            *)
Promise == INSTANCE ScrobblePromise WITH
  Lives   <- Lives,
  open    <- {Life(s) : s \in {t \in Plays : row[t].relay \in {"pending", "claimed"}}},
  settled <- {Life(s) : s \in {t \in Plays : row[t].relay = "terminal"}}
KeepsPromise == Promise!Spec

(* ClaimPendingLastfmPlays, back-offs and the five-minute takeover: a play *)
(* that was heard far enough is settled, or goes with its connection or of *)
(* age, unless the administrator takes the credentials away.               *)
PlaysSettle ==
  \A s \in Plays :
    row[s].relay \in {"pending", "claimed"} /\ row[s].far ~> row[s].relay \in {"absent", "terminal"} \/ ~configured

=============================================================================
