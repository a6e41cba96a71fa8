----------------------- MODULE ArtifactPipelineProofs -----------------------
(***************************************************************************)
(* Proofs about ArtifactPipeline for all constants that satisfy            *)
(* PipelineAssumption: any number of requests, keys, rows and              *)
(* interruptions, and any budget: no wake-up is lost, a ready transcode    *)
(* has its file, whoever waits hears how it ended up, and the budget is    *)
(* neither exceeded nor undercut.                                          *)
(***************************************************************************)
EXTENDS ArtifactPipeline, TLAPS, FiniteSetTheorems

-----------------------------------------------------------------------------
(* Records: what one request or the worker becomes                         *)

Places == {"idle", "next", "insert", "reread", "publish"}
Seen   == InTable \cup {"none", "nothing"}

(* A request stays a request when one of its fields gets a proper value.   *)
LEMMA RequestFields ==
  ASSUME NEW r \in Request
  PROVE  /\ \A x \in Places : [r EXCEPT !.at = x] \in Request
         /\ \A x \in Seq(Keys) : [r EXCEPT !.todo = x] \in Request
         /\ \A x \in Ids \cup {0} : [r EXCEPT !.id = x] \in Request
         /\ \A x \in BOOLEAN : [r EXCEPT !.created = x] \in Request
         /\ \A x \in Seen : [r EXCEPT !.seen = x] \in Request
         /\ \A x \in BOOLEAN : [r EXCEPT !.queuedAny = x] \in Request
         /\ \A x \in SUBSET Ids : [r EXCEPT !.made = x] \in Request
  <1> USE DEF Request, Places, Seen
  <1>1. \A x \in Places : [r EXCEPT !.at = x] \in Request
    BY SMT
  <1>2. \A x \in Seq(Keys) : [r EXCEPT !.todo = x] \in Request
    BY SMT
  <1>3. \A x \in Ids \cup {0} : [r EXCEPT !.id = x] \in Request
    BY SMT
  <1>4. \A x \in BOOLEAN : [r EXCEPT !.created = x] \in Request
    BY SMT
  <1>5. \A x \in Seen : [r EXCEPT !.seen = x] \in Request
    BY SMT
  <1>6. \A x \in BOOLEAN : [r EXCEPT !.queuedAny = x] \in Request
    BY SMT
  <1>7. \A x \in SUBSET Ids : [r EXCEPT !.made = x] \in Request
    BY SMT
  <1>8. QED
    BY Zenon, <1>1, <1>2, <1>3, <1>4, <1>5, <1>6, <1>7

LEMMA WorkerFields ==
  ASSUME NEW w \in Worker
  PROVE  /\ \A x \in {"off", "look", "wait"} \cup InHandPlaces : [w EXCEPT !.at = x] \in Worker
         /\ \A x \in Ids \cup {0} : [w EXCEPT !.id = x] \in Worker
         /\ \A x \in SUBSET Ids : [w EXCEPT !.victims = x] \in Worker
         /\ \A x \in Ids \cup {0} : [w EXCEPT !.victim = x] \in Worker
  <1> USE DEF Worker
  <1>1. \A x \in {"off", "look", "wait"} \cup InHandPlaces : [w EXCEPT !.at = x] \in Worker
    BY SMT
  <1>2. \A x \in Ids \cup {0} : [w EXCEPT !.id = x] \in Worker
    BY SMT
  <1>3. \A x \in SUBSET Ids : [w EXCEPT !.victims = x] \in Worker
    BY SMT
  <1>4. \A x \in Ids \cup {0} : [w EXCEPT !.victim = x] \in Worker
    BY SMT
  <1>5. QED
    BY Zenon, <1>1, <1>2, <1>3, <1>4

LEMMA Constants ==
  Idle \in Request /\ Off \in Worker
  BY SMT DEF Idle, Off, Request, Worker, InTable

-----------------------------------------------------------------------------
(* Type correctness                                                        *)

TypeInv == TypeOK /\ PlacesOK

LEMMA InitType == Init => TypeInv
  <1> SUFFICES ASSUME Init PROVE TypeInv
    OBVIOUS
  <1>1. (CHOOSE k \in Keys : TRUE) \in Keys
    BY PipelineAssumption
  <1>2. TypeOK
    <2>1. status \in [Ids -> InTable \cup {"unused", "deleted"}] /\ key \in [Ids -> Keys]
      BY SMT, <1>1 DEF Init
    <2>2. worker \in Worker /\ req \in [Clients -> Request]
      BY SMT, Constants DEF Init
    <2>3. /\ files \subseteq Ids /\ told \subseteq Ids /\ cut \subseteq Ids /\ unwoken \subseteq Ids
          /\ wake \in BOOLEAN /\ life \in {"down", "up", "stopping", "stopped"}
      BY Zenon DEF Init
    <2>4. interruptions \in 0..MaxInterruptions
      BY SMT, PipelineAssumption DEF Init
    <2>5. QED
      BY Zenon, <2>1, <2>2, <2>3, <2>4 DEF TypeOK
  <1>3. PlacesOK
    BY SMT DEF Init, PlacesOK, Placed, Idle, Off, InHandPlaces
  <1>4. QED
    BY <1>2, <1>3 DEF TypeInv

LEMMA BecomesType ==
  ASSUME TypeInv, NEW c \in Clients, NEW r \in Request, Placed(r), Becomes(c, r)
  PROVE  req' \in [Clients -> Request] /\ \A d \in Clients : Placed(req'[d])
  <1>1. req \in [Clients -> Request] /\ \A d \in Clients : Placed(req[d])
    BY DEF TypeInv, TypeOK, PlacesOK
  <1>2. req' = [req EXCEPT ![c] = r]
    BY DEF Becomes
  <1>3. QED
    BY SMT, <1>1, <1>2

(* What each step of a request makes of its record                         *)
LEMMA RequestType ==
  ASSUME TypeInv, NEW c \in Clients, Ask(c) \/ RequestStep(c)
  PROVE  req' \in [Clients -> Request] /\ \A d \in Clients : Placed(req'[d])
  <1> DEFINE old == req[c]
  <1>1. old \in Request /\ Placed(old)
    BY DEF TypeInv, TypeOK, PlacesOK
  <1>2. Placed(Idle)
    BY SMT DEF Placed, Idle
  <1>3. CASE Ask(c)
    <2>1. PICK batch \in Batches : Becomes(c, [Idle EXCEPT !.at = "next", !.todo = batch])
      BY <1>3 DEF Ask
    <2>2. batch \in Seq(Keys)
      BY <2>1, PipelineAssumption
    <2>3. [[Idle EXCEPT !.at = "next"] EXCEPT !.todo = batch] \in Request
      BY <2>2, Constants, RequestFields DEF Places
    <2>4. Placed([Idle EXCEPT !.at = "next", !.todo = batch])
      BY SMT DEF Placed, Idle
    <2>5. QED
      BY <2>1, <2>3, <2>4, BecomesType
  <1>4. CASE TrackMissing(c) \/ RequestFails(c) \/ Refused(c) \/ Finish(c)
    <2>1. Becomes(c, Idle)
      BY Zenon, <1>4 DEF TrackMissing, RequestFails, Refused, Finish, GiveUp
    <2>2. QED
      BY <2>1, <1>2, Constants, BecomesType
  <1>5. CASE Find(c)
    <2>1. CASE \E i \in RowsOf(Head(old.todo)) :
                 Becomes(c, [old EXCEPT !.at = "reread", !.id = i, !.seen = "none"])
      <3>1. PICK i \in RowsOf(Head(old.todo)) :
               Becomes(c, [old EXCEPT !.at = "reread", !.id = i, !.seen = "none"])
        BY <2>1
      <3>2. i \in Ids
        BY <3>1 DEF RowsOf, Rows
      <3>3. [[old EXCEPT !.at = "reread"] EXCEPT !.id = i] \in Request
        BY <1>1, <3>2, RequestFields DEF Places
      <3>4. [[[old EXCEPT !.at = "reread"] EXCEPT !.id = i] EXCEPT !.seen = "none"] \in Request
        BY <3>3, RequestFields DEF Seen
      <3>5. old.todo # <<>>
        BY <1>5 DEF Find
      <3>6. Placed([old EXCEPT !.at = "reread", !.id = i, !.seen = "none"])
        BY SMT, <1>1, <3>2, <3>5 DEF Placed, Request
      <3>7. QED
        BY <3>1, <3>4, <3>6, BecomesType
    <2>2. CASE Becomes(c, [old EXCEPT !.at = "insert", !.seen = "none"])
      <3>1. [[old EXCEPT !.at = "insert"] EXCEPT !.seen = "none"] \in Request
        BY <1>1, RequestFields DEF Places, Seen
      <3>2. old.todo # <<>>
        BY <1>5 DEF Find
      <3>3. Placed([old EXCEPT !.at = "insert", !.seen = "none"])
        BY SMT, <1>1, <3>2 DEF Placed, Request
      <3>4. QED
        BY <2>2, <3>1, <3>3, BecomesType
    <2>3. QED
      BY Zenon, <1>5, <2>1, <2>2 DEF Find
  <1>6. CASE Insert(c)
    <2>1. PICK i \in Unused :
             Becomes(c, [old EXCEPT !.at = "reread", !.id = i, !.created = TRUE, !.made = @ \cup {i}])
      BY Zenon, <1>6 DEF Insert
    <2>2. i \in Ids /\ old.made \cup {i} \in SUBSET Ids
      BY SMT, <1>1, <2>1 DEF Unused, Request
    <2>3. [[old EXCEPT !.at = "reread"] EXCEPT !.id = i] \in Request
      BY <1>1, <2>2, RequestFields DEF Places
    <2>4. [[[old EXCEPT !.at = "reread"] EXCEPT !.id = i] EXCEPT !.created = TRUE] \in Request
      BY <2>3, RequestFields
    <2>5. [[[[old EXCEPT !.at = "reread"] EXCEPT !.id = i] EXCEPT !.created = TRUE]
              EXCEPT !.made = old.made \cup {i}] \in Request
      BY <2>2, <2>4, RequestFields
    <2>6. [old EXCEPT !.at = "reread", !.id = i, !.created = TRUE, !.made = @ \cup {i}] \in Request
      BY SMT, <1>1, <2>5 DEF Request
    <2>7. Placed([old EXCEPT !.at = "reread", !.id = i, !.created = TRUE, !.made = @ \cup {i}])
      BY SMT, <1>1, <1>6, <2>2 DEF Placed, Request, Insert
    <2>8. QED
      BY <2>1, <2>6, <2>7, BecomesType
  <1>7. CASE Reread(c)
    <2> DEFINE seen == IF old.id \in Rows THEN status[old.id] ELSE "nothing"
    <2>1. seen \in Seen
      BY SMT DEF Rows, Seen
    <2>2. old.todo # <<>> /\ old.at = "reread" /\ old.id \in Ids
      BY SMT, <1>1, <1>7 DEF Reread, Placed
    <2>3. Tail(old.todo) \in Seq(Keys)
      <3>1. old.todo \in Seq(Keys)
        BY SMT, <1>1 DEF Request
      <3>2. QED
        BY <2>2, <3>1
    <2> HIDE DEF seen
    <2>4. [[old EXCEPT !.at = "publish"] EXCEPT !.seen = seen] \in Request
      BY <1>1, <2>1, RequestFields DEF Places
    <2>5. Placed([old EXCEPT !.at = "publish", !.seen = seen])
      BY SMT, <1>1, <2>2 DEF Placed, Request
    <2>6. [[old EXCEPT !.at = "next"] EXCEPT !.seen = seen] \in Request
      BY <1>1, <2>1, RequestFields DEF Places
    <2>7. [[[[old EXCEPT !.at = "next"] EXCEPT !.seen = seen] EXCEPT !.todo = Tail(old.todo)]
              EXCEPT !.id = 0] \in Request
      BY <2>3, <2>6, RequestFields
    <2>8. [old EXCEPT !.at = "next", !.seen = seen, !.todo = Tail(@), !.id = 0] \in Request
      BY SMT, <1>1, <2>7 DEF Request
    <2>9. Placed([old EXCEPT !.at = "next", !.seen = seen, !.todo = Tail(@), !.id = 0])
      BY SMT, <1>1 DEF Placed, Request
    <2>10. \/ Becomes(c, [old EXCEPT !.at = "publish", !.seen = seen])
           \/ Becomes(c, [old EXCEPT !.at = "next", !.seen = seen, !.todo = Tail(@), !.id = 0])
      BY Zenon, <1>7 DEF Reread, seen
    <2>11. CASE Becomes(c, [old EXCEPT !.at = "publish", !.seen = seen])
      BY <2>4, <2>5, <2>11, BecomesType
    <2>12. CASE Becomes(c, [old EXCEPT !.at = "next", !.seen = seen, !.todo = Tail(@), !.id = 0])
      BY <2>8, <2>9, <2>12, BecomesType
    <2>13. QED
      BY <2>10, <2>11, <2>12
  <1>8. CASE Publish(c)
    <2> DEFINE new == [old EXCEPT !.at = "next", !.todo = Tail(@), !.id = 0, !.created = FALSE,
                                  !.seen = "none", !.queuedAny = QueuedAny(@, old.seen)]
               any == QueuedAny(old.queuedAny, old.seen)
    <2>1. Becomes(c, new)
      BY Zenon, <1>8 DEF Publish
    <2>2. Tail(old.todo) \in Seq(Keys)
      <3>1. old.todo \in Seq(Keys) /\ old.todo # <<>>
        BY SMT, <1>1, <1>8 DEF Request, Publish, Placed
      <3>2. QED
        BY <3>1
    <2>3. any \in BOOLEAN
      BY Zenon DEF QueuedAny
    <2> HIDE DEF any
    <2>4. [[[old EXCEPT !.at = "next"] EXCEPT !.todo = Tail(old.todo)] EXCEPT !.id = 0] \in Request
      BY <1>1, <2>2, RequestFields DEF Places
    <2>5. [[[[[old EXCEPT !.at = "next"] EXCEPT !.todo = Tail(old.todo)] EXCEPT !.id = 0]
              EXCEPT !.created = FALSE] EXCEPT !.seen = "none"] \in Request
      BY <2>4, RequestFields DEF Seen
    <2>6. [[[[[[old EXCEPT !.at = "next"] EXCEPT !.todo = Tail(old.todo)] EXCEPT !.id = 0]
              EXCEPT !.created = FALSE] EXCEPT !.seen = "none"] EXCEPT !.queuedAny = any] \in Request
      BY <2>3, <2>5, RequestFields
    <2>7. new \in Request
      BY SMT, <1>1, <2>6 DEF Request, any
    <2>8. Placed(new)
      BY SMT, <1>1 DEF Placed, Request
    <2>9. QED
      BY <2>1, <2>7, <2>8, BecomesType
  <1>9. QED
    BY Zenon, <1>3, <1>4, <1>5, <1>6, <1>7, <1>8 DEF RequestStep

(* What each step of the worker makes of its record                        *)
LEMMA WorkerType ==
  ASSUME TypeInv, WorkerStep
  PROVE  worker' \in Worker /\ (worker'.at \in InHandPlaces => worker'.id \in Ids)
  <1> DEFINE Good(w) == w \in Worker /\ (w.at \in InHandPlaces => w.id \in Ids)
             NextPlaces == {"off", "look", "wait"} \cup InHandPlaces
  <1>1. Good(worker)
    BY DEF TypeInv, TypeOK, PlacesOK
  <1>2. ASSUME NEW place \in {"look", "wait"}, WorkerRests(place) PROVE Good(worker')
    <2>1. [Off EXCEPT !.at = place] \in Worker
      BY SMT, <1>2, Constants, WorkerFields
    <2>2. [Off EXCEPT !.at = place].at = place
      BY SMT, <1>2 DEF Off
    <2>3. QED
      BY SMT, <1>2, <2>1, <2>2 DEF WorkerRests, InHandPlaces
  <1>3. ASSUME NEW place \in InHandPlaces, worker.at \in InHandPlaces, WorkerAt(place)
        PROVE  Good(worker')
    <2>1. [worker EXCEPT !.at = place] \in Worker
      BY SMT, <1>1, <1>3, WorkerFields
    <2>2. [worker EXCEPT !.at = place].id = worker.id
      BY SMT, <1>1 DEF Worker
    <2>3. QED
      BY SMT, <1>1, <1>3, <2>1, <2>2 DEF WorkerAt
  <1>4. CASE LookForWork
    <2>1. CASE \E i \in Queued : worker' = [worker EXCEPT !.at = "took", !.id = i]
      <3>1. PICK i \in Queued : worker' = [worker EXCEPT !.at = "took", !.id = i]
        BY <2>1
      <3>2. i \in Ids
        BY <3>1 DEF Queued
      <3>3. [[worker EXCEPT !.at = "took"] EXCEPT !.id = i] \in Worker
        BY <1>1, <3>2, WorkerFields DEF InHandPlaces
      <3>4. [worker EXCEPT !.at = "took", !.id = i].id = i
        BY SMT, <1>1 DEF Worker
      <3>5. QED
        BY <3>1, <3>2, <3>3, <3>4
    <2>2. QED
      BY Zenon, <1>2, <1>4, <2>1 DEF LookForWork
  <1>5. CASE WakeUp
    BY Zenon, <1>2, <1>5 DEF WakeUp
  <1>6. CASE Leave
    <2>1. Off.at = "off"
      BY DEF Off
    <2>2. QED
      BY <1>6, <2>1, Constants DEF Leave, InHandPlaces
  <1>7. CASE MarkProcessing
    BY Zenon, <1>2, <1>3, <1>7 DEF MarkProcessing, InHandPlaces
  <1>8. CASE Transcode
    <2>1. \A done \in BOOLEAN : AfterTranscode(done) \in InHandPlaces
      BY DEF AfterTranscode, InHandPlaces
    <2>2. worker.at \in InHandPlaces /\ "failed" \in InHandPlaces
      BY <1>8 DEF Transcode, InHandPlaces
    <2>3. QED
      BY Zenon, <1>3, <1>8, <2>1, <2>2 DEF Transcode
  <1>9. CASE MarkReady
    BY Zenon, <1>2, <1>3, <1>9 DEF MarkReady, Mark, InHandPlaces
  <1>10. CASE MarkFailed
    BY Zenon, <1>2, <1>3, <1>10 DEF MarkFailed, Mark, InHandPlaces
  <1>11. CASE TellReady
    BY Zenon, <1>3, <1>11 DEF TellReady, InHandPlaces
  <1>12. CASE TellFailed
    BY Zenon, <1>2, <1>12 DEF TellFailed
  <1>13. CASE Measure
    <2>1. CASE \E S \in SUBSET Cached :
                 worker' = [worker EXCEPT !.at = IF S = {} THEN "look" ELSE "file", !.victims = S]
      <3>1. PICK S \in SUBSET Cached :
               worker' = [worker EXCEPT !.at = IF S = {} THEN "look" ELSE "file", !.victims = S]
        BY <2>1
      <3> DEFINE place == IF S = {} THEN "look" ELSE "file"
      <3>2. S \in SUBSET Ids /\ place \in {"look", "file"}
        BY <3>1 DEF Cached
      <3>3. worker.id \in Ids
        BY <1>1, <1>13 DEF Measure, InHandPlaces
      <3> HIDE DEF place
      <3>4. [[worker EXCEPT !.at = place] EXCEPT !.victims = S] \in Worker
        BY <1>1, <3>2, WorkerFields DEF InHandPlaces
      <3>5. worker' = [worker EXCEPT !.at = place, !.victims = S]
        BY <3>1 DEF place
      <3>6. [worker EXCEPT !.at = place, !.victims = S].id = worker.id
        BY SMT, <1>1 DEF Worker
      <3>7. QED
        BY <3>3, <3>4, <3>5, <3>6
    <2>2. QED
      BY Zenon, <1>2, <1>13, <2>1 DEF Measure
  <1>14. CASE RemoveFile
    <2>1. PICK v \in worker.victims : worker' = [worker EXCEPT !.at = "row", !.victim = v]
      BY Zenon, <1>14 DEF RemoveFile
    <2>2. v \in Ids
      BY SMT, <1>1, <2>1 DEF Worker
    <2>3. [[worker EXCEPT !.at = "row"] EXCEPT !.victim = v] \in Worker
      BY <1>1, <2>2, WorkerFields DEF InHandPlaces
    <2>4. [worker EXCEPT !.at = "row", !.victim = v].id = worker.id /\ worker.id \in Ids
      BY SMT, <1>1, <1>14 DEF Worker, RemoveFile, InHandPlaces
    <2>5. QED
      BY <2>1, <2>3, <2>4
  <1>15. CASE DeleteArtifact
    <2> DEFINE left == worker.victims \ {worker.victim}
               new == [worker EXCEPT !.at = "file", !.victims = left, !.victim = 0]
    <2>1. left \in SUBSET Ids
      BY SMT, <1>1 DEF Worker
    <2>2. [[worker EXCEPT !.at = "file"] EXCEPT !.victims = left] \in Worker
      BY <1>1, <2>1, WorkerFields DEF InHandPlaces
    <2>3. [[[worker EXCEPT !.at = "file"] EXCEPT !.victims = left] EXCEPT !.victim = 0] \in Worker
      BY <2>2, WorkerFields
    <2>4. new.id = worker.id /\ worker.id \in Ids
      BY SMT, <1>1, <1>15 DEF Worker, DeleteArtifact, InHandPlaces
    <2>5. CASE worker' = new
      BY <2>3, <2>4, <2>5
    <2>6. QED
      BY Zenon, <1>2, <1>15, <2>5 DEF DeleteArtifact
  <1>16. QED
    BY Zenon, <1>4, <1>5, <1>6, <1>7, <1>8, <1>9, <1>10, <1>11, <1>12, <1>13, <1>14, <1>15
       DEF WorkerStep

(* The other columns and variables                                         *)
Columns ==
  /\ status \in [Ids -> InTable \cup {"unused", "deleted"}]
  /\ key \in [Ids -> Keys]
  /\ files \subseteq Ids /\ told \subseteq Ids
  /\ wake \in BOOLEAN /\ life \in {"down", "up", "stopping", "stopped"}
  /\ cut \subseteq Ids /\ unwoken \subseteq Ids /\ interruptions \in 0..MaxInterruptions

LEMMA InterruptType ==
  ASSUME interruptions \in 0..MaxInterruptions, Interrupt
  PROVE  interruptions' \in 0..MaxInterruptions
  BY SMT, PipelineAssumption DEF Interrupt

LEMMA ColumnsType == ASSUME TypeInv, Next PROVE Columns'
  <1>1. Columns
    BY Zenon DEF TypeInv, TypeOK, Columns
  <1>2. worker \in Worker /\ (worker.at \in InHandPlaces => worker.id \in Ids)
    BY Zenon DEF TypeInv, TypeOK, PlacesOK
  <1>3. \A c \in Clients : req[c] \in Request /\ Placed(req[c])
    BY SMT DEF TypeInv, TypeOK, PlacesOK
  <1>4. ASSUME interruptions' = interruptions \/ Interrupt
        PROVE  interruptions' \in 0..MaxInterruptions
    BY Zenon, <1>1, <1>4, InterruptType DEF Columns
  <1>5. ASSUME NEW c \in Clients, Ask(c) \/ RequestStep(c) PROVE Columns'
    <2>1. CASE Ask(c)
      BY Zenon, <1>1, <2>1 DEF Ask, Columns, rowVars, restVars
    <2>2. ASSUME GiveUp(c) PROVE cut' \subseteq Ids /\ unwoken' \subseteq Ids
      <3>1. req[c].made \subseteq Ids
        BY SMT, <1>3 DEF Request
      <3>2. req[c].at = "reread" => req[c].id \in Ids
        BY <1>3 DEF Placed
      <3>3. QED
        BY SMT, <1>1, <2>2, <3>1, <3>2 DEF GiveUp, Columns
    <2>3. CASE TrackMissing(c)
      BY Zenon, <1>1, <2>2, <2>3 DEF TrackMissing, Columns, rowVars
    <2>4. CASE RequestFails(c)
      BY Zenon, <1>1, <1>4, <2>2, <2>4 DEF RequestFails, Columns, rowVars
    <2>5. CASE Find(c)
      BY Zenon, <1>1, <2>5 DEF Find, Columns, rowVars, restVars
    <2>6. CASE Insert(c)
      <3> DEFINE k == Head(req[c].todo)
      <3>1. k \in Keys
        <4>1. req[c].todo \in Seq(Keys) /\ req[c].todo # <<>>
          BY SMT, <1>3, <2>6 DEF Request, Insert, Placed
        <4>2. QED
          BY SMT, <4>1
      <3> DEFINE new == IF k \in Originals THEN "ready" ELSE "queued"
      <3>2. new \in InTable
        BY Zenon DEF InTable
      <3>3. \E i \in Unused : status' = [status EXCEPT ![i] = new] /\ key' = [key EXCEPT ![i] = k]
        BY Zenon, <2>6 DEF Insert
      <3> HIDE DEF k, new
      <3>4. status' \in [Ids -> InTable \cup {"unused", "deleted"}] /\ key' \in [Ids -> Keys]
        <4>1. status \in [Ids -> InTable \cup {"unused", "deleted"}] /\ key \in [Ids -> Keys]
          BY Zenon, <1>1 DEF Columns
        <4>2. PICK i \in Ids : status' = [status EXCEPT ![i] = new] /\ key' = [key EXCEPT ![i] = k]
          BY <3>3 DEF Unused
        <4>3. status' \in [Ids -> InTable \cup {"unused", "deleted"}]
          BY SMT, <3>2, <4>1, <4>2
        <4>4. key' \in [Ids -> Keys]
          BY SMT, <3>1, <4>1, <4>2
        <4>5. QED
          BY <4>3, <4>4
      <3>5. QED
        BY Zenon, <1>1, <2>6, <3>4 DEF Insert, Columns, restVars
    <2>7. CASE Refused(c)
      BY Zenon, <1>1, <2>2, <2>7 DEF Refused, Columns, rowVars
    <2>8. CASE Reread(c)
      BY Zenon, <1>1, <2>8 DEF Reread, Columns, rowVars, restVars
    <2>9. CASE Publish(c)
      <3>1. req[c].id \in Ids
        BY <1>3, <2>9 DEF Publish, Placed
      <3>2. told' \subseteq Ids /\ cut' \subseteq Ids
        BY SMT, <1>1, <2>9, <3>1 DEF Publish, Columns
      <3>3. QED
        BY Zenon, <1>1, <1>4, <2>9, <3>2 DEF Publish, Columns, rowVars
    <2>10. CASE Finish(c)
      <3>1. wake' \in BOOLEAN
        BY Zenon, <2>10 DEF Finish
      <3>2. QED
        BY Zenon, <1>1, <2>10, <3>1 DEF Finish, Columns, rowVars
    <2>11. QED
      BY Zenon, <1>5, <2>1, <2>3, <2>4, <2>5, <2>6, <2>7, <2>8, <2>9, <2>10 DEF RequestStep
  <1>6. CASE WorkerStep
    <2>1. CASE LookForWork
      <3>1. Queued \subseteq Ids
        BY DEF Queued
      <3>2. unwoken' = {} \/ unwoken' = unwoken \cup Queued
        BY Zenon, <2>1 DEF LookForWork
      <3>3. QED
        BY Zenon, <1>1, <1>4, <2>1, <3>1, <3>2 DEF LookForWork, Columns, rowVars
    <2>2. CASE WakeUp
      BY Zenon, <1>1, <2>2 DEF WakeUp, Columns, rowVars
    <2>3. CASE Leave
      BY Zenon, <1>1, <2>3 DEF Leave, Columns, rowVars
    <2>4. CASE MarkProcessing
      <3>1. status' \in [Ids -> InTable \cup {"unused", "deleted"}]
        BY SMT, <1>1, <2>4 DEF MarkProcessing, Columns, InTable
      <3>2. QED
        BY Zenon, <1>1, <1>4, <2>4, <3>1 DEF MarkProcessing, Columns
    <2>5. CASE Transcode
      <3>1. worker.id \in Ids
        BY <1>2, <2>5 DEF Transcode, InHandPlaces
      <3>2. files' \subseteq Ids
        BY SMT, <1>1, <2>5, <3>1 DEF Transcode, Columns
      <3>3. QED
        BY Zenon, <1>1, <1>4, <2>5, <3>2 DEF Transcode, Columns, rowVars
    <2>6. ASSUME NEW from \in InHandPlaces, NEW new \in InTable, NEW next, Mark(from, new, next)
          PROVE  Columns'
      <3>1. worker.id \in Ids
        BY <1>2, <2>6 DEF Mark
      <3>2. status' \in [Ids -> InTable \cup {"unused", "deleted"}] /\ cut' \subseteq Ids
        BY SMT, <1>1, <2>6, <3>1 DEF Mark, Columns
      <3>3. QED
        BY Zenon, <1>1, <1>4, <2>6, <3>2 DEF Mark, Columns
    <2>7. CASE MarkReady \/ MarkFailed
      BY Zenon, <2>6, <2>7 DEF MarkReady, MarkFailed, InHandPlaces, InTable
    <2>8. CASE TellReady \/ TellFailed
      <3>1. worker.id \in Ids
        BY <1>2, <2>8 DEF TellReady, TellFailed, InHandPlaces
      <3>2. told' \subseteq Ids /\ cut' \subseteq Ids
        BY SMT, <1>1, <2>8, <3>1 DEF TellReady, TellFailed, Tell, Columns
      <3>3. QED
        BY Zenon, <1>1, <1>4, <2>8, <3>2 DEF TellReady, TellFailed, Tell, Columns, rowVars
    <2>9. CASE Measure
      <3>1. worker.id \in Ids
        BY <1>2, <2>9 DEF Measure, InHandPlaces
      <3>2. cut' = cut \/ cut' = cut \cup {worker.id}
        BY Zenon, <2>9 DEF Measure
      <3>3. QED
        BY Zenon, <1>1, <1>4, <2>9, <3>1, <3>2 DEF Measure, Columns, rowVars
    <2>10. CASE RemoveFile
      <3>1. files' \subseteq Ids
        BY SMT, <1>1, <2>10 DEF RemoveFile, Columns
      <3>2. QED
        BY Zenon, <1>1, <1>4, <2>10, <3>1 DEF RemoveFile, Columns, rowVars
    <2>11. CASE DeleteArtifact
      <3>1. worker.id \in Ids /\ worker.victims \subseteq Ids
        BY SMT, <1>2, <2>11 DEF DeleteArtifact, InHandPlaces, Worker
      <3>2. status' \in [Ids -> InTable \cup {"unused", "deleted"}]
        BY SMT, <1>1, <2>11 DEF DeleteArtifact, Columns
      <3>3. told' \subseteq Ids /\ cut' \subseteq Ids
        BY SMT, <1>1, <2>11, <3>1 DEF DeleteArtifact, Columns
      <3>4. QED
        BY Zenon, <1>1, <1>4, <2>11, <3>2, <3>3 DEF DeleteArtifact, Columns
    <2>12. QED
      BY Zenon, <1>6, <2>1, <2>2, <2>3, <2>4, <2>5, <2>7, <2>8, <2>9, <2>10, <2>11 DEF WorkerStep
  <1>7. CASE Start
    BY Zenon, <1>1, <1>7 DEF Start, Columns, rowVars
  <1>8. CASE Stop
    BY Zenon, <1>1, <1>4, <1>8 DEF Stop, Columns, rowVars
  <1>9. CASE Exit \/ Crash
    <2>1. InHand \subseteq Ids
      <3>1. \A c \in Clients : req[c].at \in {"reread", "publish"} => req[c].id \in Ids
        BY <1>3 DEF Placed
      <3>2. worker.victims \subseteq Ids
        BY SMT, <1>2 DEF Worker
      <3>3. worker.at \notin {"off", "look", "wait", "took"} => worker.id \in Ids
        BY SMT, <1>2 DEF Worker
      <3>4. QED
        BY SMT, <3>1, <3>2, <3>3 DEF InHand
    <2>2. cut' \subseteq Ids
      BY SMT, <1>1, <1>9, <2>1 DEF Exit, Crash, Ends, Columns
    <2>3. QED
      BY Zenon, <1>1, <1>4, <1>9, <2>2 DEF Exit, Crash, Ends, Columns, rowVars
  <1>10. QED
    BY Zenon, <1>5, <1>6, <1>7, <1>8, <1>9 DEF Next

LEMMA TypeStep == ASSUME TypeInv, [Next]_vars PROVE TypeInv'
  <1> DEFINE WorkerGood == worker \in Worker /\ (worker.at \in InHandPlaces => worker.id \in Ids)
             RequestsGood == req \in [Clients -> Request] /\ \A c \in Clients : Placed(req[c])
  <1>1. Columns /\ WorkerGood /\ RequestsGood
    BY Zenon DEF TypeInv, TypeOK, PlacesOK, Columns
  <1>2. CASE UNCHANGED vars
    BY SMT, <1>2 DEF TypeInv, TypeOK, PlacesOK, Placed, vars, rowVars, restVars
  <1>3. CASE Next
    <2>1. Columns'
      BY <1>3, ColumnsType
    <2>2. WorkerGood'
      <3>1. CASE WorkerStep
        BY <3>1, WorkerType
      <3>2. CASE worker' = worker
        BY Zenon, <1>1, <3>2
      <3>3. CASE worker' = Off
        BY <3>3, Constants DEF Off, InHandPlaces
      <3>4. CASE Start
        <4>1. [Off EXCEPT !.at = "look"] \in Worker
          BY SMT, Constants, WorkerFields
        <4>2. [Off EXCEPT !.at = "look"].at = "look"
          BY SMT DEF Off
        <4>3. QED
          BY SMT, <3>4, <4>1, <4>2 DEF Start, InHandPlaces
      <3>5. ASSUME NEW c \in Clients, Ask(c) \/ RequestStep(c) PROVE worker' = worker
        BY Zenon, <3>5 DEF Ask, RequestStep, TrackMissing, RequestFails, Find, Insert, Refused,
                           Reread, Publish, Finish
      <3>6. QED
        BY Zenon, <1>3, <3>1, <3>2, <3>3, <3>4, <3>5 DEF Next, Stop, Exit, Crash, Ends
    <2>3. RequestsGood'
      <3>1. ASSUME NEW c \in Clients, Ask(c) \/ RequestStep(c) PROVE RequestsGood'
        BY <3>1, RequestType
      <3>2. CASE req' = req
        BY Zenon, <1>1, <3>2
      <3>3. CASE req' = [c \in Clients |-> Idle]
        <4>1. Placed(Idle)
          BY SMT DEF Placed, Idle
        <4>2. QED
          BY SMT, <3>3, <4>1, Constants
      <3>4. CASE WorkerStep \/ Start \/ Stop
        BY Zenon, <3>2, <3>4
           DEF WorkerStep, LookForWork, WakeUp, Leave, MarkProcessing, Transcode, MarkReady,
               MarkFailed, Mark, TellReady, TellFailed, Measure, RemoveFile, DeleteArtifact,
               Start, Stop
      <3>5. QED
        BY Zenon, <1>3, <3>1, <3>3, <3>4 DEF Next, Exit, Crash, Ends
    <2>4. QED
      BY Zenon, <2>1, <2>2, <2>3 DEF TypeInv, TypeOK, PlacesOK, Columns
  <1>4. QED
    BY <1>2, <1>3

(* Every variable keeps its type, whatever fails (ArtifactPipeline.tla,    *)
(* TypeOK): the worker never works on a row without an id, nor a request   *)
(* on a key it does not have.                                              *)
THEOREM TypeCorrect == Spec => []TypeOK
  <1>1. TypeInv => TypeOK
    BY DEF TypeInv
  <1>2. QED
    BY InitType, TypeStep, <1>1, PTL DEF Spec

LEMMA TypeInvariant == Spec => []TypeInv
  BY InitType, TypeStep, PTL DEF Spec

-----------------------------------------------------------------------------
(* What the steps do to the rows and to the requests                       *)

(* Only Insert makes rows queued, out of unused ones.                      *)
LEMMA QueuedGrows ==
  ASSUME TypeInv, Next
  PROVE  /\ Unused' \subseteq Unused
         /\ Queued' \subseteq Queued \cup Unused
         /\ WorkerStep \/ Start \/ Stop \/ Exit \/ Crash => Queued' \subseteq Queued
  <1> DEFINE Goal == /\ Unused' \subseteq Unused
                     /\ Queued' \subseteq Queued \cup Unused
                     /\ WorkerStep \/ Start \/ Stop \/ Exit \/ Crash => Queued' \subseteq Queued
  <1>1. CASE status' = status
    BY Zenon, <1>1 DEF Unused, Queued
  <1>2. ASSUME NEW i, NEW new \in {"processing", "ready", "failed", "deleted"},
               status' = [status EXCEPT ![i] = new]
        PROVE  Goal
    <2>1. status \in [Ids -> InTable \cup {"unused", "deleted"}]
      BY DEF TypeInv, TypeOK
    <2>2. QED
      BY SMT, <1>2, <2>1 DEF Unused, Queued
  <1>3. CASE WorkerStep
    BY Zenon, <1>1, <1>2, <1>3
       DEF WorkerStep, LookForWork, WakeUp, Leave, MarkProcessing, Transcode, MarkReady,
           MarkFailed, Mark, TellReady, TellFailed, Measure, RemoveFile, DeleteArtifact, rowVars
  <1>4. CASE Start \/ Stop \/ Exit \/ Crash
    BY Zenon, <1>1, <1>4 DEF Start, Stop, Exit, Crash, Ends, rowVars
  <1>5. ASSUME NEW c \in Clients, Ask(c) \/ RequestStep(c), status' # status PROVE Insert(c)
    BY Zenon, <1>5 DEF Ask, RequestStep, TrackMissing, RequestFails, Find, Refused, Reread,
                       Publish, Finish, rowVars
  <1>6. ASSUME NEW c \in Clients, Insert(c)
        PROVE  Unused' \subseteq Unused /\ Queued' \subseteq Queued \cup Unused
    <2>1. \E i \in Unused, new \in InTable : status' = [status EXCEPT ![i] = new]
      BY Zenon, <1>6 DEF Insert, InTable
    <2>2. PICK i \in Ids, new \in InTable : i \in Unused /\ status' = [status EXCEPT ![i] = new]
      BY <2>1 DEF Unused
    <2>3. status \in [Ids -> InTable \cup {"unused", "deleted"}]
      BY DEF TypeInv, TypeOK
    <2>4. QED
      BY SMT, <2>2, <2>3 DEF Unused, Queued, InTable
  <1>7. CASE status' # status /\ ~(WorkerStep \/ Start \/ Stop \/ Exit \/ Crash)
    BY Zenon, <1>5, <1>6, <1>7 DEF Next
  <1>8. QED
    BY Zenon, <1>1, <1>3, <1>4, <1>7

(* What a step of a request makes of the requests' records.                *)
LEMMA RequestEffects ==
  ASSUME TypeInv, NEW c \in Clients, Ask(c) \/ RequestStep(c)
  PROVE  /\ \A d \in Clients \ {c} : req'[d] = req[d]
         /\ Ask(c) => req'[c].made = {} /\ req'[c].created = FALSE
         /\ TrackMissing(c) \/ RequestFails(c) \/ Refused(c) \/ Finish(c) => req'[c] = Idle
         /\ Find(c) => /\ req'[c].made = req[c].made /\ req'[c].queuedAny = req[c].queuedAny
                       /\ req'[c].created = req[c].created /\ req'[c].at # "idle"
         /\ Insert(c) => \E i \in Ids :
              /\ i \in Unused /\ \E new \in {"queued", "ready"} : status' = [status EXCEPT ![i] = new]
              /\ req'[c].made = req[c].made \cup {i} /\ req'[c].queuedAny = req[c].queuedAny
              /\ req'[c].id = i /\ req'[c].created = TRUE /\ req'[c].at = "reread"
         /\ Reread(c) =>
              /\ req'[c].made = req[c].made /\ req'[c].queuedAny = req[c].queuedAny
              /\ req'[c].created = req[c].created /\ req'[c].at # "idle"
              /\ req[c].created =>
                   /\ req'[c].id = req[c].id /\ req'[c].at = "publish"
                   /\ req'[c].seen = IF req[c].id \in Rows THEN status[req[c].id] ELSE "nothing"
         /\ Publish(c) => /\ req'[c].made = req[c].made
                          /\ req'[c].queuedAny = QueuedAny(req[c].queuedAny, req[c].seen)
                          /\ req'[c].created = FALSE /\ req'[c].at # "idle"
  <1> DEFINE old == req[c]
             answer == IF old.id \in Rows THEN status[old.id] ELSE "nothing"
  <1>1. old \in Request /\ req \in [Clients -> Request]
    BY DEF TypeInv, TypeOK
  <1>2. \A r : Becomes(c, r) => req'[c] = r /\ \A d \in Clients \ {c} : req'[d] = req[d]
    BY SMT, <1>1 DEF Becomes
  <1>3. \A d \in Clients \ {c} : req'[d] = req[d]
    <2>1. PICK r : Becomes(c, r)
      BY Zenon DEF Ask, RequestStep, TrackMissing, RequestFails, GiveUp, Find, Insert,
                   Refused, Reread, Publish, Finish
    <2>2. QED
      BY Zenon, <1>2, <2>1
  <1>4. ASSUME Ask(c) PROVE req'[c].made = {} /\ req'[c].created = FALSE
    <2>1. PICK batch \in Batches : Becomes(c, [Idle EXCEPT !.at = "next", !.todo = batch])
      BY <1>4 DEF Ask
    <2>2. /\ [Idle EXCEPT !.at = "next", !.todo = batch].made = {}
          /\ [Idle EXCEPT !.at = "next", !.todo = batch].created = FALSE
      BY SMT DEF Idle
    <2>3. QED
      BY Zenon, <2>1, <2>2, <1>2
  <1>5. ASSUME TrackMissing(c) \/ RequestFails(c) \/ Refused(c) \/ Finish(c) PROVE req'[c] = Idle
    BY Zenon, <1>2, <1>5 DEF TrackMissing, RequestFails, Refused, Finish, GiveUp
  <1>6. ASSUME Find(c)
        PROVE  /\ req'[c].made = old.made /\ req'[c].queuedAny = old.queuedAny
               /\ req'[c].created = old.created /\ req'[c].at # "idle"
    <2> DEFINE found(i) == [old EXCEPT !.at = "reread", !.id = i, !.seen = "none"]
               missing  == [old EXCEPT !.at = "insert", !.seen = "none"]
    <2>1. \A i : /\ found(i).made = old.made /\ found(i).queuedAny = old.queuedAny
                 /\ found(i).created = old.created /\ found(i).at # "idle"
      BY SMT, <1>1 DEF Request
    <2>2. /\ missing.made = old.made /\ missing.queuedAny = old.queuedAny
          /\ missing.created = old.created /\ missing.at # "idle"
      BY SMT, <1>1 DEF Request
    <2>3. Becomes(c, missing) \/ \E i : Becomes(c, found(i))
      BY Zenon, <1>6 DEF Find
    <2>4. req'[c] = missing \/ \E i : req'[c] = found(i)
      BY Zenon, <2>3, <1>2
    <2> HIDE DEF found, missing
    <2>5. QED
      BY Zenon, <2>1, <2>2, <2>4
  <1>7. ASSUME Insert(c)
        PROVE  \E i \in Ids :
                 /\ i \in Unused /\ \E new \in {"queued", "ready"} : status' = [status EXCEPT ![i] = new]
                 /\ req'[c].made = req[c].made \cup {i} /\ req'[c].queuedAny = req[c].queuedAny
                 /\ req'[c].id = i /\ req'[c].created = TRUE /\ req'[c].at = "reread"
    <2> DEFINE made(i) == [old EXCEPT !.at = "reread", !.id = i, !.created = TRUE,
                                      !.made = old.made \cup {i}]
    <2>1. PICK i \in Unused : /\ \E new \in {"queued", "ready"} : status' = [status EXCEPT ![i] = new]
                              /\ Becomes(c, made(i))
      BY Zenon, <1>7 DEF Insert
    <2>2. /\ made(i).made = old.made \cup {i} /\ made(i).queuedAny = old.queuedAny
          /\ made(i).id = i /\ made(i).created = TRUE /\ made(i).at = "reread"
      BY SMT, <1>1 DEF Request
    <2>3. req'[c] = made(i) /\ i \in Ids
      BY Zenon, <2>1, <1>2 DEF Unused
    <2> HIDE DEF made
    <2>4. QED
      BY Zenon, <2>1, <2>2, <2>3
  <1>8. ASSUME Reread(c)
        PROVE  /\ req'[c].made = old.made /\ req'[c].queuedAny = old.queuedAny
               /\ req'[c].created = old.created /\ req'[c].at # "idle"
               /\ old.created =>
                    req'[c].id = old.id /\ req'[c].at = "publish" /\ req'[c].seen = answer
    <2> DEFINE publish == [old EXCEPT !.at = "publish", !.seen = answer]
               next    == [old EXCEPT !.at = "next", !.seen = answer, !.todo = Tail(old.todo), !.id = 0]
    <2>1. Becomes(c, IF old.created THEN publish ELSE next)
      BY Zenon, <1>8 DEF Reread
    <2>2. req'[c] = IF old.created THEN publish ELSE next
      BY Zenon, <2>1, <1>2
    <2> HIDE DEF answer
    <2>3. /\ publish.made = old.made /\ publish.queuedAny = old.queuedAny
          /\ publish.created = old.created
          /\ publish.at # "idle"
          /\ publish.id = old.id /\ publish.at = "publish" /\ publish.seen = answer
      BY SMT, <1>1 DEF Request
    <2>4. /\ next.made = old.made /\ next.queuedAny = old.queuedAny
          /\ next.created = old.created /\ next.at # "idle"
      BY SMT, <1>1 DEF Request
    <2> HIDE DEF publish, next
    <2>5. QED
      BY Zenon, <2>2, <2>3, <2>4
  <1>9. ASSUME Publish(c)
        PROVE  /\ req'[c].made = old.made /\ req'[c].created = FALSE /\ req'[c].at # "idle"
               /\ req'[c].queuedAny = QueuedAny(old.queuedAny, old.seen)
    <2> DEFINE published(q) == [old EXCEPT !.at = "next", !.todo = Tail(old.todo), !.id = 0,
                                           !.created = FALSE, !.seen = "none", !.queuedAny = q]
    <2>1. Becomes(c, published(QueuedAny(old.queuedAny, old.seen)))
      BY Zenon, <1>9 DEF Publish
    <2>2. \A q : /\ published(q).made = old.made /\ published(q).queuedAny = q
                 /\ published(q).created = FALSE /\ published(q).at # "idle"
      BY SMT, <1>1 DEF Request
    <2>3. req'[c] = published(QueuedAny(old.queuedAny, old.seen))
      BY Zenon, <2>1, <1>2
    <2> HIDE DEF published
    <2>4. QED
      BY Zenon, <2>2, <2>3
  <1> HIDE DEF old
  <1>10. QED
    BY Zenon, <1>3, <1>4, <1>5, <1>6, <1>7, <1>8, <1>9 DEF old

(* Steps of the worker and of the process leave requests alone or end them.*)
LEMMA OtherSteps ==
  ASSUME WorkerStep \/ Start \/ Stop \/ Exit \/ Crash
  PROVE  /\ req' = req \/ \A c \in Clients : req'[c] = Idle
         /\ WorkerStep \/ Start \/ Stop => req' = req
  <1>1. CASE WorkerStep \/ Start \/ Stop
    <2>1. req' = req
      BY Zenon, <1>1
         DEF WorkerStep, LookForWork, WakeUp, Leave, MarkProcessing, Transcode, MarkReady,
             MarkFailed, Mark, TellReady, TellFailed, Measure, RemoveFile, DeleteArtifact,
             Start, Stop
    <2>2. QED
      BY <2>1
  <1>2. CASE Exit \/ Crash
    <2>1. req' = [c \in Clients |-> Idle]
      BY Zenon, <1>2 DEF Exit, Crash, Ends
    <2>2. \A c \in Clients : req'[c] = Idle
      BY Zenon, <2>1
    <2>3. WorkerStep \/ Start \/ Stop => req' = req
      BY <1>1
    <2>4. QED
      BY <2>2, <2>3
  <1>3. QED
    BY <1>1, <1>2

LEMMA IdleFields == Idle.made = {} /\ Idle.created = FALSE /\ Idle.at = "idle"
  BY SMT DEF Idle

-----------------------------------------------------------------------------
(* No lost wake-up                                                         *)

(* MadeInv for one request                                                 *)
MadeGood(r) ==
  /\ r.made \cap Unused = {}
  /\ \A i \in r.made \cap Queued : r.queuedAny \/ FindsQueued(r, i)

LEMMA MadeStep == ASSUME TypeInv, MadeInv, Next PROVE MadeInv'
  <1>1. \A c \in Clients : MadeGood(req[c])
    BY Zenon DEF MadeInv, MadeGood
  <1>2. SUFFICES \A c \in Clients : MadeGood(req[c])'
    BY Zenon DEF MadeInv, MadeGood
  <1>3. Unused' \subseteq Unused /\ Queued' \subseteq Queued \cup Unused
    BY QueuedGrows
  <1>4. ASSUME NEW c \in Clients, req'[c] = req[c] PROVE MadeGood(req[c])'
    BY Zenon, <1>1, <1>3, <1>4 DEF MadeGood, FindsQueued
  <1>5. ASSUME NEW c \in Clients, req'[c].made = {} PROVE MadeGood(req[c])'
    BY Zenon, <1>5 DEF MadeGood
  <1>6. ASSUME NEW c \in Clients, req'[c].made = req[c].made, UNCHANGED status,
               \A i \in Queued : req[c].queuedAny \/ FindsQueued(req[c], i)
                                   => req'[c].queuedAny \/ FindsQueued(req'[c], i)
        PROVE  MadeGood(req[c])'
    <2>1. Unused' = Unused /\ Queued' = Queued
      BY Zenon, <1>6 DEF Unused, Queued
    <2>2. MadeGood(req[c])
      BY <1>1
    <2>3. QED
      BY Zenon, <1>6, <2>1, <2>2 DEF MadeGood, FindsQueued
  <1>7. ASSUME NEW c \in Clients, Ask(c) \/ RequestStep(c)
        PROVE  MadeGood(req[c])'
    <2>1. CASE Ask(c) \/ TrackMissing(c) \/ RequestFails(c) \/ Refused(c) \/ Finish(c)
      BY Zenon, <1>5, <1>7, <2>1, RequestEffects, IdleFields
    <2>2. CASE Find(c)
      <3>1. req[c].at = "next" /\ UNCHANGED status
        BY <2>2 DEF Find, rowVars
      <3>2. \A i : ~FindsQueued(req[c], i)
        BY SMT, <3>1 DEF FindsQueued
      <3>3. QED
        BY Zenon, <1>6, <1>7, <2>2, <3>1, <3>2, RequestEffects
    <2>3. CASE Insert(c)
      <3>1. PICK i \in Ids :
              /\ i \in Unused /\ \E new \in {"queued", "ready"} : status' = [status EXCEPT ![i] = new]
              /\ req'[c].made = req[c].made \cup {i} /\ req'[c].queuedAny = req[c].queuedAny
              /\ req'[c].id = i /\ req'[c].created = TRUE /\ req'[c].at = "reread"
        BY Zenon, <2>3, <1>7, RequestEffects
      <3>2. status \in [Ids -> InTable \cup {"unused", "deleted"}]
        BY DEF TypeInv, TypeOK
      <3>3. Unused' = Unused \ {i} /\ Queued' \subseteq Queued \cup {i}
        BY SMT, <3>1, <3>2 DEF Unused, Queued
      <3>4. FindsQueued(req'[c], i)
        BY <3>1 DEF FindsQueued
      <3>5. \A j : ~FindsQueued(req[c], j)
        BY SMT, <2>3 DEF Insert, FindsQueued
      <3>6. MadeGood(req[c])
        BY <1>1
      <3>7. req'[c].made \cap Unused' = {}
        BY Zenon, <3>1, <3>3, <3>6 DEF MadeGood
      <3>8. \A j \in req'[c].made \cap Queued' : req'[c].queuedAny \/ FindsQueued(req'[c], j)
        BY Zenon, <3>1, <3>3, <3>4, <3>5, <3>6 DEF MadeGood
      <3>9. QED
        BY Zenon, <3>7, <3>8 DEF MadeGood, FindsQueued
    <2>4. CASE Reread(c)
      <3>1. UNCHANGED status
        BY <2>4 DEF Reread, rowVars
      <3>2. \A i \in Queued : (IF i \in Rows THEN status[i] ELSE "nothing") = "queued"
        BY DEF Queued, Rows, InTable
      <3>3. \A i \in Queued : FindsQueued(req[c], i) => FindsQueued(req'[c], i)
        <4> SUFFICES ASSUME NEW i \in Queued, FindsQueued(req[c], i)
                     PROVE  FindsQueued(req'[c], i)
          OBVIOUS
        <4>1. req[c].id = i /\ req[c].created
          BY DEF FindsQueued
        <4>2. /\ req'[c].created = req[c].created
              /\ req'[c].id = i /\ req'[c].at = "publish"
              /\ req'[c].seen = IF i \in Rows THEN status[i] ELSE "nothing"
          BY Zenon, <1>7, <2>4, <4>1, RequestEffects
        <4>3. req'[c].seen = "queued"
          BY Zenon, <3>2, <4>2
        <4>4. QED
          BY Zenon, <4>1, <4>2, <4>3 DEF FindsQueued
      <3>4. QED
        BY Zenon, <1>6, <1>7, <2>4, <3>1, <3>3, RequestEffects
    <2>5. CASE Publish(c)
      <3>1. req[c].at = "publish" /\ UNCHANGED status
        BY Zenon, <2>5 DEF Publish, rowVars
      <3>2. \A i : FindsQueued(req[c], i) => req[c].seen = "queued"
        BY SMT, <3>1 DEF FindsQueued
      <3>3. \A i : req[c].queuedAny \/ FindsQueued(req[c], i) => req'[c].queuedAny
        BY Zenon, <1>7, <2>5, <3>2, RequestEffects DEF QueuedAny
      <3>4. QED
        BY Zenon, <1>6, <1>7, <2>5, <3>1, <3>3, RequestEffects
    <2>6. QED
      BY Zenon, <1>7, <2>1, <2>2, <2>3, <2>4, <2>5 DEF RequestStep
  <1>8. ASSUME NEW c \in Clients, NEW d \in Clients, Ask(c) \/ RequestStep(c)
        PROVE  MadeGood(req[d])'
    <2>1. d # c => req'[d] = req[d]
      BY Zenon, <1>8, RequestEffects
    <2>2. QED
      BY Zenon, <2>1, <1>4, <1>7, <1>8
  <1>9. CASE WorkerStep \/ Start \/ Stop \/ Exit \/ Crash
    BY Zenon, <1>4, <1>5, <1>9, OtherSteps, IdleFields
  <1>10. QED
    BY Zenon, <1>8, <1>9 DEF Next

(* A client that asks for nothing has made nothing.                        *)
IdleMade == \A c \in Clients : req[c].at = "idle" => req[c].made = {}

LEMMA IdleMadeStep == ASSUME TypeInv, IdleMade, Next PROVE IdleMade'
  <1>1. ASSUME NEW c \in Clients, NEW d \in Clients, Ask(c) \/ RequestStep(c)
        PROVE  req'[d].at = "idle" => req'[d].made = {}
    <2>1. CASE d # c
      <3>1. req'[d] = req[d]
        BY Zenon, <2>1, <1>1, RequestEffects
      <3>2. QED
        BY Zenon, <3>1 DEF IdleMade
    <2>2. CASE Ask(c) \/ TrackMissing(c) \/ RequestFails(c) \/ Refused(c) \/ Finish(c)
      BY Zenon, <2>1, <2>2, <1>1, RequestEffects, IdleFields
    <2>3. CASE d = c /\ (Find(c) \/ Insert(c) \/ Reread(c) \/ Publish(c))
      <3>1. CASE Find(c) \/ Reread(c) \/ Publish(c)
        BY Zenon, <1>1, <2>3, <3>1, RequestEffects
      <3>2. CASE Insert(c)
        <4>1. req'[c].at = "reread"
          BY Zenon, <1>1, <3>2, RequestEffects
        <4>2. QED
          BY <2>3, <4>1
      <3>3. QED
        BY Zenon, <2>3, <3>1, <3>2
    <2>4. QED
      BY Zenon, <1>1, <2>1, <2>2, <2>3 DEF RequestStep
  <1>2. CASE WorkerStep \/ Start \/ Stop \/ Exit \/ Crash
    BY Zenon, <1>2, OtherSteps, IdleFields DEF IdleMade
  <1>3. QED
    BY Zenon, <1>1, <1>2 DEF Next, IdleMade

LEMMA WakeStep ==
  ASSUME TypeInv, MadeInv, IdleMade, WakeNotLost, Next
  PROVE  WakeNotLost'
  <1> SUFFICES ASSUME worker'.at = "wait", wake' = FALSE, NEW i \in Queued'
               PROVE  i \in unwoken' \/ \E c \in Clients : i \in req'[c].made
    <2>1. wake' \in BOOLEAN
      BY TypeStep DEF TypeInv, TypeOK
    <2>2. QED
      BY Zenon, <2>1 DEF WakeNotLost
  <1>1. ASSUME worker' = worker, wake = FALSE, i \in Queued
        PROVE  i \in unwoken \/ \E c \in Clients : i \in req[c].made
    BY Zenon, <1>1 DEF WakeNotLost
  <1>2. ASSUME NEW c \in Clients, Ask(c) \/ RequestStep(c)
        PROVE  i \in unwoken' \/ \E d \in Clients : i \in req'[d].made
    <2>1. worker' = worker
      BY Zenon, <1>2 DEF Ask, RequestStep, TrackMissing, RequestFails, Find, Insert,
                         Refused, Reread, Publish, Finish
    <2>2. \A d \in Clients : i \in req[d].made => i \in req'[d].made \/ d = c
      BY Zenon, <1>2, RequestEffects
    <2>3. CASE Ask(c)
      <3>1. wake' = wake /\ unwoken' = unwoken /\ Queued' = Queued
        BY Zenon, <2>3 DEF Ask, restVars, rowVars, Queued
      <3>2. req[c].made = {}
        BY <2>3 DEF Ask, IdleMade
      <3>3. QED
        BY Zenon, <1>1, <2>1, <2>2, <3>1, <3>2
    <2>4. CASE TrackMissing(c) \/ RequestFails(c) \/ Refused(c)
      <3>1. /\ wake' = wake /\ Queued' = Queued
            /\ unwoken' = unwoken \cup (req[c].made \cap Queued)
        BY Zenon, <2>4 DEF TrackMissing, RequestFails, Refused, GiveUp, rowVars, Queued
      <3>2. QED
        BY Zenon, <1>1, <2>1, <2>2, <3>1
    <2>5. CASE Find(c) \/ Reread(c) \/ Publish(c)
      <3>1. wake' = wake /\ unwoken' = unwoken /\ Queued' = Queued
        BY Zenon, <2>5 DEF Find, Reread, Publish, restVars, rowVars, Queued
      <3>2. req'[c].made = req[c].made
        BY Zenon, <1>2, <2>5, RequestEffects
      <3>3. QED
        BY Zenon, <1>1, <2>1, <2>2, <3>1, <3>2
    <2>6. CASE Insert(c)
      <3>1. wake' = wake /\ unwoken' = unwoken
        BY Zenon, <2>6 DEF Insert, restVars
      <3>2. PICK j \in Ids :
              /\ \E new \in {"queued", "ready"} : status' = [status EXCEPT ![j] = new]
              /\ req'[c].made = req[c].made \cup {j}
        BY Zenon, <1>2, <2>6, RequestEffects
      <3>3. status \in [Ids -> InTable \cup {"unused", "deleted"}]
        BY DEF TypeInv, TypeOK
      <3>4. i = j \/ i \in Queued
        BY SMT, <3>2, <3>3 DEF Queued
      <3>5. QED
        BY Zenon, <1>1, <2>1, <2>2, <3>1, <3>2, <3>4
    <2>7. CASE Finish(c)
      <3>1. unwoken' = unwoken /\ Queued' = Queued /\ wake' = (wake \/ req[c].queuedAny)
        BY Zenon, <2>7 DEF Finish, rowVars, Queued
      <3>2. wake = FALSE /\ ~req[c].queuedAny
        BY Zenon, <3>1 DEF TypeInv, TypeOK
      <3>3. ~FindsQueued(req[c], i)
        BY SMT, <2>7 DEF Finish, FindsQueued
      <3>4. i \notin req[c].made
        BY Zenon, <3>1, <3>2, <3>3 DEF MadeInv
      <3>5. QED
        BY Zenon, <1>1, <2>1, <2>2, <3>1, <3>2, <3>4
    <2>8. QED
      BY Zenon, <1>2, <2>3, <2>4, <2>5, <2>6, <2>7 DEF RequestStep
  <1>3. CASE LookForWork
    <2>1. Queued' = Queued
      BY Zenon, <1>3 DEF LookForWork, rowVars, Queued
    <2>2. (Queued = {}) \/ (\E j : worker' = [worker EXCEPT !.at = "took", !.id = j])
            \/ unwoken' = unwoken \cup Queued
      BY Zenon, <1>3 DEF LookForWork
    <2>3. ASSUME NEW j, worker' = [worker EXCEPT !.at = "took", !.id = j] PROVE FALSE
      <3>1. worker \in Worker
        BY DEF TypeInv, TypeOK
      <3>2. worker'.at = "took"
        BY SMT, <2>3, <3>1 DEF Worker
      <3>3. QED
        BY <3>2
    <2>4. QED
      BY Zenon, <2>1, <2>2, <2>3
  <1>4. ASSUME WorkerStep \/ Start, ~LookForWork PROVE worker'.at # "wait"
    <2>1. worker \in Worker /\ Off.at = "off"
      BY SMT DEF TypeInv, TypeOK, Off
    <2>2. \A place : place # "wait" => /\ [worker EXCEPT !.at = place].at # "wait"
                                       /\ [Off EXCEPT !.at = place].at # "wait"
      BY SMT, <2>1 DEF Worker, Off
    <2>3. CASE WakeUp \/ Leave \/ MarkProcessing \/ Transcode
      BY Zenon, <2>1, <2>2, <2>3 DEF WakeUp, Leave, MarkProcessing, Transcode, WorkerAt, WorkerRests, AfterTranscode
    <2>4. CASE MarkReady \/ MarkFailed \/ TellReady \/ TellFailed \/ Start
      BY Zenon, <2>1, <2>2, <2>4 DEF MarkReady, MarkFailed, Mark, TellReady, TellFailed, Start, WorkerAt, WorkerRests
    <2>5. CASE Measure
      <3>1. \A S, place : place # "wait" => [worker EXCEPT !.at = place, !.victims = S].at # "wait"
        BY SMT, <2>1 DEF Worker
      <3>2. \/ worker' = [Off EXCEPT !.at = "look"]
            \/ \E S, place : place # "wait" /\ worker' = [worker EXCEPT !.at = place, !.victims = S]
        <4>1. ASSUME NEW S,
                     worker' = [worker EXCEPT !.at = IF S = {} THEN "look" ELSE "file", !.victims = S]
              PROVE  \E T, place : place # "wait" /\ worker' = [worker EXCEPT !.at = place, !.victims = T]
          <5>1. (IF S = {} THEN "look" ELSE "file") # "wait"
            BY Zenon
          <5>2. QED
            BY Zenon, <4>1, <5>1
        <4>2. QED
          BY Zenon, <2>5, <4>1 DEF Measure, WorkerRests
      <3>3. QED
        BY Zenon, <2>2, <3>1, <3>2
    <2>6. CASE RemoveFile
      BY SMT, <2>1, <2>6 DEF RemoveFile, Worker
    <2>7. CASE DeleteArtifact
      <3>1. \A S : [worker EXCEPT !.at = "file", !.victims = S, !.victim = 0].at # "wait"
        BY SMT, <2>1 DEF Worker
      <3>2. \/ worker' = [Off EXCEPT !.at = "look"]
            \/ \E S : worker' = [worker EXCEPT !.at = "file", !.victims = S, !.victim = 0]
        BY Zenon, <2>7 DEF DeleteArtifact, WorkerRests
      <3>3. QED
        BY Zenon, <2>2, <3>1, <3>2
    <2>8. QED
      BY Zenon, <1>4, <2>3, <2>4, <2>5, <2>6, <2>7 DEF WorkerStep
  <1>5. CASE Stop
    <2>1. /\ worker' = worker /\ wake' = wake /\ unwoken' = unwoken /\ req' = req
          /\ Queued' = Queued
      BY Zenon, <1>5 DEF Stop, rowVars, Queued
    <2>2. QED
      BY Zenon, <1>1, <2>1
  <1>6. CASE Exit \/ Crash
    <2>1. worker' = Off
      BY Zenon, <1>6 DEF Exit, Crash, Ends
    <2>2. QED
      BY SMT, <2>1 DEF Off
  <1>7. QED
    BY Zenon, <1>2, <1>3, <1>4, <1>5, <1>6 DEF Next

(* The worker never sleeps on work (Manager.kick, Manager.run): while it   *)
(* waits with no token in wake, every queued row belongs to a request that *)
(* will still kick, or was left behind by a failed request or query.       *)
THEOREM WakeIsNotLost == Spec => []WakeNotLost
  <1> DEFINE Inv == TypeInv /\ MadeInv /\ IdleMade /\ WakeNotLost
  <1>1. Init => Inv
    <2> SUFFICES ASSUME Init PROVE Inv
      OBVIOUS
    <2>1. \A c \in Clients : req[c].made = {}
      BY Zenon, IdleFields DEF Init
    <2>2. worker.at # "wait"
      BY SMT DEF Init, Off
    <2>3. MadeInv /\ IdleMade /\ WakeNotLost
      BY Zenon, <2>1, <2>2 DEF MadeInv, IdleMade, WakeNotLost
    <2>4. QED
      BY <2>3, InitType
  <1>2. ASSUME Inv, [Next]_vars PROVE Inv'
    <2>1. CASE Next
      BY Zenon, <1>2, <2>1, TypeStep, MadeStep, IdleMadeStep, WakeStep
    <2>2. CASE UNCHANGED vars
      <3>1. TypeInv'
        BY <1>2, TypeStep
      <3>2. /\ status' = status /\ req' = req /\ worker' = worker /\ wake' = wake
            /\ unwoken' = unwoken
        BY Zenon, <2>2 DEF vars, rowVars, restVars
      <3>4. Unused' = Unused /\ Queued' = Queued
        BY Zenon, <3>2 DEF Unused, Queued
      <3>5. MadeInv'
        BY Zenon, <1>2, <3>2, <3>4 DEF MadeInv, FindsQueued
      <3>6. IdleMade' /\ WakeNotLost'
        BY Zenon, <1>2, <3>2, <3>4 DEF IdleMade, WakeNotLost
      <3>7. QED
        BY <3>1, <3>5, <3>6
    <2>3. QED
      BY <1>2, <2>1, <2>2
  <1>3. Inv => WakeNotLost
    OBVIOUS
  <1>4. QED
    BY <1>1, <1>2, <1>3, PTL DEF Spec

-----------------------------------------------------------------------------
(* What the steps do to the worker and to the cached rows                  *)

(* What the worker's steps make of its place and its row.                  *)
LEMMA WorkerEffects ==
  ASSUME TypeInv
  PROVE  /\ LookForWork \/ WakeUp \/ Start \/ Leave \/ Exit \/ Crash \/ TellFailed
              => worker'.at \in {"wait", "took", "look", "off"}
         /\ MarkProcessing => worker'.at \in {"transcode", "look"}
         /\ Transcode => worker'.at \in {"made", "failed"} /\ worker'.id = worker.id
         /\ MarkReady => \/ worker'.at = "look"
                         \/ worker'.at = "tellReady" /\ worker'.id = worker.id
         /\ MarkFailed => \/ worker'.at = "look"
                          \/ worker'.at = "tellFailed" /\ worker'.id = worker.id
         /\ TellReady => worker'.at = "measure"
         /\ Measure => \/ worker'.at = "look"
                       \/ worker'.at = "file" /\ worker'.victims \subseteq Cached
         /\ RemoveFile => \E v \in worker.victims :
              /\ worker'.at = "row" /\ worker'.victims = worker.victims /\ worker'.victim = v
              /\ files \ {v} \subseteq files'
         /\ DeleteArtifact =>
              \/ worker'.at = "look"
              \/ worker'.at = "file" /\ worker'.victims = worker.victims \ {worker.victim}
  <1>1. worker \in Worker
    BY DEF TypeInv, TypeOK
  <1>2. \A place : /\ [worker EXCEPT !.at = place].at = place
                   /\ [worker EXCEPT !.at = place].id = worker.id
                   /\ [Off EXCEPT !.at = place].at = place
    BY SMT, <1>1 DEF Worker, Off
  <1>3. ASSUME LookForWork \/ WakeUp \/ Start \/ Leave \/ Exit \/ Crash \/ TellFailed
        PROVE  worker'.at \in {"wait", "took", "look", "off"}
    <2>1. CASE LookForWork
      <3>1. \A i : [worker EXCEPT !.at = "took", !.id = i].at = "took"
        BY SMT, <1>1 DEF Worker
      <3>2. QED
        BY Zenon, <2>1, <3>1, <1>2 DEF LookForWork, WorkerRests
    <2>2. CASE WakeUp \/ Start \/ TellFailed
      BY Zenon, <2>2, <1>2 DEF WakeUp, Start, TellFailed, WorkerRests
    <2>3. CASE Leave \/ Exit \/ Crash
      <3>1. Off.at = "off"
        BY SMT DEF Off
      <3>2. QED
        BY Zenon, <2>3, <3>1 DEF Leave, Exit, Crash, Ends
    <2>4. QED
      BY <1>3, <2>1, <2>2, <2>3
  <1>4. MarkProcessing => worker'.at \in {"transcode", "look"}
    BY Zenon, <1>2 DEF MarkProcessing, WorkerAt, WorkerRests
  <1>5. Transcode => worker'.at \in {"made", "failed"} /\ worker'.id = worker.id
    BY Zenon, <1>2 DEF Transcode, WorkerAt, AfterTranscode
  <1>6. MarkReady => \/ worker'.at = "look"
                     \/ worker'.at = "tellReady" /\ worker'.id = worker.id
    BY Zenon, <1>2 DEF MarkReady, Mark, WorkerAt, WorkerRests
  <1>7. MarkFailed => \/ worker'.at = "look"
                      \/ worker'.at = "tellFailed" /\ worker'.id = worker.id
    BY Zenon, <1>2 DEF MarkFailed, Mark, WorkerAt, WorkerRests
  <1>8. TellReady => worker'.at = "measure"
    BY Zenon, <1>2 DEF TellReady, WorkerAt
  <1>9. ASSUME Measure
        PROVE  worker'.at = "look" \/ (worker'.at = "file" /\ worker'.victims \subseteq Cached)
    <2>1. \A S, place : /\ [worker EXCEPT !.at = place, !.victims = S].at = place
                        /\ [worker EXCEPT !.at = place, !.victims = S].victims = S
      BY SMT, <1>1 DEF Worker
    <2>2. \/ worker' = [Off EXCEPT !.at = "look"]
          \/ \E S \in SUBSET Cached :
               worker' = [worker EXCEPT !.at = IF S = {} THEN "look" ELSE "file", !.victims = S]
      BY Zenon, <1>9 DEF Measure, WorkerRests
    <2>3. ASSUME NEW S \in SUBSET Cached,
                 worker' = [worker EXCEPT !.at = IF S = {} THEN "look" ELSE "file", !.victims = S]
          PROVE  worker'.at = "look" \/ (worker'.at = "file" /\ worker'.victims \subseteq Cached)
      <3>1. worker'.at = (IF S = {} THEN "look" ELSE "file") /\ worker'.victims = S
        BY Zenon, <2>1, <2>3
      <3>2. QED
        BY Zenon, <3>1
    <2>4. QED
      BY Zenon, <1>2, <2>2, <2>3
  <1>10. ASSUME RemoveFile
         PROVE  \E v \in worker.victims :
                  /\ worker'.at = "row" /\ worker'.victims = worker.victims /\ worker'.victim = v
                  /\ files \ {v} \subseteq files'
    <2> DEFINE row(v) == [worker EXCEPT !.at = "row", !.victim = v]
    <2>1. \A v : row(v).at = "row" /\ row(v).victims = worker.victims /\ row(v).victim = v
      BY SMT, <1>1 DEF Worker
    <2>2. PICK v \in worker.victims : worker' = row(v) /\ (files' = files \ {v} \/ files' = files)
      BY Zenon, <1>10 DEF RemoveFile
    <2> HIDE DEF row
    <2>3. files \ {v} \subseteq files'
      BY Zenon, <2>2
    <2>4. QED
      BY Zenon, <2>1, <2>2, <2>3
  <1>11. ASSUME DeleteArtifact
         PROVE  \/ worker'.at = "look"
                \/ worker'.at = "file" /\ worker'.victims = worker.victims \ {worker.victim}
    <2> DEFINE more(S) == [worker EXCEPT !.at = "file", !.victims = S, !.victim = 0]
    <2>1. \A S : more(S).at = "file" /\ more(S).victims = S
      BY SMT, <1>1 DEF Worker
    <2>2. worker' = [Off EXCEPT !.at = "look"] \/ worker' = more(worker.victims \ {worker.victim})
      BY Zenon, <1>11 DEF DeleteArtifact, WorkerRests
    <2> HIDE DEF more
    <2>3. CASE worker' = [Off EXCEPT !.at = "look"]
      BY Zenon, <1>2, <2>3
    <2>4. CASE worker' = more(worker.victims \ {worker.victim})
      BY Zenon, <2>1, <2>4
    <2>5. QED
      BY Zenon, <2>2, <2>3, <2>4
  <1>12. QED
    BY Zenon, <1>3, <1>4, <1>5, <1>6, <1>7, <1>8, <1>9, <1>10, <1>11

(* What the steps make of the set of cached transcodes.                    *)
LEMMA CachedEffects ==
  ASSUME TypeInv
  PROVE  /\ status' = status /\ key' = key => Cached' = Cached
         /\ MarkReady => Cached' \subseteq Cached \cup {worker.id}
         /\ MarkProcessing \/ MarkFailed => Cached' \subseteq Cached
         /\ status' = [status EXCEPT ![worker.victim] = "deleted"] /\ key' = key
              => Cached' = Cached \ {worker.victim}
         /\ \A c \in Clients : Ask(c) \/ RequestStep(c) => Cached' = Cached
  <1>1. /\ status \in [Ids -> InTable \cup {"unused", "deleted"}]
        /\ key \in [Ids -> Keys]
    BY DEF TypeInv, TypeOK
  <1>2. ASSUME status' = status, key' = key PROVE Cached' = Cached
    BY Zenon, <1>2 DEF Cached
  <1>3. ASSUME NEW c \in Clients, Insert(c) PROVE Cached' = Cached
    <2> DEFINE k == Head(req[c].todo)
    <2>1. PICK i \in Ids :
            /\ i \in Unused
            /\ status' = [status EXCEPT ![i] = IF k \in Originals THEN "ready" ELSE "queued"]
            /\ key' = [key EXCEPT ![i] = k]
      BY Zenon, <1>3 DEF Insert, Unused
    <2>2. status[i] = "unused"
      BY <2>1 DEF Unused
    <2> HIDE DEF k
    <2>3. \A j \in Ids : j # i => status'[j] = status[j] /\ key'[j] = key[j]
      BY SMT, <1>1, <2>1
    <2>4. status'[i] = "ready" => key'[i] \in Originals
      BY SMT, <1>1, <2>1
    <2>5. \A j \in Ids : (status'[j] = "ready" /\ key'[j] \notin Originals)
                           <=> (status[j] = "ready" /\ key[j] \notin Originals)
      BY Zenon, <2>2, <2>3, <2>4
    <2>6. QED
      BY Zenon, <2>5 DEF Cached
  <1>4. ASSUME NEW c \in Clients, Ask(c) \/ RequestStep(c), ~Insert(c)
        PROVE  status' = status /\ key' = key
    BY Zenon, <1>4 DEF Ask, RequestStep, TrackMissing, RequestFails, Find, Refused, Reread,
                       Publish, Finish, rowVars
  <1>5. ASSUME MarkReady PROVE Cached' \subseteq Cached \cup {worker.id}
    <2>1. key' = key /\ (status' = status \/ status' = [status EXCEPT ![worker.id] = "ready"])
      BY Zenon, <1>5 DEF MarkReady, Mark
    <2>2. QED
      BY SMT, <1>1, <2>1 DEF Cached
  <1>6. ASSUME MarkProcessing \/ MarkFailed PROVE Cached' \subseteq Cached
    <2>1. key' = key /\ (\/ status' = status \/ status' = [status EXCEPT ![worker.id] = "processing"]
                         \/ status' = [status EXCEPT ![worker.id] = "failed"])
      BY Zenon, <1>6 DEF MarkProcessing, MarkFailed, Mark
    <2>2. QED
      BY SMT, <1>1, <2>1 DEF Cached
  <1>7. ASSUME status' = [status EXCEPT ![worker.victim] = "deleted"], key' = key
        PROVE  Cached' = Cached \ {worker.victim}
    BY SMT, <1>1, <1>7 DEF Cached
  <1>8. QED
    BY Zenon, <1>2, <1>3, <1>4, <1>5, <1>6, <1>7

-----------------------------------------------------------------------------
(* A ready transcode has its file                                          *)

(* Requests write no file, and touch neither the worker nor cached rows.   *)
LEMMA FileRequestStep ==
  ASSUME TypeInv, FileInv, ReadyHasFile, NEW c \in Clients, Ask(c) \/ RequestStep(c)
  PROVE  FileInv' /\ ReadyHasFile'
  <1>1. Cached' = Cached
    BY CachedEffects
  <1>2. files' = files /\ worker' = worker
    BY Zenon DEF Ask, RequestStep, TrackMissing, RequestFails, Find, Insert, Refused, Reread,
                 Publish, Finish
  <1>3. cut \subseteq cut'
    BY Zenon DEF Ask, RequestStep, TrackMissing, RequestFails, Find, Insert, Refused, Reread,
                 Publish, Finish, GiveUp, restVars
  <1>4. QED
    BY Zenon, <1>1, <1>2, <1>3 DEF FileInv, ReadyHasFile

(* The worker is off while the process is down.                            *)
DownIsOff == life = "down" => worker.at = "off"

LEMMA DownStep == ASSUME DownIsOff, Next PROVE DownIsOff'
  <1>1. ASSUME NEW c \in Clients, Ask(c) \/ RequestStep(c) PROVE life' = life /\ worker' = worker
    BY Zenon, <1>1 DEF Ask, RequestStep, TrackMissing, RequestFails, Find, Insert, Refused,
                       Reread, Publish, Finish, restVars
  <1>2. CASE WorkerStep
    <2>1. worker.at # "off"
      BY Zenon, <1>2
         DEF WorkerStep, LookForWork, WakeUp, Leave, MarkProcessing, Transcode, MarkReady,
             MarkFailed, Mark, TellReady, TellFailed, Measure, RemoveFile, DeleteArtifact
    <2>2. life' = life \/ life' = "stopped"
      BY Zenon, <1>2
         DEF WorkerStep, LookForWork, WakeUp, Leave, MarkProcessing, Transcode, MarkReady,
             MarkFailed, Mark, TellReady, TellFailed, Measure, RemoveFile, DeleteArtifact
    <2>3. QED
      BY <2>1, <2>2 DEF DownIsOff
  <1>3. CASE Start \/ Stop
    BY Zenon, <1>3 DEF Start, Stop, DownIsOff
  <1>4. CASE Exit \/ Crash
    <2>1. worker' = Off
      BY Zenon, <1>4 DEF Exit, Crash, Ends
    <2>2. QED
      BY SMT, <2>1 DEF DownIsOff, Off
  <1>5. QED
    BY Zenon, <1>1, <1>2, <1>3, <1>4 DEF Next, DownIsOff

LEMMA FileStep ==
  ASSUME TypeInv, FileInv, DownIsOff, ReadyHasFile, Next
  PROVE  FileInv' /\ ReadyHasFile'
  <1> DEFINE Rest == {"wait", "took", "look", "off", "transcode", "failed", "tellReady",
                      "tellFailed", "measure"}
  <1>1. ASSUME worker'.at \in Rest, files \subseteq files', cut \subseteq cut',
               \A i \in Cached' : i \in Cached \/ i \in files,
               worker.at = "row" => worker.victim \in cut'
        PROVE  FileInv' /\ ReadyHasFile'
    <2>1. worker'.at \notin {"made", "file", "row"}
      BY <1>1
    <2>2. FileInv'
      BY Zenon, <2>1 DEF FileInv
    <2>3. ReadyHasFile'
      BY Zenon, <1>1 DEF ReadyHasFile
    <2>4. QED
      BY <2>2, <2>3
  <1>2. CASE LookForWork \/ WakeUp \/ Leave \/ Start \/ TellReady \/ TellFailed
    <2>1. worker'.at \in Rest
      BY Zenon, <1>2, WorkerEffects
    <2>2. worker.at # "row"
      BY Zenon, <1>2
         DEF LookForWork, WakeUp, Leave, Start, TellReady, TellFailed, DownIsOff
    <2>3. files' = files /\ cut \subseteq cut' /\ status' = status /\ key' = key
      BY Zenon, <1>2 DEF LookForWork, WakeUp, Leave, Start, TellReady, TellFailed, Tell, rowVars
    <2>4. QED
      BY Zenon, <1>1, <2>1, <2>2, <2>3, CachedEffects
  <1>3. CASE MarkProcessing \/ MarkReady \/ MarkFailed
    <2>1. worker'.at \in Rest
      BY Zenon, <1>3, WorkerEffects
    <2>2. worker.at # "row" /\ (MarkReady => worker.at = "made")
      BY Zenon, <1>3 DEF MarkProcessing, MarkReady, MarkFailed, Mark
    <2>3. files' = files /\ cut \subseteq cut'
      BY Zenon, <1>3 DEF MarkProcessing, MarkReady, MarkFailed, Mark
    <2>4. \A i \in Cached' : i \in Cached \/ i \in files
      BY Zenon, <1>3, <2>2, CachedEffects DEF FileInv
    <2>5. QED
      BY Zenon, <1>1, <2>1, <2>2, <2>3, <2>4
  <1>4. CASE Transcode
    <2>1. files \subseteq files' /\ cut' = cut /\ Cached' = Cached /\ worker.at = "transcode"
      BY Zenon, <1>4, CachedEffects DEF Transcode, rowVars
    <2>2. CASE worker'.at = "failed"
      BY Zenon, <1>1, <2>1, <2>2
    <2>3. CASE worker'.at = "made"
      <3>1. worker.id \in files'
        <4>1. CASE files' = files \cup {worker.id}
          BY <4>1
        <4>2. CASE WorkerAt("failed")
          <5>1. worker \in Worker
            BY DEF TypeInv, TypeOK
          <5>2. worker'.at = "failed"
            BY SMT, <4>2, <5>1 DEF WorkerAt, Worker
          <5>3. QED
            BY <2>3, <5>2
        <4>3. QED
          BY Zenon, <1>4, <4>1, <4>2 DEF Transcode, AfterTranscode
      <3>2. worker'.id = worker.id
        BY Zenon, <1>4, WorkerEffects
      <3>3. QED
        BY Zenon, <2>1, <2>3, <3>1, <3>2 DEF FileInv, ReadyHasFile
    <2>4. QED
      BY Zenon, <1>4, <2>2, <2>3, WorkerEffects
  <1>5. CASE Measure
    <2>1. files' = files /\ cut \subseteq cut' /\ Cached' = Cached /\ worker.at = "measure"
      BY Zenon, <1>5, CachedEffects DEF Measure, rowVars
    <2>2. CASE worker'.at = "look"
      BY Zenon, <1>1, <2>1, <2>2
    <2>3. CASE worker'.at = "file" /\ worker'.victims \subseteq Cached
      BY Zenon, <2>1, <2>3 DEF FileInv, ReadyHasFile
    <2>4. QED
      BY Zenon, <1>5, <2>2, <2>3, WorkerEffects
  <1>6. CASE RemoveFile
    <2>1. PICK v \in worker.victims :
            /\ worker'.at = "row" /\ worker'.victims = worker.victims /\ worker'.victim = v
            /\ files \ {v} \subseteq files'
      BY <1>6, WorkerEffects
    <2>2. cut' = cut /\ Cached' = Cached /\ worker.at = "file"
      BY Zenon, <1>6, CachedEffects DEF RemoveFile, rowVars
    <2>3. FileInv'
      BY Zenon, <2>1, <2>2 DEF FileInv
    <2>4. ReadyHasFile'
      BY Zenon, <2>1, <2>2 DEF ReadyHasFile
    <2>5. QED
      BY <2>3, <2>4
  <1>7. CASE DeleteArtifact
    <2>1. files' = files /\ key' = key /\ worker.at = "row"
      BY Zenon, <1>7 DEF DeleteArtifact
    <2>2. CASE /\ status' = [status EXCEPT ![worker.victim] = "deleted"]
               /\ cut' = cut \ {worker.victim}
      <3>1. Cached' = Cached \ {worker.victim}
        BY <2>1, <2>2, CachedEffects
      <3>2. ReadyHasFile'
        BY Zenon, <2>1, <2>2, <3>1 DEF ReadyHasFile
      <3>3. \/ worker'.at = "look"
            \/ worker'.at = "file" /\ worker'.victims = worker.victims \ {worker.victim}
        BY Zenon, <1>7, WorkerEffects
      <3>4. FileInv'
        BY Zenon, <2>1, <3>1, <3>3 DEF FileInv
      <3>5. QED
        BY <3>2, <3>4
    <2>3. CASE /\ status' = status /\ WorkerRests("look")
               /\ cut' = cut \cup worker.victims \cup {worker.id}
      <3>1. worker'.at = "look"
        BY SMT, <2>3 DEF WorkerRests, Off
      <3>2. worker.victim \in cut'
        BY Zenon, <2>1, <2>3 DEF FileInv
      <3>3. Cached' = Cached
        BY Zenon, <2>1, <2>3, CachedEffects
      <3>4. QED
        BY Zenon, <1>1, <2>1, <2>3, <3>1, <3>2, <3>3
    <2>4. QED
      BY Zenon, <1>7, <2>2, <2>3 DEF DeleteArtifact
  <1>8. CASE Exit \/ Crash
    <2>1. /\ files' = files /\ status' = status /\ key' = key /\ cut' = cut \cup InHand
      BY Zenon, <1>8 DEF Exit, Crash, Ends, rowVars
    <2>2. worker'.at \in Rest
      BY Zenon, <1>8, WorkerEffects
    <2>3. worker.at = "row" => worker.victim \in InHand
      BY Zenon DEF InHand, FileInv
    <2>4. QED
      BY Zenon, <1>1, <2>1, <2>2, <2>3, CachedEffects
  <1>9. CASE Stop
    <2>1. /\ files' = files /\ status' = status /\ key' = key /\ cut' = cut /\ worker' = worker
      BY Zenon, <1>9 DEF Stop, rowVars
    <2>2. QED
      BY Zenon, <2>1, CachedEffects DEF FileInv, ReadyHasFile
  <1>10. QED
    BY Zenon, FileRequestStep, <1>2, <1>3, <1>4, <1>5, <1>6, <1>7, <1>8, <1>9
       DEF Next, WorkerStep

(* What is known of rows and files in every state                          *)
FilesInv == TypeInv /\ FileInv /\ DownIsOff /\ ReadyHasFile

LEMMA FilesCorrect == Spec => []FilesInv
  <1>1. Init => FilesInv
    <2> SUFFICES ASSUME Init PROVE FilesInv
      OBVIOUS
    <2>1. worker.at = "off"
      BY SMT DEF Init, Off
    <2>2. Cached = {}
      BY SMT DEF Init, Cached
    <2>3. FileInv /\ DownIsOff /\ ReadyHasFile
      BY Zenon, <2>1, <2>2 DEF FileInv, DownIsOff, ReadyHasFile
    <2>4. QED
      BY <2>3, InitType DEF FilesInv
  <1>2. ASSUME FilesInv, [Next]_vars PROVE FilesInv'
    <2>1. CASE Next
      BY Zenon, <1>2, <2>1, TypeStep, DownStep, FileStep DEF FilesInv
    <2>2. CASE UNCHANGED vars
      <3>1. TypeInv'
        BY <1>2, TypeStep DEF FilesInv
      <3>2. /\ status' = status /\ key' = key /\ worker' = worker /\ files' = files
            /\ cut' = cut /\ life' = life
        BY Zenon, <2>2 DEF vars, rowVars, restVars
      <3>3. Cached' = Cached
        BY Zenon, <3>2 DEF Cached
      <3>4. FileInv' /\ DownIsOff' /\ ReadyHasFile'
        BY Zenon, <1>2, <3>2, <3>3 DEF FilesInv, FileInv, DownIsOff, ReadyHasFile
      <3>5. QED
        BY <3>1, <3>4 DEF FilesInv
    <2>3. QED
      BY <1>2, <2>1, <2>2
  <1>3. QED
    BY <1>1, <1>2, PTL DEF Spec

(* A transcode that is ready can be downloaded (Manager.Open): its file is *)
(* in the cache directory until the worker deletes file and row, whatever  *)
(* fails meanwhile, unless an eviction or a transcode was cut short.       *)
THEOREM ReadyFiles == Spec => []ReadyHasFile
  <1>1. FilesInv => ReadyHasFile
    BY DEF FilesInv
  <1>2. QED
    BY <1>1, FilesCorrect, PTL

-----------------------------------------------------------------------------
(* Whoever waits is told                                                   *)

(* ToldInv for one row that is ready or failed                             *)
Accounted(i) ==
  \/ i \in told \/ i \in cut
  \/ worker.at \in {"tellReady", "tellFailed"} /\ worker.id = i
  \/ \E c \in Clients : AnsweredBy(c, i)

(* A request that answers for a row hands it on to its next step, to told  *)
(* or to cut.                                                              *)
LEMMA AnswerKept ==
  ASSUME TypeInv, NEW c \in Clients, Ask(c) \/ RequestStep(c), ~Insert(c),
         NEW i \in Ids, status[i] \in Settled, AnsweredBy(c, i)
  PROVE  i \in told' \/ i \in cut' \/ AnsweredBy(c, i)'
  <1>1. /\ key[i] \in Originals /\ req[c].created /\ req[c].id = i
        /\ req[c].at = "reread" \/ (req[c].at = "publish" /\ req[c].seen \in Settled)
    BY DEF AnsweredBy
  <1>2. CASE Reread(c)
    <2>1. req[c].id \in Rows
      BY <1>1 DEF Rows, Settled, InTable
    <2>2. /\ req'[c].id = i /\ req'[c].at = "publish" /\ req'[c].created
          /\ req'[c].seen = status[i]
      BY Zenon, <1>1, <1>2, <2>1, RequestEffects
    <2>3. key' = key
      BY Zenon, <1>2 DEF Reread, rowVars
    <2>4. QED
      BY Zenon, <1>1, <2>2, <2>3 DEF AnsweredBy
  <1>3. CASE Publish(c)
    <2>1. req[c].seen \in Settled
      BY SMT, <1>1, <1>3 DEF Publish
    <2>2. QED
      BY Zenon, <1>1, <1>3, <2>1 DEF Publish
  <1>4. CASE RequestFails(c)
    <2>1. req[c].at = "reread"
      BY SMT, <1>1, <1>4 DEF RequestFails
    <2>2. QED
      BY Zenon, <1>1, <1>4, <2>1 DEF RequestFails, GiveUp
  <1>5. CASE Ask(c) \/ TrackMissing(c) \/ Find(c) \/ Refused(c) \/ Finish(c)
    <2>1. req[c].at \notin {"reread", "publish"}
      BY Zenon, <1>5 DEF Ask, TrackMissing, Find, Refused, Finish
    <2>2. QED
      BY Zenon, <1>1, <2>1
  <1>6. QED
    BY Zenon, <1>2, <1>3, <1>4, <1>5 DEF RequestStep

LEMMA ToldRequestStep ==
  ASSUME TypeInv, ToldInv, NEW c \in Clients, Ask(c) \/ RequestStep(c)
  PROVE  ToldInv'
  <1> SUFFICES ASSUME NEW i \in Ids, status'[i] \in Settled PROVE Accounted(i)'
    BY Zenon DEF ToldInv, Accounted, AnsweredBy
  <1>1. told \subseteq told' /\ cut \subseteq cut' /\ worker' = worker
    BY Zenon DEF Ask, RequestStep, TrackMissing, RequestFails, Find, Insert, Refused, Reread,
                 Publish, Finish, GiveUp, restVars
  <1>2. ASSUME status[i] \in Settled, key'[i] = key[i],
               AnsweredBy(c, i) => Accounted(i)'
        PROVE  Accounted(i)'
    <2>1. Accounted(i)
      BY Zenon, <1>2 DEF ToldInv, Accounted
    <2>2. \A d \in Clients \ {c} : AnsweredBy(d, i) => AnsweredBy(d, i)'
      <3>1. \A d \in Clients \ {c} : req'[d] = req[d]
        BY RequestEffects
      <3>2. QED
        BY Zenon, <1>2, <3>1 DEF AnsweredBy
    <2>3. QED
      BY Zenon, <1>1, <1>2, <2>1, <2>2 DEF Accounted
  <1>3. CASE ~Insert(c)
    <2>1. status' = status /\ key' = key
      BY Zenon, <1>3 DEF Ask, RequestStep, TrackMissing, RequestFails, Find, Refused, Reread,
                         Publish, Finish, rowVars
    <2>2. AnsweredBy(c, i) => i \in told' \/ i \in cut' \/ AnsweredBy(c, i)'
      BY <1>3, <2>1, AnswerKept
    <2>3. QED
      BY Zenon, <1>2, <2>1, <2>2 DEF Accounted
  <1>4. CASE Insert(c)
    <2> DEFINE k == Head(req[c].todo)
    <2>1. req[c].at = "insert"
      BY Zenon, <1>4 DEF Insert
    <2>2. ~AnsweredBy(c, i)
      BY SMT, <2>1 DEF AnsweredBy
    <2>3. PICK j \in Ids :
            /\ status' = [status EXCEPT ![j] = IF k \in Originals THEN "ready" ELSE "queued"]
            /\ key' = [key EXCEPT ![j] = k]
            /\ Becomes(c, [req[c] EXCEPT !.at = "reread", !.id = j, !.created = TRUE, !.made = @ \cup {j}])
      BY Zenon, <1>4 DEF Insert, Unused
    <2>4. /\ status \in [Ids -> InTable \cup {"unused", "deleted"}] /\ key \in [Ids -> Keys]
          /\ req[c] \in Request /\ req \in [Clients -> Request]
      BY DEF TypeInv, TypeOK
    <2> HIDE DEF k
    <2>5. CASE i # j
      <3>1. status'[i] = status[i] /\ key'[i] = key[i]
        BY SMT, <2>3, <2>4, <2>5
      <3>2. QED
        BY Zenon, <1>2, <2>2, <3>1
    <2>6. CASE i = j
      <3>1. status'[i] = (IF k \in Originals THEN "ready" ELSE "queued") /\ key'[i] = k
        BY SMT, <2>3, <2>4, <2>6
      <3>2. key'[i] \in Originals
        BY SMT, <3>1 DEF Settled
      <3>3. LET r == [req[c] EXCEPT !.at = "reread", !.id = j, !.created = TRUE, !.made = @ \cup {j}] IN
              r.id = j /\ r.created = TRUE /\ r.at = "reread"
        BY SMT, <2>4 DEF Request
      <3>4. req'[c] = [req[c] EXCEPT !.at = "reread", !.id = j, !.created = TRUE, !.made = @ \cup {j}]
        BY Zenon, <2>3, <2>4 DEF Becomes
      <3>5. AnsweredBy(c, i)'
        BY Zenon, <2>6, <3>2, <3>3, <3>4 DEF AnsweredBy
      <3>6. QED
        BY Zenon, <3>5 DEF Accounted
    <2>7. QED
      BY <2>5, <2>6
  <1>5. QED
    BY <1>3, <1>4

LEMMA ToldStep == ASSUME TypeInv, ToldInv, DownIsOff, Next PROVE ToldInv'
  <1>1. /\ status \in [Ids -> InTable \cup {"unused", "deleted"}]
        /\ worker \in Worker /\ (worker.at \in InHandPlaces => worker.id \in Ids)
    BY DEF TypeInv, TypeOK, PlacesOK
  <1>2. ASSUME req' = req, key' = key,
               \A i \in Ids : status'[i] \in Settled =>
                 \/ /\ status[i] \in Settled /\ (i \in told => i \in told') /\ (i \in cut => i \in cut')
                    /\ worker.at \in {"tellReady", "tellFailed"} /\ worker.id = i
                         => \/ i \in told' \/ i \in cut'
                            \/ worker'.at \in {"tellReady", "tellFailed"} /\ worker'.id = i
                 \/ worker'.at \in {"tellReady", "tellFailed"} /\ worker'.id = i
        PROVE  ToldInv'
    <2>1. \A i \in Ids : status[i] \in Settled => Accounted(i)
      BY Zenon DEF ToldInv, Accounted
    <2>2. \A i \in Ids, c \in Clients : AnsweredBy(c, i) => AnsweredBy(c, i)'
      BY Zenon, <1>2 DEF AnsweredBy
    <2>3. \A i \in Ids : status'[i] \in Settled => Accounted(i)'
      BY Zenon, <1>2, <2>1, <2>2 DEF Accounted
    <2>4. QED
      BY Zenon, <2>3 DEF ToldInv, Accounted, AnsweredBy
  <1>3. CASE LookForWork \/ WakeUp \/ Leave \/ Start \/ Transcode \/ Measure \/ RemoveFile \/ Stop
    <2>1. /\ req' = req /\ key' = key /\ status' = status /\ told' = told /\ cut \subseteq cut'
      BY Zenon, <1>3 DEF LookForWork, WakeUp, Leave, Start, Transcode, Measure, RemoveFile, Stop, rowVars
    <2>2. worker' = worker \/ worker.at \notin {"tellReady", "tellFailed"}
      BY Zenon, <1>3
         DEF LookForWork, WakeUp, Leave, Start, Transcode, Measure, RemoveFile, Stop, DownIsOff
    <2>3. QED
      BY Zenon, <1>2, <2>1, <2>2
  <1>4. CASE TellReady \/ TellFailed
    <2>1. /\ req' = req /\ key' = key /\ status' = status /\ told \subseteq told' /\ cut \subseteq cut'
          /\ worker.id \in told' \/ worker.id \in cut'
      BY Zenon, <1>4 DEF TellReady, TellFailed, Tell, rowVars
    <2>2. QED
      BY Zenon, <1>2, <2>1
  <1>5. CASE MarkProcessing
    <2>1. /\ req' = req /\ key' = key /\ told' = told /\ cut' = cut
          /\ worker.at = "took"
          /\ status' = status \/ status' = [status EXCEPT ![worker.id] = "processing"]
      BY Zenon, <1>5 DEF MarkProcessing
    <2>2. \A i \in Ids : status'[i] \in Settled => status[i] \in Settled
      BY SMT, <1>1, <2>1 DEF Settled
    <2>3. QED
      BY Zenon, <1>2, <2>1, <2>2
  <1>6. CASE MarkReady \/ MarkFailed
    <2>1. /\ req' = req /\ key' = key /\ told' = told /\ cut \subseteq cut'
          /\ worker.at \in {"made", "failed"}
      BY Zenon, <1>6 DEF MarkReady, MarkFailed, Mark
    <2>2. \/ status' = status
          \/ /\ \E new \in {"ready", "failed"} : status' = [status EXCEPT ![worker.id] = new]
             /\ WorkerAt("tellReady") \/ WorkerAt("tellFailed")
      BY Zenon, <1>6 DEF MarkReady, MarkFailed, Mark
    <2>3. \A place : [worker EXCEPT !.at = place].at = place /\ [worker EXCEPT !.at = place].id = worker.id
      BY SMT, <1>1 DEF Worker
    <2>4. \/ status' = status
          \/ /\ \A i \in Ids : i # worker.id => status'[i] = status[i]
             /\ worker'.at \in {"tellReady", "tellFailed"} /\ worker'.id = worker.id
      <3>1. (\E new \in {"ready", "failed"} : status' = [status EXCEPT ![worker.id] = new])
              => \A i \in Ids : i # worker.id => status'[i] = status[i]
        BY SMT, <1>1
      <3>2. QED
        BY Zenon, <2>2, <2>3, <3>1 DEF WorkerAt
    <2>5. worker.at \notin {"tellReady", "tellFailed"}
      BY <2>1
    <2>6. QED
      BY Zenon, <1>2, <2>1, <2>4, <2>5
  <1>7. CASE DeleteArtifact
    <2>1. req' = req /\ key' = key /\ worker.at = "row"
      BY Zenon, <1>7 DEF DeleteArtifact
    <2>2. CASE /\ status' = [status EXCEPT ![worker.victim] = "deleted"]
               /\ told' = told \ {worker.victim} /\ cut' = cut \ {worker.victim}
      <3>1. \A i \in Ids : status'[i] \in Settled => i # worker.victim /\ status[i] \in Settled
        BY SMT, <1>1, <2>2 DEF Settled
      <3>2. QED
        BY Zenon, <1>2, <2>1, <2>2, <3>1
    <2>3. CASE status' = status /\ told' = told /\ cut \subseteq cut'
      BY Zenon, <1>2, <2>1, <2>3
    <2>4. QED
      BY Zenon, <1>7, <2>2, <2>3 DEF DeleteArtifact
  <1>8. CASE Exit \/ Crash
    <2>1. status' = status /\ key' = key /\ told' = told /\ cut' = cut \cup InHand
      BY Zenon, <1>8 DEF Exit, Crash, Ends, rowVars
    <2>2. worker.at \in {"tellReady", "tellFailed"} => worker.id \in InHand
      BY Zenon DEF InHand
    <2>3. \A i \in Ids, c \in Clients : AnsweredBy(c, i) => i \in InHand
      <3> SUFFICES ASSUME NEW i \in Ids, NEW c \in Clients, AnsweredBy(c, i) PROVE i \in InHand
        OBVIOUS
      <3>1. req[c].id = i /\ req[c].created /\ req[c].at \in {"reread", "publish"}
        BY Zenon DEF AnsweredBy
      <3>2. QED
        BY Zenon, <3>1 DEF InHand
    <2>4. \A i \in Ids : status[i] \in Settled => Accounted(i)
      BY Zenon DEF ToldInv, Accounted
    <2>5. \A i \in Ids : status'[i] \in Settled => i \in told' \/ i \in cut'
      BY Zenon, <2>1, <2>2, <2>3, <2>4 DEF Accounted
    <2>6. QED
      BY Zenon, <2>5 DEF ToldInv
  <1>9. QED
    BY Zenon, ToldRequestStep, <1>3, <1>4, <1>5, <1>6, <1>7, <1>8 DEF Next, WorkerStep

(* A client that waits for artifact.updated hears how its artifact ended   *)
(* up (process, Request): whoever made the row ready or failed has         *)
(* published it, or is about to, unless it was cut short.                  *)
THEOREM SettledAreTold == Spec => []SettledIsTold
  <1> DEFINE Inv == TypeInv /\ ToldInv /\ DownIsOff
  <1>1. Init => Inv
    <2> SUFFICES ASSUME Init PROVE Inv
      OBVIOUS
    <2>1. worker.at = "off" /\ \A i \in Ids : status[i] \notin Settled
      BY SMT DEF Init, Off, Settled
    <2>2. ToldInv /\ DownIsOff
      BY Zenon, <2>1 DEF ToldInv, DownIsOff
    <2>3. QED
      BY <2>2, InitType
  <1>2. ASSUME Inv, [Next]_vars PROVE Inv'
    <2>1. CASE Next
      BY Zenon, <1>2, <2>1, TypeStep, DownStep, ToldStep
    <2>2. CASE UNCHANGED vars
      <3>1. TypeInv'
        BY <1>2, TypeStep
      <3>2. /\ status' = status /\ key' = key /\ worker' = worker /\ told' = told
            /\ cut' = cut /\ life' = life /\ req' = req
        BY Zenon, <2>2 DEF vars, rowVars, restVars
      <3>3. ToldInv' /\ DownIsOff'
        BY Zenon, <1>2, <3>2 DEF ToldInv, AnsweredBy, DownIsOff
      <3>4. QED
        BY <3>1, <3>3
    <2>3. QED
      BY <1>2, <2>1, <2>2
  <1>3. Inv => SettledIsTold
    <2> SUFFICES ASSUME Inv, NEW i \in Ids, status[i] \in Settled, NEW c \in Clients, AnsweredBy(c, i)
                 PROVE  req[c].at \in {"reread", "publish"} /\ req[c].created /\ req[c].id = i
      BY Zenon DEF SettledIsTold, ToldInv
    <2>1. QED
      BY Zenon DEF AnsweredBy
  <1>4. QED
    BY <1>1, <1>2, <1>3, PTL DEF Spec

-----------------------------------------------------------------------------
(* The budget                                                              *)

(* What the worker is about to take away from the cached rows, or has only *)
(* just added to them.                                                     *)
Spare == CASE worker.at \in {"tellReady", "measure"} -> {worker.id}
           [] worker.at \in {"file", "row"} -> worker.victims
           [] OTHER -> {}

Counted == (Cached \ cut) \ Spare

(* The cache fits its budget without the transcode that was just made, and *)
(* an eviction takes away exactly what is too much.                        *)
BudgetInv ==
  /\ Cardinality(Counted) <= Budget
  /\ worker.at \in {"file", "row"} => Cardinality(Cached \ worker.victims) = Budget

LEMMA FiniteIds == \A S \in SUBSET Ids : IsFiniteSet(S) /\ Cardinality(S) \in Nat
  <1>1. IsFiniteSet(Ids)
    BY FS_Interval, PipelineAssumption DEF Ids
  <1>2. QED
    BY <1>1, FS_Subset, FS_CardinalityType

LEMMA Smaller == ASSUME NEW S \in SUBSET Ids, NEW T \in SUBSET S
                 PROVE  Cardinality(T) <= Cardinality(S)
  BY FiniteIds, FS_Subset

(* The candidates for eviction are as many as there are too many.          *)
LEMMA Evicted ==
  ASSUME NEW S \in SUBSET Ids, NEW T \in SUBSET S, Cardinality(S) > Budget,
         Cardinality(T) = Cardinality(S) - Budget
  PROVE  Cardinality(S \ T) = Budget /\ T # {}
  <1>1. IsFiniteSet(S) /\ Cardinality(S) \in Nat /\ Budget \in Nat
    BY FiniteIds, PipelineAssumption
  <1>2. S \cap T = T
    OBVIOUS
  <1>3. Cardinality(S \ T) = Cardinality(S) - Cardinality(T)
    <2>1. Cardinality(S \ T) = Cardinality(S) - Cardinality(S \cap T)
      BY Zenon, <1>1, FS_Difference
    <2>2. QED
      BY Zenon, <1>2, <2>1
  <1>4. T # {}
    BY <1>1, FS_EmptySet
  <1>5. QED
    BY <1>1, <1>3, <1>4

(* A step that counts nothing new keeps within the budget.                 *)
LEMMA CountedStep ==
  ASSUME TypeInv, BudgetInv, Counted' \subseteq Counted
  PROVE  Cardinality(Counted') <= Budget
  <1>1. Counted \in SUBSET Ids
    BY DEF Counted, Cached
  <1>2. /\ Cardinality(Counted') <= Cardinality(Counted) /\ Cardinality(Counted) <= Budget
        /\ Cardinality(Counted) \in Nat /\ Budget \in Nat
    BY <1>1, Smaller, FiniteIds, PipelineAssumption DEF BudgetInv
  <1>3. Counted' \in SUBSET Ids
    BY <1>1
  <1>4. Cardinality(Counted') \in Nat
    BY <1>3, FiniteIds
  <1>5. QED
    BY SMT, <1>2, <1>4

LEMMA BudgetStep ==
  ASSUME TypeInv, FileInv, DownIsOff, BudgetInv, Next
  PROVE  BudgetInv'
  <1> DEFINE Rest == {"off", "look", "wait", "took", "transcode", "made", "failed", "tellFailed"}
  <1>0. worker \in Worker
    BY DEF TypeInv, TypeOK
  <1>1. ASSUME worker'.at \in Rest, worker.at \in Rest, Cached' \subseteq Cached, cut \subseteq cut'
        PROVE  BudgetInv'
    <2>1. /\ worker.at \notin {"tellReady", "measure", "file", "row"}
          /\ worker'.at \notin {"tellReady", "measure", "file", "row"}
      BY <1>1
    <2>2. Spare = {} /\ Spare' = {}
      BY SMT, <2>1 DEF Spare
    <2>3. Counted' \subseteq Counted
      BY Zenon, <1>1, <2>2 DEF Counted
    <2>4. QED
      BY Zenon, <2>1, <2>3, CountedStep DEF BudgetInv
  <1>2. ASSUME worker' = worker, Cached' = Cached, cut \subseteq cut'
        PROVE  BudgetInv'
    <2>1. Spare' = Spare
      BY Zenon, <1>2 DEF Spare
    <2>2. Counted' \subseteq Counted
      BY Zenon, <1>2, <2>1 DEF Counted
    <2>3. QED
      BY Zenon, <1>2, <2>2, CountedStep DEF BudgetInv
  <1>3. ASSUME worker'.at \in Rest, Cached' \subseteq Cached, Cached' \ cut' \subseteq Counted
        PROVE  BudgetInv'
    <2>1. worker'.at \notin {"tellReady", "measure", "file", "row"}
      BY <1>3
    <2>2. Spare' = {}
      BY SMT, <2>1 DEF Spare
    <2>3. Counted' \subseteq Counted
      BY Zenon, <1>3, <2>2 DEF Counted
    <2>4. QED
      BY Zenon, <2>1, <2>3, CountedStep DEF BudgetInv
  <1>4. ASSUME NEW c \in Clients, Ask(c) \/ RequestStep(c) PROVE BudgetInv'
    <2>1. Cached' = Cached
      BY <1>4, CachedEffects
    <2>2. worker' = worker /\ cut \subseteq cut'
      BY Zenon, <1>4 DEF Ask, RequestStep, TrackMissing, RequestFails, Find, Insert, Refused, Reread,
                         Publish, Finish, GiveUp, restVars
    <2>3. QED
      BY <1>2, <2>1, <2>2
  <1>5. CASE LookForWork \/ WakeUp \/ Leave \/ Start \/ TellFailed \/ MarkProcessing \/ Transcode
             \/ MarkFailed
    <2>1. worker'.at \in Rest
      <3>1. \/ worker'.at \in {"wait", "took", "look", "off", "transcode", "made", "failed"}
            \/ worker'.at = "tellFailed"
        BY Zenon, <1>5, WorkerEffects
      <3>2. QED
        BY <3>1
    <2>2. worker.at \in Rest
      <3>1. Start => worker.at = "off"
        BY Zenon DEF Start, DownIsOff
      <3>2. QED
        BY Zenon, <1>5, <3>1 DEF LookForWork, WakeUp, Leave, TellFailed, MarkProcessing, Transcode,
                                MarkFailed, Mark
    <2>3. Cached' \subseteq Cached
      <3>1. CASE MarkProcessing \/ MarkFailed
        BY Zenon, <3>1, CachedEffects
      <3>2. CASE LookForWork \/ WakeUp \/ Leave \/ Start \/ TellFailed \/ Transcode
        <4>1. status' = status /\ key' = key
          BY Zenon, <3>2 DEF LookForWork, WakeUp, Leave, Start, TellFailed, Transcode, rowVars
        <4>2. QED
          BY Zenon, <4>1, CachedEffects
      <3>3. QED
        BY <1>5, <3>1, <3>2
    <2>4. cut \subseteq cut'
      BY Zenon, <1>5 DEF LookForWork, WakeUp, Leave, Start, TellFailed, Tell, MarkProcessing,
                         Transcode, MarkFailed, Mark
    <2>5. QED
      BY <1>1, <2>1, <2>2, <2>3, <2>4
  <1>6. CASE Stop
    BY Zenon, <1>2, <1>6, CachedEffects DEF Stop, rowVars
  <1>7. CASE MarkReady
    <2>1. worker.at = "made" /\ cut \subseteq cut' /\ Cached' \subseteq Cached \cup {worker.id}
      BY Zenon, <1>7, CachedEffects DEF MarkReady, Mark
    <2>2. Spare = {}
      BY SMT, <2>1 DEF Spare
    <2>3. CASE worker'.at = "look"
      <3>1. status' = status /\ key' = key
        <4>1. WorkerAt("tellReady") => worker'.at = "tellReady"
          BY SMT, <1>0 DEF WorkerAt, Worker
        <4>2. worker'.at # "tellReady"
          BY <2>3
        <4>3. QED
          BY Zenon, <1>7, <4>1, <4>2 DEF MarkReady, Mark
      <3>2. Cached' = Cached
        BY Zenon, <3>1, CachedEffects
      <3>3. QED
        BY Zenon, <1>1, <2>1, <2>3, <3>2
    <2>4. CASE worker'.at = "tellReady" /\ worker'.id = worker.id
      <3>1. Spare' = {worker.id} /\ worker'.at \notin {"file", "row"}
        BY SMT, <2>4 DEF Spare
      <3>2. Counted' \subseteq Counted
        BY Zenon, <2>1, <2>2, <3>1 DEF Counted
      <3>3. QED
        BY Zenon, <3>1, <3>2, CountedStep DEF BudgetInv
    <2>5. QED
      BY Zenon, <1>7, <2>3, <2>4, WorkerEffects
  <1>8. CASE TellReady
    <2>1. worker.at = "tellReady" /\ cut \subseteq cut' /\ status' = status /\ key' = key
      BY Zenon, <1>8 DEF TellReady, Tell, rowVars
    <2>2. worker'.at = "measure" /\ worker'.id = worker.id
      BY SMT, <1>0, <1>8 DEF TellReady, WorkerAt, Worker
    <2>3. Spare = {worker.id} /\ Spare' = {worker.id} /\ worker'.at \notin {"file", "row"}
      BY SMT, <2>1, <2>2 DEF Spare
    <2>4. Cached' = Cached
      BY Zenon, <2>1, CachedEffects
    <2>5. Counted' \subseteq Counted
      BY Zenon, <2>1, <2>3, <2>4 DEF Counted
    <2>6. QED
      BY Zenon, <2>3, <2>5, CountedStep DEF BudgetInv
  <1>9. CASE Measure
    <2>1. worker.at = "measure" /\ status' = status /\ key' = key
      BY Zenon, <1>9 DEF Measure, rowVars
    <2>2. Spare = {worker.id}
      BY SMT, <2>1 DEF Spare
    <2>3. Cached' = Cached /\ Cached \in SUBSET Ids
      BY Zenon, <2>1, CachedEffects DEF Cached
    <2>4. \A S : [worker EXCEPT !.at = "file", !.victims = S].at = "file"
              /\ [worker EXCEPT !.at = "file", !.victims = S].victims = S
      BY SMT, <1>0 DEF Worker
    <2>5. CASE WorkerRests("look") /\ cut' = cut \cup {worker.id}
      <3>1. worker'.at = "look"
        BY SMT, <2>5 DEF WorkerRests, Off
      <3>2. Cached' \ cut' \subseteq Counted
        BY Zenon, <2>2, <2>3, <2>5 DEF Counted
      <3>3. QED
        BY Zenon, <1>3, <2>3, <3>1, <3>2
    <2>6. CASE Cardinality(Cached) <= Budget /\ WorkerRests("look") /\ cut' = cut
      <3>1. worker'.at = "look"
        BY SMT, <2>6 DEF WorkerRests, Off
      <3>2. worker'.at \notin {"file", "row"}
        BY <3>1
      <3>3. Counted' \in SUBSET Cached
        BY Zenon, <2>3 DEF Counted
      <3>4. Cardinality(Counted') <= Budget
        <4>1. Counted' \in SUBSET Ids
          BY <2>3, <3>3
        <4>2. Cardinality(Counted') <= Cardinality(Cached)
          BY Zenon, <2>3, <3>3, Smaller
        <4>3. Cardinality(Counted') \in Nat /\ Cardinality(Cached) \in Nat /\ Budget \in Nat
          BY <2>3, <4>1, FiniteIds, PipelineAssumption
        <4>4. QED
          BY SMT, <2>6, <4>2, <4>3
      <3>5. QED
        BY Zenon, <3>2, <3>4 DEF BudgetInv
    <2>7. ASSUME NEW S \in SUBSET Cached, Cardinality(Cached) > Budget,
                 Cardinality(S) = Need(Cardinality(Cached)), cut' = cut,
                 worker' = [worker EXCEPT !.at = IF S = {} THEN "look" ELSE "file", !.victims = S]
          PROVE  BudgetInv'
      <3>1. Cardinality(S) = Cardinality(Cached) - Budget
        BY <2>7 DEF Need
      <3>2. Cardinality(Cached \ S) = Budget /\ S # {}
        BY <2>3, <2>7, <3>1, Evicted
      <3>3. worker' = [worker EXCEPT !.at = "file", !.victims = S]
        BY Zenon, <2>7, <3>2
      <3>4. worker'.at = "file" /\ worker'.victims = S
        BY Zenon, <2>4, <3>3
      <3>5. Spare' = S
        BY SMT, <3>4 DEF Spare
      <3>6. Counted' \in SUBSET (Cached \ S) /\ Cached \ S \in SUBSET Ids
        BY Zenon, <2>3, <3>5 DEF Counted
      <3>7. Cardinality(Counted') <= Cardinality(Cached \ S)
        BY Zenon, <3>6, Smaller
      <3>8. Cardinality(Counted') <= Budget
        BY Zenon, <3>2, <3>7
      <3>9. QED
        BY Zenon, <2>3, <3>2, <3>4, <3>8 DEF BudgetInv
    <2>8. QED
      BY Zenon, <1>9, <2>5, <2>6, <2>7 DEF Measure
  <1>10. CASE RemoveFile
    <2>1. worker.at = "file" /\ status' = status /\ key' = key /\ cut' = cut
      BY Zenon, <1>10 DEF RemoveFile, rowVars
    <2>2. worker'.at = "row" /\ worker'.victims = worker.victims
      BY Zenon, <1>10, WorkerEffects
    <2>3. Spare = worker.victims /\ Spare' = worker.victims
      BY SMT, <2>1, <2>2 DEF Spare
    <2>4. Cached' = Cached
      BY Zenon, <2>1, CachedEffects
    <2>5. Counted' \subseteq Counted
      BY Zenon, <2>1, <2>3, <2>4 DEF Counted
    <2>6. QED
      BY Zenon, <2>1, <2>2, <2>4, <2>5, CountedStep DEF BudgetInv
  <1>11. CASE DeleteArtifact
    <2>1. worker.at = "row" /\ key' = key
      BY Zenon, <1>11 DEF DeleteArtifact
    <2>2. Spare = worker.victims
      BY SMT, <2>1 DEF Spare
    <2>3. CASE /\ status' = [status EXCEPT ![worker.victim] = "deleted"]
               /\ cut' = cut \ {worker.victim}
               /\ worker.victims \ {worker.victim} = {} \/ worker'.at = "file"
      <3>1. Cached' = Cached \ {worker.victim} /\ worker.victim \in worker.victims
        BY Zenon, <2>1, <2>3, CachedEffects DEF FileInv
      <3>2. CASE worker'.at = "file" /\ worker'.victims = worker.victims \ {worker.victim}
        <4>1. Spare' = worker.victims \ {worker.victim}
          BY SMT, <3>2 DEF Spare
        <4>2. Counted' \subseteq Counted
          BY Zenon, <2>2, <2>3, <3>1, <4>1 DEF Counted
        <4>3. Cached' \ worker'.victims = Cached \ worker.victims
          BY Zenon, <3>1, <3>2
        <4>4. QED
          BY Zenon, <2>1, <4>2, <4>3, CountedStep DEF BudgetInv
      <3>3. CASE worker'.at = "look"
        <4>1. worker.victims \ {worker.victim} = {}
          BY <2>3, <3>3
        <4>2. Cached' \ cut' \subseteq Counted
          BY Zenon, <2>2, <2>3, <3>1, <4>1 DEF Counted
        <4>3. QED
          BY Zenon, <1>3, <3>1, <3>3, <4>2
      <3>4. QED
        BY Zenon, <1>11, <3>2, <3>3, WorkerEffects
    <2>4. CASE /\ status' = status /\ WorkerRests("look")
               /\ cut' = cut \cup worker.victims \cup {worker.id}
      <3>1. worker'.at = "look"
        BY SMT, <2>4 DEF WorkerRests, Off
      <3>2. Cached' = Cached
        BY Zenon, <2>1, <2>4, CachedEffects
      <3>3. Cached' \ cut' \subseteq Counted
        BY Zenon, <2>2, <2>4, <3>2 DEF Counted
      <3>4. QED
        BY Zenon, <1>3, <3>1, <3>2, <3>3
    <2>5. QED
      <3>1. \A S : [worker EXCEPT !.at = "file", !.victims = S, !.victim = 0].at = "file"
        BY SMT, <1>0 DEF Worker
      <3>2. QED
        BY Zenon, <1>11, <2>3, <2>4, <3>1 DEF DeleteArtifact
  <1>12. CASE Exit \/ Crash
    <2>1. status' = status /\ key' = key /\ cut' = cut \cup InHand
      BY Zenon, <1>12 DEF Exit, Crash, Ends, rowVars
    <2>2. worker'.at \in Rest
      <3>1. worker' = Off
        BY Zenon, <1>12 DEF Exit, Crash, Ends
      <3>2. QED
        BY SMT, <3>1 DEF Off
    <2>3. Cached' = Cached
      BY Zenon, <2>1, CachedEffects
    <2>4. Spare \subseteq InHand
      <3>1. CASE worker.at \in {"tellReady", "measure", "file", "row"}
        <4>1. Spare \subseteq {worker.id} \cup worker.victims
          BY SMT, <3>1 DEF Spare
        <4>2. worker.at \notin {"off", "look", "wait", "took"}
          BY <3>1
        <4>3. QED
          BY Zenon, <4>1, <4>2 DEF InHand
      <3>2. CASE worker.at \notin {"tellReady", "measure", "file", "row"}
        BY SMT, <3>2 DEF Spare
      <3>3. QED
        BY <3>1, <3>2
    <2>5. Cached' \ cut' \subseteq Counted
      BY Zenon, <2>1, <2>3, <2>4 DEF Counted
    <2>6. QED
      BY Zenon, <1>3, <2>2, <2>3, <2>5
  <1>13. QED
    BY Zenon, <1>4, <1>5, <1>6, <1>7, <1>8, <1>9, <1>10, <1>11, <1>12 DEF Next, WorkerStep

LEMMA BudgetCorrect == Spec => [](FilesInv /\ BudgetInv)
  <1>1. Init => BudgetInv
    <2> SUFFICES ASSUME Init PROVE BudgetInv
      OBVIOUS
    <2>1. worker.at = "off"
      BY SMT DEF Init, Off
    <2>2. Cached = {}
      BY SMT DEF Init, Cached
    <2>3. Counted = {}
      BY Zenon, <2>2 DEF Counted
    <2>4. Cardinality(Counted) = 0
      BY <2>3, FS_EmptySet
    <2>5. Cardinality(Counted) <= Budget
      BY SMT, <2>4, PipelineAssumption
    <2>6. worker.at \notin {"file", "row"}
      BY <2>1
    <2>7. QED
      BY Zenon, <2>5, <2>6 DEF BudgetInv
  <1>2. FilesInv /\ BudgetInv /\ [Next]_vars => BudgetInv'
    <2> SUFFICES ASSUME FilesInv, BudgetInv, [Next]_vars PROVE BudgetInv'
      OBVIOUS
    <2>1. CASE Next
      BY <2>1, BudgetStep DEF FilesInv
    <2>2. CASE UNCHANGED vars
      <3>1. status' = status /\ key' = key /\ worker' = worker /\ cut' = cut
        BY Zenon, <2>2 DEF vars, rowVars, restVars
      <3>2. Cached' = Cached
        BY Zenon, <3>1 DEF Cached
      <3>3. Counted' = Counted
        BY Zenon, <3>1, <3>2 DEF Counted, Spare
      <3>4. QED
        BY Zenon, <3>1, <3>2, <3>3 DEF BudgetInv
    <2>3. QED
      BY <2>1, <2>2
  <1>3. QED
    BY <1>1, <1>2, FilesCorrect, PTL DEF Spec

(* Between two transcodes the cache fits its budget, not counting rows of  *)
(* a transcode or an eviction that was cut short: EnforceBudget takes away *)
(* enough, whatever is requested while it runs.                            *)
THEOREM StaysWithinBudget == Spec => []WithinBudget
  <1>1. FilesInv /\ BudgetInv => WithinBudget
    <2> SUFFICES ASSUME BudgetInv, worker.at \in {"off", "look", "wait", "took"}
                 PROVE  Cardinality(Cached \ cut) <= Budget
      BY Zenon DEF WithinBudget
    <2>1. Spare = {}
      BY SMT DEF Spare
    <2>2. Counted = Cached \ cut
      BY Zenon, <2>1 DEF Counted
    <2>3. QED
      BY Zenon, <2>2 DEF BudgetInv
  <1>2. QED
    BY <1>1, BudgetCorrect, PTL

(* Nothing is evicted from a cache that fits its budget, although the      *)
(* candidates are chosen once and deleted one after the other while        *)
(* requests go on.                                                         *)
THEOREM EvictsOnlyWhenFull == Spec => NoNeedlessEviction
  <1>1. FilesInv /\ BudgetInv /\ [Next]_vars =>
          [\A i \in Ids : status[i] = "ready" /\ status'[i] = "deleted"
             => Cardinality(Cached) > Budget]_vars
    <2> SUFFICES ASSUME FilesInv, BudgetInv, Next,
                        NEW i \in Ids, status[i] = "ready", status'[i] = "deleted"
                 PROVE  Cardinality(Cached) > Budget
      BY Zenon
    <2>1. /\ status \in [Ids -> InTable \cup {"unused", "deleted"}]
      BY DEF FilesInv, TypeInv, TypeOK
    <2>2. DeleteArtifact
      <3>1. status' # status
        BY SMT
      <3>2. \A j, new : status' = [status EXCEPT ![j] = new] => new = "deleted"
        BY SMT, <2>1
      <3>3. "queued" # "deleted" /\ "ready" # "deleted" /\ "failed" # "deleted" /\ "processing" # "deleted"
        OBVIOUS
      <3>4. \A c \in Clients : ~(Ask(c) \/ RequestStep(c))
        <4>1. ASSUME NEW c \in Clients, Insert(c) PROVE FALSE
          <5>1. \/ \E j : status' = [status EXCEPT ![j] = "ready"]
                \/ \E j : status' = [status EXCEPT ![j] = "queued"]
            BY Zenon, <4>1 DEF Insert
          <5>2. QED
            BY Zenon, <3>2, <3>3, <5>1
        <4>2. QED
          BY Zenon, <3>1, <4>1 DEF Ask, RequestStep, TrackMissing, RequestFails, Find, Refused,
             Reread, Publish, Finish, rowVars
      <3>5. ~MarkProcessing /\ ~MarkReady /\ ~MarkFailed
        <4>1. MarkProcessing =>
                status' = [status EXCEPT ![worker.id] = "processing"] \/ status' = status
          BY Zenon DEF MarkProcessing
        <4>2. MarkReady =>
                status' = [status EXCEPT ![worker.id] = "ready"] \/ status' = status
          BY Zenon DEF MarkReady, Mark
        <4>3. MarkFailed =>
                status' = [status EXCEPT ![worker.id] = "failed"] \/ status' = status
          BY Zenon DEF MarkFailed, Mark
        <4>4. QED
          BY Zenon, <3>1, <3>2, <3>3, <4>1, <4>2, <4>3
      <3>6. QED
        BY Zenon, <3>1, <3>4, <3>5 DEF Next, WorkerStep, LookForWork, WakeUp, Leave, Transcode,
           TellReady, TellFailed, Measure, RemoveFile, Start, Stop, Exit, Crash, Ends, rowVars
    <2>3. worker.at = "row"
      BY <2>2 DEF DeleteArtifact
    <2>4. /\ worker.victim \in worker.victims /\ worker.victims \in SUBSET Cached
          /\ Cardinality(Cached \ worker.victims) = Budget
      BY Zenon, <2>3 DEF FilesInv, FileInv, BudgetInv
    <2>5. Cached \in SUBSET Ids /\ IsFiniteSet(Cached)
      BY FiniteIds DEF Cached
    <2>6. /\ Cardinality(Cached \ worker.victims) <= Cardinality(Cached)
          /\ Cardinality(Cached) = Cardinality(Cached \ worker.victims) => Cached = Cached \ worker.victims
      BY Zenon, <2>5, FS_Subset
    <2>7. Cached # Cached \ worker.victims
      BY Zenon, <2>4
    <2>8. Cardinality(Cached) \in Nat /\ Budget \in Nat
      BY <2>5, FS_CardinalityType, PipelineAssumption
    <2>9. QED
      BY SMT, <2>4, <2>6, <2>7, <2>8
  <1>2. QED
    BY <1>1, BudgetCorrect, PTL DEF Spec, NoNeedlessEviction

=============================================================================
