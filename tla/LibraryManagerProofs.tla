------------------------ MODULE LibraryManagerProofs ------------------------
(* What holds of LibraryManager for every set of goroutine slots, every set *)
(* of directories and every bound.  Flags (Boolean variables) and the rest  *)
(* of the state are kept apart: Zenon proves the one, SMT the other.  Each  *)
(* safety property is proved from type correctness and the part of the     *)
(* inductive invariant it needs.                                           *)
EXTENDS LibraryManager, TLAPS

USE DEF storeVars, srcVars, lifeVars, flagVars, jobVars, scanVars, workerVars, triggerVars,
        enrichVars, noteVars, bounds

-----------------------------------------------------------------------------
(* Type correctness                                                        *)

LEMMA InitType == Init => TypeOK
  <1>1. Init => FlagsOK
    BY Zenon DEF Init, FlagsOK
  <1>2. Init => StateOK
    BY SMT DEF Init, StateOK, JobPCs, Outcomes, Config, NoConf, NoUnlink, Kinds
  <1>3. QED
    BY <1>1, <1>2 DEF TypeOK

(* What is left to be announced when a job that was replaced or failed has *)
(* finished: nothing that a finalization changed is still "finalized", and *)
(* upserts only if the job made none.                                      *)
LEMMA AfterStale ==
  ASSUME NEW j \in Jobs
  PROVE  /\ "finalized" \notin AfterStalePublish(j)
         /\ "upserts" \in AfterStalePublish(j) => "upserts" \in unannounced /\ j \notin mutated
         /\ unannounced \in SUBSET {"upserts", "finalized"} =>
               AfterStalePublish(j) \in SUBSET {"upserts", "finalized"}
  BY SMT DEF AfterStalePublish

(* The flags: every action assigns formulas to them. *)
LEMMA FlagsType == ASSUME FlagsOK, Next PROVE FlagsOK'
  <1> USE DEF FlagsOK, StartScan, TriggerEnrichment
  <1>1. ASSUME NEW j \in Jobs, ScanStep(j) PROVE FlagsOK'
    <2>1. CASE ScanAcquire(j)
      BY Zenon, <2>1 DEF ScanAcquire
    <2>2. CASE ScanWrite(j)
      BY Zenon, <2>2 DEF ScanWrite
    <2>3. CASE ScanEnd(j)
      BY Zenon, <2>3 DEF ScanEnd
    <2>4. CASE FinishStale(j)
      BY Zenon, <2>4 DEF FinishStale
    <2>5. CASE FinishCurrent(j)
      BY Zenon, <2>5 DEF FinishCurrent
    <2>6. CASE ScanRelease(j)
      BY Zenon, <2>6 DEF ScanRelease
    <2>7. CASE ScanTrigger(j)
      BY Zenon, <2>7 DEF ScanTrigger
    <2>8. QED
      BY Zenon, <1>1, <2>1, <2>2, <2>3, <2>4, <2>5, <2>6, <2>7 DEF ScanStep
  <1>2. CASE EnrichStep
    <2>1. CASE EnrichTake
      BY Zenon, <2>1 DEF EnrichTake
    <2>2. CASE EnrichAcquire
      BY Zenon, <2>2 DEF EnrichAcquire
    <2>3. ASSUME NEW s \in BOOLEAN, EnrichReset(s) PROVE FlagsOK'
      BY Zenon, <2>3 DEF EnrichReset
    <2>4. CASE EnrichCheck
      BY Zenon, <2>4 DEF EnrichCheck
    <2>5. CASE EnrichRun \/ EnrichRelease \/ EnrichSettle \/ EnrichBackoff
      BY Zenon, <2>5 DEF EnrichRun, EnrichRelease, EnrichSettle, EnrichBackoff
    <2>6. QED
      BY Zenon, <1>2, <2>1, <2>2, <2>3, <2>4, <2>5 DEF EnrichStep
  <1>3. CASE AdminStep
    <2>1. ASSUME NEW r \in Roots, Configure(r) PROVE FlagsOK'
      BY Zenon, <2>1 DEF Configure
    <2>2. CASE UnlinkFence
      BY Zenon, <2>2 DEF UnlinkFence
    <2>3. CASE UnlinkStore \/ UnlinkDone
      BY Zenon, <2>3 DEF UnlinkStore, UnlinkDone
    <2>4. CASE UnlinkFailed
      BY Zenon, <2>4 DEF UnlinkFailed
    <2>5. CASE Rescan
      BY Zenon, <2>5 DEF Rescan
    <2>6. ASSUME NEW k \in Kinds, RequestReset(k) PROVE FlagsOK'
      BY Zenon, <2>6 DEF RequestReset
    <2>7. QED
      BY Zenon, <1>3, <2>1, <2>2, <2>3, <2>4, <2>5, <2>6 DEF AdminStep
  <1>4. CASE ProcessStep
    <2>1. CASE SchedulerTick
      BY Zenon, <2>1 DEF SchedulerTick
    <2>2. CASE SetEnricher
      BY Zenon, <2>2 DEF SetEnricher
    <2>3. CASE StartServing
      BY Zenon, <2>3 DEF StartServing
    <2>4. CASE CloseBegin \/ CloseWait
      BY Zenon, <2>4 DEF CloseBegin, CloseWait
    <2>5. CASE Restart
      BY Zenon, <2>5 DEF Restart
    <2>6. QED
      BY Zenon, <1>4, <2>1, <2>2, <2>3, <2>4, <2>5 DEF ProcessStep
  <1>5. QED
    BY Zenon, <1>1, <1>2, <1>3, <1>4 DEF Next

(* startScanLocked keeps the types of what it changes, whatever it is given *)
LEMMA StartScanType ==
  ASSUME StateOK, NEW j \in Jobs, NEW c \in Config, NEW p \in [Jobs -> JobPCs],
         NEW o \in [Jobs -> Outcomes], StartScan(j, c, p, o)
  PROVE  /\ pc' \in [Jobs -> JobPCs] /\ cap' \in [Jobs -> Config]
         /\ outcome' \in [Jobs -> Outcomes]
         /\ mutated' \in SUBSET Jobs /\ began' \in SUBSET Jobs
  BY SMT DEF StateOK, StartScan, JobPCs, Outcomes

LEMMA ScanType ==
  ASSUME StateOK, NEW j \in Jobs, ScanStep(j)
  PROVE  StateOK'
  <1> USE DEF StateOK
  <1>1. CASE ScanAcquire(j)
    BY SMT, <1>1 DEF ScanAcquire, JobPCs, Outcomes
  <1>2. CASE ScanWrite(j)
    <2>1. cap[j].id \in Nat
      BY SMT DEF Config
    <2>2. rows' \in SUBSET Nat /\ cached' \in SUBSET Nat
      BY Zenon, <1>2, <2>1 DEF ScanWrite
    <2>3. unannounced' \in SUBSET {"upserts", "finalized"}
      BY Zenon, <1>2 DEF ScanWrite
    <2>4. QED
      BY SMT, <1>2, <2>2, <2>3 DEF ScanWrite
  <1>3. CASE ScanEnd(j)
    <2>1. rows' \in SUBSET Nat
      BY Zenon, <1>3 DEF ScanEnd
    <2>2. pc' \in [Jobs -> JobPCs] /\ outcome' \in [Jobs -> Outcomes]
      BY SMT, <1>3 DEF ScanEnd, JobPCs, Outcomes
    <2>3. unannounced' \in SUBSET {"upserts", "finalized"}
      BY Zenon, <1>3 DEF ScanEnd
    <2>4. UNCHANGED <<db, cached, srcVars, lifeVars, flagVars, op, cap, mutated, began, enrichVars,
                      unscanned, bounds>>
      BY Zenon, <1>3 DEF ScanEnd
    <2>5. QED
      BY SMT, <2>1, <2>2, <2>3, <2>4
  <1>4. CASE FinishStale(j)
    <2> DEFINE p == [pc EXCEPT ![j] = "release"]
               o == [outcome EXCEPT ![j] = "none"]
    <2>1. p \in [Jobs -> JobPCs] /\ o \in [Jobs -> Outcomes]
      BY SMT DEF JobPCs, Outcomes
    <2>u. unannounced' \in SUBSET {"upserts", "finalized"}
      BY <1>4, AfterStale DEF FinishStale
    <2>2. CASE StartsPending
      <3>1. PICK k \in Jobs : StartScan(k, conf, p, o)
        BY <1>4, <2>2 DEF FinishStale
      <3> HIDE DEF p, o
      <3>2. /\ pc' \in [Jobs -> JobPCs] /\ cap' \in [Jobs -> Config]
            /\ outcome' \in [Jobs -> Outcomes]
            /\ mutated' \in SUBSET Jobs /\ began' \in SUBSET Jobs
        BY <2>1, <3>1, StartScanType
      <3>3. QED
        BY SMT, <1>4, <2>u, <3>2 DEF FinishStale
    <2>3. CASE ~StartsPending
      BY SMT, <1>4, <2>u, <2>1, <2>3 DEF FinishStale
    <2>4. QED
      BY <2>2, <2>3
  <1>5. CASE FinishCurrent(j)
    <2>1. pc' = [pc EXCEPT ![j] = "release"]
      BY Zenon, <1>5 DEF FinishCurrent
    <2>2. \/ outcome' = [outcome EXCEPT ![j] = "none"]
          \/ outcome' = outcome
      BY Zenon, <1>5 DEF FinishCurrent
    <2>3. /\ UNCHANGED <<storeVars, srcVars, lifeVars, op, cap, mutated, began, enrichVars, bounds>>
      BY Zenon, <1>5 DEF FinishCurrent
    <2>4. pc' \in [Jobs -> JobPCs] /\ outcome' \in [Jobs -> Outcomes]
      BY SMT, <2>1, <2>2 DEF JobPCs, Outcomes
    <2>u. unannounced' \in SUBSET {"upserts", "finalized"}
      <3>1. unannounced' \in {unannounced, AfterStalePublish(j), {}}
        BY Zenon, <1>5 DEF FinishCurrent
      <3>2. QED
        BY <3>1, AfterStale
    <2>5. QED
      BY SMT, <2>3, <2>4, <2>u
  <1>6. CASE ScanRelease(j)
    BY SMT, <1>6 DEF ScanRelease, ReleasedBy, JobPCs, Outcomes, Config, NoConf
  <1>7. CASE ScanTrigger(j)
    BY SMT, <1>7 DEF ScanTrigger, TriggerEnrichment, JobPCs
  <1>8. QED
    BY <1>1, <1>2, <1>3, <1>4, <1>5, <1>6, <1>7 DEF ScanStep

LEMMA EnrichType ==
  ASSUME StateOK, EnrichStep
  PROVE  StateOK'
  <1> USE DEF StateOK
  <1>1. CASE EnrichTake
    BY SMT, <1>1 DEF EnrichTake
  <1>2. CASE EnrichAcquire
    BY SMT, <1>2 DEF EnrichAcquire
  <1>3. ASSUME NEW s \in BOOLEAN, EnrichReset(s)
        PROVE  StateOK'
    <2>1. NextReset \in Kinds
      BY SMT DEF NextReset, Kinds
    <2>2. resets' \in SUBSET Kinds
      BY Zenon, <1>3, <2>1 DEF EnrichReset, RetriedReset
    <2>3. QED
      BY SMT, <1>3, <2>2 DEF EnrichReset
  <1>4. CASE EnrichCheck
    BY SMT, <1>4 DEF EnrichCheck
  <1>5. CASE EnrichRun
    BY SMT, <1>5 DEF EnrichRun
  <1>6. CASE EnrichRelease
    BY SMT, <1>6 DEF EnrichRelease
  <1>7. CASE EnrichSettle
    BY SMT, <1>7 DEF EnrichSettle, AfterPass
  <1>8. CASE EnrichBackoff
    BY SMT, <1>8 DEF EnrichBackoff
  <1>9. QED
    BY <1>1, <1>2, <1>3, <1>4, <1>5, <1>6, <1>7, <1>8 DEF EnrichStep

(* ConfigureFilesystemSource leaves well-formed settings *)
LEMMA ReconfiguredType ==
  ASSUME StateOK, NEW r \in Roots
  PROVE  Reconfigured(r) \in [root : Roots \cup {NoRoot}, id : Nat, gen : Nat]
  BY SMT DEF StateOK, Reconfigured

LEMMA ConfigureType ==
  ASSUME StateOK, NEW r \in Roots, Configure(r)
  PROVE  StateOK'
  <1> USE DEF StateOK
  <1>1. db' \in [root : Roots \cup {NoRoot}, id : Nat, gen : Nat]
    BY ReconfiguredType DEF Configure
  <1>2. conf' \in Config
    <2>1. conf' = [src |-> sources + 1, id |-> db'.id, gen |-> db'.gen]
      BY DEF Configure
    <2>2. db'.id \in Nat /\ db'.gen \in Nat /\ sources + 1 \in Nat
      BY <1>1
    <2>3. QED
      BY <2>1, <2>2 DEF Config
  <1>3. rows' \in SUBSET Nat /\ cached' \in SUBSET Nat
    BY Zenon DEF Configure
  <1>u. unannounced' \in SUBSET {"upserts", "finalized"}
    BY Zenon DEF Configure
  <1>4. /\ pc' \in [Jobs -> JobPCs] /\ cap' \in [Jobs -> Config] /\ outcome' \in [Jobs -> Outcomes]
        /\ mutated' \in SUBSET Jobs /\ began' \in SUBSET Jobs
    <2>1. CASE scanning
      BY SMT, <2>1 DEF Configure
    <2>2. CASE ~scanning
      <3>1. PICK j \in Jobs : StartScan(j, conf', pc, outcome)
        BY <2>2 DEF Configure
      <3>2. QED
        BY <1>2, <3>1, StartScanType
    <2>3. QED
      BY <2>1, <2>2
  <1>5. QED
    BY SMT, <1>1, <1>2, <1>3, <1>u, <1>4 DEF Configure

LEMMA UnlinkFailedType ==
  ASSUME StateOK, UnlinkFailed
  PROVE  StateOK'
  <1> USE DEF StateOK
  <1>1. conf' \in Config
    <2>1. conf' = conf \/ conf' = RestoredConf
      BY Zenon DEF UnlinkFailed
    <2>2. RestoredConf \in Config
      BY SMT DEF RestoredConf, Config
    <2>3. QED
      BY <2>1, <2>2
  <1>2. /\ pc' \in [Jobs -> JobPCs] /\ cap' \in [Jobs -> Config] /\ outcome' \in [Jobs -> Outcomes]
        /\ mutated' \in SUBSET Jobs /\ began' \in SUBSET Jobs
    <2>1. CASE \E j \in Jobs : StartScan(j, conf', pc, outcome)
      <3>1. PICK j \in Jobs : StartScan(j, conf', pc, outcome)
        BY <2>1
      <3>2. QED
        BY <1>1, <3>1, StartScanType
    <2>2. CASE UNCHANGED jobVars
      BY SMT, <2>2
    <2>3. QED
      BY <2>1, <2>2 DEF UnlinkFailed
  <1>3. unlink' \in [pc : {"none", "fenced", "done", "failed"}, src : Nat, id : Nat, gen : Nat]
    BY SMT DEF UnlinkFailed, NoUnlink
  <1>4. QED
    BY SMT, <1>1, <1>2, <1>3 DEF UnlinkFailed

LEMMA AdminType ==
  ASSUME StateOK, AdminStep
  PROVE  StateOK'
  <1> USE DEF StateOK
  <1>1. CASE UnlinkFence
    BY SMT, <1>1 DEF UnlinkFence, Config
  <1>2. CASE UnlinkStore
    <2>1. rows' \in SUBSET Nat /\ cached' \in SUBSET Nat
      BY Zenon, <1>2 DEF UnlinkStore
    <2>2. db' \in [root : Roots \cup {NoRoot}, id : Nat, gen : Nat]
      <3>1. db' = db \/ db' = [root |-> NoRoot, id |-> 0, gen |-> db.gen + 1]
        BY Zenon, <1>2 DEF UnlinkStore
      <3>2. QED
        BY SMT, <3>1
    <2>3. unlink' \in [pc : {"none", "fenced", "done", "failed"}, src : Nat, id : Nat, gen : Nat]
      <3>1. \/ unlink' = [pc |-> "done", src |-> 0, id |-> 0, gen |-> db.gen + 1]
            \/ unlink' = [unlink EXCEPT !.pc = "failed"]
        BY Zenon, <1>2 DEF UnlinkStore
      <3>2. QED
        BY SMT, <3>1
    <2>4. QED
      BY Zenon, <1>2, <2>1, <2>2, <2>3 DEF UnlinkStore
  <1>3. CASE UnlinkDone
    <2>1. conf' = [conf EXCEPT !.gen = unlink.gen] /\ unlink' = NoUnlink
      BY Zenon, <1>3 DEF UnlinkDone
    <2>2. conf' \in Config
      BY SMT, <2>1 DEF Config
    <2>3. unlink' \in [pc : {"none", "fenced", "done", "failed"}, src : Nat, id : Nat, gen : Nat]
      BY SMT, <2>1 DEF NoUnlink
    <2>4. QED
      BY SMT, <1>3, <2>2, <2>3 DEF UnlinkDone
  <1>4. CASE Rescan
    <2>1. PICK j \in Jobs : StartScan(j, conf, pc, outcome)
      BY <1>4 DEF Rescan
    <2>2. /\ pc' \in [Jobs -> JobPCs] /\ cap' \in [Jobs -> Config]
          /\ outcome' \in [Jobs -> Outcomes]
          /\ mutated' \in SUBSET Jobs /\ began' \in SUBSET Jobs
      BY <2>1, StartScanType
    <2>3. QED
      BY SMT, <1>4, <2>2 DEF Rescan
  <1>5. ASSUME NEW k \in Kinds, RequestReset(k)
        PROVE  StateOK'
    <2>1. resets' \in SUBSET Kinds /\ owed' \in SUBSET Kinds
      BY Zenon, <1>5 DEF RequestReset, TriggerEnrichment
    <2>2. QED
      BY SMT, <1>5, <2>1 DEF RequestReset, TriggerEnrichment
  <1>6. QED
    BY <1>1, <1>2, <1>3, <1>4, <1>5, ConfigureType, UnlinkFailedType DEF AdminStep

LEMMA ProcessType ==
  ASSUME StateOK, ProcessStep
  PROVE  StateOK'
  <1> USE DEF StateOK
  <1>1. CASE SchedulerTick
    BY SMT, <1>1 DEF SchedulerTick, TriggerEnrichment
  <1>2. CASE SetEnricher
    BY SMT, <1>2 DEF SetEnricher
  <1>3. CASE StartServing
    <2>1. CASE \E j \in Jobs : StartScan(j, conf, pc, outcome) /\ UNCHANGED enrichVars
      <3>1. PICK j \in Jobs : StartScan(j, conf, pc, outcome) /\ UNCHANGED enrichVars
        BY <2>1
      <3>2. /\ pc' \in [Jobs -> JobPCs] /\ cap' \in [Jobs -> Config]
            /\ outcome' \in [Jobs -> Outcomes]
            /\ mutated' \in SUBSET Jobs /\ began' \in SUBSET Jobs
        BY <3>1, StartScanType
      <3>3. QED
        BY SMT, <1>3, <3>1, <3>2 DEF StartServing
    <2>2. CASE UNCHANGED scanVars /\ (UNCHANGED enrichVars \/ TriggerEnrichment({}))
      BY SMT, <1>3, <2>2 DEF StartServing, TriggerEnrichment
    <2>3. QED
      BY <1>3, <2>1, <2>2 DEF StartServing
  <1>4. CASE CloseBegin
    BY SMT, <1>4 DEF CloseBegin
  <1>5. CASE CloseWait
    BY SMT, <1>5 DEF CloseWait
  <1>6. CASE Restart
    BY SMT, <1>6 DEF Restart, NewManager, NoConf, NoUnlink, Config, JobPCs, Outcomes, Kinds
  <1>7. QED
    BY <1>1, <1>2, <1>3, <1>4, <1>5, <1>6 DEF ProcessStep

LEMMA NextType == TypeOK /\ [Next]_vars => TypeOK'
  <1> SUFFICES ASSUME TypeOK, [Next]_vars
               PROVE  TypeOK'
    OBVIOUS
  <1>1. CASE UNCHANGED vars
    <2>1. FlagsOK'
      BY Zenon, <1>1 DEF vars, TypeOK, FlagsOK
    <2>2. StateOK'
      BY SMT, <1>1 DEF vars, TypeOK, StateOK
    <2>3. QED
      BY <2>1, <2>2 DEF TypeOK
  <1>2. CASE Next
    <2>1. FlagsOK'
      BY <1>2, FlagsType DEF TypeOK
    <2>2. StateOK'
      BY <1>2, ScanType, EnrichType, AdminType, ProcessType DEF TypeOK, Next
    <2>3. QED
      BY <2>1, <2>2 DEF TypeOK
  <1>3. QED
    BY <1>1, <1>2

(* Every variable of the manager keeps its type. *)
THEOREM TypeCorrect == Spec => []TypeOK
  BY InitType, NextType, PTL DEF Spec

-----------------------------------------------------------------------------
(* The operation token                                                     *)

(* Starting a scan goroutine does not touch the token or any other goroutine *)
LEMMA StartScanFrame ==
  ASSUME StateOK, NEW j \in Jobs, NEW c, NEW p \in [Jobs -> JobPCs],
         NEW o \in [Jobs -> Outcomes], StartScan(j, c, p, o)
  PROVE  /\ p[j] = "idle" /\ pc'[j] = "wait" /\ j \notin began' /\ cap'[j] = c
         /\ \A i \in Jobs \ {j} : /\ pc'[i] = p[i] /\ cap'[i] = cap[i] /\ outcome'[i] = o[i]
                                  /\ i \in began' <=> i \in began
                                  /\ i \in mutated' <=> i \in mutated
  BY SMT DEF StartScan, StateOK

LEMMA StartScanToken ==
  ASSUME StateOK, TokenInv, NEW j \in Jobs, NEW c, NEW o \in [Jobs -> Outcomes],
         StartScan(j, c, pc, o), UNCHANGED <<op, epc>>
  PROVE  TokenInv'
  <1>1. pc \in [Jobs -> JobPCs]
    BY DEF StateOK
  <1>2. QED
    BY SMT, <1>1, StartScanFrame DEF TokenInv, OperationExclusive, StateOK

LEMMA ScanToken ==
  ASSUME StateOK, TokenInv, NEW j \in Jobs, ScanStep(j)
  PROVE  TokenInv'
  <1> USE ConstantsAssumption DEF ConstantsAssumption, StateOK, TokenInv, OperationExclusive
  <1>1. CASE ScanAcquire(j)
    BY SMT, <1>1 DEF ScanAcquire
  <1>2. CASE ScanWrite(j)
    BY SMT, <1>2 DEF ScanWrite
  <1>3. CASE ScanEnd(j)
    BY SMT, <1>3 DEF ScanEnd
  <1>4. CASE FinishStale(j)
    BY SMT, <1>4 DEF FinishStale, StartScan
  <1>5. CASE FinishCurrent(j)
    BY SMT, <1>5 DEF FinishCurrent
  <1>6. CASE ScanRelease(j)
    BY SMT, <1>6 DEF ScanRelease, ReleasedBy
  <1>7. CASE ScanTrigger(j)
    BY SMT, <1>7 DEF ScanTrigger, TriggerEnrichment
  <1>8. QED
    BY <1>1, <1>2, <1>3, <1>4, <1>5, <1>6, <1>7 DEF ScanStep

LEMMA EnrichToken ==
  ASSUME StateOK, TokenInv, EnrichStep
  PROVE  TokenInv'
  <1> USE ConstantsAssumption DEF ConstantsAssumption, StateOK, TokenInv, OperationExclusive
  <1>1. CASE EnrichTake
    BY SMT, <1>1 DEF EnrichTake
  <1>2. CASE EnrichAcquire
    BY SMT, <1>2 DEF EnrichAcquire
  <1>3. ASSUME NEW s \in BOOLEAN, EnrichReset(s) PROVE TokenInv'
    BY SMT, <1>3 DEF EnrichReset
  <1>4. CASE EnrichCheck
    BY SMT, <1>4 DEF EnrichCheck
  <1>5. CASE EnrichRun
    BY SMT, <1>5 DEF EnrichRun
  <1>6. CASE EnrichRelease
    BY SMT, <1>6 DEF EnrichRelease
  <1>7. CASE EnrichSettle
    BY SMT, <1>7 DEF EnrichSettle, AfterPass
  <1>8. CASE EnrichBackoff
    BY SMT, <1>8 DEF EnrichBackoff
  <1>9. QED
    BY <1>1, <1>2, <1>3, <1>4, <1>5, <1>6, <1>7, <1>8 DEF EnrichStep

LEMMA OtherToken ==
  ASSUME StateOK, TokenInv, AdminStep \/ ProcessStep
  PROVE  TokenInv'
  <1>0. outcome \in [Jobs -> Outcomes]
    BY DEF StateOK
  <1>1. CASE \E j \in Jobs, c \in {conf, conf'} : StartScan(j, c, pc, outcome) /\ UNCHANGED <<op, epc>>
    BY <1>0, <1>1, StartScanToken
  <1>2. CASE UNCHANGED <<op, pc, began, epc>>
    BY SMT, <1>2 DEF TokenInv, OperationExclusive
  <1>3. CASE SchedulerTick \/ (\E k \in Kinds : RequestReset(k)) \/ (StartServing /\ UNCHANGED scanVars)
    <2>1. /\ UNCHANGED <<op, pc, began>>
          /\ epc' = epc \/ (epc = "none" /\ epc' = "take")
      BY Zenon, <1>3 DEF SchedulerTick, RequestReset, StartServing, TriggerEnrichment
    <2>2. QED
      BY SMT, <2>1 DEF TokenInv, OperationExclusive
  <1>4. CASE Restart
    BY SMT, <1>4, ConstantsAssumption DEF ConstantsAssumption, Restart, TokenInv, OperationExclusive
  <1>5. QED
    BY Zenon, <1>1, <1>2, <1>3, <1>4 DEF AdminStep, ProcessStep, Configure, UnlinkFence,
       UnlinkStore, UnlinkDone, UnlinkFailed, Rescan, SetEnricher, StartServing, CloseBegin, CloseWait

(* A scan and an enrichment pass never hold the catalogue together, and a  *)
(* goroutine that did not acquire the token never returns one.             *)
THEOREM TokenCorrect == Spec => []OperationExclusive
  <1>1. Init => TokenInv
    BY SMT, ConstantsAssumption
    DEF Init, TokenInv, OperationExclusive, ConstantsAssumption
  <1>2. TypeOK /\ TokenInv /\ [Next]_vars => TokenInv'
    <2> SUFFICES ASSUME TypeOK, TokenInv, [Next]_vars
                 PROVE  TokenInv'
      OBVIOUS
    <2>1. CASE UNCHANGED vars
      BY SMT, <2>1 DEF vars, TokenInv, OperationExclusive
    <2>2. CASE Next
      BY <2>2, ScanToken, EnrichToken, OtherToken DEF Next, TypeOK
    <2>3. QED
      BY <2>1, <2>2
  <1>3. TokenInv => OperationExclusive
    BY DEF TokenInv
  <1>4. QED
    BY <1>1, <1>2, <1>3, TypeCorrect, PTL DEF Spec

-----------------------------------------------------------------------------
(* Sources, generations and the fence                                      *)

(* Six actions touch what relates the manager's source to the settings *)
SourceStep ==
  \/ \E r \in Roots : Configure(r)
  \/ UnlinkFence \/ UnlinkStore \/ UnlinkDone \/ UnlinkFailed \/ Restart

LEMMA SourceFrame ==
  ASSUME Next
  PROVE  SourceStep \/ UNCHANGED <<db, conf, unlink, sources>>
  <1>1. ASSUME NEW j \in Jobs, ScanStep(j) PROVE UNCHANGED <<db, conf, unlink, sources>>
    BY Zenon, <1>1 DEF ScanStep, ScanAcquire, ScanWrite, ScanEnd, FinishStale, FinishCurrent,
       ScanRelease, ScanTrigger
  <1>2. CASE EnrichStep
    BY Zenon, <1>2 DEF EnrichStep, EnrichTake, EnrichAcquire, EnrichReset, EnrichCheck,
       EnrichRun, EnrichRelease, EnrichSettle, EnrichBackoff
  <1>3. CASE AdminStep
    BY Zenon, <1>3 DEF AdminStep, SourceStep, Rescan, RequestReset
  <1>4. CASE ProcessStep
    BY Zenon, <1>4 DEF ProcessStep, SourceStep, SchedulerTick, SetEnricher, StartServing,
       CloseBegin, CloseWait
  <1>5. QED
    BY <1>1, <1>2, <1>3, <1>4 DEF Next

LEMMA LinkStep ==
  ASSUME StateOK, LinkInv, Next
  PROVE  LinkInv'
  <1> USE DEF StateOK, LinkInv, Config
  <1>1. ASSUME NEW r \in Roots, Configure(r) PROVE LinkInv'
    BY SMT, <1>1, ConstantsAssumption DEF Configure, Reconfigured, ConstantsAssumption
  <1>2. CASE UnlinkFence
    BY SMT, <1>2 DEF UnlinkFence
  <1>3. CASE UnlinkStore
    BY SMT, <1>3 DEF UnlinkStore
  <1>4. CASE UnlinkDone
    BY SMT, <1>4 DEF UnlinkDone, NoUnlink
  <1>5. CASE UnlinkFailed
    <2>1. /\ UNCHANGED <<db, sources>> /\ unlink' = NoUnlink /\ unlink.pc = "failed"
          /\ conf' = conf \/ conf' = RestoredConf
      BY Zenon, <1>5 DEF UnlinkFailed
    <2>2. QED
      BY SMT, <2>1 DEF NoUnlink, RestoredConf
  <1>6. CASE Restart
    BY SMT, <1>6 DEF Restart, NewManager, NoUnlink, NoConf
  <1>7. CASE UNCHANGED <<db, conf, unlink, sources>>
    BY SMT, <1>7
  <1>8. QED
    BY <1>1, <1>2, <1>3, <1>4, <1>5, <1>6, <1>7, SourceFrame DEF SourceStep

(* A goroutine keeps the job it was started with until it has finished *)
LEMMA JobKeepsSource ==
  ASSUME StateOK, Next, NEW j \in Jobs, Unfinished(j), Unfinished(j)'
  PROVE  cap'[j] = cap[j]
  <1> USE DEF StateOK, Unfinished
  <1>2. CASE UNCHANGED cap
    BY <1>2
  <1>3. ASSUME NEW i \in Jobs, FinishStale(i) PROVE cap'[j] = cap[j]
    BY SMT, <1>3 DEF FinishStale, StartScan
  <1>4. ASSUME NEW i \in Jobs, ScanRelease(i) PROVE cap'[j] = cap[j]
    BY SMT, <1>4 DEF ScanRelease
  <1>5. CASE \E k \in Jobs, c \in {conf, conf'} : StartScan(k, c, pc, outcome)
    BY SMT, <1>5 DEF StartScan
  <1>6. CASE Restart
    BY SMT, <1>6 DEF Restart
  <1>7. ASSUME NEW i \in Jobs, ScanStep(i) PROVE cap'[j] = cap[j]
    BY Zenon, <1>2, <1>3, <1>4, <1>7 DEF ScanStep, ScanAcquire, ScanWrite, ScanEnd,
       FinishCurrent, ScanTrigger
  <1>8. CASE EnrichStep
    BY Zenon, <1>2, <1>8 DEF EnrichStep, EnrichTake, EnrichAcquire, EnrichReset, EnrichCheck,
       EnrichRun, EnrichRelease, EnrichSettle, EnrichBackoff
  <1>9. CASE AdminStep
    BY Zenon, <1>2, <1>5, <1>9 DEF AdminStep, Configure, UnlinkFence, UnlinkStore, UnlinkDone,
       UnlinkFailed, Rescan, RequestReset
  <1>10. CASE ProcessStep
    BY Zenon, <1>2, <1>5, <1>6, <1>10 DEF ProcessStep, SchedulerTick, SetEnricher, StartServing,
       CloseBegin, CloseWait
  <1>11. QED
    BY <1>7, <1>8, <1>9, <1>10 DEF Next

(* A goroutine is started for the source that is configured after the step *)
LEMMA NewJobIsCurrent ==
  ASSUME StateOK, Next, NEW j \in Jobs, ~Unfinished(j), Unfinished(j)'
  PROVE  cap'[j] = conf' /\ conf'.src # 0
  <1> USE DEF StateOK, Unfinished
  <1>1. ASSUME NEW i \in Jobs, ScanStep(i) PROVE cap'[j] = conf' /\ conf'.src # 0
    <2>1. CASE FinishStale(i)
      BY SMT, <2>1 DEF FinishStale, StartScan, StartsPending
    <2>2. CASE ScanAcquire(i)
      BY SMT, <2>2 DEF ScanAcquire
    <2>3. CASE ScanWrite(i)
      BY SMT, <2>3 DEF ScanWrite
    <2>4. CASE ScanEnd(i)
      BY SMT, <2>4 DEF ScanEnd
    <2>5. CASE FinishCurrent(i)
      BY SMT, <2>5 DEF FinishCurrent
    <2>6. CASE ScanRelease(i)
      BY SMT, <2>6 DEF ScanRelease
    <2>7. CASE ScanTrigger(i)
      BY SMT, <2>7 DEF ScanTrigger
    <2>8. QED
      BY <1>1, <2>1, <2>2, <2>3, <2>4, <2>5, <2>6, <2>7 DEF ScanStep
  <1>2. CASE UNCHANGED pc
    BY <1>2
  <1>3. ASSUME NEW k \in Jobs, StartScan(k, conf', pc, outcome), conf'.src # 0
        PROVE  cap'[j] = conf' /\ conf'.src # 0
    BY SMT, <1>3 DEF StartScan
  <1>4. ASSUME NEW r \in Roots, Configure(r) PROVE cap'[j] = conf' /\ conf'.src # 0
    <2>1. conf'.src # 0
      BY SMT, <1>4 DEF Configure
    <2>2. QED
      BY Zenon, <1>2, <1>3, <1>4, <2>1 DEF Configure
  <1>5. CASE UnlinkFailed
    <2>1. CASE unlink.src # 0 /\ ~closed
      <3>1. conf'.src # 0
        BY SMT, <1>5, <2>1 DEF UnlinkFailed, RestoredConf
      <3>2. QED
        BY Zenon, <1>2, <1>3, <1>5, <3>1 DEF UnlinkFailed
    <2>2. CASE unlink.src = 0 \/ closed
      BY Zenon, <1>2, <1>5, <2>2 DEF UnlinkFailed
    <2>3. QED
      BY <2>1, <2>2
  <1>6. CASE Rescan
    BY Zenon, <1>3, <1>6 DEF Rescan
  <1>7. CASE StartServing
    BY Zenon, <1>2, <1>3, <1>7 DEF StartServing
  <1>8. CASE Restart
    BY SMT, <1>8 DEF Restart
  <1>9. CASE EnrichStep
    BY Zenon, <1>2, <1>9 DEF EnrichStep, EnrichTake, EnrichAcquire, EnrichReset, EnrichCheck,
       EnrichRun, EnrichRelease, EnrichSettle, EnrichBackoff
  <1>10. CASE AdminStep
    BY Zenon, <1>2, <1>4, <1>5, <1>6, <1>10 DEF AdminStep, UnlinkFence, UnlinkStore, UnlinkDone,
       RequestReset
  <1>11. CASE ProcessStep
    BY Zenon, <1>2, <1>7, <1>8, <1>11 DEF ProcessStep, SchedulerTick, SetEnricher, CloseBegin,
       CloseWait
  <1>12. QED
    BY <1>1, <1>9, <1>10, <1>11 DEF Next

(* The step of a source is fenced off from every job that was current for  *)
(* it: what changes conf, unlink and the counter of sources keeps the      *)
(* generations of the unfinished jobs behind.                              *)
LEMMA GenerationKept ==
  ASSUME StateOK, LinkInv, GenerationInv, Next, NEW j \in Jobs, Unfinished(j), Unfinished(j)',
         cap'[j] = cap[j]
  PROVE  /\ cap'[j].src # 0 /\ cap'[j].src <= sources'
         /\ cap'[j].src = conf'.src => cap'[j].gen <= conf'.gen
         /\ unlink'.pc \in {"fenced", "failed"} /\ cap'[j].src = unlink'.src
              => cap'[j].gen < unlink'.gen
         /\ ~Current(j) => ~Current(j)'
  <1> DEFINE G == /\ cap'[j].src # 0 /\ cap'[j].src <= sources'
                  /\ cap'[j].src = conf'.src => cap'[j].gen <= conf'.gen
                  /\ unlink'.pc \in {"fenced", "failed"} /\ cap'[j].src = unlink'.src
                       => cap'[j].gen < unlink'.gen
                  /\ ~Current(j) => ~Current(j)'
  <1> SUFFICES G
    OBVIOUS
  <1>0. /\ cap[j].src # 0 /\ cap[j].src <= sources /\ cap[j].src \in Nat /\ cap[j].gen \in Nat
        /\ cap[j].src = conf.src => cap[j].gen <= conf.gen
        /\ unlink.pc \in {"fenced", "failed"} /\ cap[j].src = unlink.src => cap[j].gen < unlink.gen
    BY SMT DEF GenerationInv, StateOK, Config
  <1> USE DEF StateOK, LinkInv, Config, Current
  <1>1. ASSUME NEW r \in Roots, Configure(r) PROVE G
    BY SMT, <1>0, <1>1 DEF Configure
  <1>2. CASE UnlinkFence
    BY SMT, <1>0, <1>2 DEF UnlinkFence
  <1>3. CASE UnlinkStore
    <2>1. /\ UNCHANGED <<conf, sources>> /\ unlink.pc = "fenced"
          /\ unlink'.pc = "done" \/ (unlink'.pc = "failed" /\ unlink'.src = unlink.src
                                       /\ unlink'.gen = unlink.gen)
      BY SMT, <1>3 DEF UnlinkStore
    <2>2. QED
      BY SMT, <1>0, <2>1
  <1>4. CASE UnlinkDone
    BY SMT, <1>0, <1>4 DEF UnlinkDone, NoUnlink
  <1>5. CASE UnlinkFailed
    <2>1. /\ UNCHANGED <<db, sources>> /\ unlink' = NoUnlink /\ unlink.pc = "failed"
          /\ conf' = conf \/ conf' = RestoredConf
      BY Zenon, <1>5 DEF UnlinkFailed
    <2>2. QED
      BY SMT, <1>0, <2>1 DEF NoUnlink, RestoredConf
  <1>6. CASE Restart
    BY SMT, <1>6 DEF Restart, Unfinished
  <1>7. CASE UNCHANGED <<db, conf, unlink, sources>>
    BY SMT, <1>0, <1>7
  <1>8. SourceStep \/ UNCHANGED <<db, conf, unlink, sources>>
    BY SourceFrame
  <1> HIDE DEF G, StateOK, LinkInv, Config, Current
  <1>9. QED
    BY Zenon, <1>1, <1>2, <1>3, <1>4, <1>5, <1>6, <1>7, <1>8 DEF SourceStep

LEMMA GenerationStep ==
  ASSUME StateOK, StateOK', LinkInv, GenerationInv, Next
  PROVE  GenerationInv'
  <1> SUFFICES ASSUME NEW j \in Jobs, Unfinished(j)'
               PROVE  /\ cap'[j].src # 0 /\ cap'[j].src <= sources'
                      /\ cap'[j].src = conf'.src => cap'[j].gen <= conf'.gen
                      /\ unlink'.pc \in {"fenced", "failed"} /\ cap'[j].src = unlink'.src
                           => cap'[j].gen < unlink'.gen
    BY DEF GenerationInv
  <1>1. CASE Unfinished(j)
    BY <1>1, JobKeepsSource, GenerationKept
  <1>2. CASE ~Unfinished(j)
    <2>1. cap'[j] = conf' /\ conf'.src # 0
      BY <1>2, NewJobIsCurrent
    <2>2. LinkInv'
      BY LinkStep
    <2>3. QED
      BY SMT, <2>1, <2>2 DEF LinkInv, StateOK, Config
  <1>3. QED
    BY <1>1, <1>2

(* The invariant that keeps replaced jobs out *)
FenceInv == TypeOK /\ LinkInv /\ GenerationInv

LEMMA FenceCorrect == Spec => []FenceInv
  <1>1. Init => FenceInv
    <2>1. Init => LinkInv
      BY SMT DEF Init, LinkInv, NoConf, NoUnlink
    <2>2. Init => GenerationInv
      BY SMT DEF Init, GenerationInv, Unfinished
    <2>3. QED
      BY <2>1, <2>2, InitType DEF FenceInv
  <1>2. FenceInv /\ [Next]_vars => FenceInv'
    <2> SUFFICES ASSUME FenceInv, [Next]_vars
                 PROVE  FenceInv'
      OBVIOUS
    <2>1. TypeOK'
      BY NextType DEF FenceInv
    <2>2. CASE UNCHANGED vars
      <3>1. LinkInv'
        BY SMT, <2>2 DEF vars, FenceInv, LinkInv
      <3>2. GenerationInv'
        BY SMT, <2>2 DEF vars, FenceInv, GenerationInv, Unfinished
      <3>3. QED
        BY <2>1, <3>1, <3>2 DEF FenceInv
    <2>3. CASE Next
      BY <2>1, <2>3, LinkStep, GenerationStep DEF FenceInv, TypeOK
    <2>4. QED
      BY <2>2, <2>3
  <1>3. QED
    BY <1>1, <1>2, PTL DEF Spec

(* A replaced scan stays replaced, through failed unlinks and whatever else *)
THEOREM ReplacedStaysReplaced == Spec => StaleForever
  <1>1. FenceInv /\ [Next]_vars =>
          [\A j \in Jobs : Unfinished(j) /\ ~Current(j) /\ Unfinished(j)' => ~Current(j)']_vars
    <2> SUFFICES ASSUME FenceInv, Next, NEW j \in Jobs, Unfinished(j), ~Current(j), Unfinished(j)'
                 PROVE  ~Current(j)'
      BY Zenon
    <2>1. QED
      BY JobKeepsSource, GenerationKept DEF FenceInv, TypeOK
  <1>2. QED
    BY <1>1, FenceCorrect, PTL DEF Spec, StaleForever

(* Tracks that are present belong to the linked source *)
THEOREM OnlyLinkedSource == Spec => []OnlyLinkedRows
  <1>1. Init => OnlyLinkedRows
    BY SMT DEF Init, OnlyLinkedRows
  <1>2. FenceInv /\ OnlyLinkedRows /\ [Next]_vars => OnlyLinkedRows'
    <2> SUFFICES ASSUME FenceInv, OnlyLinkedRows, [Next]_vars
                 PROVE  OnlyLinkedRows'
      OBVIOUS
    <2> USE DEF FenceInv, TypeOK, StateOK, Config, OnlyLinkedRows
    <2>1. CASE UNCHANGED <<db, rows>>
      BY Zenon, <2>1
    <2>2. ASSUME NEW j \in Jobs, ScanWrite(j) PROVE OnlyLinkedRows'
      <3>1. cap[j] = conf /\ conf.src # 0 /\ UNCHANGED db /\ rows' = rows \cup {cap[j].id}
        BY SMT, <2>2 DEF ScanWrite, MayWrite, Current, GenerationInv, Unfinished
      <3>2. conf.id = db.id /\ db.root # NoRoot
        BY SMT, <3>1 DEF LinkInv
      <3>3. QED
        BY Zenon, <3>1, <3>2
    <2>3. ASSUME NEW j \in Jobs, ScanEnd(j) PROVE OnlyLinkedRows'
      <3>1. /\ UNCHANGED db
            /\ rows' = rows \/ (MayWrite(j) /\ rows' \subseteq {cap[j].id} /\ pc[j] = "scan")
        BY Zenon, <2>3 DEF ScanEnd
      <3>2. CASE MayWrite(j) /\ rows' \subseteq {cap[j].id} /\ pc[j] = "scan"
        <4>1. cap[j] = conf /\ conf.src # 0
          BY SMT, <3>2 DEF MayWrite, Current, GenerationInv, Unfinished
        <4>2. conf.id = db.id /\ db.root # NoRoot
          BY SMT, <4>1 DEF LinkInv
        <4>3. QED
          BY Zenon, <3>1, <3>2, <4>1, <4>2
      <3>3. QED
        BY Zenon, <3>1, <3>2
    <2>4. ASSUME NEW r \in Roots, Configure(r) PROVE OnlyLinkedRows'
      <3>1. db' = Reconfigured(r) /\ (rows' = {} \/ (rows' = rows /\ (db.root = NoRoot \/ db.root = r)))
        BY Zenon, <2>4 DEF Configure
      <3>2. CASE rows' = {}
        BY Zenon, <3>2
      <3>3. CASE rows' = rows /\ db.root = NoRoot
        BY Zenon, <3>3
      <3>4. CASE rows' = rows /\ db.root # NoRoot /\ db.root = r
        <4>1. db' = db
          BY SMT, <3>1, <3>4 DEF LinkInv, Reconfigured
        <4>2. QED
          BY Zenon, <3>4, <4>1
      <3>5. QED
        BY <3>1, <3>2, <3>3, <3>4
    <2>5. CASE UnlinkStore
      BY Zenon, <2>5 DEF UnlinkStore
    <2>6. QED
      <3>1. CASE UNCHANGED vars
        BY Zenon, <2>1, <3>1 DEF vars
      <3>2. ASSUME NEW j \in Jobs, ScanStep(j) PROVE OnlyLinkedRows'
        BY Zenon, <2>1, <2>2, <2>3, <3>2 DEF ScanStep, ScanAcquire, FinishStale, FinishCurrent,
           ScanRelease, ScanTrigger
      <3>3. CASE EnrichStep
        BY Zenon, <2>1, <3>3 DEF EnrichStep, EnrichTake, EnrichAcquire, EnrichReset, EnrichCheck,
           EnrichRun, EnrichRelease, EnrichSettle, EnrichBackoff
      <3>4. CASE AdminStep
        BY Zenon, <2>1, <2>4, <2>5, <3>4 DEF AdminStep, UnlinkFence, UnlinkDone, UnlinkFailed,
           Rescan, RequestReset
      <3>5. CASE ProcessStep
        BY Zenon, <2>1, <3>5 DEF ProcessStep, SchedulerTick, SetEnricher, StartServing,
           CloseBegin, CloseWait, Restart
      <3>6. QED
        BY <3>1, <3>2, <3>3, <3>4, <3>5 DEF Next
  <1>3. QED
    BY <1>1, <1>2, FenceCorrect, PTL DEF Spec

-----------------------------------------------------------------------------
(* Requested resets                                                        *)

(* The worker's requests: where they are kept until they are applied.      *)
ResetInv == ResetsNotLost /\ TakenInv

(* Only a trigger, the worker and a new process touch the requests, and    *)
(* only a new process opens what was closed.                               *)
LEMMA ResetFrame ==
  ASSUME Next
  PROVE  \/ EnrichStep \/ Restart
         \/ /\ closed => closed'
            /\ taken' = taken
            /\ \/ epc' = epc /\ UNCHANGED <<resets, owed>>
               \/ /\ epc' = epc \/ (epc = "none" /\ epc' = "take")
                  /\ \E K \in SUBSET Kinds : resets' = resets \cup K /\ owed' = owed \cup K
  <1> DEFINE Goal == \/ EnrichStep \/ Restart
                     \/ /\ closed => closed'
                        /\ taken' = taken
                        /\ \/ epc' = epc /\ UNCHANGED <<resets, owed>>
                           \/ /\ epc' = epc \/ (epc = "none" /\ epc' = "take")
                              /\ \E K \in SUBSET Kinds : resets' = resets \cup K /\ owed' = owed \cup K
  <1> SUFFICES Goal
    OBVIOUS
  <1>1. CASE UNCHANGED enrichVars /\ (closed => closed')
    BY Zenon, <1>1
  <1>2. ASSUME NEW K \in SUBSET Kinds, TriggerEnrichment(K), closed' = closed PROVE Goal
    BY Zenon, <1>2 DEF TriggerEnrichment
  <1>3. ASSUME NEW j \in Jobs, ScanStep(j) PROVE Goal
    <2>1. \/ UNCHANGED enrichVars /\ closed' = closed
          \/ TriggerEnrichment({}) /\ closed' = closed
      BY Zenon, <1>3 DEF ScanStep, ScanAcquire, ScanWrite, ScanEnd, FinishStale, FinishCurrent,
         ScanRelease, ScanTrigger
    <2> HIDE DEF Goal
    <2>2. QED
      BY Zenon, <1>1, <1>2, <2>1
  <1>4. CASE AdminStep
    <2>1. \/ UNCHANGED enrichVars /\ closed' = closed
          \/ \E k \in Kinds : TriggerEnrichment({k}) /\ closed' = closed
      BY Zenon, <1>4 DEF AdminStep, Configure, UnlinkFence, UnlinkStore, UnlinkDone, UnlinkFailed,
         Rescan, RequestReset
    <2> HIDE DEF Goal
    <2>2. QED
      BY Zenon, <1>1, <1>2, <2>1
  <1>5. CASE ProcessStep
    <2>1. \/ UNCHANGED enrichVars /\ (closed => closed')
          \/ TriggerEnrichment({}) /\ closed' = closed
          \/ Restart
      BY Zenon, <1>5 DEF ProcessStep, SchedulerTick, SetEnricher, StartServing, CloseBegin, CloseWait
    <2>2. Restart => Goal
      BY Zenon
    <2> HIDE DEF Goal
    <2>3. QED
      BY Zenon, <1>1, <1>2, <2>1, <2>2
  <1>6. EnrichStep => Goal
    BY Zenon
  <1> HIDE DEF Goal
  <1>7. QED
    BY Zenon, <1>3, <1>4, <1>5, <1>6 DEF Next

LEMMA ResetWorkerStep ==
  ASSUME StateOK, ResetInv, EnrichStep
  PROVE  ResetInv'
  <1>0. taken \subseteq Kinds /\ (taken # {} => NextReset \in taken)
    <2>1. taken \subseteq {"artist", "album"}
      BY Zenon DEF StateOK, Kinds
    <2>2. QED
      BY Zenon, <2>1 DEF Kinds, NextReset
  <1>1. closed' = closed
    BY Zenon DEF EnrichStep, EnrichTake, EnrichAcquire, EnrichReset, EnrichCheck, EnrichRun,
       EnrichRelease, EnrichSettle, EnrichBackoff
  <1>2. CASE EnrichTake
    <2>1. /\ closed => UNCHANGED <<taken, resets, owed>>
          /\ ~closed => taken = {} /\ taken' = resets /\ resets' = {} /\ epc' = "acquire" /\ owed' = owed
      BY Zenon, <1>2 DEF EnrichTake, ResetInv, TakenInv
    <2>2. QED
      BY Zenon, <1>1, <2>1 DEF ResetInv, TakenInv, ResetsNotLost
  <1>3. CASE EnrichAcquire
    <2>1. /\ UNCHANGED <<taken, resets, owed>>
          /\ closed \/ epc' = "reset"
      BY Zenon, <1>3 DEF EnrichAcquire, GivesUp
    <2>2. QED
      BY Zenon, <1>1, <2>1 DEF ResetInv, TakenInv, ResetsNotLost
  <1>4. ASSUME NEW s \in BOOLEAN, EnrichReset(s) PROVE ResetInv'
    <2>1. /\ epc = "reset" /\ epc' = epc /\ taken' = taken \ {NextReset} /\ NextReset \in taken
          /\ \/ owed' = owed \ {NextReset} /\ resets' = resets
             \/ owed' = owed /\ resets' = resets \cup {NextReset}
      BY Zenon, <1>0, <1>4 DEF EnrichReset, RetriedReset
    <2>2. QED
      BY Zenon, <1>1, <2>1 DEF ResetInv, TakenInv, ResetsNotLost
  <1>5. CASE EnrichCheck
    <2>1. taken = {} /\ UNCHANGED <<taken, resets, owed>>
      BY Zenon, <1>5 DEF EnrichCheck
    <2>2. QED
      BY Zenon, <1>1, <2>1 DEF ResetInv, TakenInv, ResetsNotLost
  <1>6. CASE EnrichRun \/ EnrichRelease \/ EnrichSettle \/ EnrichBackoff
    <2>1. /\ UNCHANGED <<taken, resets, owed>> /\ epc \notin {"acquire", "reset"}
      BY Zenon, <1>6 DEF EnrichRun, EnrichRelease, EnrichSettle, EnrichBackoff
    <2>2. QED
      BY Zenon, <1>1, <2>1 DEF ResetInv, TakenInv, ResetsNotLost
  <1>7. QED
    BY Zenon, <1>2, <1>3, <1>4, <1>5, <1>6 DEF EnrichStep

LEMMA ResetStep ==
  ASSUME StateOK, ResetInv, [Next]_vars
  PROVE  ResetInv'
  <1>1. CASE Restart
    BY Zenon, <1>1 DEF Restart, ResetInv, TakenInv, ResetsNotLost
  <1>2. ASSUME closed => closed', taken' = taken,
               \/ epc' = epc /\ UNCHANGED <<resets, owed>>
               \/ /\ epc' = epc \/ (epc = "none" /\ epc' = "take")
                  /\ \E K \in SUBSET Kinds : resets' = resets \cup K /\ owed' = owed \cup K
        PROVE  ResetInv'
    <2>1. TakenInv'
      BY Zenon, <1>2 DEF ResetInv, TakenInv
    <2>2. ResetsNotLost'
      BY Zenon, <1>2 DEF ResetInv, ResetsNotLost
    <2>3. QED
      BY <2>1, <2>2 DEF ResetInv
  <1>3. CASE UNCHANGED vars
    BY Zenon, <1>2, <1>3 DEF vars
  <1>4. QED
    BY Zenon, <1>1, <1>2, <1>3, ResetFrame, ResetWorkerStep

LEMMA ResetsCorrect == Spec => [](StateOK /\ ResetInv)
  <1>1. Init => ResetInv
    BY Zenon DEF Init, ResetInv, TakenInv, ResetsNotLost
  <1>2. StateOK /\ ResetInv /\ [Next]_vars => ResetInv'
    BY ResetStep
  <1>3. TypeOK => StateOK
    BY DEF TypeOK
  <1>4. QED
    BY <1>1, <1>2, <1>3, TypeCorrect, PTL DEF Spec

(* A reset that an administrator asked for is applied, or is still set in  *)
(* the flags or in the worker's hands, whatever fails and whenever it was  *)
(* asked for (triggerEnrichment, runEnrichment), until the manager closes. *)
THEOREM ResetsAreKept == Spec => []ResetsNotLost
  <1>1. ResetInv => ResetsNotLost
    BY DEF ResetInv
  <1>2. QED
    BY <1>1, ResetsCorrect, PTL

(* The pipeline starts only when every requested reset is applied          *)
(* (runEnrichment reads the flags again under the operation token).        *)
THEOREM PassesSeeResets == Spec => PassSeesResets
  <1>1. StateOK /\ ResetInv /\ [Next]_vars => [epc # "run" /\ epc' = "run" => owed = {}]_vars
    <2> SUFFICES ASSUME StateOK, ResetInv, Next, epc # "run", epc' = "run"
                 PROVE  owed = {}
      BY Zenon
    <2>1. EnrichStep
      <3>1. ~Restart
        BY SMT DEF Restart
      <3>2. ~(epc = "none" /\ epc' = "take")
        OBVIOUS
      <3>3. QED
        BY Zenon, <3>1, <3>2, ResetFrame
    <2>2. EnrichCheck
      <3>1. ~EnrichTake /\ ~EnrichAcquire /\ ~EnrichRun /\ ~EnrichRelease /\ ~EnrichBackoff
        BY SMT DEF EnrichTake, EnrichAcquire, EnrichRun, EnrichRelease, EnrichBackoff
      <3>2. ~EnrichSettle
        BY SMT DEF EnrichSettle, AfterPass
      <3>3. \A s \in BOOLEAN : ~EnrichReset(s)
        BY Zenon DEF EnrichReset
      <3>4. QED
        BY Zenon, <2>1, <3>1, <3>2, <3>3 DEF EnrichStep
    <2>3. verdict' = "ok" /\ ~closed /\ taken = {}
      BY SMT, <2>2 DEF EnrichCheck
    <2>4. ~MoreResets /\ verdict = "ok"
      <3>1. verdict' = IF MoreResets THEN "more" ELSE verdict
        BY <2>2 DEF EnrichCheck
      <3>2. QED
        BY SMT, <2>3, <3>1
    <2>5. resets = {}
      BY Zenon, <2>4 DEF MoreResets
    <2>6. QED
      BY Zenon, <2>3, <2>5 DEF ResetInv, ResetsNotLost
  <1>2. QED
    BY <1>1, ResetsCorrect, PTL DEF Spec, PassSeesResets

-----------------------------------------------------------------------------
(* Close                                                                   *)

AllIdle == \A j \in Jobs : pc[j] = "idle"

(* A closed manager starts no goroutine, and one that has ended does not   *)
(* come back.                                                              *)
LEMMA ClosedFrame ==
  ASSUME Next, closed, stage # "wiring", ~Restart
  PROVE  /\ closed' = closed /\ stage' # "wiring"
         /\ AllIdle => AllIdle'
         /\ epc = "none" => epc' = "none"
         /\ \/ closer' = closer
            \/ closer = "scans" /\ AllIdle /\ closer' = "worker"
            \/ closer = "worker" /\ epc = "none" /\ closer' = "joined"
  <1> DEFINE Goal == /\ closed' = closed /\ stage' # "wiring"
                     /\ AllIdle => AllIdle'
                     /\ epc = "none" => epc' = "none"
                     /\ \/ closer' = closer
                        \/ closer = "scans" /\ AllIdle /\ closer' = "worker"
                        \/ closer = "worker" /\ epc = "none" /\ closer' = "joined"
  <1> SUFFICES Goal
    OBVIOUS
  <1>1. CASE UNCHANGED <<stage, closed, closer, pc, epc>>
    BY Zenon, <1>1 DEF AllIdle
  <1>2. \A K : TriggerEnrichment(K) => epc' = epc
    BY Zenon DEF TriggerEnrichment, Refused
  <1>3. ASSUME NEW j \in Jobs, ScanStep(j) PROVE Goal
    <2>1. pc[j] # "idle"
      <3>1. pc[j] \in {"wait", "scan", "finish", "release", "trigger"}
        BY Zenon, <1>3 DEF ScanStep, ScanAcquire, ScanWrite, ScanEnd, FinishStale, FinishCurrent,
           ScanRelease, ScanTrigger
      <3>2. QED
        BY SMT, <3>1
    <2>2. UNCHANGED lifeVars /\ epc' = epc
      BY Zenon, <1>2, <1>3 DEF ScanStep, ScanAcquire, ScanWrite, ScanEnd, FinishStale,
         FinishCurrent, ScanRelease, ScanTrigger
    <2>3. QED
      BY Zenon, <2>1, <2>2 DEF AllIdle
  <1>4. CASE EnrichStep
    <2>1. epc # "none" /\ UNCHANGED <<stage, closed, closer, pc>>
      BY Zenon, <1>4 DEF EnrichStep, EnrichTake, EnrichAcquire, EnrichReset, EnrichCheck, EnrichRun,
         EnrichRelease, EnrichSettle, EnrichBackoff
    <2>2. QED
      BY Zenon, <2>1 DEF AllIdle
  <1>5. CASE AdminStep
    BY Zenon, <1>1, <1>2, <1>5 DEF AdminStep, Configure, UnlinkFence, UnlinkStore, UnlinkDone,
       UnlinkFailed, Rescan, RequestReset
  <1>6. CASE ProcessStep
    <2>1. CASE CloseWait
      BY Zenon, <2>1 DEF CloseWait, AllIdle
    <2>2. QED
      BY Zenon, <1>6, <2>1 DEF ProcessStep, SchedulerTick, SetEnricher, StartServing, CloseBegin
  <1>7. QED
    BY Zenon, <1>3, <1>4, <1>5, <1>6 DEF Next

LEMMA CloseStep ==
  ASSUME CloseInv, [Next]_vars
  PROVE  CloseInv'
  <1>1. CASE Restart
    BY SMT, <1>1 DEF Restart, CloseInv
  <1>2. CASE closed /\ stage # "wiring" /\ Next /\ ~Restart
    BY Zenon, <1>2, ClosedFrame DEF CloseInv, AllIdle
  <1>3. CASE Next /\ closer = "none"
    <2>1. \/ closer' = "none"
          \/ closer' = "scans" /\ closed' /\ stage' # "wiring"
          \/ Restart
      BY Zenon, <1>3 DEF Next, ScanStep, ScanAcquire, ScanWrite, ScanEnd, FinishStale,
         FinishCurrent, ScanRelease, ScanTrigger, EnrichStep, EnrichTake, EnrichAcquire,
         EnrichReset, EnrichCheck, EnrichRun, EnrichRelease, EnrichSettle, EnrichBackoff,
         AdminStep, Configure, UnlinkFence, UnlinkStore, UnlinkDone, UnlinkFailed, Rescan,
         RequestReset, ProcessStep, SchedulerTick, SetEnricher, StartServing, CloseBegin, CloseWait
    <2>2. QED
      BY Zenon, <1>1, <2>1 DEF CloseInv
  <1>4. CASE UNCHANGED vars
    BY Zenon, <1>4 DEF vars, CloseInv
  <1>5. QED
    BY Zenon, <1>1, <1>2, <1>3, <1>4 DEF CloseInv

(* After Close returned no scan and no enrichment goroutine is left, and   *)
(* no request, tick or late start-up starts one.                           *)
THEOREM CloseHasJoined == Spec => []CloseJoins
  <1>1. Init => CloseInv
    BY SMT DEF Init, CloseInv
  <1>2. CloseInv /\ [Next]_vars => CloseInv'
    BY CloseStep
  <1>3. CloseInv => CloseJoins
    BY SMT DEF CloseInv, CloseJoins
  <1>4. QED
    BY <1>1, <1>2, <1>3, PTL DEF Spec

-----------------------------------------------------------------------------
(* The scan that waits, and the changes that wait to be announced          *)

(* The scan goroutines that m.scanning stands for                          *)
Busy == {j \in Jobs : Unfinished(j)}
Working(p) == {j \in Jobs : p[j] \in {"wait", "scan", "finish"}}

(* Starting a scan adds its goroutine, which has written nothing.          *)
LEMMA StartScanBusy ==
  ASSUME StateOK, NEW k \in Jobs, NEW c, NEW p \in [Jobs -> JobPCs],
         NEW o \in [Jobs -> Outcomes], StartScan(k, c, p, o)
  PROVE  /\ Busy' = Working(p) \cup {k}
         /\ p[k] = "idle" /\ mutated' = mutated \ {k} /\ scanning' = TRUE
  <1>1. p[k] = "idle" /\ mutated' = mutated \ {k} /\ scanning' = TRUE /\ pc' = [p EXCEPT ![k] = "wait"]
    BY Zenon DEF StartScan
  <1>2. pc'[k] = "wait" /\ \A j \in Jobs \ {k} : pc'[j] = p[j]
    BY SMT, <1>1
  <1>3. Busy' = {j \in Jobs : pc'[j] \in {"wait", "scan", "finish"}}
    BY Zenon DEF Busy, Unfinished
  <1>4. QED
    BY Zenon, <1>1, <1>2, <1>3 DEF Working

(* A goroutine finishes, and at most one takes its place.                  *)
Finishes(j) ==
  \/ Busy' = Busy \ {j} /\ scanning' = FALSE /\ mutated' = mutated
  \/ \E k \in Jobs \ Busy : /\ Busy' = (Busy \ {j}) \cup {k} /\ scanning' = TRUE
                            /\ mutated' = mutated \ {k}

LEMMA FinishStaleBusy ==
  ASSUME StateOK, NEW j \in Jobs, FinishStale(j)
  PROVE  /\ j \in Busy /\ Finishes(j)
         /\ scanPending' => scanPending /\ ~StartsPending /\ Busy' = Busy \ {j}
         /\ \A i \in Jobs : pc'[i] = "finish" => pc[i] = "finish" /\ outcome'[i] = outcome[i]
  <1> DEFINE p == [pc EXCEPT ![j] = "release"]
             o == [outcome EXCEPT ![j] = "none"]
  <1>1. /\ pc[j] = "finish" /\ p \in [Jobs -> JobPCs] /\ o \in [Jobs -> Outcomes]
        /\ p[j] = "release" /\ \A i \in Jobs \ {j} : p[i] = pc[i] /\ o[i] = outcome[i]
    <2>1. pc[j] = "finish"
      BY DEF FinishStale
    <2>2. QED
      BY SMT, <2>1 DEF StateOK, JobPCs, Outcomes
  <1>2. \/ StartsPending /\ scanPending' = FALSE /\ \E k \in Jobs : StartScan(k, conf, p, o)
        \/ /\ ~StartsPending /\ scanPending' = scanPending
           /\ scanning' = FALSE /\ pc' = p /\ outcome' = o /\ mutated' = mutated
    BY Zenon DEF FinishStale
  <1> HIDE DEF p, o
  <1>3. Working(p) = Busy \ {j} /\ j \in Busy
    <2>1. "release" \notin {"wait", "scan", "finish"}
      OBVIOUS
    <2>2. QED
      BY Zenon, <1>1, <2>1 DEF Busy, Working, Unfinished
  <1>4. \A i \in Jobs : p[i] = "finish" => pc[i] = "finish" /\ o[i] = outcome[i]
    <2>1. p[j] # "finish"
      BY <1>1
    <2>2. QED
      BY Zenon, <1>1, <2>1
  <1>5. CASE /\ ~StartsPending /\ scanPending' = scanPending
             /\ scanning' = FALSE /\ pc' = p /\ outcome' = o /\ mutated' = mutated
    <2>1. Busy' = Busy \ {j}
      BY Zenon, <1>3, <1>5 DEF Busy, Working, Unfinished
    <2>2. QED
      BY Zenon, <1>3, <1>4, <1>5, <2>1 DEF Finishes
  <1>6. ASSUME NEW k \in Jobs, StartScan(k, conf, p, o), StartsPending, scanPending' = FALSE
        PROVE  /\ Finishes(j) /\ scanPending' = FALSE
               /\ \A i \in Jobs : pc'[i] = "finish" => pc[i] = "finish" /\ outcome'[i] = outcome[i]
    <2>1. /\ Busy' = (Busy \ {j}) \cup {k} /\ mutated' = mutated \ {k} /\ scanning' = TRUE
          /\ p[k] = "idle"
          /\ \A i \in Jobs : pc'[i] = "finish" => p[i] = "finish" /\ outcome'[i] = o[i]
      <3>1. Busy' = Working(p) \cup {k} /\ p[k] = "idle" /\ mutated' = mutated \ {k}
        BY Zenon, <1>1, <1>6, StartScanBusy
      <3>2. scanning' = TRUE
        BY Zenon, <1>1, <1>6, StartScanBusy
      <3>3. \A i \in Jobs : pc'[i] = "finish" => p[i] = "finish" /\ outcome'[i] = o[i]
        <4>1. pc'[k] = "wait" /\ \A i \in Jobs \ {k} : pc'[i] = p[i] /\ outcome'[i] = o[i]
          BY SMT, <1>1, <1>6, StartScanFrame
        <4>2. pc'[k] # "finish"
          BY <4>1
        <4>3. QED
          BY Zenon, <4>1, <4>2
      <3>4. QED
        BY Zenon, <1>3, <3>1, <3>2, <3>3
    <2>2. k \notin Busy
      <3>1. k # j /\ pc[k] = "idle"
        <4>1. p[k] # p[j]
          BY <1>1, <2>1
        <4>2. QED
          BY Zenon, <1>1, <2>1, <4>1
      <3>2. pc[k] \notin {"wait", "scan", "finish"}
        BY <3>1
      <3>3. QED
        BY Zenon, <3>2 DEF Busy, Unfinished
    <2>3. QED
      BY Zenon, <1>4, <1>6, <2>1, <2>2 DEF Finishes
  <1>7. QED
    BY Zenon, <1>2, <1>3, <1>5, <1>6

LEMMA FinishCurrentBusy ==
  ASSUME StateOK, NEW j \in Jobs, FinishCurrent(j)
  PROVE  /\ j \in Busy /\ Busy' = Busy \ {j} /\ scanning' = FALSE
         /\ mutated' = mutated /\ scanPending' = scanPending
         /\ \A i \in Jobs : pc'[i] = "finish" => pc[i] = "finish" /\ outcome'[i] = outcome[i]
  <1>1. /\ pc[j] = "finish" /\ pc' = [pc EXCEPT ![j] = "release"] /\ scanning' = FALSE
        /\ mutated' = mutated /\ scanPending' = scanPending
        /\ outcome' = outcome \/ outcome' = [outcome EXCEPT ![j] = "none"]
    BY Zenon DEF FinishCurrent
  <1>2. /\ pc'[j] = "release" /\ \A i \in Jobs \ {j} : pc'[i] = pc[i] /\ outcome'[i] = outcome[i]
    BY SMT, <1>1 DEF StateOK
  <1>3. "release" \notin {"wait", "scan", "finish"} /\ pc'[j] # "finish"
    BY <1>2
  <1>4. QED
    BY Zenon, <1>1, <1>2, <1>3 DEF Busy, Unfinished

(* A new scan is started only when none is under way.                      *)
Starts ==
  \E k \in Jobs \ Busy : /\ Busy' = Busy \cup {k} /\ scanning' = TRUE /\ ~scanning
                         /\ mutated' = mutated \ {k}

(* What the steps of a goroutine in its scan, and after it, leave alone.   *)
LEMMA ScanBusy ==
  ASSUME StateOK, NEW j \in Jobs,
         ScanAcquire(j) \/ ScanWrite(j) \/ ScanEnd(j) \/ ScanRelease(j) \/ ScanTrigger(j)
  PROVE  /\ Busy' = Busy /\ UNCHANGED <<scanning, scanPending, conf, closed>>
         /\ \A i \in Busy : i \in mutated => i \in mutated'
  <1>1. UNCHANGED <<scanning, scanPending, conf, closed>>
    BY Zenon DEF ScanAcquire, ScanWrite, ScanEnd, ScanRelease, ScanTrigger
  <1>2. pc \in [Jobs -> JobPCs]
    BY DEF StateOK
  <1>3. CASE ScanAcquire(j) \/ ScanEnd(j) \/ ScanTrigger(j)
    <2>1. /\ mutated' = mutated
          /\ \/ pc[j] \in {"wait", "scan"} /\ \E to \in {"scan", "finish"} : pc' = [pc EXCEPT ![j] = to]
             \/ pc[j] = "trigger" /\ pc' = [pc EXCEPT ![j] = "idle"]
      BY Zenon, <1>3 DEF ScanAcquire, ScanEnd, ScanTrigger
    <2>2. \A i \in Jobs : pc'[i] \in {"wait", "scan", "finish"} <=> pc[i] \in {"wait", "scan", "finish"}
      BY SMT, <1>2, <2>1
    <2>3. QED
      BY Zenon, <1>1, <2>1, <2>2 DEF Busy, Unfinished
  <1>4. CASE ScanWrite(j)
    <2>1. pc' = pc /\ mutated' = mutated \cup {j}
      BY Zenon, <1>4 DEF ScanWrite
    <2>2. QED
      BY Zenon, <1>1, <2>1 DEF Busy, Unfinished
  <1>5. CASE ScanRelease(j)
    <2>1. /\ pc[j] = "release" /\ mutated' = mutated \ {j}
          /\ \E to \in {"idle", "trigger"} : pc' = [pc EXCEPT ![j] = to]
      BY Zenon, <1>5 DEF ScanRelease
    <2>2. \A i \in Jobs : pc'[i] \in {"wait", "scan", "finish"} <=> pc[i] \in {"wait", "scan", "finish"}
      BY SMT, <1>2, <2>1
    <2>3. j \notin Busy
      BY SMT, <2>1 DEF Busy, Unfinished
    <2>4. QED
      BY Zenon, <1>1, <2>1, <2>2, <2>3 DEF Busy, Unfinished
  <1>6. QED
    BY <1>3, <1>4, <1>5

(* Who is about to finish stays so, with what it is about to say.          *)
FinishersStay ==
  \A j \in Jobs : /\ pc[j] = "finish" <=> pc'[j] = "finish"
                  /\ pc[j] = "finish" => outcome'[j] = outcome[j]

(* Everyone else starts a scan, or leaves the scans alone.                 *)
LEMMA StartsWhenFree ==
  ASSUME StateOK, NEW k \in Jobs, NEW c, StartScan(k, c, pc, outcome), ~scanning
  PROVE  /\ Starts
         /\ FinishersStay
  <1>1. pc \in [Jobs -> JobPCs] /\ outcome \in [Jobs -> Outcomes]
    BY DEF StateOK
  <1>2. Busy' = Working(pc) \cup {k} /\ pc[k] = "idle" /\ mutated' = mutated \ {k}
    BY Zenon, <1>1, StartScanBusy
  <1>4. scanning' = TRUE
    BY Zenon, <1>1, StartScanBusy
  <1>5. FinishersStay
    <2>1. pc'[k] = "wait" /\ \A j \in Jobs \ {k} : pc'[j] = pc[j] /\ outcome'[j] = outcome[j]
      BY SMT, <1>1, StartScanFrame
    <2>2. pc'[k] # "finish" /\ pc[k] # "finish"
      BY <1>2, <2>1
    <2>3. QED
      BY Zenon, <2>1, <2>2 DEF FinishersStay
  <1>3. k \notin Busy
    BY SMT, <1>2 DEF Busy, Unfinished
  <1>6. QED
    BY Zenon, <1>2, <1>3, <1>4, <1>5 DEF Starts, Busy, Working, Unfinished

(* The administrator, the worker and the process start a scan or leave the *)
(* scans alone, and announce what is written or leave that alone.          *)
LEMMA OtherScans ==
  ASSUME StateOK, EnrichStep \/ AdminStep \/ ProcessStep, ~Restart
  PROVE  /\ Starts \/ (Busy' = Busy /\ UNCHANGED <<scanning, mutated>>)
         /\ FinishersStay
         /\ unannounced' \in {unannounced, {}}
         /\ closed => closed'
  <1> DEFINE Goal == /\ Starts \/ (Busy' = Busy /\ UNCHANGED <<scanning, mutated>>)
                     /\ FinishersStay
  <1>1. ASSUME UNCHANGED <<scanning, mutated, pc, outcome>>
        PROVE  Goal
    BY Zenon, <1>1 DEF Busy, Unfinished, FinishersStay
  <1>3. ASSUME NEW k \in Jobs, NEW c \in {conf, conf'}, StartScan(k, c, pc, outcome), ~scanning
        PROVE  Goal
    BY Zenon, <1>3, StartsWhenFree
  <1> HIDE DEF Goal
  <1>4. Goal
    <2>1. CASE EnrichStep
      BY Zenon, <1>1, <2>1 DEF EnrichStep, EnrichTake, EnrichAcquire, EnrichReset, EnrichCheck,
         EnrichRun, EnrichRelease, EnrichSettle, EnrichBackoff
    <2>2. CASE AdminStep
      BY Zenon, <1>1, <1>3, <2>2 DEF AdminStep, Configure, UnlinkFence, UnlinkStore, UnlinkDone,
         UnlinkFailed, Rescan, RequestReset
    <2>3. CASE ProcessStep
      BY Zenon, <1>1, <1>3, <2>3 DEF ProcessStep, SchedulerTick, SetEnricher, StartServing,
         CloseBegin, CloseWait
    <2>4. QED
      BY <2>1, <2>2, <2>3
  <1>2. /\ unannounced' = unannounced \/ unannounced' = {}
        /\ closed' = closed \/ closed' = TRUE
    <2>1. CASE EnrichStep
      BY Zenon, <2>1 DEF EnrichStep, EnrichTake, EnrichAcquire, EnrichReset, EnrichCheck, EnrichRun,
         EnrichRelease, EnrichSettle, EnrichBackoff
    <2>2. CASE AdminStep
      BY Zenon, <2>2 DEF AdminStep, Configure, UnlinkFence, UnlinkStore, UnlinkDone, UnlinkFailed,
         Rescan, RequestReset
    <2>3. CASE ProcessStep
      BY Zenon, <2>3 DEF ProcessStep, SchedulerTick, SetEnricher, StartServing, CloseBegin, CloseWait
    <2>4. QED
      BY <2>1, <2>2, <2>3
  <1>5. unannounced' \in {unannounced, {}}
    BY Zenon, <1>2
  <1>6. closed => closed'
    BY Zenon, <1>2
  <1>7. QED
    BY <1>4, <1>5, <1>6 DEF Goal

(* What a finishing goroutine leaves to be announced, and to wait.         *)
LEMMA FinishFacts ==
  ASSUME NEW j \in Jobs, FinishStale(j) \/ FinishCurrent(j)
  PROVE  /\ UNCHANGED <<conf, closed>>
         /\ pc[j] = "finish"
         /\ FinishCurrent(j) => Current(j)
         /\ \/ unannounced' \in {AfterStalePublish(j), {}}
            \/ FinishCurrent(j) /\ unannounced' = unannounced /\ (closed \/ outcome[j] = "stopped")
  BY Zenon DEF FinishStale, FinishCurrent

-----------------------------------------------------------------------------
(* A waiting scan has a starter                                            *)

(* PendingScanHasStarter in terms of the goroutines that are busy          *)
Alone   == \A i, j \in Busy : i = j
Told    == scanning <=> Busy # {}
Waiting == scanPending /\ ~closed => scanning /\ conf.src # 0 /\ \A j \in Busy : ~Current(j)
StarterInv == Alone /\ Told /\ Waiting

LEMMA StarterIsPending == StarterInv <=> PendingScanHasStarter
  <1>1. Alone <=> \A i, j \in Jobs : Unfinished(i) /\ Unfinished(j) => i = j
    BY Zenon DEF Alone, Busy
  <1>2. Told <=> (scanning <=> \E j \in Jobs : Unfinished(j))
    <2>1. Busy # {} <=> \E j \in Jobs : Unfinished(j)
      BY Zenon DEF Busy
    <2>2. QED
      BY Zenon, <2>1 DEF Told
  <1>3. (\A j \in Busy : ~Current(j)) <=> (\A j \in Jobs : Unfinished(j) => ~Current(j))
    BY Zenon DEF Busy
  <1>4. QED
    BY Zenon, <1>1, <1>2, <1>3 DEF StarterInv, Waiting, PendingScanHasStarter

(* There is never more than one, and m.scanning tells whether there is.    *)
LEMMA AloneStep ==
  ASSUME StateOK, Alone, Told, Next
  PROVE  Alone' /\ Told'
  <1>1. CASE Busy' = Busy /\ scanning' = scanning
    BY Zenon, <1>1 DEF Alone, Told
  <1>2. CASE Starts
    <2>1. PICK k \in Jobs \ Busy : Busy' = Busy \cup {k} /\ scanning' = TRUE /\ ~scanning
      BY Zenon, <1>2 DEF Starts
    <2>2. Busy = {}
      BY Zenon, <2>1 DEF Told
    <2>3. QED
      BY Zenon, <2>1, <2>2 DEF Alone, Told
  <1>3. ASSUME NEW j \in Busy, Finishes(j) PROVE Alone' /\ Told'
    <2>1. Busy \ {j} = {}
      BY Zenon, <1>3 DEF Alone
    <2>2. \/ Busy' = {} /\ scanning' = FALSE
          \/ \E k \in Jobs : Busy' = {k} /\ scanning' = TRUE
      BY Zenon, <1>3, <2>1 DEF Finishes
    <2>3. QED
      BY Zenon, <2>2 DEF Alone, Told
  <1>4. CASE Restart
    <2>1. scanning' = FALSE /\ \A j \in Jobs : pc'[j] = "idle"
      BY Zenon, <1>4 DEF Restart
    <2>2. \A j \in Jobs : pc'[j] \notin {"wait", "scan", "finish"}
      BY <2>1
    <2>3. Busy' = {}
      BY Zenon, <2>2 DEF Busy, Unfinished
    <2>4. QED
      BY Zenon, <2>1, <2>3 DEF Alone, Told
  <1>5. ASSUME NEW j \in Jobs, ScanStep(j) PROVE Alone' /\ Told'
    <2>1. CASE FinishStale(j)
      BY Zenon, <1>3, <2>1, FinishStaleBusy
    <2>2. CASE FinishCurrent(j)
      BY Zenon, <1>3, <2>2, FinishCurrentBusy DEF Finishes
    <2>3. QED
      BY Zenon, <1>1, <1>5, <2>1, <2>2, ScanBusy DEF ScanStep
  <1>6. QED
    BY Zenon, <1>1, <1>2, <1>4, <1>5, OtherScans DEF Next

(* Whoever waits is not forgotten, nor taken for the one under way.        *)
LEMMA WaitingStep ==
  ASSUME StateOK, LinkInv, GenerationInv, StarterInv, Next
  PROVE  Waiting'
  <1>1. CASE closed' \/ scanPending' = FALSE
    BY Zenon, <1>1 DEF Waiting
  <1>2. scanPending /\ ~closed => scanning /\ conf.src # 0 /\ \A j \in Busy : ~Current(j)
    BY DEF StarterInv, Waiting
  <1>3. ASSUME ~(scanPending /\ ~closed), scanPending' => scanPending, closed => closed'
        PROVE  Waiting'
    BY Zenon, <1>3 DEF Waiting
  <1>4. \A j \in Jobs : j \in Busy /\ j \in Busy' => cap'[j] = cap[j]
    <2> SUFFICES ASSUME NEW j \in Jobs, Unfinished(j), Unfinished(j)' PROVE cap'[j] = cap[j]
      BY Zenon DEF Busy
    <2>1. QED
      BY JobKeepsSource
  <1>5. CASE Busy' = Busy /\ UNCHANGED <<scanning, scanPending, conf>> /\ (closed => closed')
    <2>1. \A j \in Busy : Current(j)' <=> Current(j)
      <3> SUFFICES ASSUME NEW j \in Busy PROVE Current(j)' <=> Current(j)
        OBVIOUS
      <3>1. j \in Jobs
        BY Zenon DEF Busy
      <3>2. QED
        BY Zenon, <1>4, <1>5, <3>1 DEF Current
    <2>2. QED
      BY Zenon, <1>2, <1>5, <2>1 DEF Waiting
  <1>6. ASSUME NEW j \in Jobs, ScanStep(j) PROVE Waiting'
    <2>1. CASE FinishStale(j)
      <3>1. scanPending' => scanPending /\ ~StartsPending
        BY <2>1, FinishStaleBusy
      <3>2. closed' = closed
        BY <2>1, FinishFacts
      <3>3. scanPending /\ ~closed => StartsPending
        BY Zenon, <1>2 DEF StartsPending
      <3>4. QED
        BY Zenon, <3>1, <3>2, <3>3 DEF Waiting
    <2>2. CASE FinishCurrent(j)
      <3>1. scanPending' = scanPending /\ j \in Busy
        BY <2>2, FinishCurrentBusy
      <3>2. closed' = closed /\ Current(j)
        BY <2>2, FinishFacts
      <3>3. QED
        BY Zenon, <1>2, <1>3, <3>1, <3>2
    <2>3. QED
      BY Zenon, <1>5, <1>6, <2>1, <2>2, ScanBusy DEF ScanStep
  <1>7. CASE Starts /\ UNCHANGED scanPending /\ closed' = closed
    BY Zenon, <1>2, <1>3, <1>7 DEF Starts
  <1>8. CASE Restart
    BY Zenon, <1>1, <1>8 DEF Restart
  <1>9. ASSUME EnrichStep \/ AdminStep \/ ProcessStep, ~Restart
        PROVE  Waiting'
    <2>0. /\ Starts \/ (Busy' = Busy /\ UNCHANGED <<scanning, mutated>>)
          /\ closed => closed'
      BY Zenon, <1>9, OtherScans
    <2>1. CASE UNCHANGED <<conf, scanPending>>
      <3>1. CASE Starts
        BY Zenon, <1>2, <1>3, <2>0, <2>1, <3>1 DEF Starts
      <3>2. QED
        BY Zenon, <1>5, <2>0, <2>1, <3>1
    <2>2. ASSUME NEW r \in Roots, Configure(r) PROVE Waiting'
      <3>1. conf'.src = sources + 1 /\ sources \in Nat
        BY SMT, <2>2 DEF Configure, StateOK
      <3>2. CASE scanning
        <4>1. Busy' = Busy /\ scanning' = scanning
          BY Zenon, <2>0, <3>2 DEF Starts
        <4>2. \A j \in Busy' : ~Current(j)'
          <5> SUFFICES ASSUME NEW j \in Jobs, j \in Busy, j \in Busy' PROVE ~Current(j)'
            BY Zenon, <4>1 DEF Busy
          <5>1. cap'[j] = cap[j]
            BY Zenon, <1>4
          <5>2. cap[j].src <= sources /\ cap[j].src \in Nat
            BY SMT DEF Busy, GenerationInv, StateOK, Config
          <5>3. cap'[j].src # conf'.src
            BY SMT, <3>1, <5>1, <5>2
          <5>4. QED
            BY Zenon, <5>3 DEF Current
        <4>3. conf'.src # 0
          BY SMT, <3>1
        <4>4. QED
          BY Zenon, <3>2, <4>1, <4>2, <4>3 DEF Waiting
      <3>3. CASE ~scanning
        <4>1. UNCHANGED <<scanPending, closed>>
          BY Zenon, <2>2, <3>3 DEF Configure
        <4>2. QED
          BY Zenon, <1>2, <1>3, <3>3, <4>1
      <3>4. QED
        BY <3>2, <3>3
    <2>3. CASE UnlinkFence
      BY Zenon, <1>1, <2>3 DEF UnlinkFence
    <2>4. unlink.pc # "none" => ~(scanPending /\ ~closed)
      BY Zenon, <1>2 DEF LinkInv
    <2>5. CASE UnlinkDone
      <3>1. unlink.pc # "none" /\ UNCHANGED <<scanPending, closed>>
        <4>1. unlink.pc = "done"
          BY <2>5 DEF UnlinkDone
        <4>2. QED
          BY Zenon, <2>5, <4>1 DEF UnlinkDone
      <3>2. QED
        BY Zenon, <1>3, <2>4, <3>1
    <2>6. CASE UnlinkFailed
      <3>1. unlink.pc = "failed" /\ unlink.pc # "none" /\ closed' = closed
        <4>1. unlink.pc = "failed" /\ closed' = closed
          BY Zenon, <2>6 DEF UnlinkFailed
        <4>2. QED
          BY <4>1
      <3>2. \/ closed' \/ UNCHANGED scanPending
            \/ /\ unlink.src # 0 /\ conf' = RestoredConf /\ scanning
               /\ UNCHANGED <<scanning, jobVars>>
        BY Zenon, <2>6 DEF UnlinkFailed
      <3>3. CASE UNCHANGED scanPending
        BY Zenon, <1>3, <2>4, <3>1, <3>3
      <3>4. CASE /\ unlink.src # 0 /\ conf' = RestoredConf /\ scanning
                 /\ UNCHANGED <<scanning, jobVars>>
        <4>1. Busy' = Busy
          BY Zenon, <3>4 DEF Busy, Unfinished
        <4>2. conf'.src = unlink.src /\ conf'.gen = unlink.gen
          BY SMT, <3>4 DEF RestoredConf
        <4>3. \A j \in Busy' : ~Current(j)'
          <5> SUFFICES ASSUME NEW j \in Jobs, j \in Busy PROVE ~Current(j)'
            BY Zenon, <4>1 DEF Busy
          <5>1. cap'[j] = cap[j]
            BY Zenon, <3>4
          <5>2. cap[j].src = unlink.src => cap[j].gen < unlink.gen
            BY SMT, <3>1 DEF Busy, GenerationInv
          <5>3. cap[j].gen \in Nat /\ unlink.gen \in Nat
            BY SMT DEF StateOK, Config
          <5>4. ~(cap'[j].src = conf'.src /\ cap'[j].gen = conf'.gen)
            BY SMT, <4>2, <5>1, <5>2, <5>3
          <5>5. QED
            BY Zenon, <5>4 DEF Current
        <4>4. QED
          BY Zenon, <3>4, <4>2, <4>3 DEF Waiting
      <3>5. QED
        BY Zenon, <1>1, <3>2, <3>3, <3>4
    <2>7. \/ UNCHANGED <<conf, scanPending>>
          \/ \E r \in Roots : Configure(r)
          \/ UnlinkFence \/ UnlinkDone \/ UnlinkFailed
      <3>1. CASE EnrichStep
        BY Zenon, <3>1 DEF EnrichStep, EnrichTake, EnrichAcquire, EnrichReset, EnrichCheck, EnrichRun,
           EnrichRelease, EnrichSettle, EnrichBackoff
      <3>2. CASE AdminStep
        BY Zenon, <3>2 DEF AdminStep, UnlinkStore, Rescan, RequestReset
      <3>3. CASE ProcessStep
        BY Zenon, <1>9, <3>3 DEF ProcessStep, SchedulerTick, SetEnricher, StartServing, CloseBegin,
           CloseWait
      <3>4. QED
        BY <1>9, <3>1, <3>2, <3>3
    <2>8. QED
      BY Zenon, <2>1, <2>2, <2>3, <2>5, <2>6, <2>7
  <1>10. QED
    BY Zenon, <1>6, <1>8, <1>9 DEF Next

-----------------------------------------------------------------------------
(* What was written is announced                                           *)

(* A scan that was stopped had been replaced or cancelled, and still is.   *)
LEMMA StoppedStep ==
  ASSUME StateOK, LinkInv, GenerationInv, StoppedInv, Next
  PROVE  StoppedInv'
  <1> SUFFICES ASSUME NEW j \in Jobs, pc'[j] = "finish", outcome'[j] = "stopped"
               PROVE  closed' \/ ~Current(j)'
    BY Zenon DEF StoppedInv
  <1>1. CASE Restart
    BY SMT, <1>1 DEF Restart
  <1>2. ASSUME pc[j] = "finish", outcome[j] = "stopped", closed => closed'
        PROVE  closed' \/ ~Current(j)'
    <2>1. closed \/ ~Current(j)
      BY Zenon, <1>2 DEF StoppedInv
    <2>2. Unfinished(j) /\ Unfinished(j)'
      BY Zenon, <1>2 DEF Unfinished
    <2>3. ~Current(j) => ~Current(j)'
      BY Zenon, <2>2, JobKeepsSource, GenerationKept
    <2>4. QED
      BY Zenon, <1>2, <2>1, <2>3
  <1>3. ASSUME NEW i \in Jobs, ScanStep(i) PROVE closed' \/ ~Current(j)'
    <2>1. CASE FinishStale(i)
      BY Zenon, <1>2, <2>1, FinishStaleBusy, FinishFacts
    <2>2. CASE FinishCurrent(i)
      BY Zenon, <1>2, <2>2, FinishCurrentBusy, FinishFacts
    <2>3. CASE ScanAcquire(i)
      <3>1. CASE closed
        BY Zenon, <2>3, <3>1 DEF ScanAcquire
      <3>2. CASE ~closed
        <4>1. pc' = [pc EXCEPT ![i] = "scan"] /\ outcome' = outcome /\ closed' = closed
          BY Zenon, <2>3, <3>2 DEF ScanAcquire, GivesUp
        <4>2. pc[j] = "finish" /\ outcome[j] = "stopped"
          BY SMT, <4>1 DEF StateOK
        <4>3. QED
          BY Zenon, <1>2, <4>1, <4>2
      <3>3. QED
        BY <3>1, <3>2
    <2>4. CASE ScanEnd(i)
      <3>1. /\ pc' = [pc EXCEPT ![i] = "finish"] /\ UNCHANGED <<conf, cap, closed>>
            /\ \/ \E o \in {"done", "error"} : outcome' = [outcome EXCEPT ![i] = o]
               \/ MayWrite(i) /\ outcome' = [outcome EXCEPT ![i] = "error"]
               \/ ~MayWrite(i) /\ outcome' = [outcome EXCEPT ![i] = "stopped"]
        BY Zenon, <2>4 DEF ScanEnd
      <3>2. CASE i = j
        <4>1. ~MayWrite(i)
          <5>1. \A o : [outcome EXCEPT ![i] = o][j] = o
            BY SMT, <3>2 DEF StateOK
          <5>2. "stopped" \notin {"done", "error"}
            OBVIOUS
          <5>3. QED
            BY Zenon, <3>1, <5>1, <5>2
        <4>2. Current(j)' <=> Current(j)
          BY Zenon, <3>1 DEF Current
        <4>3. QED
          BY Zenon, <3>1, <3>2, <4>1, <4>2 DEF MayWrite
      <3>3. CASE i # j
        <4>1. pc[j] = "finish" /\ outcome[j] = "stopped"
          BY SMT, <3>1, <3>3 DEF StateOK
        <4>2. QED
          BY Zenon, <1>2, <3>1, <4>1
      <3>4. QED
        BY <3>2, <3>3
    <2>5. CASE ScanWrite(i) \/ ScanRelease(i) \/ ScanTrigger(i)
      <3>1. closed' = closed
        BY Zenon, <2>5 DEF ScanWrite, ScanRelease, ScanTrigger
      <3>2. pc[j] = "finish" /\ outcome[j] = "stopped"
        <4>1. \/ pc' = pc /\ outcome' = outcome
              \/ /\ \E to \in {"idle", "trigger"} : pc' = [pc EXCEPT ![i] = to]
                 /\ outcome' = outcome \/ outcome' = [outcome EXCEPT ![i] = "none"]
          BY Zenon, <2>5 DEF ScanWrite, ScanRelease, ScanTrigger
        <4>2. QED
          BY SMT, <4>1 DEF StateOK
      <3>3. QED
        BY Zenon, <1>2, <3>1, <3>2
    <2>6. QED
      BY Zenon, <1>3, <2>1, <2>2, <2>3, <2>4, <2>5 DEF ScanStep
  <1>4. CASE (EnrichStep \/ AdminStep \/ ProcessStep) /\ ~Restart
    <2>1. /\ pc[j] = "finish" /\ outcome'[j] = outcome[j]
          /\ closed => closed'
      BY Zenon, <1>4, OtherScans DEF FinishersStay
    <2>2. QED
      BY <1>2, <2>1
  <1>5. QED
    BY Zenon, <1>1, <1>3, <1>4 DEF Next

LEMMA AnnouncedStep ==
  ASSUME StateOK, StarterInv, StoppedInv, ChangesAnnounced, Next
  PROVE  ChangesAnnounced'
  <1> DEFINE Upserts == "upserts" \in unannounced => Busy \cap mutated # {}
             Finalized == "finalized" \in unannounced => \E j \in Jobs : pc[j] = "finish"
  <1> SUFFICES ASSUME ~closed' PROVE Upserts' /\ Finalized'
    BY Zenon DEF ChangesAnnounced, Busy
  <1>1. ~closed => Upserts /\ Finalized
    BY Zenon DEF ChangesAnnounced, Busy
  <1>2. CASE Restart
    BY Zenon, <1>2 DEF Restart
  <1>3. ASSUME NEW j \in Jobs, ScanStep(j) PROVE Upserts' /\ Finalized'
    <2>1. CASE FinishStale(j) \/ FinishCurrent(j)
      <3>1. j \in Busy
        BY Zenon, <2>1, FinishStaleBusy, FinishCurrentBusy
      <3>2. UNCHANGED closed /\ pc[j] = "finish" /\ (FinishCurrent(j) => Current(j))
        BY Zenon, <2>1, FinishFacts
      <3>3. unannounced' \in {AfterStalePublish(j), {}}
        BY Zenon, <2>1, <3>2, FinishFacts DEF StoppedInv
      <3>4. /\ "finalized" \notin unannounced'
            /\ "upserts" \in unannounced' => "upserts" \in unannounced /\ j \notin mutated
        BY Zenon, <3>3, AfterStale
      <3>5. Busy \cap mutated # {} => j \in mutated
        BY Zenon, <3>1 DEF StarterInv, Alone
      <3>6. QED
        BY Zenon, <1>1, <3>2, <3>4, <3>5
    <2>2. CASE ScanWrite(j)
      <3>1. /\ pc[j] = "scan" /\ pc' = pc /\ j \in mutated' /\ UNCHANGED closed
            /\ unannounced' = unannounced \cup {"upserts"}
        BY Zenon, <2>2 DEF ScanWrite
      <3>2. j \in Busy' /\ "finalized" # "upserts"
        BY Zenon, <3>1 DEF Busy, Unfinished
      <3>3. QED
        BY Zenon, <1>1, <3>1, <3>2
    <2>3. CASE ScanAcquire(j) \/ ScanEnd(j) \/ ScanRelease(j) \/ ScanTrigger(j)
      <3>1. Busy' = Busy /\ closed' = closed /\ \A i \in Busy : i \in mutated => i \in mutated'
        BY Zenon, <2>3, ScanBusy
      <3>2. CASE ScanEnd(j)
        <4>1. /\ pc' = [pc EXCEPT ![j] = "finish"]
              /\ unannounced' \in {unannounced, unannounced \cup {"finalized"}}
          BY Zenon, <3>2 DEF ScanEnd
        <4>2. pc'[j] = "finish" /\ "upserts" # "finalized"
          BY SMT, <4>1 DEF StateOK
        <4>3. QED
          BY Zenon, <1>1, <3>1, <4>1, <4>2
      <3>3. CASE ScanAcquire(j) \/ ScanRelease(j) \/ ScanTrigger(j)
        <4>1. /\ unannounced' = unannounced /\ pc[j] \in {"wait", "release", "trigger"}
              /\ \E to \in JobPCs : pc' = [pc EXCEPT ![j] = to]
          BY Zenon, <3>3 DEF ScanAcquire, ScanRelease, ScanTrigger, JobPCs
        <4>2. \A i \in Jobs : pc[i] = "finish" => pc'[i] = "finish"
          BY SMT, <4>1 DEF StateOK
        <4>3. QED
          BY Zenon, <1>1, <3>1, <4>1, <4>2
      <3>4. QED
        BY <2>3, <3>2, <3>3
    <2>4. QED
      BY Zenon, <1>3, <2>1, <2>2, <2>3 DEF ScanStep
  <1>4. CASE (EnrichStep \/ AdminStep \/ ProcessStep) /\ ~Restart
    <2>1. /\ Starts \/ (Busy' = Busy /\ UNCHANGED mutated)
          /\ FinishersStay /\ unannounced' \in {unannounced, {}} /\ ~closed
      BY Zenon, <1>4, OtherScans
    <2>2. Upserts'
      BY Zenon, <1>1, <2>1 DEF Starts
    <2>3. Finalized'
      BY Zenon, <1>1, <2>1 DEF FinishersStay
    <2>4. QED
      BY <2>2, <2>3
  <1>5. QED
    BY Zenon, <1>2, <1>3, <1>4 DEF Next

(* Everything that is said of the scan goroutines                          *)
ScansInv == FenceInv /\ StarterInv /\ StoppedInv /\ ChangesAnnounced

LEMMA ScansCorrect == Spec => []ScansInv
  <1>1. Init => StarterInv /\ StoppedInv /\ ChangesAnnounced
    <2> SUFFICES ASSUME Init PROVE StarterInv /\ StoppedInv /\ ChangesAnnounced
      OBVIOUS
    <2>1. /\ scanning = FALSE /\ scanPending = FALSE /\ unannounced = {}
          /\ \A j \in Jobs : pc[j] = "idle"
      BY Zenon DEF Init
    <2>2. \A j \in Jobs : pc[j] \notin {"wait", "scan", "finish"} /\ pc[j] # "finish"
      BY <2>1
    <2>3. Busy = {}
      BY Zenon, <2>2 DEF Busy, Unfinished
    <2>4. QED
      BY Zenon, <2>1, <2>2, <2>3 DEF StarterInv, Alone, Told, Waiting, StoppedInv, ChangesAnnounced
  <1>2. FenceInv /\ StarterInv /\ StoppedInv /\ ChangesAnnounced /\ [Next]_vars
          => StarterInv' /\ StoppedInv' /\ ChangesAnnounced'
    <2> SUFFICES ASSUME FenceInv, StarterInv, StoppedInv, ChangesAnnounced, [Next]_vars
                 PROVE  StarterInv' /\ StoppedInv' /\ ChangesAnnounced'
      OBVIOUS
    <2>1. CASE UNCHANGED vars
      <3>1. UNCHANGED <<scanning, scanPending, closed, conf, pc, cap, outcome, mutated, unannounced>>
        BY Zenon, <2>1 DEF vars
      <3>2. Busy' = Busy /\ \A j \in Jobs : Current(j)' <=> Current(j)
        BY Zenon, <3>1 DEF Busy, Unfinished, Current
      <3>3. Alone' /\ Told'
        BY Zenon, <3>1, <3>2 DEF StarterInv, Alone, Told
      <3>4. Waiting'
        BY Zenon, <3>1, <3>2 DEF StarterInv, Waiting, Busy
      <3>5. StoppedInv'
        BY Zenon, <3>1, <3>2 DEF StoppedInv
      <3>6. ChangesAnnounced'
        BY Zenon, <3>1 DEF ChangesAnnounced, Unfinished
      <3>7. QED
        BY <3>3, <3>4, <3>5, <3>6 DEF StarterInv
    <2>2. CASE Next
      <3>1. StateOK /\ LinkInv /\ GenerationInv
        BY DEF FenceInv, TypeOK
      <3>2. Alone' /\ Told'
        BY <2>2, <3>1, AloneStep DEF StarterInv
      <3>3. Waiting' /\ StoppedInv' /\ ChangesAnnounced'
        BY <2>2, <3>1, WaitingStep, StoppedStep, AnnouncedStep
      <3>4. QED
        BY <3>2, <3>3 DEF StarterInv
    <2>3. QED
      BY <2>1, <2>2
  <1>3. QED
    BY <1>1, <1>2, FenceCorrect, PTL DEF Spec, ScansInv

(* m.scanning stands for exactly one goroutine that has not finished, and  *)
(* a scan that waits for a replaced one is started by its end              *)
(* (startPendingScanLocked), however Configure, Unlink and Rescan race.    *)
THEOREM PendingScanIsStarted == Spec => []PendingScanHasStarter
  <1>1. ScansInv => PendingScanHasStarter
    BY StarterIsPending DEF ScansInv
  <1>2. QED
    BY <1>1, ScansCorrect, PTL

(* What scans upserted since the last library.changed is announced by the  *)
(* end of a scan that upserted and has not finished, whether it is         *)
(* finished, failed or replaced by then (finishScanJob); what one          *)
(* finalized waits for its end, and is forgotten there only if that scan   *)
(* upserted nothing and failed or was replaced.                            *)
THEOREM ChangesAreAnnounced == Spec => []ChangesAnnounced
  <1>1. ScansInv => ChangesAnnounced
    BY DEF ScansInv
  <1>2. QED
    BY <1>1, ScansCorrect, PTL

=============================================================================
