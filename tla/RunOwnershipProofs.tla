------------------------- MODULE RunOwnershipProofs -------------------------
(***************************************************************************)
(* The safety properties of RunOwnership hold for any number of runs,      *)
(* recoverers and reboots.                                                 *)
(*                                                                         *)
(* The argument is one inductive invariant, IInv.  Its centre is LaunchInv *)
(* (a live VMM that still has its disk is on record as possibly alive) and *)
(* LockInv (whoever changes a run's files holds the operator lock).        *)
(***************************************************************************)
EXTENDS RunOwnership, TLAPS

USE DEF storage, controller, recoverer, Goto, Move

-----------------------------------------------------------------------------
(* Records.                                                                *)

\* The records that actions store are well typed.
LEMMA NewRecords ==
  /\ NewManifest \in Manifest
  /\ NoReport \in Report /\ Interrupted \in Report
<1> USE SMTT(60)
<1>1. NewManifest \in Manifest
  BY ConstantsAssumption DEF Manifest, NewManifest, Stage, EarlyStage, Cleanup
<1>2. NoReport \in Report /\ Interrupted \in Report
  BY DEF Cleanup, Report, NoReport, Interrupted
<1> QED BY <1>1, <1>2

\* The field updates that the engine applies to a manifest keep it one.
LEMMA ManifestUpdate ==
  ASSUME NEW m \in Manifest, NEW s \in Stage, NEW c \in Cleanup, NEW b \in 0..MaxBoot
  PROVE  /\ [m EXCEPT !.stage = s] \in Manifest
         /\ [m EXCEPT !.process = TRUE] \in Manifest
         /\ [m EXCEPT !.stage = s, !.cleanup = c] \in Manifest
         /\ [m EXCEPT !.stage = s, !.boot = b] \in Manifest
  BY ZenonT(120) DEF Manifest

\* The field updates that the engine applies to a report keep it one.
LEMMA ReportUpdate ==
  ASSUME NEW v \in Report, NEW e \in {"COMPLETED", "ERROR", "CANCELLED"},
         NEW a \in {"PASS", "FAIL"}, NEW c \in Cleanup
  PROVE  /\ [v EXCEPT !.execution = e] \in Report
         /\ [v EXCEPT !.execution = e, !.assertion = a] \in Report
         /\ [v EXCEPT !.cleanup = c] \in Report
  BY ZenonT(120) DEF Report

\* An execution status is replaced without touching the rest of the report.
LEMMA ExecutionUpdate ==
  ASSUME NEW v \in Report, NEW e \in {"COMPLETED", "ERROR", "CANCELLED"}
  PROVE  LET u == [v EXCEPT !.execution = e]
         IN  u \in Report /\ u.execution = e /\ u.cleanup = v.cleanup
  BY SMTT(60) DEF Report

\* Degrading a verdict turns COMPLETED into ERROR at most.
LEMMA DegradedVerdict ==
  ASSUME NEW v \in Report, NEW d \in Degraded(v)
  PROVE  /\ d \in Report /\ d.cleanup = v.cleanup
         /\ d = v \/ d.execution = "ERROR"
  BY SMTT(60) DEF Degraded, Report

\* The values that the engine assigns to the stage and cleanup fields are legal.
LEMMA StageAndCleanup ==
  /\ {"VALIDATING", "PREPARING", "BOOTING", "READY", "RUNNING", "COLLECTING", "CLEANING",
      "FINISHED"} \subseteq Stage
  /\ {"COMPLETE", "INCOMPLETE"} = Cleanup
  BY SMTT(60) DEF Stage, EarlyStage, Cleanup

\* What the shared pieces of actions do to the variables they change.
LEMMA AbortEffect ==
  ASSUME TypeOK, NEW r \in Runs, Abort(r)
  PROVE  /\ verdict' \in [Runs -> Report]
         /\ verdict'[r].execution \in {"ERROR", "CANCELLED"}
         /\ verdict'[r].cleanup = verdict[r].cleanup
         /\ \A s \in Runs \ {r} : verdict'[s] = verdict[s]
<1>1. PICK e \in {"ERROR", "CANCELLED"} : verdict' = [verdict EXCEPT ![r].execution = e]
  BY ZenonT(120) DEF Abort
<1> DEFINE u == [verdict[r] EXCEPT !.execution = e]
<1>2. verdict[r] \in Report /\ verdict \in [Runs -> Report]
  BY SMTT(60) DEF TypeOK
<1>3. u \in Report /\ u.execution = e /\ u.cleanup = verdict[r].cleanup
  BY <1>2, ExecutionUpdate, ZenonT(120)
<1>4. verdict' = [verdict EXCEPT ![r] = u]
  BY <1>1, SMTT(60)
<1> HIDE DEF u
<1> QED BY <1>2, <1>3, <1>4, SMTT(60)

\* A cleanup error changes at most the execution status of the verdict.
LEMMA DegradeEffect ==
  ASSUME TypeOK, NEW r \in Runs, Degrade(r)
  PROVE  /\ verdict' \in [Runs -> Report]
         /\ verdict'[r].execution \in {verdict[r].execution, "ERROR"}
         /\ verdict'[r].cleanup = verdict[r].cleanup
         /\ \A s \in Runs \ {r} : verdict'[s] = verdict[s]
<1>1. PICK d \in Degraded(verdict[r]) : verdict' = [verdict EXCEPT ![r] = d]
  BY ZenonT(120) DEF Degrade
<1> QED BY <1>1, DegradedVerdict, SMTT(60) DEF TypeOK

\* A save, failed or not, leaves manifests.
LEMMA SaveEffect ==
  ASSUME TypeOK, NEW r \in Runs, NEW m \in Manifest, NEW ok, SaveManifest(r, m, ok)
  PROVE  manifest' \in [Runs -> Manifest]
  BY SMTT(60) DEF SaveManifest, TypeOK

\* A returning or killed recovery keeps the recovery types.
LEMMA ForgetEffect ==
  ASSUME TypeOK, NEW w \in Recoverers, Forget(w)
  PROVE  /\ rpc' \in [Recoverers -> Holding \cup {"idle", "loaded"}]
         /\ target' \in [Recoverers -> Runs \cup {Nobody}]
         /\ snap' \in [Recoverers -> Manifest]
  BY NewRecords, SMTT(60) DEF Forget, TypeOK, Holding

-----------------------------------------------------------------------------
(* Type correctness.                                                       *)

\* The initial state is well typed.
LEMMA TypeInit == Init => TypeOK
  BY NewRecords, ConstantsAssumption, SMTT(60) DEF Init, TypeOK, Entry

\* A persisted manifest keeps the types.
LEMMA TypePersist ==
  ASSUME TypeOK, NEW r \in Runs, NEW m \in Manifest, NEW at, NEW next \in Executing,
         Persist(r, at, m, next)
  PROVE  TypeOK'
<1> USE DEF Starting, Executing, Cleaning, Active
<1>1. manifest' \in [Runs -> Manifest] /\ mem' \in [Runs -> Manifest]
  BY SaveEffect, ZenonT(120) DEF Persist, TypeOK
<1>2. verdict' \in [Runs -> Report]
  BY AbortEffect, ZenonT(120) DEF Persist, TypeOK
<1>3. pc' \in [Runs -> Active \cup Over \cup {"idle"}]
  BY ZenonT(120) DEF Persist, Abort, TypeOK
<1> QED BY <1>1, <1>2, <1>3, SMTT(60) DEF Persist, TypeOK

\* Every step of a controller (Run) keeps the types.
LEMMA TypeController ==
  ASSUME TypeOK, NEW r \in Runs, Controller(r)
  PROVE  TypeOK'
<1> USE StageAndCleanup DEF TypeOK, Starting, Executing, Cleaning, Active, Over
<1>1. CASE Admit(r) \/ RefuseAdmission(r) \/ CreateEvidence(r) \/ AbandonRun(r)
  BY <1>1, SMTT(60) DEF Admit, RefuseAdmission, CreateEvidence, AbandonRun
<1>2. CASE NewRecorder(r)
  <2>1. [NewManifest EXCEPT !.stage = "VALIDATING", !.boot = boot] \in Manifest
    BY NewRecords, ManifestUpdate, ZenonT(120)
  <2>2. [verdict[r] EXCEPT !.execution = "ERROR"] \in Report
    BY ReportUpdate, ZenonT(120)
  <2> QED BY <1>2, <2>1, <2>2, SMTT(60) DEF NewRecorder
<1>3. CASE Execute(r)
  <2>1. ASSUME NEW s \in Stage PROVE [mem[r] EXCEPT !.stage = s] \in Manifest
    BY <2>1, ManifestUpdate, ZenonT(120)
  <2>2. ASSUME NEW at, NEW s \in Stage, NEW next \in Executing, EnterStage(r, at, s, next)
        PROVE  TypeOK'
    <3>1. [mem[r] EXCEPT !.stage = s] \in Manifest
      BY <2>1, <2>2, SMTT(60)
    <3>2. Persist(r, at, [mem[r] EXCEPT !.stage = s], next)
      BY <2>2, SMTT(60) DEF EnterStage
    <3>3. TypeOK
      BY ZenonT(120)
    <3> HIDE DEF TypeOK, Executing
    <3> QED BY <2>2, <3>1, <3>2, <3>3, TypePersist, SMTT(60)
  <2>3. CASE Persist(r, "identify", mem[r], "ready")
    BY <2>3, TypePersist, SMTT(60)
  <2>4. CASE MakeRuntime(r) \/ CopyDisk(r) \/ WriteConfig(r)
    BY <2>4, SMTT(60) DEF MakeRuntime, CopyDisk, WriteConfig, Entry
  <2>5. CASE StartVMM(r)
    <3>1. [mem[r] EXCEPT !.process = TRUE] \in Manifest
      BY ManifestUpdate, ZenonT(120)
    <3> QED BY <2>5, <3>1, SMTT(60) DEF StartVMM
  <2>6. CASE ExecutionFails(r)
    <3>1. verdict' \in [Runs -> Report]
      BY <2>6, AbortEffect, SMTT(60) DEF ExecutionFails
    <3> QED BY <2>6, <3>1, SMTT(60) DEF ExecutionFails, Abort, Entry
  <2>7. CASE Decide(r)
    <3>1. PICK a \in {"PASS", "FAIL"} :
            verdict' = [verdict EXCEPT ![r] = [@ EXCEPT !.execution = "COMPLETED", !.assertion = a]]
      BY <2>7, ZenonT(120) DEF Decide
    <3>2. verdict' \in [Runs -> Report]
      BY <3>1, ReportUpdate, ZenonT(120)
    <3> QED BY <2>7, <3>2, SMTT(60) DEF Decide
  <2> QED BY <1>3, <2>2, <2>3, <2>4, <2>5, <2>6, <2>7, SMTT(60) DEF Execute
<1>4. CASE CleanUp(r)
  <2>1. CASE StageCleaning(r)
    <3>1. [mem[r] EXCEPT !.stage = "CLEANING"] \in Manifest
      BY ManifestUpdate, ZenonT(120)
    <3>2. verdict' \in [Runs -> Report] /\ manifest' \in [Runs -> Manifest]
      BY <2>1, <3>1, DegradeEffect, SaveEffect, ZenonT(120) DEF StageCleaning
    <3> QED BY <2>1, <3>1, <3>2, ZenonT(120) DEF StageCleaning
  <2>2. CASE StopVMM(r)
    <3>1. verdict' \in [Runs -> Report]
      BY <2>2, DegradeEffect, SMTT(60) DEF StopVMM
    <3> QED BY <2>2, <3>1, SMTT(60), Z3T(60) DEF StopVMM
  <2>3. CASE RemoveOwnedRuntime(r)
    <3>1. [verdict[r] EXCEPT !.cleanup = "COMPLETE"] \in Report
      BY ReportUpdate, ZenonT(120)
    <3>2. files' \in [Runs -> SUBSET Entry]
      BY <2>3, SMTT(60) DEF RemoveOwnedRuntime, RemoveFiles, RemoveDir
    <3> QED BY <2>3, <3>1, <3>2, SMTT(60), Z3T(60) DEF RemoveOwnedRuntime
  <2>4. CASE StageFinished(r)
    <3>1. [mem[r] EXCEPT !.stage = "FINISHED", !.cleanup = verdict[r].cleanup] \in Manifest
      BY ManifestUpdate, ZenonT(120) DEF Report
    <3>2. verdict' \in [Runs -> Report] /\ manifest' \in [Runs -> Manifest]
      BY <2>4, <3>1, DegradeEffect, SaveEffect, ZenonT(120) DEF StageFinished
    <3> QED BY <2>4, <3>1, <3>2, ZenonT(120) DEF StageFinished
  <2>5. CASE PublishReport(r)
    <3>1. PICK v \in Degraded(verdict[r]) \cup {[verdict[r] EXCEPT !.execution = "CANCELLED"]} :
            PublishVerdict(r, v)
      BY <2>5, SMTT(60) DEF PublishReport
    <3>2. v \in Report
      <4>1. [verdict[r] EXCEPT !.execution = "CANCELLED"] \in Report
        BY ReportUpdate, ZenonT(120)
      <4>2. CASE v \in Degraded(verdict[r])
        BY <4>2, DegradedVerdict, SMTT(60)
      <4> QED BY <4>1, <4>2, SMTT(60)
    <3>3. [v EXCEPT !.execution = "ERROR"] \in Report
      BY <3>2, ReportUpdate, ZenonT(120)
    <3>4. verdict' \in [Runs -> Report] /\ report' \in [Runs -> Report]
      BY <3>1, <3>2, <3>3, SMTT(60), Z3T(60) DEF PublishVerdict
    <3> QED BY <2>5, <3>4, NewRecords, ZenonT(120) DEF PublishReport
  <2> QED BY <1>4, <2>1, <2>2, <2>3, <2>4, <2>5, SMTT(60) DEF CleanUp
<1> QED BY <1>1, <1>2, <1>3, <1>4, SMTT(60), Z3T(60) DEF Controller

\* Every step of a recovery (Recover) and its death keep the types.
LEMMA TypeRecover ==
  ASSUME TypeOK, RecoveryInv, NEW w \in Recoverers,
         LoadManifest(w) \/ Recover(w) \/ CrashRecovery(w)
  PROVE  TypeOK'
<1> USE StageAndCleanup DEF TypeOK, Return, Proceed, Holding
<1>1. CASE LoadManifest(w)
  BY <1>1, SMTT(60) DEF LoadManifest
<1>2. CASE LockForRecovery(w)
  BY <1>2, ForgetEffect, SMTT(60) DEF LockForRecovery
<1>3. CASE Inspect(w) \/ StopOwned(w)
  BY <1>3, ForgetEffect, SMTT(60) DEF Inspect, StopOwned
<1>4. CASE RecoverRuntime(w)
  <2>1. files' \in [Runs -> SUBSET Entry]
    BY <1>4, SMTT(60) DEF RecoverRuntime, RemoveFiles, RemoveDir, RecoveryInv
  <2> QED BY <1>4, <2>1, ForgetEffect, SMTT(60) DEF RecoverRuntime
<1>5. CASE RecoverManifest(w)
  <2>1. [snap[w] EXCEPT !.stage = "FINISHED", !.cleanup = "COMPLETE"] \in Manifest
    BY ManifestUpdate, ZenonT(120)
  <2>2. manifest' \in [Runs -> Manifest]
    BY <1>5, <2>1, SMTT(60) DEF RecoverManifest, RecoveryInv, SaveManifest
  <2> QED BY <1>5, <2>2, ForgetEffect, ZenonT(120) DEF RecoverManifest
<1>6. CASE RecoverReport(w)
  <2>1. target[w] \in Runs
    BY <1>6, SMTT(60) DEF RecoverReport, RecoveryInv
  <2>2. ReadReport(target[w]) \in Report
    BY <2>1, NewRecords, ReportUpdate, ZenonT(120) DEF ReadReport, Manifest
  <2>3. [ReadReport(target[w]) EXCEPT !.cleanup = "COMPLETE"] \in Report
    BY <2>2, ReportUpdate, ZenonT(120)
  <2> QED BY <1>6, <2>1, <2>3, ForgetEffect, SMTT(60), Z3T(60) DEF RecoverReport
<1>7. CASE CrashRecovery(w)
  BY <1>7, ForgetEffect, SMTT(60) DEF CrashRecovery
<1> QED BY <1>1, <1>2, <1>3, <1>4, <1>5, <1>6, <1>7, SMTT(60) DEF Recover

\* The exit of a VMM, the death of a controller and a reboot keep the types.
LEMMA TypeEnvironment ==
  ASSUME TypeOK, Reboot \/ \E r \in Runs : AcquireLock(r) \/ VMMExits(r) \/ Crash(r)
  PROVE  TypeOK'
<1> USE SMTT(60)
<1> USE DEF TypeOK, Starting, Executing, Cleaning, Active, Over, Holding
<1>1. CASE Reboot
  BY <1>1, NewRecords, ConstantsAssumption DEF Reboot
<1>2. ASSUME NEW r \in Runs, AcquireLock(r) \/ VMMExits(r) \/ Crash(r) PROVE TypeOK'
  BY <1>2, NewRecords, SMTT(60) DEF AcquireLock, VMMExits, Crash
<1> QED BY <1>1, <1>2

-----------------------------------------------------------------------------
(* The invariant: one step per action.  OwnInv is about who owns what, the *)
(* other two conjuncts about admission and about verdicts.                 *)

OwnInv == LockInv /\ PhaseInv /\ LaunchInv /\ RecoveryInv /\ WaitingInv

\* What a recovery does to its own state leaves the controllers' invariants alone.
LEMMA ControllerFrame ==
  ASSUME IInv, UNCHANGED <<boot, storage, vmm, controller>>
  PROVE  PhaseInv' /\ LaunchInv' /\ AdmissionInv' /\ VerdictInv'
<1> USE SMTT(60)
<1>1. PhaseInv'
  BY DEF IInv, PhaseInv, MayLive, Recorded
<1>2. LaunchInv'
  BY DEF IInv, LaunchInv, MayLive
<1>3. AdmissionInv'
  BY DEF IInv, AdmissionInv, OneUnresolvedRun, Resolved, Saved
<1>4. VerdictInv'
  BY ZenonT(120) DEF IInv, VerdictInv, Saved
<1> QED BY <1>1, <1>2, <1>3, <1>4

\* The phase invariant survives when each controller stays, is idle or is over.
LEMMA PhaseFrame ==
  ASSUME PhaseInv,
         \A s \in Runs :
           \/ pc'[s] \in Over
           \/ /\ pc[s] = "idle" /\ pc'[s] = "idle"
              /\ manifest'[s] = manifest[s] /\ (vmm[s] = "none" => vmm'[s] = "none")
           \/ /\ pc'[s] = pc[s] /\ mem'[s] = mem[s] /\ manifest'[s] = manifest[s]
              /\ files'[s] = files[s] /\ boot' = boot
              /\ vmm'[s] = vmm[s] \/ (vmm[s] = "live" /\ vmm'[s] = "dead")
  PROVE  PhaseInv'
<1> USE SMTT(60)
<1> SUFFICES ASSUME NEW s \in Runs
             PROVE  /\ pc'[s] \in {"idle"} \cup Starting => ~Recorded(s)'
                    /\ pc'[s] \in PreLaunch => vmm'[s] = "none"
                    /\ pc'[s] \in Launched =>
                         vmm'[s] # "none" /\ MayLive(mem[s])' /\ mem'[s].process
                    /\ pc'[s] \in Executing \cup Cleaning => mem'[s].boot = boot'
                    /\ pc'[s] \in (Executing \cup Cleaning) \ {"report"} =>
                         mem'[s].cleanup = "INCOMPLETE"
                    /\ pc'[s] \in {"config", "rename", "boot", "start"} => "disk" \in files'[s]
                    /\ pc'[s] = "start" => manifest'[s] = mem'[s] /\ MayLive(mem[s])'
                    /\ pc'[s] \in Cleaning /\ vmm'[s] = "live" => mem'[s].process
                    /\ pc'[s] \in {"remove", "rmdir"} => vmm'[s] # "live"
  BY ZenonT(120) DEF PhaseInv
<1>1. CASE pc'[s] \in Over
  BY <1>1 DEF Over, Starting, PreLaunch, Launched, Executing, Cleaning
<1>2. CASE /\ pc[s] = "idle" /\ pc'[s] = "idle"
           /\ manifest'[s] = manifest[s] /\ (vmm[s] = "none" => vmm'[s] = "none")
  BY <1>2, ZenonT(120) DEF PhaseInv, Recorded, PreLaunch, Launched, Executing, Cleaning
<1>3. CASE /\ pc'[s] = pc[s] /\ mem'[s] = mem[s] /\ manifest'[s] = manifest[s]
           /\ files'[s] = files[s] /\ boot' = boot
           /\ vmm'[s] = vmm[s] \/ (vmm[s] = "live" /\ vmm'[s] = "dead")
  BY <1>3 DEF PhaseInv, Recorded, MayLive
<1> QED BY <1>1, <1>2, <1>3, ZenonT(120)

\* Recording a stage of the cleanup moves one controller on and changes no more of its
\* manifest than the stage and the cleanup status.
LEMMA RecordCleanup ==
  ASSUME PhaseInv, LaunchInv, NEW r \in Runs, NEW m, NEW next,
         pc \in [Runs -> Active \cup Over \cup {"idle"}],
         mem \in [Runs -> Manifest], manifest \in [Runs -> Manifest],
         \/ pc[r] = "clean" /\ next = "stop" /\ m.cleanup = "INCOMPLETE"
         \/ pc[r] = "finish" /\ next = "report",
         m.process = mem[r].process, m.boot = mem[r].boot, vmm[r] = "live" => MayLive(m),
         pc' = [pc EXCEPT ![r] = next], mem' = [mem EXCEPT ![r] = m],
         manifest' \in {manifest, [manifest EXCEPT ![r] = m]},
         boot' = boot, files' = files, vmm' = vmm
  PROVE  PhaseInv' /\ LaunchInv'
<1>1. /\ pc'[r] = next /\ mem'[r] = m /\ manifest'[r] \in {manifest[r], m}
      /\ \A s \in Runs \ {r} :
           pc'[s] = pc[s] /\ mem'[s] = mem[s] /\ manifest'[s] = manifest[s]
  BY ZenonT(120)
<1>2. PhaseInv'
  BY <1>1, SMTT(60) DEF PhaseInv, Recorded, PreLaunch, Launched, Starting, Executing, Cleaning,
     MayLive, EarlyStage
<1>3. LaunchInv'
  BY <1>1, SMTT(60) DEF LaunchInv, MayLive
<1> QED BY <1>2, <1>3

\* The verdict invariant survives when controllers stay or die, nothing comes back,
\* and a report is only ever written for a run that is over and did not exit with 0.
LEMMA VerdictFrame ==
  ASSUME VerdictInv,
         \A s \in Runs :
           \/ pc'[s] = pc[s] /\ verdict'[s] = verdict[s]
           \/ pc[s] \in Active /\ pc'[s] = "crashed" /\ verdict'[s] = NoReport,
         \A s \in Runs :
           /\ vmm'[s] = "live" => vmm[s] = "live"
           /\ vmm'[s] = "none" => vmm[s] = "none"
           /\ files[s] = {} => files'[s] = {},
         \A s \in Runs :
           \/ report'[s] = report[s]
           \/ /\ pc[s] \in Over /\ report'[s].execution # "ABSENT"
              /\ ~(pc[s] = "ended" /\ ExitCode(verdict[s]) = 0)
  PROVE  VerdictInv'
<1> USE SMTT(60)
<1>1. \A p \in Over : p \notin Active \cup {"idle"}
  BY ZenonT(120) DEF Over, Active, Starting, Executing, Cleaning
<1> SUFFICES ASSUME NEW s \in Runs
             PROVE  /\ pc'[s] \in Active \cup {"idle"} \/ ~Saved(s)' => report'[s] = NoReport
                    /\ pc'[s] \in Executing \cup Cleaning => verdict'[s].execution # "ABSENT"
                    /\ pc'[s] \notin {"finish", "report", "ended"} =>
                         verdict'[s].cleanup = "INCOMPLETE"
                    /\ pc'[s] \notin Cleaning \cup {"ended"} =>
                         verdict'[s].execution # "COMPLETED"
                    /\ verdict'[s].cleanup = "COMPLETE" => vmm'[s] # "live" /\ files'[s] = {}
                    /\ verdict'[s].execution = "COMPLETED" => vmm'[s] # "none"
                    /\ pc'[s] = "ended" /\ ExitCode(verdict'[s]) = 0 => report'[s] = verdict'[s]
  BY ZenonT(120) DEF VerdictInv, ExitCode
<1>2. CASE pc'[s] = pc[s] /\ verdict'[s] = verdict[s]
  <2>1. CASE report'[s] = report[s]
    BY <1>2, <2>1 DEF VerdictInv, Saved
  <2>2. CASE /\ pc[s] \in Over /\ report'[s].execution # "ABSENT"
             /\ ~(pc[s] = "ended" /\ ExitCode(verdict[s]) = 0)
    BY <1>1, <1>2, <2>2 DEF VerdictInv, Saved
  <2> QED BY <2>1, <2>2, ZenonT(120)
<1>3. CASE pc[s] \in Active /\ pc'[s] = "crashed" /\ verdict'[s] = NoReport
  <2>1. report'[s] = NoReport
    BY <1>1, <1>3 DEF VerdictInv
  <2>2. pc'[s] \notin Active \cup {"idle"} /\ pc'[s] \notin Executing \cup Cleaning
    BY <1>1, <1>3 DEF Over, Active
  <2> QED BY <1>3, <2>1, <2>2, SMTT(60), Z3T(60), Z3T(60) DEF NoReport
<1> QED BY <1>2, <1>3

\* An admitted controller that leaves the other runs' files alone keeps admission sound.
LEMMA OthersResolved ==
  ASSUME IInv, NEW r \in Runs, pc[r] \in Active \ {"admit"},
         \A s \in Runs \ {r} : pc'[s] = pc[s] /\ (Resolved(s) => Resolved(s)')
  PROVE  AdmissionInv'
<1> USE SMTT(60)
<1>1. \A s \in Runs \ {r} : Resolved(s)' /\ pc'[s] \notin Active
  BY DEF IInv, LockInv, AdmissionInv
<1> QED BY <1>1 DEF AdmissionInv, OneUnresolvedRun

-----------------------------------------------------------------------------
(* Every step of a controller preserves the invariant.                     *)

\* Saving the manifest during execution preserves the invariant.
LEMMA PersistStep ==
  ASSUME IInv, NEW r \in Runs, NEW m \in Manifest, NEW at \in Executing, NEW next \in Executing,
         Persist(r, at, m, next),
         m.process = mem[r].process, m.boot = mem[r].boot, m.cleanup = mem[r].cleanup,
         m.stage # "NONE",
         \/ at \in Launched /\ next \in Launched /\ m.stage \notin EarlyStage
         \/ at \in {"validate", "prepare"} /\ next \in {"prepare", "mkdir"}
         \/ at = "boot" /\ next = "start" /\ m.stage \notin EarlyStage
  PROVE  OwnInv' /\ AdmissionInv' /\ VerdictInv'
<1> USE DEF Starting, Executing, Cleaning, Active, Over, Holding, EarlyStage,
       PreLaunch, Launched, MayLive, Recorded, Saved
<1>1. /\ pc[r] = at /\ pc'[r] \in {next, "clean"}
      /\ \A s \in Runs \ {r} : pc'[s] = pc[s]
  BY ZenonT(120) DEF IInv, TypeOK, Persist, Abort
<1>2. /\ mem'[r] = m /\ manifest'[r] \in {m, manifest[r]}
      /\ pc'[r] = next => manifest'[r] = m
      /\ \A s \in Runs \ {r} : mem'[s] = mem[s] /\ manifest'[s] = manifest[s]
  BY ZenonT(120) DEF IInv, TypeOK, Persist, SaveManifest, Abort
<1>3. /\ verdict'[r].cleanup = verdict[r].cleanup
      /\ verdict'[r].execution \in {verdict[r].execution, "ERROR", "CANCELLED"}
      /\ \A s \in Runs \ {r} : verdict'[s] = verdict[s]
  BY AbortEffect, ZenonT(120) DEF IInv, Persist
<1>4. UNCHANGED <<boot, lock, evidence, report, files, vmm, rpc, target, snap>>
  BY ZenonT(120) DEF Persist
<1>5. lock = r /\ \A w \in Recoverers : rpc[w] \in {"idle", "loaded"}
  BY ConstantsAssumption, <1>1, SMTT(60) DEF IInv, TypeOK, LockInv
<1>6. LockInv'
  BY <1>1, <1>4, ZenonT(120) DEF IInv, LockInv
<1>7. PhaseInv'
  BY <1>1, <1>2, <1>4, SMTT(60) DEF IInv, PhaseInv
<1>8. LaunchInv'
  BY <1>1, <1>2, <1>4, SMTT(60) DEF IInv, PhaseInv, LaunchInv
<1>9. RecoveryInv' /\ WaitingInv'
  <2>1. /\ RecoveryInv /\ WaitingInv /\ LockInv /\ target \in [Recoverers -> Runs \cup {Nobody}]
        /\ manifest \in [Runs -> Manifest]
    BY ZenonT(120) DEF IInv, TypeOK
  <2>2. RecoveryInv'
    <3> HIDE DEF Starting, Executing, Cleaning, Active, Over, Holding, EarlyStage, PreLaunch,
             Launched, MayLive, Saved
    <3> QED BY <1>2, <1>4, <1>5, <2>1, SMTT(60) DEF RecoveryInv
  <2>3. WaitingInv'
    <3>1. \A w \in Recoverers : rpc[w] # "idle" => target[w] \in Runs
      BY <2>1, ZenonT(120) DEF RecoveryInv
    <3> QED BY <1>1, <1>4, <2>1, <3>1, SMTT(60) DEF WaitingInv, DiskOutlivesVMM
  <2> QED BY <2>2, <2>3, ZenonT(120)
<1>10. AdmissionInv'
  <2>1. \A s \in Runs : Resolved(s) => Resolved(s)'
    BY <1>4, ZenonT(120) DEF Resolved
  <2> QED BY <1>1, <2>1, OthersResolved, ZenonT(120)
<1>11. VerdictInv'
  <2>1. VerdictInv
    BY ZenonT(120) DEF IInv
  <2> QED BY <1>1, <1>3, <1>4, <2>1, SMTT(60) DEF VerdictInv, ExitCode
<1> QED BY <1>6, <1>7, <1>8, <1>9, <1>10, <1>11, ZenonT(120) DEF OwnInv

\* Locking, admission and the creation of the run preserve the invariant.
LEMMA StartingStep ==
  ASSUME IInv, NEW r \in Runs
  PROVE  AcquireLock(r) \/ Admit(r) \/ RefuseAdmission(r) \/ CreateEvidence(r)
         \/ NewRecorder(r) \/ AbandonRun(r)
           => OwnInv' /\ AdmissionInv' /\ VerdictInv'
<1> USE DEF IInv, TypeOK, Starting, Executing, Cleaning, Active, Over, Holding,
       EarlyStage, PreLaunch, Launched, MayLive, Recorded, Saved, DiskOutlivesVMM
<1>1. ASSUME AcquireLock(r) PROVE OwnInv' /\ AdmissionInv' /\ VerdictInv'
  <2>1. LockInv'
    BY ConstantsAssumption, <1>1, ZenonT(120) DEF AcquireLock, LockInv
  <2>2. PhaseInv'
    BY <1>1, SMTT(60) DEF AcquireLock, PhaseInv
  <2>3. LaunchInv'
    BY <1>1, ZenonT(120) DEF AcquireLock, LaunchInv
  <2>4. RecoveryInv'
    BY <1>1, ZenonT(120) DEF AcquireLock, RecoveryInv
  <2>5. WaitingInv'
    BY <1>1, SMTT(60) DEF AcquireLock, WaitingInv
  <2>6. AdmissionInv'
    BY <1>1, SMTT(60) DEF AcquireLock, AdmissionInv, OneUnresolvedRun, Resolved
  <2>7. VerdictInv'
    BY <1>1, SMTT(60) DEF AcquireLock, VerdictInv, NoReport
  <2> QED BY <2>1, <2>2, <2>3, <2>4, <2>5, <2>6, <2>7, ZenonT(120) DEF OwnInv
<1>2. ASSUME Admit(r) PROVE OwnInv' /\ AdmissionInv' /\ VerdictInv'
  <2>1. LockInv'
    BY <1>2, ZenonT(120) DEF Admit, LockInv
  <2>2. PhaseInv'
    BY <1>2, SMTT(60) DEF Admit, PhaseInv
  <2>3. LaunchInv'
    BY <1>2, ZenonT(120) DEF Admit, LaunchInv
  <2>4. RecoveryInv'
    BY <1>2, ZenonT(120) DEF Admit, RecoveryInv
  <2>5. WaitingInv'
    BY <1>2, SMTT(60) DEF Admit, WaitingInv
  <2>6. AdmissionInv'
    BY <1>2, ZenonT(120) DEF Admit, Admissible, AdmissionInv, OneUnresolvedRun, Resolved
  <2>7. VerdictInv'
    BY <1>2, SMTT(60), ZenonT(120) DEF Admit, VerdictInv, NoReport
  <2> QED BY <2>1, <2>2, <2>3, <2>4, <2>5, <2>6, <2>7, ZenonT(120) DEF OwnInv
<1>3. ASSUME RefuseAdmission(r) PROVE OwnInv' /\ AdmissionInv' /\ VerdictInv'
  <2>1. LockInv'
    BY ConstantsAssumption, <1>3, ZenonT(120) DEF RefuseAdmission, LockInv
  <2>2. PhaseInv'
    BY <1>3, SMTT(60) DEF RefuseAdmission, PhaseInv
  <2>3. LaunchInv'
    BY <1>3, ZenonT(120) DEF RefuseAdmission, LaunchInv
  <2>4. RecoveryInv'
    BY <1>3, ZenonT(120) DEF RefuseAdmission, RecoveryInv
  <2>5. WaitingInv'
    BY <1>3, SMTT(60) DEF RefuseAdmission, WaitingInv
  <2>6. AdmissionInv'
    BY <1>3, SMTT(60) DEF RefuseAdmission, AdmissionInv, OneUnresolvedRun, Resolved
  <2>7. VerdictInv'
    BY <1>3, SMTT(60) DEF RefuseAdmission, VerdictInv, NoReport
  <2> QED BY <2>1, <2>2, <2>3, <2>4, <2>5, <2>6, <2>7, ZenonT(120) DEF OwnInv
<1>4. ASSUME CreateEvidence(r) PROVE OwnInv' /\ AdmissionInv' /\ VerdictInv'
  <2>1. LockInv'
    BY <1>4, ZenonT(120) DEF CreateEvidence, LockInv
  <2>2. PhaseInv'
    BY <1>4, SMTT(60) DEF CreateEvidence, PhaseInv
  <2>3. LaunchInv'
    BY <1>4, ZenonT(120) DEF CreateEvidence, LaunchInv
  <2>4. RecoveryInv'
    BY <1>4, ZenonT(120) DEF CreateEvidence, RecoveryInv
  <2>5. WaitingInv'
    BY <1>4, SMTT(60), Z3T(60) DEF CreateEvidence, WaitingInv
  <2>6. AdmissionInv'
    BY <1>4, SMTT(60), ZenonT(120) DEF CreateEvidence, AdmissionInv, LockInv, OneUnresolvedRun,
       Resolved
  <2>7. VerdictInv'
    BY <1>4, SMTT(60) DEF CreateEvidence, VerdictInv, NoReport
  <2> QED BY <2>1, <2>2, <2>3, <2>4, <2>5, <2>6, <2>7, ZenonT(120) DEF OwnInv
<1>5. ASSUME NewRecorder(r) PROVE OwnInv' /\ AdmissionInv' /\ VerdictInv'
  <2>1. LockInv'
    BY <1>5, ZenonT(120) DEF NewRecorder, LockInv
  <2>2. PhaseInv'
    BY <1>5, SMTT(60) DEF NewRecorder, NewManifest, PhaseInv
  <2>3. LaunchInv'
    BY <1>5, ZenonT(120) DEF NewRecorder, LaunchInv
  <2>4. RecoveryInv'
    BY <1>5, ZenonT(120) DEF NewRecorder, RecoveryInv
  <2>5. WaitingInv'
    BY <1>5, SMTT(60) DEF NewRecorder, WaitingInv
  <2>6. AdmissionInv'
    BY <1>5, SMTT(60) DEF NewRecorder, AdmissionInv, OneUnresolvedRun, Resolved
  <2>7. VerdictInv'
    BY <1>5, SMTT(60), Z3T(60) DEF NewRecorder, Report, VerdictInv, NoReport
  <2> QED BY <2>1, <2>2, <2>3, <2>4, <2>5, <2>6, <2>7, ZenonT(120) DEF OwnInv
<1>6. ASSUME AbandonRun(r) PROVE OwnInv' /\ AdmissionInv' /\ VerdictInv'
  <2>1. LockInv'
    BY ConstantsAssumption, <1>6, ZenonT(120) DEF AbandonRun, LockInv
  <2>2. PhaseInv'
    BY <1>6, SMTT(60) DEF AbandonRun, PhaseInv
  <2>3. LaunchInv'
    BY <1>6, ZenonT(120) DEF AbandonRun, LaunchInv
  <2>4. RecoveryInv'
    BY <1>6, ZenonT(120) DEF AbandonRun, RecoveryInv
  <2>5. WaitingInv'
    BY <1>6, SMTT(60) DEF AbandonRun, WaitingInv
  <2>6. AdmissionInv'
    BY <1>6, SMTT(60) DEF AbandonRun, AdmissionInv, OneUnresolvedRun, Resolved
  <2>7. VerdictInv'
    BY <1>6, SMTT(60) DEF AbandonRun, VerdictInv, ExitCode, NoReport
  <2> QED BY <2>1, <2>2, <2>3, <2>4, <2>5, <2>6, <2>7, ZenonT(120) DEF OwnInv
<1> QED BY <1>1, <1>2, <1>3, <1>4, <1>5, <1>6, ZenonT(120)

\* Creating the runtime files, launching and deciding preserve the invariant.
LEMMA PrepareStep ==
  ASSUME IInv, NEW r \in Runs
  PROVE  MakeRuntime(r) \/ CopyDisk(r) \/ WriteConfig(r) \/ StartVMM(r) \/ Decide(r)
           => OwnInv' /\ AdmissionInv' /\ VerdictInv'
<1> USE DEF IInv, TypeOK, Starting, Executing, Cleaning, Active, Over, Holding,
       EarlyStage, PreLaunch, Launched, MayLive, Recorded, Saved, DiskOutlivesVMM
<1>1. ASSUME MakeRuntime(r) PROVE OwnInv' /\ AdmissionInv' /\ VerdictInv'
  <2>1. LockInv'
    BY <1>1, ZenonT(120) DEF MakeRuntime, LockInv
  <2>2. PhaseInv'
    BY <1>1, SMTT(60) DEF MakeRuntime, PhaseInv
  <2>3. LaunchInv'
    BY <1>1, ZenonT(120) DEF MakeRuntime, LaunchInv
  <2>4. RecoveryInv'
    BY ConstantsAssumption, <1>1, SMTT(60), Z3T(60) DEF MakeRuntime, RecoveryInv, LockInv
  <2>5. WaitingInv'
    BY <1>1, SMTT(60), Z3T(60) DEF MakeRuntime, WaitingInv, PhaseInv, LockInv
  <2>6. AdmissionInv'
    BY <1>1, SMTT(60), Z3T(60) DEF MakeRuntime, AdmissionInv, LockInv, OneUnresolvedRun, Resolved
  <2>7. VerdictInv'
    BY <1>1, SMTT(60) DEF MakeRuntime, VerdictInv, NoReport
  <2> QED BY <2>1, <2>2, <2>3, <2>4, <2>5, <2>6, <2>7, ZenonT(120) DEF OwnInv
<1>2. ASSUME CopyDisk(r) PROVE OwnInv' /\ AdmissionInv' /\ VerdictInv'
  <2>1. LockInv'
    BY <1>2, ZenonT(120) DEF CopyDisk, LockInv
  <2>2. PhaseInv'
    BY <1>2, SMTT(60) DEF CopyDisk, PhaseInv
  <2>3. LaunchInv'
    BY <1>2, SMTT(60), ZenonT(120) DEF CopyDisk, LaunchInv, PhaseInv
  <2>4. RecoveryInv'
    <3> HIDE DEF TypeOK, Over, EarlyStage, PreLaunch, Launched, DiskOutlivesVMM
    <3> QED BY ConstantsAssumption, <1>2, SMTT(60), Z3T(60) DEF CopyDisk, RecoveryInv, LockInv
  <2>5. WaitingInv'
    BY <1>2, SMTT(60), Z3T(60) DEF CopyDisk, WaitingInv
  <2>6. AdmissionInv'
    BY <1>2, SMTT(60), Z3T(60) DEF CopyDisk, AdmissionInv, LockInv, OneUnresolvedRun, Resolved
  <2>7. VerdictInv'
    BY <1>2, SMTT(60), ZenonT(120) DEF CopyDisk, VerdictInv, NoReport
  <2> QED BY <2>1, <2>2, <2>3, <2>4, <2>5, <2>6, <2>7, ZenonT(120) DEF OwnInv
<1>3. ASSUME WriteConfig(r) PROVE OwnInv' /\ AdmissionInv' /\ VerdictInv'
  <2>1. LockInv'
    BY <1>3, SMTT(60), ZenonT(120) DEF WriteConfig, LockInv
  <2>2. PhaseInv'
    BY <1>3, SMTT(60), Z3T(60) DEF WriteConfig, PhaseInv
  <2>3. LaunchInv'
    BY <1>3, SMTT(60), Z3T(60) DEF WriteConfig, LaunchInv
  <2>4. RecoveryInv'
    BY ConstantsAssumption, <1>3, SMTT(60), Z3T(60) DEF WriteConfig, RecoveryInv, LockInv
  <2>5. WaitingInv'
    BY <1>3, SMTT(60), Z3T(60) DEF WriteConfig, WaitingInv, LockInv, RecoveryInv
  <2>6. AdmissionInv'
    BY <1>3, SMTT(60), Z3T(60) DEF WriteConfig, AdmissionInv, LockInv, OneUnresolvedRun, Resolved
  <2>7. VerdictInv'
    BY <1>3, SMTT(60), Z3T(60) DEF WriteConfig, VerdictInv, NoReport
  <2> QED BY <2>1, <2>2, <2>3, <2>4, <2>5, <2>6, <2>7, ZenonT(120) DEF OwnInv
<1>4. ASSUME StartVMM(r) PROVE OwnInv' /\ AdmissionInv' /\ VerdictInv'
  <2>1. LockInv'
    BY <1>4, ZenonT(120) DEF StartVMM, LockInv
  <2>2. PhaseInv'
    BY <1>4, SMTT(60) DEF StartVMM, Manifest, PhaseInv
  <2>3. LaunchInv'
    BY <1>4, SMTT(60) DEF StartVMM, Manifest, LaunchInv, PhaseInv
  <2>4. RecoveryInv'
    BY ConstantsAssumption, <1>4, SMTT(60), Z3T(60) DEF StartVMM, RecoveryInv, LockInv
  <2>5. WaitingInv'
    BY <1>4, SMTT(60) DEF StartVMM, Manifest, WaitingInv, PhaseInv, LockInv
  <2>6. AdmissionInv'
    BY <1>4, SMTT(60) DEF StartVMM, AdmissionInv, OneUnresolvedRun, Resolved
  <2>7. VerdictInv'
    BY <1>4, SMTT(60), Z3T(60) DEF StartVMM, VerdictInv, NoReport
  <2> QED BY <2>1, <2>2, <2>3, <2>4, <2>5, <2>6, <2>7, ZenonT(120) DEF OwnInv
<1>5. ASSUME Decide(r) PROVE OwnInv' /\ AdmissionInv' /\ VerdictInv'
  <2>1. LockInv'
    BY <1>5, ZenonT(120) DEF Decide, LockInv
  <2>2. PhaseInv'
    BY <1>5, SMTT(60) DEF Decide, PhaseInv
  <2>3. LaunchInv'
    BY <1>5, ZenonT(120) DEF Decide, LaunchInv
  <2>4. RecoveryInv'
    BY <1>5, ZenonT(120) DEF Decide, RecoveryInv
  <2>5. WaitingInv'
    BY <1>5, SMTT(60) DEF Decide, WaitingInv
  <2>6. AdmissionInv'
    BY <1>5, SMTT(60), Z3T(60) DEF Decide, AdmissionInv, OneUnresolvedRun, Resolved
  <2>7. VerdictInv'
    BY <1>5, SMTT(60), Z3T(60) DEF Decide, Report, VerdictInv, PhaseInv, NoReport
  <2> QED BY <2>1, <2>2, <2>3, <2>4, <2>5, <2>6, <2>7, ZenonT(120) DEF OwnInv
<1> QED BY <1>1, <1>2, <1>3, <1>4, <1>5, ZenonT(120)

\* An execution error at any point preserves the invariant.
LEMMA ExecutionFailsStep ==
  ASSUME IInv, NEW r \in Runs, ExecutionFails(r)
  PROVE  OwnInv' /\ AdmissionInv' /\ VerdictInv'
<1> USE DEF IInv, TypeOK, Starting, Executing, Cleaning, Active, Over, Holding,
       EarlyStage, PreLaunch, Launched, MayLive, Recorded, Saved, DiskOutlivesVMM
<1>1. LockInv'
  BY ZenonT(120) DEF ExecutionFails, Abort, LockInv
<1>2. PhaseInv'
  BY SMTT(60) DEF ExecutionFails, Abort, PhaseInv
<1>3. LaunchInv'
  BY ZenonT(120) DEF ExecutionFails, Abort, LaunchInv
<1>4. RecoveryInv'
  BY SMTT(60) DEF ExecutionFails, Abort, RecoveryInv
<1>5. WaitingInv'
  BY SMTT(60) DEF ExecutionFails, Abort, WaitingInv
<1>6. AdmissionInv'
  BY SMTT(60), Z3T(60) DEF ExecutionFails, Abort, AdmissionInv, OneUnresolvedRun, Resolved
<1>7. VerdictInv'
  BY SMTT(60) DEF ExecutionFails, Abort, Report, VerdictInv, NoReport
<1> QED BY <1>1, <1>2, <1>3, <1>4, <1>5, <1>6, <1>7, ZenonT(120) DEF OwnInv

\* Each step of the controller's cleanup preserves the invariant.
LEMMA CleanUpStep ==
  ASSUME IInv, NEW r \in Runs
  PROVE  CleanUp(r) => OwnInv' /\ AdmissionInv' /\ VerdictInv'
<1> USE DEF IInv, TypeOK, Starting, Executing, Cleaning, Active, Over, Holding,
       EarlyStage, PreLaunch, Launched, MayLive, Recorded, Saved, DiskOutlivesVMM
<1>1. ASSUME StageCleaning(r) PROVE OwnInv' /\ AdmissionInv' /\ VerdictInv'
  <2> DEFINE m == [mem[r] EXCEPT !.stage = "CLEANING"]
  <2>a. /\ m.stage = "CLEANING" /\ m.process = mem[r].process
        /\ m.boot = mem[r].boot /\ m.cleanup = mem[r].cleanup
    BY SMTT(60) DEF Manifest
  <2>b. /\ pc[r] = "clean" /\ pc' = [pc EXCEPT ![r] = "stop"]
        /\ mem' = [mem EXCEPT ![r] = m]
        /\ manifest' \in {manifest, [manifest EXCEPT ![r] = m]}
        /\ UNCHANGED <<boot, lock, evidence, report, files, vmm, recoverer>>
    BY <1>1, ZenonT(120) DEF StageCleaning, SaveManifest
  <2> HIDE DEF m
  <2>1. LockInv'
    BY <2>b, ZenonT(120) DEF LockInv
  <2>2. /\ PhaseInv /\ LaunchInv
        /\ mem \in [Runs -> Manifest] /\ manifest \in [Runs -> Manifest]
        /\ pc \in [Runs -> Active \cup Over \cup {"idle"}]
    BY ZenonT(120)
  <2>c. mem[r].cleanup = "INCOMPLETE" /\ MayLive(m)
    BY <2>a, <2>b, ZenonT(120) DEF PhaseInv
  <2>3. PhaseInv' /\ LaunchInv'
    <3> HIDE DEF IInv, TypeOK, Starting, Executing, Cleaning, Active, Over, MayLive
    <3> QED BY <2>a, <2>b, <2>c, <2>2, RecordCleanup, ZenonT(120)
  <2>4. RecoveryInv'
    BY ConstantsAssumption, <2>a, <2>b, SMTT(60), Z3T(60) DEF RecoveryInv, LockInv
  <2>5. WaitingInv'
    BY <2>b, SMTT(60), Z3T(60) DEF WaitingInv
  <2>6. AdmissionInv'
    BY <2>b, SMTT(60), Z3T(60) DEF AdmissionInv, OneUnresolvedRun, Resolved
  <2>7. VerdictInv'
    BY <1>1, <2>b, DegradeEffect, SMTT(60), Z3T(60) DEF StageCleaning, VerdictInv, NoReport
  <2> QED BY <2>1, <2>2, <2>3, <2>4, <2>5, <2>6, <2>7, ZenonT(120) DEF OwnInv
<1>2. ASSUME StopVMM(r) PROVE OwnInv' /\ AdmissionInv' /\ VerdictInv'
  <2>1. LockInv'
    BY <1>2, ZenonT(120) DEF StopVMM, LockInv
  <2>2. PhaseInv'
    BY <1>2, SMTT(60), Z3T(60) DEF StopVMM, PhaseInv
  <2>3. LaunchInv'
    BY <1>2, ZenonT(120) DEF StopVMM, LaunchInv
  <2>4. RecoveryInv'
    BY <1>2, ZenonT(120) DEF StopVMM, RecoveryInv
  <2>5. WaitingInv'
    BY <1>2, SMTT(60) DEF StopVMM, WaitingInv, LockInv, RecoveryInv
  <2>6. AdmissionInv'
    BY <1>2, SMTT(60) DEF StopVMM, AdmissionInv, LockInv, OneUnresolvedRun, Resolved
  <2>7. VerdictInv'
    BY <1>2, SMTT(60), Z3T(60) DEF StopVMM, Degrade, Degraded, Report, VerdictInv, NoReport
  <2> QED BY <2>1, <2>2, <2>3, <2>4, <2>5, <2>6, <2>7, ZenonT(120) DEF OwnInv
<1>3. ASSUME RemoveOwnedRuntime(r) PROVE OwnInv' /\ AdmissionInv' /\ VerdictInv'
  <2>1. LockInv'
    BY <1>3, SMTT(60), Z3T(60) DEF RemoveOwnedRuntime, RemoveFiles, RemoveDir, LockInv
  <2>2. PhaseInv'
    BY <1>3, SMTT(60) DEF RemoveOwnedRuntime, RemoveFiles, RemoveDir, PhaseInv
  <2>3. LaunchInv'
    BY <1>3, SMTT(60) DEF RemoveOwnedRuntime, RemoveFiles, RemoveDir, LaunchInv
  <2>4. RecoveryInv'
    BY <1>3, SMTT(60), Z3T(60) DEF RemoveOwnedRuntime, RemoveFiles, RemoveDir, RecoveryInv,
       LockInv
  <2>5. WaitingInv'
    <3>1. /\ pc[r] \in {"remove", "rmdir"} /\ pc'[r] \notin Over
          /\ \A s \in Runs \ {r} : files'[s] = files[s] /\ pc'[s] = pc[s]
          /\ UNCHANGED <<boot, vmm, recoverer>>
      BY <1>3, ZenonT(120) DEF RemoveOwnedRuntime, RemoveFiles, RemoveDir
    <3>2. vmm[r] # "live"
      BY <3>1, ZenonT(120) DEF PhaseInv
    <3> QED BY <3>1, <3>2, SMTT(60) DEF WaitingInv, RecoveryInv
  <2>6. AdmissionInv'
    <3>1. /\ pc[r] \in Active \ {"admit"}
          /\ \A s \in Runs \ {r} : pc'[s] = pc[s] /\ (Resolved(s) => Resolved(s)')
      BY <1>3, ZenonT(120) DEF RemoveOwnedRuntime, RemoveFiles, RemoveDir, Resolved
    <3> QED BY <3>1, OthersResolved, ZenonT(120)
  <2>7. VerdictInv'
    <3>1. /\ pc[r] \in {"remove", "rmdir"} /\ pc'[r] \in {"rmdir", "finish"}
          /\ verdict'[r].execution = verdict[r].execution
          /\ \/ verdict'[r].cleanup = verdict[r].cleanup
             \/ verdict'[r].cleanup = "COMPLETE" /\ files'[r] = {} /\ pc'[r] = "finish"
          /\ \A s \in Runs \ {r} : /\ verdict'[s] = verdict[s] /\ files'[s] = files[s]
                                   /\ pc'[s] = pc[s]
          /\ UNCHANGED <<report, vmm>>
      BY <1>3, SMTT(60) DEF RemoveOwnedRuntime, RemoveFiles, RemoveDir, Report
    <3>2. vmm[r] # "live"
      BY <3>1, ZenonT(120) DEF PhaseInv
    <3>3. VerdictInv
      BY ZenonT(120)
    <3> HIDE DEF IInv, TypeOK, EarlyStage, PreLaunch, Launched, Recorded, Holding
    <3> QED BY <3>1, <3>2, <3>3, SMTT(60) DEF VerdictInv, NoReport
  <2> QED BY <2>1, <2>2, <2>3, <2>4, <2>5, <2>6, <2>7, ZenonT(120) DEF OwnInv
<1>4. ASSUME StageFinished(r) PROVE OwnInv' /\ AdmissionInv' /\ VerdictInv'
  <2> DEFINE m == [mem[r] EXCEPT !.stage = "FINISHED", !.cleanup = verdict[r].cleanup]
  <2>a. /\ m.stage = "FINISHED" /\ m.process = mem[r].process
        /\ m.boot = mem[r].boot /\ m.cleanup = verdict[r].cleanup
    BY SMTT(60) DEF Manifest
  <2>b. /\ pc[r] = "finish" /\ pc' = [pc EXCEPT ![r] = "report"]
        /\ mem' = [mem EXCEPT ![r] = m]
        /\ manifest' \in {manifest, [manifest EXCEPT ![r] = m]}
        /\ UNCHANGED <<boot, lock, evidence, report, files, vmm, recoverer>>
    BY <1>4, ZenonT(120) DEF StageFinished, SaveManifest
  <2> HIDE DEF m
  <2>c. vmm[r] = "live" => MayLive(m)
    BY <2>a, <2>b, SMTT(60), ZenonT(120) DEF VerdictInv, PhaseInv, Report, Cleanup
  <2>1. LockInv'
    BY <2>b, ZenonT(120) DEF LockInv
  <2>2. /\ PhaseInv /\ LaunchInv
        /\ mem \in [Runs -> Manifest] /\ manifest \in [Runs -> Manifest]
        /\ pc \in [Runs -> Active \cup Over \cup {"idle"}]
    BY ZenonT(120)
  <2>3. PhaseInv' /\ LaunchInv'
    <3> HIDE DEF IInv, TypeOK, Starting, Executing, Cleaning, Active, Over, MayLive
    <3> QED BY <2>a, <2>b, <2>c, <2>2, RecordCleanup, ZenonT(120)
  <2>4. RecoveryInv'
    BY ConstantsAssumption, <2>a, <2>b, SMTT(60), Z3T(60) DEF RecoveryInv, LockInv
  <2>5. WaitingInv'
    BY <2>b, SMTT(60), Z3T(60) DEF WaitingInv
  <2>6. AdmissionInv'
    BY <2>b, SMTT(60), Z3T(60) DEF AdmissionInv, OneUnresolvedRun, Resolved
  <2>7. VerdictInv'
    BY <1>4, <2>b, DegradeEffect, SMTT(60), Z3T(60) DEF StageFinished, VerdictInv, NoReport
  <2> QED BY <2>1, <2>2, <2>3, <2>4, <2>5, <2>6, <2>7, ZenonT(120) DEF OwnInv
<1>5. ASSUME PublishReport(r) PROVE OwnInv' /\ AdmissionInv' /\ VerdictInv'
  <2>1. LockInv'
    BY ConstantsAssumption, <1>5, ZenonT(120) DEF PublishReport, LockInv
  <2>2. PhaseInv'
    BY <1>5, SMTT(60) DEF PublishReport, PhaseInv
  <2>3. LaunchInv'
    BY <1>5, ZenonT(120) DEF PublishReport, LaunchInv
  <2>4. RecoveryInv'
    BY <1>5, ZenonT(120) DEF PublishReport, RecoveryInv
  <2>5. WaitingInv'
    BY <1>5, SMTT(60) DEF PublishReport, WaitingInv
  <2>6. AdmissionInv'
    <3>1. /\ pc[r] \in Active \ {"admit"}
          /\ \A s \in Runs \ {r} : pc'[s] = pc[s] /\ (Resolved(s) => Resolved(s)')
      BY <1>5, ZenonT(120) DEF PublishReport, PublishVerdict, Resolved
    <3> QED BY <3>1, OthersResolved, ZenonT(120)
  <2>7. VerdictInv'
    <3>1. PICK v \in Degraded(verdict[r]) \cup {[verdict[r] EXCEPT !.execution = "CANCELLED"]} :
            PublishVerdict(r, v)
      BY <1>5, ZenonT(120) DEF PublishReport
    <3>2. /\ v \in Report /\ v.cleanup = verdict[r].cleanup
          /\ v.execution \in {verdict[r].execution, "ERROR", "CANCELLED"}
      <4>1. CASE v \in Degraded(verdict[r])
        BY <4>1, DegradedVerdict, ZenonT(120)
      <4>2. CASE v = [verdict[r] EXCEPT !.execution = "CANCELLED"]
        BY <4>2, ExecutionUpdate, ZenonT(120)
      <4> QED BY <4>1, <4>2, ZenonT(120)
    <3>3. /\ report'[r] \in {report[r], v}
          /\ verdict'[r].cleanup = v.cleanup
          /\ verdict'[r].execution \in {v.execution, "ERROR"}
          /\ verdict'[r].execution = "COMPLETED" => report'[r] = v /\ verdict'[r] = v
          /\ \A s \in Runs \ {r} : report'[s] = report[s] /\ verdict'[s] = verdict[s]
      BY <3>1, <3>2, SMTT(60) DEF PublishVerdict, Report
    <3>4. /\ pc[r] = "report" /\ pc'[r] = "ended" /\ UNCHANGED <<files, vmm>>
          /\ \A s \in Runs \ {r} : pc'[s] = pc[s]
      BY <1>5, ZenonT(120) DEF PublishReport
    <3> HIDE DEF Report
    <3> QED BY <3>2, <3>3, <3>4, SMTT(60), Z3T(60) DEF VerdictInv, ExitCode, NoReport
  <2> QED BY <2>1, <2>2, <2>3, <2>4, <2>5, <2>6, <2>7, ZenonT(120) DEF OwnInv
<1> QED BY <1>1, <1>2, <1>3, <1>4, <1>5, ZenonT(120) DEF CleanUp

\* Each step of the execution closure preserves the invariant.
LEMMA ExecuteStep ==
  ASSUME IInv, NEW r \in Runs, Execute(r)
  PROVE  OwnInv' /\ AdmissionInv' /\ VerdictInv'
<1> USE StageAndCleanup
<1>1. mem[r] \in Manifest
  BY ZenonT(120) DEF IInv, TypeOK
<1>2. ASSUME NEW at \in Executing, NEW s \in Stage \ {"NONE"}, NEW next \in Executing,
             EnterStage(r, at, s, next),
             \/ at \in Launched /\ next \in Launched /\ s \notin EarlyStage
             \/ at \in {"validate", "prepare"} /\ next \in {"prepare", "mkdir"}
             \/ at = "boot" /\ next = "start" /\ s \notin EarlyStage
      PROVE  OwnInv' /\ AdmissionInv' /\ VerdictInv'
  <2> DEFINE m == [mem[r] EXCEPT !.stage = s]
  <2>1. /\ m \in Manifest /\ m.stage = s /\ m.process = mem[r].process
        /\ m.boot = mem[r].boot /\ m.cleanup = mem[r].cleanup
    BY <1>1, ZenonT(120) DEF Manifest
  <2>2. Persist(r, at, m, next)
    BY <1>2, ZenonT(120) DEF EnterStage
  <2> HIDE DEF m
  <2> QED BY <1>2, <2>1, <2>2, PersistStep, ZenonT(120)
<1>3. CASE Persist(r, "identify", mem[r], "ready")
  <2>1. mem[r].stage \notin EarlyStage \cup {"NONE"}
    BY <1>3, ZenonT(120) DEF Persist, IInv, PhaseInv, Launched, MayLive
  <2> QED BY <1>1, <1>3, <2>1, PersistStep, ZenonT(120) DEF Launched, Executing
<1>4. CASE MakeRuntime(r) \/ CopyDisk(r) \/ WriteConfig(r) \/ StartVMM(r) \/ Decide(r)
  BY <1>4, PrepareStep, ZenonT(120)
<1>5. CASE ExecutionFails(r)
  BY <1>5, ExecutionFailsStep, ZenonT(120)
<1>6. CASE \/ EnterStage(r, "validate", "VALIDATING", "prepare")
           \/ EnterStage(r, "prepare", "PREPARING", "mkdir")
           \/ EnterStage(r, "boot", "BOOTING", "start")
           \/ EnterStage(r, "ready", "READY", "run")
           \/ EnterStage(r, "run", "RUNNING", "collect")
           \/ EnterStage(r, "collect", "COLLECTING", "decide")
  BY <1>2, <1>6, ZenonT(120) DEF Executing, Launched, EarlyStage
<1> QED BY <1>3, <1>4, <1>5, <1>6, ZenonT(120) DEF Execute

-----------------------------------------------------------------------------
(* The environment and recovery.                                           *)

\* The exit of a VMM, the death of a controller and a reboot preserve the invariant.
LEMMA EnvironmentStep ==
  ASSUME IInv
  PROVE  Reboot \/ (\E r \in Runs : VMMExits(r) \/ Crash(r))
           => OwnInv' /\ AdmissionInv' /\ VerdictInv'
<1> USE DEF IInv, TypeOK, Starting, Executing, Cleaning, Active, Over, Holding,
       EarlyStage, PreLaunch, Launched, MayLive, Recorded, Saved, DiskOutlivesVMM
<1>1. ASSUME Reboot PROVE OwnInv' /\ AdmissionInv' /\ VerdictInv'
  <2>1. LockInv'
    BY ConstantsAssumption, <1>1, ZenonT(120) DEF Reboot, LockInv
  <2>2. PhaseInv'
    <3>1. \A s \in Runs :
            \/ pc'[s] \in Over
            \/ /\ pc[s] = "idle" /\ pc'[s] = "idle"
               /\ manifest'[s] = manifest[s] /\ (vmm[s] = "none" => vmm'[s] = "none")
      BY <1>1, ZenonT(120) DEF Reboot
    <3>2. PhaseInv
      BY ZenonT(120)
    <3> QED BY <3>1, <3>2, PhaseFrame, ZenonT(120)
  <2>3. LaunchInv'
    BY <1>1, ZenonT(120) DEF Reboot, LaunchInv
  <2>4. RecoveryInv'
    BY <1>1, ZenonT(120) DEF Reboot, RecoveryInv
  <2>5. WaitingInv'
    BY <1>1, ZenonT(120) DEF Reboot, WaitingInv
  <2>6. AdmissionInv'
    BY <1>1, SMTT(60) DEF Reboot, AdmissionInv, LockInv, OneUnresolvedRun, Resolved
  <2>7. VerdictInv'
    <3>1. \A s \in Runs :
            \/ pc'[s] = pc[s] /\ verdict'[s] = verdict[s]
            \/ pc[s] \in Active /\ pc'[s] = "crashed" /\ verdict'[s] = NoReport
      BY <1>1, ZenonT(120) DEF Reboot
    <3>2. \A s \in Runs : /\ vmm'[s] = "live" => vmm[s] = "live"
                          /\ vmm'[s] = "none" => vmm[s] = "none"
                          /\ files[s] = {} => files'[s] = {}
      BY <1>1, ZenonT(120) DEF Reboot
    <3>3. VerdictInv /\ UNCHANGED report
      BY <1>1, ZenonT(120) DEF Reboot
    <3> HIDE DEF IInv, TypeOK, Active
    <3> QED BY <3>1, <3>2, <3>3, VerdictFrame, ZenonT(120)
  <2> QED BY <2>1, <2>2, <2>3, <2>4, <2>5, <2>6, <2>7, ZenonT(120) DEF OwnInv
<1>2. ASSUME NEW r \in Runs, VMMExits(r)
      PROVE  OwnInv' /\ AdmissionInv' /\ VerdictInv'
  <2>1. LockInv'
    BY <1>2, ZenonT(120) DEF VMMExits, LockInv
  <2>2. PhaseInv'
    <3>1. PhaseInv
      BY ZenonT(120)
    <3>2. \A s \in Runs :
            /\ pc'[s] = pc[s] /\ mem'[s] = mem[s] /\ manifest'[s] = manifest[s]
            /\ files'[s] = files[s] /\ boot' = boot
            /\ vmm'[s] = vmm[s] \/ (vmm[s] = "live" /\ vmm'[s] = "dead")
      BY <1>2, ZenonT(120) DEF VMMExits
    <3> HIDE DEF IInv, TypeOK, Over
    <3> QED BY <3>1, <3>2, PhaseFrame, ZenonT(120)
  <2>3. LaunchInv'
    BY <1>2, ZenonT(120) DEF VMMExits, LaunchInv
  <2>4. RecoveryInv'
    BY <1>2, SMTT(60), Z3T(60) DEF VMMExits, RecoveryInv
  <2>5. WaitingInv'
    BY <1>2, SMTT(60), Z3T(60) DEF VMMExits, WaitingInv
  <2>6. AdmissionInv'
    BY <1>2, SMTT(60) DEF VMMExits, AdmissionInv, OneUnresolvedRun, Resolved
  <2>7. VerdictInv'
    <3>1. \A s \in Runs :
            \/ pc'[s] = pc[s] /\ verdict'[s] = verdict[s]
            \/ pc[s] \in Active /\ pc'[s] = "crashed" /\ verdict'[s] = NoReport
      BY <1>2, ZenonT(120) DEF VMMExits
    <3>2. \A s \in Runs : vmm'[s] = vmm[s] \/ (vmm[s] = "live" /\ vmm'[s] = "dead")
      BY <1>2, ZenonT(120) DEF VMMExits
    <3>3. VerdictInv /\ UNCHANGED <<files, report>>
      BY <1>2, ZenonT(120) DEF VMMExits
    <3> HIDE DEF IInv, TypeOK, Active
    <3> QED BY <3>1, <3>2, <3>3, VerdictFrame, ZenonT(120)
  <2> QED BY <2>1, <2>2, <2>3, <2>4, <2>5, <2>6, <2>7, ZenonT(120) DEF OwnInv
<1>3. ASSUME NEW r \in Runs, Crash(r)
      PROVE  OwnInv' /\ AdmissionInv' /\ VerdictInv'
  <2>1. LockInv'
    BY ConstantsAssumption, <1>3, ZenonT(120) DEF Crash, LockInv
  <2>2. PhaseInv'
    <3>1. PhaseInv
      BY ZenonT(120)
    <3>2. \A s \in Runs :
            \/ pc'[s] \in Over
            \/ /\ pc'[s] = pc[s] /\ mem'[s] = mem[s] /\ manifest'[s] = manifest[s]
               /\ files'[s] = files[s] /\ boot' = boot
               /\ vmm'[s] = vmm[s] \/ (vmm[s] = "live" /\ vmm'[s] = "dead")
      BY <1>3, ZenonT(120) DEF Crash
    <3> HIDE DEF IInv, TypeOK, Over
    <3> QED BY <3>1, <3>2, PhaseFrame, ZenonT(120)
  <2>3. LaunchInv'
    BY <1>3, ZenonT(120) DEF Crash, LaunchInv
  <2>4. RecoveryInv'
    BY <1>3, ZenonT(120) DEF Crash, RecoveryInv
  <2>5. WaitingInv'
    BY <1>3, SMTT(60) DEF Crash, WaitingInv
  <2>6. AdmissionInv'
    BY <1>3, SMTT(60) DEF Crash, AdmissionInv, OneUnresolvedRun, Resolved
  <2>7. VerdictInv'
    <3>1. \A s \in Runs :
            \/ pc'[s] = pc[s] /\ verdict'[s] = verdict[s]
            \/ pc[s] \in Active /\ pc'[s] = "crashed" /\ verdict'[s] = NoReport
      BY <1>3, ZenonT(120) DEF Crash
    <3>2. \A s \in Runs : vmm'[s] = vmm[s] \/ (vmm[s] = "live" /\ vmm'[s] = "dead")
      BY <1>3, ZenonT(120) DEF Crash
    <3>3. VerdictInv /\ UNCHANGED <<files, report>>
      BY <1>3, ZenonT(120) DEF Crash
    <3> HIDE DEF IInv, TypeOK, Active
    <3> QED BY <3>1, <3>2, <3>3, VerdictFrame, ZenonT(120)
  <2> QED BY <2>1, <2>2, <2>3, <2>4, <2>5, <2>6, <2>7, ZenonT(120) DEF OwnInv
<1> QED BY <1>1, <1>2, <1>3, ZenonT(120)

\* Each step of a recovery, and its death, preserve the invariant.
LEMMA RecoverStep ==
  ASSUME IInv, NEW w \in Recoverers
  PROVE  LoadManifest(w) \/ Recover(w) \/ CrashRecovery(w)
           => OwnInv' /\ AdmissionInv' /\ VerdictInv'
<1> USE DEF IInv, TypeOK, Starting, Executing, Cleaning, Active, Over, Holding,
       EarlyStage, PreLaunch, Launched, MayLive, Recorded, Saved, DiskOutlivesVMM
<1> DEFINE r == target[w]
<1>1. ASSUME LoadManifest(w) PROVE OwnInv' /\ AdmissionInv' /\ VerdictInv'
  <2>1. LockInv'
    BY <1>1, ZenonT(120) DEF LoadManifest, LockInv
  <2>2. RecoveryInv'
    <3>1. RecoveryInv /\ rpc \in [Recoverers -> Holding \cup {"idle", "loaded"}]
          /\ target \in [Recoverers -> Runs \cup {Nobody}] /\ snap \in [Recoverers -> Manifest]
      BY ZenonT(120)
    <3> HIDE DEF IInv, TypeOK, Starting, Executing, Cleaning, Active, Over, EarlyStage, PreLaunch,
             Launched, MayLive, DiskOutlivesVMM
    <3> QED BY ConstantsAssumption, <1>1, <3>1, SMTT(60), Z3T(60) DEF LoadManifest, RecoveryInv
  <2>3. WaitingInv'
    BY <1>1, SMTT(60), Z3T(60) DEF LoadManifest, WaitingInv, LaunchInv, RecoveryInv, LockInv
  <2>4. PhaseInv' /\ LaunchInv' /\ AdmissionInv' /\ VerdictInv'
    BY <1>1, ControllerFrame, ZenonT(120) DEF LoadManifest
  <2> QED BY <2>1, <2>2, <2>3, <2>4, ZenonT(120) DEF OwnInv
<1>2. ASSUME LockForRecovery(w) PROVE OwnInv' /\ AdmissionInv' /\ VerdictInv'
  <2>1. LockInv'
    BY ConstantsAssumption, <1>2, SMTT(60), Z3T(60) DEF LockForRecovery, Forget, LockInv
  <2>2. RecoveryInv'
    BY <1>2, SMTT(60), Z3T(60) DEF LockForRecovery, Forget, RecoveryInv
  <2>3. WaitingInv'
    BY <1>2, SMTT(60) DEF LockForRecovery, Forget, WaitingInv
  <2>4. PhaseInv' /\ LaunchInv' /\ AdmissionInv' /\ VerdictInv'
    BY <1>2, ControllerFrame, ZenonT(120) DEF LockForRecovery
  <2> QED BY <2>1, <2>2, <2>3, <2>4, ZenonT(120) DEF OwnInv
<1>3. ASSUME Inspect(w) PROVE OwnInv' /\ AdmissionInv' /\ VerdictInv'
  <2>1. LockInv'
    BY ConstantsAssumption, <1>3, SMTT(60) DEF Inspect, Proceed, Return, Forget, LockInv
  <2>2. RecoveryInv'
    <3>1. r \in Runs
      BY <1>3, ZenonT(120) DEF Inspect, RecoveryInv
    <3>2. \/ Proceed(w, "stop") \/ Return(w)
          \/ Proceed(w, "remove") /\ (vmm[r] = "live" => NoLaunchAmbiguity(snap[w]))
      BY <1>3, ZenonT(120) DEF Inspect
    <3>3. NoLaunchAmbiguity(snap[w]) => ~MayLive(snap[w])
      BY ZenonT(120) DEF NoLaunchAmbiguity
    <3>4. vmm[r] = "live" /\ "disk" \in files[r] => MayLive(manifest[r])
      BY <3>1, ZenonT(120) DEF LaunchInv
    <3>5. /\ rpc[w] = "inspect" /\ UNCHANGED <<manifest, files, vmm>>
          /\ rpc \in [Recoverers -> Holding \cup {"idle", "loaded"}]
          /\ target \in [Recoverers -> Runs \cup {Nobody}] /\ snap \in [Recoverers -> Manifest]
          /\ RecoveryInv
      BY <1>3, ZenonT(120) DEF Inspect
    <3> HIDE DEF IInv, TypeOK, MayLive, Holding
    <3>6. CASE Proceed(w, "stop")
      BY <3>5, <3>6, ZenonT(120) DEF Proceed, RecoveryInv
    <3>7. CASE Return(w)
      BY <3>5, <3>7, SMTT(60) DEF Return, Forget, RecoveryInv
    <3>8. CASE Proceed(w, "remove") /\ (vmm[r] = "live" => NoLaunchAmbiguity(snap[w]))
      <4>1. vmm[r] = "live" /\ "disk" \in files[r] => snap[w] # manifest[r]
        BY <3>3, <3>4, <3>8, ZenonT(120)
      <4> QED BY <3>5, <3>8, <4>1, ZenonT(120) DEF Proceed, RecoveryInv
    <3> QED BY <3>2, <3>6, <3>7, <3>8, ZenonT(120)
  <2>3. WaitingInv'
    BY <1>3, SMTT(60) DEF Inspect, Proceed, Return, Forget, NoLaunchAmbiguity, WaitingInv
  <2>4. PhaseInv' /\ LaunchInv' /\ AdmissionInv' /\ VerdictInv'
    BY <1>3, ControllerFrame, ZenonT(120) DEF Inspect
  <2> QED BY <2>1, <2>2, <2>3, <2>4, ZenonT(120) DEF OwnInv
<1>4. ASSUME StopOwned(w) PROVE OwnInv' /\ AdmissionInv' /\ VerdictInv'
  <2>a. /\ LockInv /\ RecoveryInv /\ rpc \in [Recoverers -> Holding \cup {"idle", "loaded"}]
        /\ target \in [Recoverers -> Runs \cup {Nobody}] /\ snap \in [Recoverers -> Manifest]
    BY ZenonT(120)
  <2>1. LockInv'
    <3> HIDE DEF IInv, TypeOK, Starting, Executing, Cleaning, Active, Over, EarlyStage, PreLaunch,
             Launched, MayLive, DiskOutlivesVMM
    <3> QED BY ConstantsAssumption, <1>4, <2>a, SMTT(60), Z3T(60)
               DEF StopOwned, Proceed, Return, Forget, LockInv
  <2>2. RecoveryInv'
    <3> HIDE DEF IInv, TypeOK, Starting, Executing, Cleaning, Active, Over, EarlyStage, PreLaunch,
             Launched, MayLive, DiskOutlivesVMM
    <3> QED BY <1>4, <2>a, SMTT(60), Z3T(60) DEF StopOwned, Proceed, Return, Forget, RecoveryInv
  <2>3. WaitingInv'
    BY <1>4, SMTT(60) DEF StopOwned, Proceed, Return, Forget, WaitingInv
  <2>4. PhaseInv' /\ LaunchInv' /\ AdmissionInv' /\ VerdictInv'
    BY <1>4, ControllerFrame, ZenonT(120) DEF StopOwned
  <2> QED BY <2>1, <2>2, <2>3, <2>4, ZenonT(120) DEF OwnInv
<1>5. ASSUME RecoverRuntime(w) PROVE OwnInv' /\ AdmissionInv' /\ VerdictInv'
  <2>a. r \in Runs /\ pc[r] \notin Active
    BY ConstantsAssumption, <1>5, SMTT(60) DEF RecoverRuntime, RecoveryInv, LockInv
  <2>b. /\ \A s \in Runs : files'[s] \subseteq files[s] /\ (s # r => files'[s] = files[s])
        /\ UNCHANGED <<boot, evidence, manifest, report, vmm, controller>>
    BY <1>5, ZenonT(120) DEF RecoverRuntime, RemoveFiles, RemoveDir
  <2>1. LockInv'
    BY ConstantsAssumption, <1>5, SMTT(60) DEF RecoverRuntime, RemoveFiles, RemoveDir, Proceed,
       Return, Forget, LockInv
  <2>2. PhaseInv'
    <3>1. PhaseInv /\ pc' = pc /\ mem' = mem /\ manifest' = manifest /\ UNCHANGED <<boot, vmm>>
      BY <2>b, ZenonT(120)
    <3>2. \A s \in Runs : files'[s] = files[s] \/ pc'[s] \in Over \/ pc'[s] = "idle"
      BY <2>a, <2>b, ZenonT(120)
    <3> HIDE DEF IInv, TypeOK, Over
    <3> QED BY <3>1, <3>2, PhaseFrame, ZenonT(120)
  <2>3. LaunchInv'
    BY <2>b, ZenonT(120) DEF LaunchInv
  <2>4. RecoveryInv'
    BY <1>5, SMTT(60), Z3T(60) DEF RecoverRuntime, RemoveFiles, RemoveDir, Proceed, Return,
       Forget, RecoveryInv
  <2>5. WaitingInv'
    BY <1>5, SMTT(60) DEF RecoverRuntime, RemoveFiles, RemoveDir, Proceed, Return, Forget,
       WaitingInv
  <2>6. AdmissionInv'
    <3>1. \A s \in Runs : Resolved(s) => Resolved(s)'
      BY <2>b, ZenonT(120) DEF Resolved
    <3> QED BY <2>b, <3>1, ZenonT(120) DEF AdmissionInv, OneUnresolvedRun
  <2>7. VerdictInv'
    BY <2>b, ZenonT(120) DEF VerdictInv
  <2> QED BY <2>1, <2>2, <2>3, <2>4, <2>5, <2>6, <2>7, ZenonT(120) DEF OwnInv
<1>6. ASSUME RecoverManifest(w) PROVE OwnInv' /\ AdmissionInv' /\ VerdictInv'
  <2> DEFINE m == [snap[w] EXCEPT !.stage = "FINISHED", !.cleanup = "COMPLETE"]
  <2>a. m.stage = "FINISHED" /\ manifest' \in {manifest, [manifest EXCEPT ![r] = m]}
    BY <1>6, SMTT(60) DEF RecoverManifest, SaveManifest, Manifest
  <2>b. /\ rpc[w] = "manifest" /\ (Proceed(w, "report") \/ Return(w))
        /\ UNCHANGED <<boot, evidence, report, files, vmm, controller>>
    BY <1>6, ZenonT(120) DEF RecoverManifest
  <2> HIDE DEF m
  <2>c. r \in Runs /\ pc[r] \in Over /\ files[r] = {} /\ lock = w
    <3>1. r \in Runs /\ Recorded(r) /\ files[r] = {}
      BY <2>b, ZenonT(120) DEF RecoveryInv
    <3>2. lock = w /\ pc[r] \notin Active
      BY ConstantsAssumption, <2>b, <3>1, SMTT(60) DEF LockInv
    <3>3. pc[r] # "idle"
      BY <3>1, ZenonT(120) DEF PhaseInv
    <3> QED BY <3>1, <3>2, <3>3, ZenonT(120)
  <2>1. LockInv'
    BY ConstantsAssumption, <2>b, SMTT(60) DEF Proceed, Return, Forget, LockInv
  <2>d. \A s \in Runs \ {r} : manifest'[s] = manifest[s]
    BY <2>a, ZenonT(120)
  <2>2. PhaseInv'
    <3>1. PhaseInv /\ pc' = pc /\ mem' = mem /\ UNCHANGED <<boot, files, vmm>>
      BY <2>b, ZenonT(120)
    <3> HIDE DEF IInv, TypeOK, Over
    <3> QED BY <2>c, <2>d, <3>1, PhaseFrame, ZenonT(120)
  <2>3. LaunchInv'
    BY <2>b, <2>c, <2>d, ZenonT(120) DEF LaunchInv
  <2>4. RecoveryInv'
    <3>1. \A s \in Runs : Recorded(s) => Recorded(s)'
      BY <2>a, <2>c, ZenonT(120)
    <3>2. \A x \in Recoverers \ {w} :
            /\ rpc[x] \in {"idle", "loaded"} /\ rpc'[x] = rpc[x]
            /\ target'[x] = target[x] /\ snap'[x] = snap[x]
      BY <2>b, <2>c, SMTT(60) DEF Proceed, Return, Forget, LockInv
    <3>3. \/ rpc'[w] = "report" /\ target'[w] = r /\ snap'[w] = snap[w]
          \/ rpc'[w] = "idle" /\ target'[w] = Nobody
      BY <2>b, ZenonT(120) DEF Proceed, Return, Forget
    <3>4. /\ rpc[w] # "idle" /\ target'[w] \in {r, Nobody} /\ Recorded(r)
          /\ snap[w].stage # "NONE" /\ files'[r] = {}
      BY <2>b, <2>c, <3>3, ZenonT(120) DEF RecoveryInv
    <3>5. \A x \in Recoverers \ {w} :
            /\ rpc[x] = "idle" <=> target[x] = Nobody
            /\ rpc[x] # "idle" =>
                 target[x] \in Runs /\ Recorded(target[x]) /\ snap[x].stage # "NONE"
      <4>1. RecoveryInv /\ target \in [Recoverers -> Runs \cup {Nobody}]
        BY ZenonT(120)
      <4> HIDE DEF IInv, TypeOK
      <4> QED BY <4>1, ZenonT(120), SMTT(60) DEF RecoveryInv
    <3> DEFINE Known(x) == /\ rpc'[x] = "idle" <=> target'[x] = Nobody
                           /\ rpc'[x] # "idle" =>
                                manifest'[target'[x]].stage # "NONE" /\ snap'[x].stage # "NONE"
    <3> HIDE DEF IInv, TypeOK
    <3>6. \A x \in Recoverers \ {w} : Known(x)
      BY <3>1, <3>2, <3>5, ZenonT(120)
    <3>7. Known(w)
      BY ConstantsAssumption, <2>c, <3>1, <3>3, <3>4, ZenonT(120)
    <3>8. \A x \in Recoverers : /\ rpc'[x] \in {"idle", "loaded", "report"}
                                /\ rpc'[x] = "report" => files'[target'[x]] = {}
      BY <3>2, <3>3, <3>4, ZenonT(120)
    <3> QED BY <3>6, <3>7, <3>8, ZenonT(120) DEF RecoveryInv
  <2>5. WaitingInv'
    BY <2>b, SMTT(60), Z3T(60) DEF Proceed, Return, Forget, WaitingInv
  <2>6. AdmissionInv'
    BY <2>b, SMTT(60), Z3T(60) DEF AdmissionInv, OneUnresolvedRun, Resolved
  <2>7. VerdictInv'
    BY <2>b, ZenonT(120) DEF VerdictInv
  <2> QED BY <2>1, <2>2, <2>3, <2>4, <2>5, <2>6, <2>7, ZenonT(120) DEF OwnInv
<1>7. ASSUME RecoverReport(w) PROVE OwnInv' /\ AdmissionInv' /\ VerdictInv'
  <2> DEFINE v == [ReadReport(r) EXCEPT !.cleanup = "COMPLETE"]
  <2>a. r \in Runs /\ pc[r] \in Over
    <3>1. r \in Runs /\ Recorded(r)
      BY <1>7, ZenonT(120) DEF RecoverReport, RecoveryInv
    <3>2. pc[r] \notin Active
      BY ConstantsAssumption, <1>7, <3>1, SMTT(60) DEF RecoverReport, LockInv
    <3>3. pc[r] # "idle"
      BY <3>1, ZenonT(120) DEF PhaseInv
    <3> QED BY <3>1, <3>2, <3>3, ZenonT(120)
  <2>b. /\ v.execution # "ABSENT" /\ v.cleanup = "COMPLETE"
        /\ Saved(r) /\ report[r].cleanup = "COMPLETE" => v = report[r]
    BY <2>a, SMTT(60) DEF ReadReport, Interrupted, Report
  <2>c. /\ report' \in {report, [report EXCEPT ![r] = v]}
        /\ UNCHANGED <<boot, evidence, manifest, files, vmm, controller>>
    BY <1>7, ZenonT(120) DEF RecoverReport
  <2> HIDE DEF v
  <2>1. LockInv'
    BY ConstantsAssumption, <1>7, SMTT(60) DEF RecoverReport, Return, Forget, LockInv
  <2>2. PhaseInv'
    BY <1>7, ZenonT(120) DEF RecoverReport, Return, Forget, PhaseInv
  <2>3. LaunchInv'
    BY <1>7, ZenonT(120) DEF RecoverReport, Return, Forget, LaunchInv
  <2>4. RecoveryInv'
    BY <1>7, SMTT(60) DEF RecoverReport, Return, Forget, RecoveryInv
  <2>5. WaitingInv'
    BY <1>7, SMTT(60) DEF RecoverReport, Return, Forget, WaitingInv
  <2>6. AdmissionInv'
    <3>1. /\ UNCHANGED <<pc, files, evidence>> /\ \A s \in Runs \ {r} : report'[s] = report[s]
          /\ Saved(r) /\ report[r].cleanup = "COMPLETE" => report'[r] = report[r]
      BY <2>a, <2>b, <2>c, ZenonT(120)
    <3>2. \A s \in Runs : Resolved(s) => Resolved(s)'
      BY <2>b, <2>c, <3>1, ZenonT(120) DEF Resolved
    <3> QED BY <3>1, <3>2, ZenonT(120) DEF AdmissionInv, OneUnresolvedRun
  <2>7. VerdictInv'
    <3>1. VerdictInv /\ pc' = pc /\ verdict' = verdict /\ UNCHANGED <<files, vmm>>
      BY <2>c, ZenonT(120)
    <3>2. \A s \in Runs : report'[s] = report[s] \/ (s = r /\ report'[s] = v)
      BY <2>a, <2>c, ZenonT(120)
    <3>3. pc[r] = "ended" /\ ExitCode(verdict[r]) = 0 =>
            /\ report[r] = verdict[r] /\ verdict[r].cleanup = "COMPLETE"
            /\ verdict[r].execution = "COMPLETED"
      BY <2>a, SMTT(60) DEF VerdictInv, ExitCode
    <3> HIDE DEF IInv, TypeOK, Over
    <3>4. \A s \in Runs :
            \/ report'[s] = report[s]
            \/ /\ pc[s] \in Over /\ report'[s].execution # "ABSENT"
               /\ ~(pc[s] = "ended" /\ ExitCode(verdict[s]) = 0)
      BY <2>a, <2>b, <3>2, <3>3, ZenonT(120)
    <3> QED BY <3>1, <3>4, VerdictFrame, ZenonT(120)
  <2> QED BY <2>1, <2>2, <2>3, <2>4, <2>5, <2>6, <2>7, ZenonT(120) DEF OwnInv
<1>8. ASSUME CrashRecovery(w) PROVE OwnInv' /\ AdmissionInv' /\ VerdictInv'
  <2>1. LockInv'
    BY ConstantsAssumption, <1>8, ZenonT(120) DEF CrashRecovery, Forget, LockInv
  <2>2. RecoveryInv'
    BY <1>8, SMTT(60) DEF CrashRecovery, Forget, RecoveryInv
  <2>3. WaitingInv'
    BY <1>8, SMTT(60) DEF CrashRecovery, Forget, WaitingInv
  <2>4. PhaseInv' /\ LaunchInv' /\ AdmissionInv' /\ VerdictInv'
    BY <1>8, ControllerFrame, ZenonT(120) DEF CrashRecovery
  <2> QED BY <2>1, <2>2, <2>3, <2>4, ZenonT(120) DEF OwnInv
<1> QED BY <1>1, <1>2, <1>3, <1>4, <1>5, <1>6, <1>7, <1>8, ZenonT(120) DEF Recover

-----------------------------------------------------------------------------
(* The invariant and what follows from it.                                 *)

\* The invariant holds initially.
LEMMA InitInv == Init => IInv
<1> SUFFICES ASSUME Init PROVE IInv
  BY ZenonT(120)
<1>1. TypeOK
  BY TypeInit, ZenonT(120)
<1> USE DEF Init, Starting, Executing, Cleaning, Active, Over, Holding,
       PreLaunch, Launched, Recorded, Saved, Resolved, NewManifest
<1>2. LockInv /\ PhaseInv /\ LaunchInv /\ RecoveryInv
  BY ConstantsAssumption, ZenonT(120) DEF LockInv, PhaseInv, LaunchInv, RecoveryInv
<1>3. WaitingInv /\ AdmissionInv
  BY ZenonT(120) DEF WaitingInv, DiskOutlivesVMM, AdmissionInv, OneUnresolvedRun
<1>4. VerdictInv
  BY ZenonT(120) DEF VerdictInv, ExitCode, NoReport
<1> QED BY <1>1, <1>2, <1>3, <1>4, ZenonT(120) DEF IInv

\* The invariant is inductive.
LEMMA NextInv == IInv /\ [Next]_vars => IInv'
<1> SUFFICES ASSUME IInv, [Next]_vars PROVE IInv'
  BY ZenonT(120)
<1>1. ASSUME NEW r \in Runs, AcquireLock(r) \/ Controller(r) PROVE IInv'
  <2>1. TypeOK'
    BY <1>1, TypeController, TypeEnvironment, ZenonT(120) DEF IInv
  <2>2. OwnInv' /\ AdmissionInv' /\ VerdictInv'
    BY <1>1, StartingStep, ExecuteStep, CleanUpStep, ZenonT(120) DEF Controller
  <2> QED BY <2>1, <2>2, ZenonT(120) DEF IInv, OwnInv
<1>2. ASSUME NEW w \in Recoverers, LoadManifest(w) \/ Recover(w) \/ CrashRecovery(w) PROVE IInv'
  <2>1. TypeOK'
    BY <1>2, TypeRecover, ZenonT(120) DEF IInv
  <2> QED BY <1>2, <2>1, RecoverStep, ZenonT(120) DEF IInv, OwnInv
<1>3. CASE Reboot \/ \E r \in Runs : VMMExits(r) \/ Crash(r)
  <2>1. TypeOK'
    BY <1>3, TypeEnvironment, ZenonT(120) DEF IInv
  <2> QED BY <1>3, <2>1, EnvironmentStep, ZenonT(120) DEF IInv, OwnInv
<1>4. CASE UNCHANGED vars
  <2>0. TypeOK'
    BY <1>4, ZenonT(120) DEF vars, IInv, TypeOK
  <2>1. LockInv'
    BY <1>4, ZenonT(120) DEF vars, IInv, LockInv
  <2>2. PhaseInv'
    BY <1>4, ZenonT(120) DEF vars, IInv, PhaseInv, MayLive, Recorded
  <2>3. LaunchInv'
    BY <1>4, ZenonT(120) DEF vars, IInv, LaunchInv, MayLive
  <2>4. RecoveryInv'
    BY <1>4, ZenonT(120) DEF vars, IInv, RecoveryInv, Recorded
  <2>5. WaitingInv'
    BY <1>4, ZenonT(120) DEF vars, IInv, WaitingInv, DiskOutlivesVMM, MayLive
  <2>6. AdmissionInv'
    BY <1>4, ZenonT(120) DEF vars, IInv, AdmissionInv, OneUnresolvedRun, Resolved, Saved
  <2>7. VerdictInv'
    BY <1>4, ZenonT(120) DEF vars, IInv, VerdictInv, Saved
  <2> QED BY <2>0, <2>1, <2>2, <2>3, <2>4, <2>5, <2>6, <2>7, ZenonT(120) DEF IInv
<1> QED BY <1>1, <1>2, <1>3, <1>4, ZenonT(120) DEF Next

\* IInv is an invariant of every behaviour of controllers, recoveries, crashes and
\* reboots.
THEOREM Invariance == Spec => []IInv
<1> QED BY InitInv, NextInv, PTL DEF Spec

\* The ownership record, the report, the files and the processes stay well formed.
THEOREM TypeCorrect == Spec => []TypeOK
<1>1. IInv => TypeOK
  BY ZenonT(120) DEF IInv
<1> QED BY <1>1, Invariance, PTL

\* When recover is used after the controller's end, no VMM loses its disk.
THEOREM DiskSafe ==
  ASSUME OperatorWaits
  PROVE  Spec => []DiskOutlivesVMM
<1>1. IInv => DiskOutlivesVMM
  BY ZenonT(120) DEF IInv, WaitingInv
<1> QED BY <1>1, Invariance, PTL

\* At most one run of the host is unresolved.
THEOREM Admission == Spec => []OneUnresolvedRun
<1>1. IInv => OneUnresolvedRun
  BY ZenonT(120) DEF IInv, AdmissionInv
<1> QED BY <1>1, Invariance, PTL

\* When recover is used after the controller's end, at most one VMM is alive: a run
\* with a live VMM has its disk, so it is unresolved.
THEOREM SingleVMM ==
  ASSUME OperatorWaits
  PROVE  Spec => []OneLiveVMM
<1>1. IInv => OneLiveVMM
  BY ZenonT(120) DEF IInv, WaitingInv, AdmissionInv, DiskOutlivesVMM, OneUnresolvedRun, Resolved,
     OneLiveVMM
<1> QED BY <1>1, Invariance, PTL

\* Exit code 0 is backed by the saved report, the dead VMM and the absent files.
THEOREM ExitZero == Spec => []ExitZeroIsBacked
<1>1. ASSUME IInv, NEW r \in Runs, pc[r] = "ended", ExitCode(verdict[r]) = 0
      PROVE  report[r] = verdict[r] /\ vmm[r] = "dead" /\ files[r] = {}
  <2>1. verdict[r].cleanup = "COMPLETE" /\ verdict[r].execution = "COMPLETED"
    BY <1>1, SMTT(60) DEF ExitCode
  <2>2. vmm[r] \in {"none", "live", "dead"}
    BY <1>1, ZenonT(120) DEF IInv, TypeOK
  <2> QED BY <1>1, <2>1, <2>2, ZenonT(120) DEF IInv, VerdictInv
<1>2. IInv => ExitZeroIsBacked
  BY <1>1, ZenonT(120) DEF ExitZeroIsBacked
<1> QED BY <1>2, Invariance, PTL

\* Recovering a run without a report yields the INTERRUPTED report.
LEMMA InterruptedAgain ==
  ASSUME NEW c \in Cleanup
  PROVE  [[Interrupted EXCEPT !.cleanup = c] EXCEPT !.cleanup = "COMPLETE"] = Interrupted
<1> DEFINE x == [Interrupted EXCEPT !.cleanup = c]
           y == [x EXCEPT !.cleanup = "COMPLETE"]
<1>1. x \in Report /\ x.execution = "INTERRUPTED" /\ x.assertion = "NOT_EVALUATED"
  BY ZenonT(120) DEF Interrupted, Report, Cleanup
<1> HIDE DEF x
<1>2. /\ y \in Report /\ y.execution = "INTERRUPTED" /\ y.assertion = "NOT_EVALUATED"
      /\ y.cleanup = "COMPLETE"
  BY <1>1, ZenonT(120) DEF Report, Cleanup
<1> HIDE DEF y
<1>3. y = Interrupted
  BY <1>2, ZenonT(120) DEF Interrupted, Report
<1> QED BY <1>3, ZenonT(120) DEF x, y

\* Only a publication and the last step of a recovery write a report.
LEMMA ReportWriters ==
  ASSUME [Next]_vars
  PROVE  \/ UNCHANGED report
         \/ \E s \in Runs : PublishReport(s)
         \/ \E w \in Recoverers : RecoverReport(w)
<1>1. ASSUME NEW r \in Runs, Execute(r) PROVE UNCHANGED report
  BY <1>1, ZenonT(120) DEF Execute, EnterStage, Persist, MakeRuntime, CopyDisk, WriteConfig,
     StartVMM,
     ExecutionFails, Decide
<1>2. ASSUME NEW r \in Runs, CleanUp(r), ~PublishReport(r) PROVE UNCHANGED report
  BY <1>2, ZenonT(120) DEF CleanUp, StageCleaning, StopVMM, RemoveOwnedRuntime, StageFinished
<1>3. ASSUME NEW r \in Runs, AcquireLock(r) \/ Controller(r) \/ VMMExits(r) \/ Crash(r),
             ~PublishReport(r)
      PROVE  UNCHANGED report
  BY <1>1, <1>2, <1>3, ZenonT(120) DEF Controller, AcquireLock, Admit, RefuseAdmission,
     CreateEvidence,
     NewRecorder, AbandonRun, VMMExits, Crash
<1>4. ASSUME NEW w \in Recoverers, LoadManifest(w) \/ Recover(w) \/ CrashRecovery(w),
             ~RecoverReport(w)
      PROVE  UNCHANGED report
  BY <1>4, ZenonT(120) DEF LoadManifest, Recover, LockForRecovery, Inspect, StopOwned,
     RecoverRuntime,
     RecoverManifest, CrashRecovery
<1>5. CASE Reboot \/ UNCHANGED vars
  BY <1>5, ZenonT(120) DEF Reboot, vars
<1> QED BY <1>3, <1>4, <1>5, ZenonT(120) DEF Next

\* A published verdict is never rewritten, whoever recovers, however often and
\* wherever a recovery was interrupted.
THEOREM VerdictFinal == Spec => VerdictIsFinal
<1> DEFINE Kept(r) == report'[r] # report[r] =>
             \/ report[r] = NoReport /\ (pc[r] = "report" \/ report'[r] = Interrupted)
             \/ report'[r] = [report[r] EXCEPT !.cleanup = "COMPLETE"]
<1>1. ASSUME IInv, [Next]_vars, NEW r \in Runs PROVE Kept(r)
  <2>0. /\ report \in [Runs -> Report] /\ manifest \in [Runs -> Manifest]
        /\ target \in [Recoverers -> Runs \cup {Nobody}] /\ VerdictInv /\ RecoveryInv
    BY <1>1, ZenonT(120) DEF IInv, TypeOK
  <2>1. ASSUME NEW s \in Runs, PublishReport(s) PROVE Kept(r)
    <3>1. pc[s] = "report" /\ report[s] = NoReport
      BY <2>0, <2>1, ZenonT(120) DEF PublishReport, VerdictInv, Active, Cleaning
    <3>2. s # r => report'[r] = report[r]
      BY <1>1, <2>0, <2>1, ZenonT(120) DEF PublishReport, PublishVerdict
    <3> QED BY <3>1, <3>2, ZenonT(120)
  <2>2. ASSUME NEW w \in Recoverers, RecoverReport(w) PROVE Kept(r)
    <3> DEFINE t == target[w]
    <3>1. t \in Runs
      BY <2>0, <2>2, ZenonT(120) DEF RecoverReport, RecoveryInv
    <3>2. \/ report'[r] = report[r]
          \/ t = r /\ report'[r] = [ReadReport(r) EXCEPT !.cleanup = "COMPLETE"]
      BY <1>1, <2>0, <2>2, <3>1, ZenonT(120) DEF RecoverReport
    <3>3. CASE Saved(r)
      BY <3>2, <3>3, ZenonT(120) DEF ReadReport
    <3>4. CASE ~Saved(r)
      <4>1. report[r] = NoReport
        BY <1>1, <2>0, <3>4, ZenonT(120) DEF VerdictInv
      <4>2. [ReadReport(r) EXCEPT !.cleanup = "COMPLETE"] = Interrupted
        BY <1>1, <2>0, <3>4, InterruptedAgain, ZenonT(120) DEF ReadReport, Manifest
      <4> QED BY <3>2, <4>1, <4>2, ZenonT(120)
    <3> QED BY <3>3, <3>4, ZenonT(120)
  <2>3. CASE UNCHANGED report
    BY <2>3, ZenonT(120)
  <2>4. \/ UNCHANGED report
        \/ \E s \in Runs : PublishReport(s)
        \/ \E w \in Recoverers : RecoverReport(w)
    BY <1>1, ReportWriters, ZenonT(120)
  <2> QED BY <2>1, <2>2, <2>3, <2>4, ZenonT(120)
<1>2. IInv /\ [Next]_vars => [\A r \in Runs : Kept(r)]_vars
  BY <1>1, ZenonT(120)
<1> QED BY <1>2, Invariance, PTL DEF Spec, VerdictIsFinal

\* A recovery about to remove the disk of a live VMM works from a stale record.
LEMMA StaleOnly ==
  ASSUME LockInv, RecoveryInv, NEW w \in Recoverers, rpc[w] \in {"remove", "rmdir"},
         vmm[target[w]] = "live", "disk" \in files[target[w]]
  PROVE  lock = w /\ snap[w] # manifest[target[w]]
<1>1. lock = w
  BY ZenonT(120) DEF LockInv, Holding
<1>2. snap[w] # manifest[target[w]]
  BY ZenonT(120) DEF RecoveryInv
<1> QED BY <1>1, <1>2, ZenonT(120)

\* With a current ownership record neither cleanup path takes a disk from a live VMM.
THEOREM RemovalSafe == Spec => RemovalNeedsDeadVMM
<1> DEFINE Stale(r) == \E w \in Recoverers : lock = w /\ target[w] = r /\ snap[w] # manifest[r]
           Kept(r) == vmm[r] = "live" /\ "disk" \in files[r] /\ "disk" \notin files'[r] =>
             \/ vmm'[r] = "dead"
             \/ Stale(r)
<1>1. ASSUME IInv, [Next]_vars, NEW r \in Runs,
             vmm[r] = "live", "disk" \in files[r], "disk" \notin files'[r]
      PROVE  vmm'[r] = "dead" \/ Stale(r)
  <2> USE <1>1 DEF IInv, TypeOK
  <2>1. ASSUME NEW s \in Runs, AcquireLock(s) \/ Controller(s) \/ VMMExits(s) \/ Crash(s)
        PROVE  FALSE
    <3>1. CASE Execute(s)
      <4>1. CASE MakeRuntime(s)
        BY <4>1, ZenonT(120) DEF MakeRuntime, PhaseInv, PreLaunch
      <4>2. CASE CopyDisk(s) \/ WriteConfig(s) \/ ExecutionFails(s)
        BY <4>2, SMTT(60) DEF CopyDisk, WriteConfig, ExecutionFails
      <4> QED BY <3>1, <4>1, <4>2, ZenonT(120) DEF Execute, EnterStage, Persist, StartVMM, Decide
    <3>2. CASE CleanUp(s)
      <4>1. RemoveOwnedRuntime(s)
        BY <3>2, ZenonT(120) DEF CleanUp, StageCleaning, StopVMM, StageFinished, PublishReport
      <4>2. pc[s] \in {"remove", "rmdir"} /\ \A x \in Runs \ {s} : files'[x] = files[x]
        BY <4>1, ZenonT(120) DEF RemoveOwnedRuntime, RemoveFiles, RemoveDir
      <4> QED BY <4>2, ZenonT(120) DEF PhaseInv
    <3> QED BY <2>1, <3>1, <3>2, ZenonT(120) DEF Controller, AcquireLock, Admit, RefuseAdmission,
               CreateEvidence, NewRecorder, AbandonRun, VMMExits, Crash
  <2>2. ASSUME NEW w \in Recoverers, LoadManifest(w) \/ Recover(w) \/ CrashRecovery(w)
        PROVE  Stale(r)
    <3>1. RecoverRuntime(w)
      BY <2>2, ZenonT(120) DEF LoadManifest, Recover, LockForRecovery, Inspect, StopOwned,
         RecoverManifest,
         RecoverReport, CrashRecovery
    <3>2. target[w] = r /\ rpc[w] \in {"remove", "rmdir"}
      BY <3>1, ZenonT(120) DEF RecoverRuntime, RemoveFiles, RemoveDir
    <3> QED BY <3>2, StaleOnly, ZenonT(120)
  <2>3. CASE Reboot
    BY <2>3, ZenonT(120) DEF Reboot
  <2>4. CASE UNCHANGED vars
    BY <2>4, ZenonT(120) DEF vars
  <2> QED BY <2>1, <2>2, <2>3, <2>4, ZenonT(120) DEF Next
<1>2. IInv /\ [Next]_vars => [\A r \in Runs : Kept(r)]_vars
  BY <1>1, ZenonT(120)
<1> QED BY <1>2, Invariance, PTL DEF Spec, RemovalNeedsDeadVMM

-----------------------------------------------------------------------------
(* COMPLETE is not said too early.                                         *)

Unfinished == {"idle"} \cup (Active \ {"report"})

Closed(s) ==
  /\ "COMPLETE" \in {manifest[s].cleanup, report[s].cleanup} => files[s] = {} /\ vmm[s] # "live"
  /\ pc[s] \in Unfinished => manifest[s].cleanup = "INCOMPLETE"

\* A run whose record and report stand, and to which nothing comes back, stays resolved.
LEMMA CompleteFrame ==
  ASSUME CompleteInv, NEW s \in Runs,
         manifest'[s] = manifest[s], report'[s] = report[s],
         files[s] = {} => files'[s] = {},
         vmm'[s] = "live" => vmm[s] = "live",
         pc'[s] \in Unfinished => pc[s] \in Unfinished
  PROVE  Closed(s)'
  BY ZenonT(120) DEF CompleteInv, CompleteMeansGone, Closed, Unfinished

\* What the engine writes into a manifest's cleanup field.
LEMMA CleanupField ==
  ASSUME NEW m \in Manifest, NEW s, NEW c
  PROVE  /\ [m EXCEPT !.stage = s].cleanup = m.cleanup
         /\ [m EXCEPT !.stage = s, !.cleanup = c].cleanup = c
  BY ZenonT(120) DEF Manifest

\* Until then a controller writes the cleanup status that it holds in memory.
LEMMA RecordLocal ==
  ASSUME TypeOK, NEW r \in Runs, Execute(r) \/ StageCleaning(r)
  PROVE  /\ pc[r] \in Executing \cup {"clean"} /\ report' = report
         /\ manifest'[r].cleanup \in {manifest[r].cleanup, mem[r].cleanup}
         /\ \A x \in Runs \ {r} : /\ manifest'[x] = manifest[x] /\ files'[x] = files[x]
                                  /\ vmm'[x] = vmm[x] /\ pc'[x] = pc[x]
<1> DEFINE Local(at) ==
      /\ pc[r] = at /\ report' = report
      /\ manifest'[r].cleanup \in {manifest[r].cleanup, mem[r].cleanup}
      /\ \A x \in Runs \ {r} : /\ manifest'[x] = manifest[x] /\ files'[x] = files[x]
                               /\ vmm'[x] = vmm[x] /\ pc'[x] = pc[x]
<1>1. /\ mem[r] \in Manifest /\ manifest \in [Runs -> Manifest] /\ files \in [Runs -> SUBSET Entry]
      /\ pc \in [Runs -> Active \cup Over \cup {"idle"}]
      /\ vmm \in [Runs -> {"none", "live", "dead"}]
  BY ZenonT(120) DEF TypeOK
<1>2. ASSUME NEW at, NEW m, NEW next, m.cleanup = mem[r].cleanup, Persist(r, at, m, next)
      PROVE  Local(at)
  BY <1>1, <1>2, SMTT(60) DEF Persist, SaveManifest, Abort
<1>3. ASSUME NEW at, NEW t, NEW next, EnterStage(r, at, t, next)
      PROVE  Local(at)
  BY <1>1, <1>2, <1>3, CleanupField, ZenonT(120) DEF EnterStage
<1>4. CASE MakeRuntime(r) \/ CopyDisk(r) \/ WriteConfig(r) \/ StartVMM(r) \/ Decide(r)
  BY <1>1, <1>4, SMTT(60) DEF MakeRuntime, CopyDisk, WriteConfig, StartVMM, Decide, Executing
<1>5. CASE ExecutionFails(r)
  BY <1>1, <1>5, SMTT(60) DEF ExecutionFails, Abort
<1>6. CASE StageCleaning(r)
  <2> DEFINE m == [mem[r] EXCEPT !.stage = "CLEANING"]
  <2>1. m.cleanup = mem[r].cleanup
    BY <1>1, CleanupField, ZenonT(120)
  <2>2. /\ pc[r] = "clean" /\ pc' = [pc EXCEPT ![r] = "stop"] /\ UNCHANGED <<report, files, vmm>>
        /\ manifest' \in {manifest, [manifest EXCEPT ![r] = m]}
    BY <1>6, ZenonT(120) DEF StageCleaning, SaveManifest
  <2> HIDE DEF m
  <2> QED BY <1>1, <2>1, <2>2, SMTT(60)
<1>7. \A at \in {"validate", "prepare", "boot", "identify", "ready", "run", "collect"} :
        at \in Executing
  BY ZenonT(120) DEF Executing
<1> QED BY <1>2, <1>3, <1>4, <1>5, <1>6, <1>7, ZenonT(120) DEF Execute

\* Before the last record is written nothing says COMPLETE, and the last one repeats
\* the verdict, which says so only after the removal.
LEMMA CompleteController ==
  ASSUME IInv, CompleteInv, NEW r \in Runs, AcquireLock(r) \/ Controller(r), NEW s \in Runs
  PROVE  Closed(s)'
<1>1. \A p \in Executing \cup (Cleaning \ {"report"}) : p \in Unfinished
  BY SMTT(60) DEF Unfinished, Active, Executing
<1>0. TypeOK
  BY Zenon DEF IInv
<1>2. /\ mem[r] \in Manifest /\ verdict[r] \in Report
      /\ manifest \in [Runs -> Manifest] /\ report \in [Runs -> Report]
      /\ files \in [Runs -> SUBSET Entry] /\ pc \in [Runs -> Active \cup Over \cup {"idle"}]
  BY <1>0, ZenonT(120) DEF TypeOK
<1>3. [mem[r] EXCEPT !.stage = "FINISHED", !.cleanup = verdict[r].cleanup].cleanup =
        verdict[r].cleanup
  BY <1>2, SMTT(60) DEF Manifest
<1>4. ASSUME NEW v \in Degraded(verdict[r]) \cup {[verdict[r] EXCEPT !.execution = "CANCELLED"]}
       PROVE  v.cleanup = verdict[r].cleanup
  <2>1. [verdict[r] EXCEPT !.execution = "CANCELLED"].cleanup = verdict[r].cleanup
    BY <1>2, ExecutionUpdate, ZenonT(120)
  <2> QED BY <1>2, <1>4, <2>1, DegradedVerdict, ZenonT(120)
<1>5. pc[s] \in Unfinished => manifest[s].cleanup = "INCOMPLETE" /\ report[s].cleanup = "INCOMPLETE"
  <2>1. VerdictInv /\ NoReport.cleanup = "INCOMPLETE"
    BY ZenonT(120) DEF IInv, NoReport
  <2>2. pc[s] \in Unfinished => report[s] = NoReport
    BY <2>1, ZenonT(120) DEF VerdictInv, Unfinished
  <2>3. pc[s] \in Unfinished => manifest[s].cleanup = "INCOMPLETE"
    BY ZenonT(120) DEF CompleteInv, Unfinished
  <2> QED BY <2>1, <2>2, <2>3, ZenonT(120)
<1>6. CASE AcquireLock(r) \/ Admit(r) \/ RefuseAdmission(r) \/ CreateEvidence(r)
           \/ NewRecorder(r) \/ AbandonRun(r)
  <2>1. pc'[s] \in Unfinished => pc[s] \in Unfinished
    BY <1>2, <1>6, SMTT(60) DEF AcquireLock, Admit, RefuseAdmission, CreateEvidence, NewRecorder,
       AbandonRun, Unfinished, Active, Starting, Executing, Cleaning
  <2> QED BY <1>6, <2>1, CompleteFrame, ZenonT(120) DEF AcquireLock, Admit, RefuseAdmission,
             CreateEvidence, NewRecorder, AbandonRun
<1>7. CASE Execute(r) \/ StageCleaning(r)
  <2>0. /\ pc[r] \in Executing \cup {"clean"} /\ report' = report
        /\ manifest'[r].cleanup \in {manifest[r].cleanup, mem[r].cleanup}
        /\ \A x \in Runs \ {r} : /\ manifest'[x] = manifest[x] /\ files'[x] = files[x]
                                 /\ vmm'[x] = vmm[x] /\ pc'[x] = pc[x]
    BY <1>0, <1>7, RecordLocal, ZenonT(120)
  <2>1. pc[r] \in Unfinished /\ mem[r].cleanup = "INCOMPLETE"
    <3>2. pc[r] \in (Executing \cup Cleaning) \ {"report"}
      BY <2>0, ZenonT(120) DEF Executing, Cleaning
    <3> QED BY <1>1, <3>2, ZenonT(120) DEF IInv, PhaseInv
  <2>2. CASE s = r
    BY <1>5, <2>0, <2>1, <2>2, ZenonT(120) DEF Closed
  <2>3. CASE s # r
    <3>1. /\ manifest'[s] = manifest[s] /\ files'[s] = files[s] /\ vmm'[s] = vmm[s]
          /\ pc'[s] = pc[s] /\ report'[s] = report[s]
      BY <2>0, <2>3, ZenonT(120)
    <3> QED BY <3>1, CompleteFrame, ZenonT(120)
  <2> QED BY <2>2, <2>3
<1>8. CASE StopVMM(r) \/ RemoveOwnedRuntime(r)
  <2>1. pc[r] \in Unfinished
    BY <1>1, <1>8, SMTT(60) DEF StopVMM, RemoveOwnedRuntime, Cleaning
  <2>2. files[s] = {} => files'[s] = {}
    BY <1>2, <1>8, SMTT(60) DEF StopVMM, RemoveOwnedRuntime, RemoveFiles, RemoveDir
  <2>3. s # r => pc'[s] = pc[s]
    BY <1>2, <1>8, SMTT(60) DEF StopVMM, RemoveOwnedRuntime
  <2> QED BY <1>8, <2>1, <2>2, <2>3, CompleteFrame, ZenonT(120) DEF StopVMM, RemoveOwnedRuntime
<1>9. CASE StageFinished(r)
  <2> DEFINE m == [mem[r] EXCEPT !.stage = "FINISHED", !.cleanup = verdict[r].cleanup]
  <2>1. m.cleanup = verdict[r].cleanup
    BY <1>3
  <2> HIDE DEF m
  <2>2. /\ pc[r] = "finish" /\ pc' = [pc EXCEPT ![r] = "report"]
        /\ UNCHANGED <<report, files, vmm>>
        /\ manifest' \in {manifest, [manifest EXCEPT ![r] = m]}
    BY <1>9, ZenonT(120) DEF StageFinished, SaveManifest, m
  <2>3. CASE s = r
    <3>1. manifest'[r].cleanup = "COMPLETE" => verdict[r].cleanup = "COMPLETE"
      BY <1>1, <1>2, <1>5, <2>1, <2>2, <2>3, ZenonT(120) DEF Cleaning, Cleanup, Report
    <3>2. report[r].cleanup = "INCOMPLETE" /\ pc'[r] = "report"
      BY <1>1, <1>2, <1>5, <2>2, <2>3, ZenonT(120) DEF Cleaning
    <3> QED BY <2>2, <2>3, <3>1, <3>2, ZenonT(120) DEF IInv, VerdictInv, Closed, Unfinished
  <2>4. CASE s # r
    BY <1>2, <2>2, <2>4, CompleteFrame, SMTT(60)
  <2> QED BY <2>3, <2>4
<1>10. CASE PublishReport(r)
  <2>1. PICK v \in Degraded(verdict[r]) \cup {[verdict[r] EXCEPT !.execution = "CANCELLED"]} :
          PublishVerdict(r, v)
    BY <1>10, ZenonT(120) DEF PublishReport
  <2>2. v.cleanup = verdict[r].cleanup
    BY <1>4, <2>1, ZenonT(120)
  <2>3. /\ pc[r] = "report" /\ pc' = [pc EXCEPT ![r] = "ended"]
        /\ UNCHANGED <<manifest, files, vmm>>
        /\ report' \in {report, [report EXCEPT ![r] = v]}
    BY <1>10, <2>1, SMTT(60) DEF PublishReport, PublishVerdict
  <2>4. CASE s = r
    <3>1. report'[r].cleanup = "COMPLETE" =>
            report[r].cleanup = "COMPLETE" \/ verdict[r].cleanup = "COMPLETE"
      BY <1>2, <2>2, <2>3, SMTT(60)
    <3>2. pc'[r] \notin Unfinished
      BY <1>2, <2>3, SMTT(60) DEF Unfinished, Active, Starting, Executing, Cleaning
    <3> QED BY <2>3, <2>4, <3>1, <3>2, SMTT(60), Z3T(60)
               DEF IInv, VerdictInv, Closed, CompleteInv, CompleteMeansGone
  <2>5. CASE s # r
    BY <1>2, <2>3, <2>5, CompleteFrame, SMTT(60)
  <2> QED BY <2>4, <2>5
<1> QED BY <1>6, <1>7, <1>8, <1>9, <1>10, ZenonT(120) DEF Controller, CleanUp

\* A recovery of an ended run says COMPLETE after its removal, and the VMM is dead by then.
LEMMA CompleteRecover ==
  ASSUME OperatorWaits, IInv, CompleteInv, NEW w \in Recoverers, NEW s \in Runs,
         LoadManifest(w) \/ Recover(w) \/ CrashRecovery(w)
  PROVE  Closed(s)'
<1>0. /\ manifest \in [Runs -> Manifest] /\ report \in [Runs -> Report]
      /\ files \in [Runs -> SUBSET Entry] /\ target \in [Recoverers -> Runs \cup {Nobody}]
  BY ZenonT(120) DEF IInv, TypeOK
<1>1. CASE LoadManifest(w) \/ LockForRecovery(w) \/ Inspect(w) \/ StopOwned(w) \/ CrashRecovery(w)
  BY <1>1, CompleteFrame, ZenonT(120) DEF LoadManifest, LockForRecovery, Inspect, StopOwned,
     CrashRecovery
<1>2. CASE RecoverRuntime(w)
  <2>1. files[s] = {} => files'[s] = {}
    BY <1>0, <1>2, SMTT(60) DEF RecoverRuntime, RemoveFiles, RemoveDir
  <2> QED BY <1>2, <2>1, CompleteFrame, ZenonT(120) DEF RecoverRuntime
<1>3. CASE RecoverManifest(w) \/ RecoverReport(w)
  <2>1. rpc[w] \in {"manifest", "report"} /\ UNCHANGED <<files, vmm, pc>>
    BY <1>3, ZenonT(120) DEF RecoverManifest, RecoverReport
  <2>2. /\ files[target[w]] = {} /\ pc[target[w]] \in Over
        /\ vmm[target[w]] # "live"
    BY <1>0, <2>1, ZenonT(120) DEF IInv, RecoveryInv, WaitingInv
  <2>3. CASE s = target[w]
    BY <2>1, <2>2, <2>3, SMTT(60) DEF Closed, Unfinished, Over, Active, Starting, Executing,
       Cleaning
  <2>4. CASE s # target[w]
    <3>1. manifest'[s] = manifest[s] /\ report'[s] = report[s]
      BY <1>0, <1>3, <2>4, SMTT(60) DEF RecoverManifest, RecoverReport, SaveManifest
    <3> QED BY <2>1, <3>1, CompleteFrame, ZenonT(120)
  <2> QED BY <2>3, <2>4
<1> QED BY <1>1, <1>2, <1>3, ZenonT(120) DEF Recover

\* When recover is used after the controller's end, COMPLETE in the manifest or in the
\* report means that neither files nor a live VMM are left.
THEOREM CompleteIsGone ==
  ASSUME OperatorWaits
  PROVE  Spec => []CompleteMeansGone
<1>1. Init => CompleteInv
  BY SMTT(60) DEF Init, CompleteInv, CompleteMeansGone, NewManifest, NoReport
<1>2. IInv /\ CompleteInv /\ [Next]_vars => CompleteInv'
  <2> SUFFICES ASSUME IInv, CompleteInv, [Next]_vars, NEW s \in Runs PROVE Closed(s)'
    BY ZenonT(120) DEF CompleteInv, CompleteMeansGone, Closed, Unfinished
  <2>1. ASSUME NEW r \in Runs, VMMExits(r) \/ Crash(r) PROVE Closed(s)'
    <3>1. /\ vmm'[s] = "live" => vmm[s] = "live"
          /\ pc'[s] \in Unfinished => pc[s] \in Unfinished
      BY <2>1, SMTT(60) DEF VMMExits, Crash, IInv, TypeOK, Unfinished, Active, Starting,
         Executing, Cleaning
    <3> QED BY <2>1, <3>1, CompleteFrame, ZenonT(120) DEF VMMExits, Crash
  <2>2. CASE Reboot
    <3>1. /\ files[s] = {} => files'[s] = {}
          /\ vmm'[s] = "live" => vmm[s] = "live"
          /\ pc'[s] \in Unfinished => pc[s] \in Unfinished
      BY <2>2, SMTT(60) DEF Reboot, IInv, TypeOK, Unfinished, Active, Starting, Executing,
         Cleaning
    <3> QED BY <2>2, <3>1, CompleteFrame, ZenonT(120) DEF Reboot
  <2>3. CASE UNCHANGED vars
    BY <2>3, CompleteFrame, ZenonT(120) DEF vars
  <2> QED BY <2>1, <2>2, <2>3, CompleteController, CompleteRecover, ZenonT(120) DEF Next
<1>3. CompleteInv => CompleteMeansGone
  BY ZenonT(120) DEF CompleteInv
<1> QED BY <1>1, <1>2, <1>3, Invariance, PTL DEF Spec

-----------------------------------------------------------------------------
(* Controllers and recoveries implement DiskCustody.                       *)

Disks == {r \in Runs : "disk" \in files[r]}
Gone  == {r \in Runs : report[r].cleanup = "COMPLETE"}

\* The steps that can change a VMM, a disk or a report.
LEMMA CustodyActions ==
  ASSUME IInv, [Next]_vars
  PROVE  \/ UNCHANGED <<vmm, report>> /\ Disks' = Disks
         \/ \E r \in Runs : \/ MakeRuntime(r) \/ CopyDisk(r) \/ StartVMM(r) \/ VMMExits(r)
                            \/ RemoveOwnedRuntime(r) \/ PublishReport(r)
         \/ \E w \in Recoverers : RecoverRuntime(w) \/ RecoverReport(w)
         \/ Reboot
<1> DEFINE Still == UNCHANGED <<vmm, report>> /\ Disks' = Disks
           Acts(r) == \/ MakeRuntime(r) \/ CopyDisk(r) \/ StartVMM(r) \/ VMMExits(r)
                      \/ RemoveOwnedRuntime(r) \/ PublishReport(r)
<1>0. UNCHANGED <<vmm, report, files>> => Still
  BY ZenonT(120) DEF Disks
<1>1. ASSUME NEW r \in Runs, WriteConfig(r) \/ ExecutionFails(r) PROVE Still
  <2>1. files \in [Runs -> SUBSET Entry]
    BY ZenonT(120) DEF IInv, TypeOK
  <2>2. \A s \in Runs : "disk" \in files'[s] <=> "disk" \in files[s]
    BY <1>1, <2>1, SMTT(60) DEF WriteConfig, ExecutionFails
  <2>3. UNCHANGED <<vmm, report>>
    BY <1>1, ZenonT(120) DEF WriteConfig, ExecutionFails
  <2> QED BY <2>2, <2>3, ZenonT(120) DEF Disks
<1>2. ASSUME NEW r \in Runs, Execute(r) PROVE Still \/ Acts(r)
  <2>1. \/ WriteConfig(r) \/ ExecutionFails(r) \/ Acts(r) \/ UNCHANGED <<vmm, report, files>>
    BY <1>2, ZenonT(120) DEF Execute, EnterStage, Persist, Decide
  <2> QED BY <1>0, <1>1, <2>1, ZenonT(120)
<1>3. ASSUME NEW r \in Runs, AcquireLock(r) \/ Controller(r) \/ VMMExits(r) \/ Crash(r)
      PROVE  Still \/ Acts(r)
  <2>1. CASE CleanUp(r)
    <3>1. Acts(r) \/ UNCHANGED <<vmm, report, files>>
      BY <2>1, ZenonT(120) DEF CleanUp, StageCleaning, StopVMM, StageFinished
    <3> QED BY <1>0, <3>1, ZenonT(120)
  <2>2. CASE ~CleanUp(r) /\ ~Execute(r)
    <3>1. Acts(r) \/ UNCHANGED <<vmm, report, files>>
      BY <1>3, <2>2, ZenonT(120) DEF Controller, AcquireLock, Admit, RefuseAdmission,
         CreateEvidence, NewRecorder, AbandonRun, Crash
    <3> QED BY <1>0, <3>1, ZenonT(120)
  <2> QED BY <1>2, <2>1, <2>2, ZenonT(120)
<1>4. ASSUME NEW w \in Recoverers, LoadManifest(w) \/ Recover(w) \/ CrashRecovery(w)
      PROVE  Still \/ RecoverRuntime(w) \/ RecoverReport(w)
  <2>1. UNCHANGED <<vmm, report, files>> \/ RecoverRuntime(w) \/ RecoverReport(w)
    BY <1>4, ZenonT(120) DEF LoadManifest, Recover, LockForRecovery, Inspect, StopOwned,
       RecoverManifest, CrashRecovery
  <2> QED BY <1>0, <2>1, ZenonT(120)
<1>5. CASE UNCHANGED vars
  <2>1. UNCHANGED <<vmm, report, files>>
    BY <1>5, ZenonT(120) DEF vars
  <2> QED BY <1>0, <2>1, ZenonT(120)
<1> QED BY <1>3, <1>4, <1>5, ZenonT(120) DEF Next

\* Taking files of one run away is a Discard, or nothing.
LEMMA DiscardStep ==
  ASSUME IInv, NEW r \in Runs, vmm[r] # "live", UNCHANGED <<vmm, report>>,
         \A s \in Runs \ {r} : files'[s] = files[s], "disk" \notin files'[r]
  PROVE  Custody!Discard(r)
<1>1. Disks' = Disks \ {r}
  BY ZenonT(120) DEF Disks
<1>2. Gone' = Gone
  BY ZenonT(120) DEF Gone
<1> QED BY <1>1, <1>2, ZenonT(120) DEF Custody!Discard, Disks, Gone

\* Writing a report of a run of which nothing is left, or one that is not COMPLETE, is
\* an Announce, or nothing.
LEMMA AnnounceStep ==
  ASSUME IInv, NEW r \in Runs, UNCHANGED <<vmm, files>>,
         \A s \in Runs \ {r} : report'[s] = report[s],
         report'[r].cleanup = "COMPLETE" => vmm[r] # "live" /\ files[r] = {},
         report[r].cleanup = "COMPLETE" => report'[r].cleanup = "COMPLETE"
  PROVE  Custody!Announce(r) \/ UNCHANGED Custody!custody
<1>1. Disks' = Disks
  BY ZenonT(120) DEF Disks
<1>2. CASE report'[r].cleanup = "COMPLETE"
  <2>1. Gone' = Gone \cup {r}
    BY <1>2, ZenonT(120) DEF Gone
  <2>2. r \notin Disks /\ vmm[r] # "live"
    BY <1>2, ZenonT(120) DEF Disks
  <2> QED BY <1>1, <2>1, <2>2, ZenonT(120) DEF Custody!Announce, Disks, Gone
<1>3. CASE report'[r].cleanup # "COMPLETE"
  <2>1. Gone' = Gone
    BY <1>3, ZenonT(120) DEF Gone
  <2> QED BY <1>1, <2>1, ZenonT(120) DEF Custody!custody, Disks, Gone
<1> QED BY <1>2, <1>3, ZenonT(120)

\* A controller that copies the disk or launches the VMM is alone.
LEMMA AloneWhileActive ==
  ASSUME IInv, OperatorWaits, NEW r \in Runs, pc[r] \in Active \ {"admit"}
  PROVE  Custody!Alone(r)
<1>1. \A s \in Runs \ {r} : files[s] = {}
  BY ZenonT(120) DEF IInv, AdmissionInv, Resolved
<1>2. \A s \in Runs \ {r} : vmm[s] # "live"
  BY <1>1, ZenonT(120) DEF IInv, WaitingInv, DiskOutlivesVMM
<1>3. Disks \subseteq {r}
  BY <1>1, ZenonT(120) DEF Disks
<1> QED BY <1>2, <1>3, ZenonT(120) DEF Custody!Alone, Disks

\* When recover is used after the controller's end, controllers, recoveries, crashes
\* and reboots together implement the custody of the disks.
THEOREM CustodyRefined ==
  ASSUME OperatorWaits
  PROVE  Spec => KeepsCustody
<1>1. Init => Custody!Init
  <2> SUFFICES ASSUME Init PROVE Custody!Init
    OBVIOUS
  <2>1. Disks = {}
    BY ZenonT(120) DEF Init, Disks
  <2>2. Gone = {}
    <3>1. \A r \in Runs : report[r] = NoReport
      BY ZenonT(120) DEF Init
    <3>2. NoReport.cleanup = "INCOMPLETE"
      BY ZenonT(120) DEF NoReport
    <3>3. "INCOMPLETE" # "COMPLETE"
      BY ZenonT(120)
    <3> QED BY <3>1, <3>2, <3>3, ZenonT(120) DEF Gone
  <2> QED BY <2>1, <2>2, ZenonT(120) DEF Custody!Init, Init, Disks, Gone
<1>2. ASSUME IInv, [Next]_vars PROVE [Custody!Next]_(Custody!custody)
  <2>1. CASE UNCHANGED <<vmm, report>> /\ Disks' = Disks
    BY <2>1, ZenonT(120) DEF Custody!custody, Disks
  <2>2. ASSUME NEW r \in Runs, MakeRuntime(r) PROVE Custody!Discard(r)
    <3>1. files \in [Runs -> SUBSET Entry]
      BY <1>2, ZenonT(120) DEF IInv, TypeOK
    <3>2. (\A s \in Runs \ {r} : files'[s] = files[s]) /\ "disk" \notin files'[r]
      BY <2>2, <3>1, ZenonT(120) DEF MakeRuntime
    <3>3. vmm[r] = "none"
      BY <1>2, <2>2, ZenonT(120) DEF MakeRuntime, IInv, PhaseInv, PreLaunch
    <3>4. vmm[r] # "live" /\ UNCHANGED <<vmm, report>>
      BY <2>2, <3>3, ZenonT(120) DEF MakeRuntime
    <3> QED BY <1>2, <3>2, <3>4, DiscardStep, ZenonT(120)
  <2>3. ASSUME NEW r \in Runs, CopyDisk(r) PROVE Custody!Provide(r)
    <3>1. files \in [Runs -> SUBSET Entry] /\ pc[r] = "copy"
      BY <1>2, <2>3, ZenonT(120) DEF IInv, TypeOK, CopyDisk
    <3>2. \A s \in Runs : "disk" \in files'[s] <=> "disk" \in files[s] \/ s = r
      BY <2>3, <3>1, ZenonT(120) DEF CopyDisk
    <3>3. Disks' = Disks \cup {r}
      BY <3>2, ZenonT(120) DEF Disks
    <3>4. pc[r] \in Active \ {"admit"} /\ pc[r] \in PreLaunch
      BY <3>1, ZenonT(120) DEF Active, Executing, PreLaunch
    <3>5. vmm[r] = "none" /\ Custody!Alone(r)
      BY <1>2, <3>4, AloneWhileActive, ZenonT(120) DEF IInv, PhaseInv
    <3>6. report[r].cleanup = "INCOMPLETE"
      <4>1. report[r] = NoReport
        BY <1>2, <3>4, ZenonT(120) DEF IInv, VerdictInv
      <4> QED BY <4>1, SMTT(60) DEF NoReport
    <3>7. r \notin Gone
      BY <3>6, ZenonT(120) DEF Gone
    <3>8. UNCHANGED <<vmm, report>>
      BY <2>3, ZenonT(120) DEF CopyDisk
    <3> QED BY <3>3, <3>5, <3>7, <3>8, ZenonT(120) DEF Custody!Provide, Disks, Gone
  <2>4. ASSUME NEW r \in Runs, StartVMM(r) PROVE Custody!Launch(r)
    <3>1. pc[r] = "start" /\ vmm' = [vmm EXCEPT ![r] = "live"] /\ UNCHANGED <<files, report>>
      BY <2>4, ZenonT(120) DEF StartVMM
    <3>2. /\ pc[r] \in Active \ {"admit"} /\ pc[r] \in PreLaunch
          /\ pc[r] \in {"config", "rename", "boot", "start"}
      BY <3>1, ZenonT(120) DEF Active, Executing, PreLaunch
    <3>3. vmm[r] = "none" /\ r \in Disks /\ Custody!Alone(r)
      BY <1>2, <3>2, AloneWhileActive, ZenonT(120) DEF IInv, PhaseInv, Disks
    <3>4. Disks' = Disks /\ Gone' = Gone
      BY <3>1, ZenonT(120) DEF Disks, Gone
    <3> QED BY <3>1, <3>3, <3>4, ZenonT(120) DEF Custody!Launch, Disks, Gone
  <2>5. ASSUME NEW r \in Runs, VMMExits(r) PROVE Custody!Exit(r)
    BY <2>5, ZenonT(120) DEF VMMExits, Custody!Exit
  <2>6. ASSUME NEW r \in Runs, RemoveOwnedRuntime(r)
        PROVE  Custody!Discard(r) \/ UNCHANGED Custody!custody
    <3>1. pc[r] \in {"remove", "rmdir"} /\ UNCHANGED <<vmm, report>>
      BY <2>6, ZenonT(120) DEF RemoveOwnedRuntime
    <3>2. vmm[r] # "live"
      BY <1>2, <3>1, ZenonT(120) DEF IInv, PhaseInv
    <3>3. files \in [Runs -> SUBSET Entry]
      BY <1>2, ZenonT(120) DEF IInv, TypeOK
    <3>4. CASE RemoveFiles(r) \/ RemoveDir(r)
      <4>1. (\A s \in Runs \ {r} : files'[s] = files[s]) /\ "disk" \notin files'[r]
        BY <3>3, <3>4, SMTT(60) DEF RemoveFiles, RemoveDir
      <4> QED BY <1>2, <3>1, <3>2, <4>1, DiscardStep, ZenonT(120)
    <3>5. CASE UNCHANGED files
      BY <3>1, <3>5, ZenonT(120) DEF Custody!custody
    <3> QED BY <2>6, <3>4, <3>5, ZenonT(120) DEF RemoveOwnedRuntime
  <2>7. ASSUME NEW r \in Runs, PublishReport(r)
        PROVE  Custody!Announce(r) \/ UNCHANGED Custody!custody
    <3>1. pc[r] = "report" /\ UNCHANGED <<vmm, files>>
      BY <2>7, ZenonT(120) DEF PublishReport
    <3>2. report \in [Runs -> Report] /\ verdict[r] \in Report
      BY <1>2, ZenonT(120) DEF IInv, TypeOK
    <3>3. PICK v \in Degraded(verdict[r]) \cup {[verdict[r] EXCEPT !.execution = "CANCELLED"]} :
            PublishVerdict(r, v)
      BY <2>7, ZenonT(120) DEF PublishReport
    <3>4. v.cleanup = verdict[r].cleanup
      BY <3>2, <3>3, ZenonT(120) DEF Degraded, Report
    <3>5. report' \in {report, [report EXCEPT ![r] = v]}
      BY <3>3, ZenonT(120) DEF PublishVerdict
    <3>6. /\ \A s \in Runs \ {r} : report'[s] = report[s]
          /\ report'[r] \in {report[r], v}
      BY <3>2, <3>5, ZenonT(120)
    <3>7. pc[r] \in Active
      BY <3>1, ZenonT(120) DEF Active, Cleaning
    <3>8. report[r].cleanup # "COMPLETE"
      BY <1>2, <3>7, SMTT(60), Z3T(60) DEF IInv, VerdictInv, NoReport
    <3>9. v.cleanup = "COMPLETE" => vmm[r] # "live" /\ files[r] = {}
      BY <1>2, <3>4, ZenonT(120) DEF IInv, VerdictInv
    <3> QED BY <1>2, <3>1, <3>6, <3>8, <3>9, AnnounceStep, ZenonT(120)
  <2>8. ASSUME NEW w \in Recoverers, RecoverRuntime(w)
        PROVE  UNCHANGED Custody!custody \/ \E r \in Runs : Custody!Discard(r)
    <3>1. rpc[w] \in {"remove", "rmdir"} /\ UNCHANGED <<vmm, report>>
      BY <2>8, ZenonT(120) DEF RecoverRuntime
    <3>2. rpc[w] # "idle" /\ rpc[w] \notin {"loaded", "inspect", "stop"}
      BY <3>1, ZenonT(120)
    <3>3. PICK r \in Runs : r = target[w] /\ vmm[r] # "live"
      BY <1>2, <3>2, ZenonT(120) DEF IInv, TypeOK, RecoveryInv, WaitingInv
    <3>4. files \in [Runs -> SUBSET Entry]
      BY <1>2, ZenonT(120) DEF IInv, TypeOK
    <3>5. CASE RemoveFiles(r) \/ RemoveDir(r)
      <4>1. (\A s \in Runs \ {r} : files'[s] = files[s]) /\ "disk" \notin files'[r]
        BY <3>4, <3>5, SMTT(60) DEF RemoveFiles, RemoveDir
      <4>2. Custody!Discard(r)
        BY <1>2, <3>1, <3>3, <4>1, DiscardStep, ZenonT(120)
      <4> QED BY <4>2, ZenonT(120)
    <3>6. CASE UNCHANGED files
      BY <3>1, <3>6, ZenonT(120) DEF Custody!custody
    <3> QED BY <2>8, <3>3, <3>5, <3>6, ZenonT(120) DEF RecoverRuntime
  <2>9. ASSUME NEW w \in Recoverers, RecoverReport(w)
        PROVE  UNCHANGED Custody!custody \/ \E r \in Runs : Custody!Announce(r)
    <3>1. rpc[w] = "report" /\ UNCHANGED <<vmm, files>>
      BY <2>9, ZenonT(120) DEF RecoverReport
    <3>2. rpc[w] # "idle" /\ rpc[w] \notin {"loaded", "inspect", "stop"}
      BY <3>1, ZenonT(120)
    <3>3. PICK r \in Runs : r = target[w] /\ vmm[r] # "live"
      BY <1>2, <3>2, ZenonT(120) DEF IInv, TypeOK, RecoveryInv, WaitingInv
    <3> DEFINE v == [ReadReport(r) EXCEPT !.cleanup = "COMPLETE"]
    <3>4. files[r] = {}
      BY <1>2, <3>1, <3>3, ZenonT(120) DEF IInv, RecoveryInv
    <3>5. report \in [Runs -> Report]
      BY <1>2, ZenonT(120) DEF IInv, TypeOK
    <3>6. v.cleanup = "COMPLETE"
      BY <3>5, ZenonT(120) DEF ReadReport, Interrupted, Report
    <3>7. report' \in {report, [report EXCEPT ![r] = v]}
      BY <2>9, <3>3, ZenonT(120) DEF RecoverReport
    <3> HIDE DEF v
    <3>8. /\ \A s \in Runs \ {r} : report'[s] = report[s]
          /\ report[r].cleanup = "COMPLETE" => report'[r].cleanup = "COMPLETE"
      BY <3>5, <3>6, <3>7, ZenonT(120)
    <3>9. Custody!Announce(r) \/ UNCHANGED Custody!custody
      BY <1>2, <3>1, <3>3, <3>4, <3>8, AnnounceStep, ZenonT(120)
    <3> QED BY <3>9, ZenonT(120)
  <2>10. CASE Reboot
    <3>1. Disks' \in {Disks, {}}
      BY <2>10, ZenonT(120) DEF Reboot, Disks
    <3>2. Gone' = Gone
      BY <2>10, ZenonT(120) DEF Reboot, Gone
    <3>3. Custody!HostReboots
      BY <2>10, <3>1, <3>2, ZenonT(120) DEF Reboot, Custody!HostReboots, Disks, Gone
    <3> QED BY <3>3, ZenonT(120) DEF Custody!Next
  <2> QED BY <1>2, <2>1, <2>2, <2>3, <2>4, <2>5, <2>6, <2>7, <2>8, <2>9, <2>10,
             CustodyActions, ZenonT(120) DEF Custody!Next
<1>3. IInv /\ [Next]_vars => [Custody!Next]_(Custody!custody)
  BY <1>2, ZenonT(120)
<1> QED BY <1>1, <1>3, Invariance, PTL DEF Spec, KeepsCustody, Custody!Spec
=============================================================================
