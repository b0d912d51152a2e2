---------------------------- MODULE RunOwnership ----------------------------
(***************************************************************************)
(* Who owns a run's resources, and who may delete them.                    *)
(*                                                                         *)
(* `epoch run` (internal/engine/run.go) takes the operator lock, admits    *)
(* itself, creates an evidence directory and a private disk, launches the  *)
(* VMM and always cleans up before it publishes report.json.  `epoch       *)
(* recover` (internal/engine/recover.go) does what is left of that cleanup *)
(* for a run whose controller died.  Both work from the ownership record   *)
(* manifest.json, which is saved around the side effects.                  *)
(*                                                                         *)
(* A controller is identified with the run it creates.  The lock is an     *)
(* flock: the kernel drops it with its holder.  The VMM carries a parent   *)
(* death signal, but the lock is dropped before that signal takes effect.  *)
(* Controllers and recoverers may be killed between any two steps; the     *)
(* host may reboot, which ends every process and may clear the runtime     *)
(* root.                                                                   *)
(***************************************************************************)
EXTENDS Naturals

CONSTANTS
  Runs,          \* run ids; run r is executed by controller r
  Recoverers,    \* invocations of `epoch recover`
  Nobody,        \* the holder of a free lock
  MaxBoot,       \* bound on the number of host reboots
  OperatorWaits  \* TRUE: recover is invoked only after the controller ended

ASSUME ConstantsAssumption ==
  /\ Runs \cap Recoverers = {}
  /\ Nobody \notin Runs \cup Recoverers
  /\ MaxBoot \in Nat
  /\ OperatorWaits \in BOOLEAN

VARIABLES
  boot,      \* current host boot id
  lock,      \* holder of operator.lock
  evidence,  \* runs whose evidence directory exists
  manifest,  \* manifest.json of each run
  report,    \* report.json of each run
  files,     \* what exists of each run's runtime directory
  vmm,       \* the VMM process of each run
  pc,        \* where each controller is
  mem,       \* each controller's in-memory Manifest (m)
  verdict,   \* each controller's in-memory Report (r)
  rpc,       \* where each recoverer is
  target,    \* the run each recoverer was invoked for
  snap       \* the manifest each recoverer loaded

storage    == <<evidence, manifest, report, files>>
controller == <<pc, mem, verdict>>
recoverer  == <<rpc, target, snap>>
vars       == <<boot, lock, storage, vmm, controller, recoverer>>

-----------------------------------------------------------------------------
(* Types.  An absent manifest has stage "NONE", an absent report execution *)
(* status "ABSENT".  "disk" stands for every entry that removeOwnedRuntime *)
(* recognises, "temp" for one it does not: AtomicWrite's temporary file.   *)

EarlyStage  == {"VALIDATING", "PREPARING"}
Stage       == EarlyStage \cup {"NONE", "BOOTING", "READY", "RUNNING",
                                "COLLECTING", "CLEANING", "FINISHED"}
Cleanup     == {"COMPLETE", "INCOMPLETE"}
Manifest    == [stage : Stage, process : BOOLEAN, cleanup : Cleanup, boot : 0..MaxBoot]
Report      == [execution : {"ABSENT", "COMPLETED", "ERROR", "CANCELLED", "INTERRUPTED"},
                assertion : {"PASS", "FAIL", "NOT_EVALUATED"},
                cleanup : Cleanup]
Entry       == {"dir", "disk", "temp"}

NewManifest == [stage |-> "NONE", process |-> FALSE, cleanup |-> "INCOMPLETE", boot |-> 0]
NoReport    == [execution |-> "ABSENT", assertion |-> "NOT_EVALUATED", cleanup |-> "INCOMPLETE"]

Interrupted == [execution |-> "INTERRUPTED", assertion |-> "NOT_EVALUATED", cleanup |-> "COMPLETE"]

\* The controller's program points, in order.
Starting    == {"admit", "create", "record"}
Executing   == {"validate", "prepare", "mkdir", "copy", "config", "rename", "boot",
                "start", "identify", "ready", "run", "collect", "decide"}
Cleaning    == {"clean", "stop", "remove", "rmdir", "finish", "report"}
Active      == Starting \cup Executing \cup Cleaning
Over        == {"ended", "crashed"}
Holding     == {"inspect", "stop", "remove", "rmdir", "manifest", "report"}

Init ==
  /\ boot = 0 /\ lock = Nobody
  /\ evidence = {}
  /\ manifest = [r \in Runs |-> NewManifest]
  /\ report = [r \in Runs |-> NoReport]
  /\ files = [r \in Runs |-> {}]
  /\ vmm = [r \in Runs |-> "none"]
  /\ pc = [r \in Runs |-> "idle"]
  /\ mem = [r \in Runs |-> NewManifest]
  /\ verdict = [r \in Runs |-> NoReport]
  /\ rpc = [w \in Recoverers |-> "idle"]
  /\ target = [w \in Recoverers |-> Nobody]
  /\ snap = [w \in Recoverers |-> NewManifest]

-----------------------------------------------------------------------------
(* Steps shared by the controller and recovery.                            *)

Goto(r, next) == pc' = [pc EXCEPT ![r] = next]

\* AtomicWrite returns an error either before the rename, or after it when the
\* directory cannot be synchronised: a failed save may still have replaced the file.
SaveManifest(r, m, ok) ==
  \/ manifest' = [manifest EXCEPT ![r] = m]
  \/ ~ok /\ UNCHANGED manifest

\* removeOwnedRuntime looks at every entry before it deletes the first one.
RemoveFiles(r) ==
  /\ "temp" \notin files[r]
  /\ files' = [files EXCEPT ![r] = @ \cap {"dir"}]

RemoveDir(r) == files' = [files EXCEPT ![r] = {}]

\* ReadReport: the saved report, or what the manifest alone can say; it fails when
\* neither file exists.
Saved(r)    == report[r].execution # "ABSENT"
Recorded(r) == manifest[r].stage # "NONE"
Readable(r) == Saved(r) \/ Recorded(r)

\* Faulty variant: a saved report is not read back.
ReadReportFromManifest(r) == [Interrupted EXCEPT !.cleanup = manifest[r].cleanup]

ReadReport(r) ==
  IF Saved(r) THEN report[r] ELSE [Interrupted EXCEPT !.cleanup = manifest[r].cleanup]

-----------------------------------------------------------------------------
(* The controller: admission and creation of the run.                      *)

AcquireLock(r) ==
  /\ pc[r] = "idle" /\ lock = Nobody
  /\ lock' = r
  /\ Goto(r, "admit")
  /\ UNCHANGED <<boot, storage, vmm, mem, verdict, recoverer>>

\* Faulty variant: only the runtime root is looked at, not the reports.
AdmissibleByRuntimeRoot == \A s \in Runs : files[s] = {}

Resolved(s) == files[s] = {} /\ (s \in evidence => Saved(s) /\ report[s].cleanup = "COMPLETE")

Admissible == \A s \in Runs : Resolved(s)

Admit(r) ==
  /\ pc[r] = "admit" /\ Admissible
  /\ Goto(r, "create")
  /\ UNCHANGED <<boot, lock, storage, vmm, mem, verdict, recoverer>>

RefuseAdmission(r) ==
  /\ pc[r] = "admit" /\ ~Admissible
  /\ lock' = Nobody
  /\ Goto(r, "idle")
  /\ UNCHANGED <<boot, storage, vmm, mem, verdict, recoverer>>

CreateEvidence(r) ==
  /\ pc[r] = "create"
  /\ evidence' = evidence \cup {r}
  /\ Goto(r, "record")
  /\ UNCHANGED <<boot, lock, manifest, report, files, vmm, mem, verdict, recoverer>>

NewRecorder(r) ==
  /\ pc[r] = "record"
  /\ mem' = [mem EXCEPT ![r] = [NewManifest EXCEPT !.stage = "VALIDATING", !.boot = boot]]
  /\ verdict' = [verdict EXCEPT ![r].execution = "ERROR"]
  /\ Goto(r, "validate")
  /\ UNCHANGED <<boot, lock, storage, vmm, recoverer>>

\* Faulty variant: the lock is not closed on the early return.
AbandonRunLocked(r) ==
  /\ pc[r] \in {"create", "record"}
  /\ Goto(r, "ended")
  /\ UNCHANGED <<boot, lock, storage, vmm, mem, verdict, recoverer>>

\* A failure to create the evidence directory or its logs returns at once.
AbandonRun(r) ==
  /\ pc[r] \in {"create", "record"}
  /\ lock' = Nobody
  /\ Goto(r, "ended")
  /\ UNCHANGED <<boot, storage, vmm, mem, verdict, recoverer>>

-----------------------------------------------------------------------------
(* The controller: execution.  Any error ends in the cleanup.              *)

Abort(r) ==
  /\ \E e \in {"ERROR", "CANCELLED"} : verdict' = [verdict EXCEPT ![r].execution = e]
  /\ Goto(r, "clean")

Persist(r, at, m, next) ==
  /\ pc[r] = at
  /\ mem' = [mem EXCEPT ![r] = m]
  /\ \/ SaveManifest(r, m, TRUE) /\ Goto(r, next) /\ UNCHANGED verdict
     \/ SaveManifest(r, m, FALSE) /\ Abort(r)
  /\ UNCHANGED <<boot, lock, evidence, report, files, vmm, recoverer>>

EnterStage(r, at, s, next) == Persist(r, at, [mem[r] EXCEPT !.stage = s], next)

MakeRuntime(r) ==
  /\ pc[r] = "mkdir"
  /\ files' = [files EXCEPT ![r] = {"dir"}]
  /\ Goto(r, "copy")
  /\ UNCHANGED <<boot, lock, evidence, manifest, report, vmm, mem, verdict, recoverer>>

CopyDisk(r) ==
  /\ pc[r] = "copy"
  /\ files' = [files EXCEPT ![r] = @ \cup {"disk"}]
  /\ Goto(r, "config")
  /\ UNCHANGED <<boot, lock, evidence, manifest, report, vmm, mem, verdict, recoverer>>

WriteConfig(r) ==
  /\ \/ pc[r] = "config" /\ files' = [files EXCEPT ![r] = @ \cup {"temp"}] /\ Goto(r, "rename")
     \/ pc[r] = "rename" /\ files' = [files EXCEPT ![r] = @ \ {"temp"}] /\ Goto(r, "boot")
  /\ UNCHANGED <<boot, lock, evidence, manifest, report, vmm, mem, verdict, recoverer>>

StartVMM(r) ==
  /\ pc[r] = "start"
  /\ vmm' = [vmm EXCEPT ![r] = "live"]
  /\ mem' = [mem EXCEPT ![r].process = TRUE]
  /\ Goto(r, "identify")
  /\ UNCHANGED <<boot, lock, storage, verdict, recoverer>>

ExecutionFails(r) ==
  /\ pc[r] \in Executing \ {"identify"}
  /\ Abort(r)
  /\ files' = [files EXCEPT ![r] = @ \ {"temp"}]
  /\ UNCHANGED <<boot, lock, evidence, manifest, report, vmm, mem, recoverer>>

Decide(r) ==
  /\ pc[r] = "decide"
  /\ \E a \in {"PASS", "FAIL"} :
       verdict' = [verdict EXCEPT ![r] = [@ EXCEPT !.execution = "COMPLETED", !.assertion = a]]
  /\ Goto(r, "clean")
  /\ UNCHANGED <<boot, lock, storage, vmm, mem, recoverer>>

Execute(r) ==
  \/ EnterStage(r, "validate", "VALIDATING", "prepare")
  \/ EnterStage(r, "prepare", "PREPARING", "mkdir")
  \/ MakeRuntime(r) \/ CopyDisk(r) \/ WriteConfig(r)
  \/ EnterStage(r, "boot", "BOOTING", "start")
  \/ StartVMM(r)
  \/ Persist(r, "identify", mem[r], "ready")
  \/ EnterStage(r, "ready", "READY", "run")
  \/ EnterStage(r, "run", "RUNNING", "collect")
  \/ EnterStage(r, "collect", "COLLECTING", "decide")
  \/ ExecutionFails(r)
  \/ Decide(r)

-----------------------------------------------------------------------------
(* The controller: cleanup.  No error skips a later step; an error only    *)
(* turns COMPLETED into ERROR.                                             *)

Degraded(v) == IF v.execution = "COMPLETED" THEN {v, [v EXCEPT !.execution = "ERROR"]} ELSE {v}

Degrade(r) == \E v \in Degraded(verdict[r]) : verdict' = [verdict EXCEPT ![r] = v]

\* The stage and the guest's shutdown; either may fail.
StageCleaning(r) ==
  /\ pc[r] = "clean"
  /\ mem' = [mem EXCEPT ![r].stage = "CLEANING"]
  /\ SaveManifest(r, [mem[r] EXCEPT !.stage = "CLEANING"], FALSE)
  /\ Degrade(r)
  /\ Goto(r, "stop")
  /\ UNCHANGED <<boot, lock, evidence, report, files, vmm, recoverer>>

\* Process.Stop returns nil only once the child was reaped; when its context
\* expires the process may still live.
StopVMM(r) ==
  /\ pc[r] = "stop"
  /\ \/ (mem[r].process => vmm[r] = "dead") /\ Goto(r, "remove")
     \/ mem[r].process /\ Goto(r, "finish")
  /\ Degrade(r)
  /\ UNCHANGED <<boot, lock, storage, vmm, mem, recoverer>>

\* Faulty variant: cleanup is reported complete although the removal failed.
RemovalErrorIgnored(r) ==
  /\ \/ pc[r] = "remove" /\ RemoveFiles(r) /\ Goto(r, "rmdir") /\ UNCHANGED verdict
     \/ pc[r] = "rmdir" /\ RemoveDir(r) /\ Goto(r, "finish") /\ UNCHANGED verdict
     \/ /\ pc[r] \in {"remove", "rmdir"} /\ Goto(r, "finish") /\ UNCHANGED files
        /\ verdict' = [verdict EXCEPT ![r].cleanup = "COMPLETE"]
  /\ UNCHANGED <<boot, lock, evidence, manifest, report, vmm, mem, recoverer>>

RemoveOwnedRuntime(r) ==
  /\ \/ pc[r] = "remove" /\ RemoveFiles(r) /\ Goto(r, "rmdir") /\ UNCHANGED verdict
     \/ /\ pc[r] = "rmdir" /\ RemoveDir(r) /\ Goto(r, "finish")
        /\ verdict' = [verdict EXCEPT ![r].cleanup = "COMPLETE"]
     \/ pc[r] \in {"remove", "rmdir"} /\ Goto(r, "finish") /\ UNCHANGED <<files, verdict>>
  /\ UNCHANGED <<boot, lock, evidence, manifest, report, vmm, mem, recoverer>>

StageFinished(r) ==
  LET m == [mem[r] EXCEPT !.stage = "FINISHED", !.cleanup = verdict[r].cleanup] IN
  /\ pc[r] = "finish"
  /\ mem' = [mem EXCEPT ![r] = m]
  /\ SaveManifest(r, m, FALSE)
  /\ Degrade(r)
  /\ Goto(r, "report")
  /\ UNCHANGED <<boot, lock, evidence, report, files, vmm, recoverer>>

\* Faulty variant: an unsaved report keeps its COMPLETED status.
PublishVerdictUnchecked(r, v) ==
  /\ report' \in {report, [report EXCEPT ![r] = v]}
  /\ verdict' = [verdict EXCEPT ![r] = v]

\* rec.Final: an unsaved report is never COMPLETED, but may be on disk.
PublishVerdict(r, v) ==
  \/ /\ report' = [report EXCEPT ![r] = v]
     /\ verdict' = [verdict EXCEPT ![r] = v]
  \/ /\ report' \in {report, [report EXCEPT ![r] = v]}
     /\ verdict' = [verdict EXCEPT ![r] =
                      IF v.execution = "COMPLETED" THEN [v EXCEPT !.execution = "ERROR"] ELSE v]

\* Late recorder errors, late cancellation, then publication.
PublishReport(r) ==
  /\ pc[r] = "report"
  /\ \E v \in Degraded(verdict[r]) \cup {[verdict[r] EXCEPT !.execution = "CANCELLED"]} :
       PublishVerdict(r, v)
  /\ mem' = [mem EXCEPT ![r] = NewManifest]
  /\ lock' = Nobody
  /\ Goto(r, "ended")
  /\ UNCHANGED <<boot, evidence, manifest, files, vmm, recoverer>>

CleanUp(r) ==
  StageCleaning(r) \/ StopVMM(r) \/ RemoveOwnedRuntime(r) \/ StageFinished(r) \/ PublishReport(r)

Controller(r) ==
  \/ Admit(r) \/ RefuseAdmission(r) \/ CreateEvidence(r) \/ NewRecorder(r) \/ AbandonRun(r)
  \/ Execute(r)
  \/ CleanUp(r)

\* Report.ExitCode
ExitCode(v) ==
  IF v.cleanup # "COMPLETE" THEN 4
  ELSE IF v.execution = "CANCELLED" THEN 130
  ELSE IF v.execution # "COMPLETED" THEN 3
  ELSE IF v.assertion = "FAIL" THEN 1
  ELSE IF v.assertion # "PASS" THEN 3 ELSE 0

-----------------------------------------------------------------------------
(* Recovery.  The manifest is loaded before the lock is taken.             *)

Move(w, next) == rpc' = [rpc EXCEPT ![w] = next]

\* Recover returns, and its deferred Close drops the lock.
Forget(w) ==
  /\ Move(w, "idle")
  /\ target' = [target EXCEPT ![w] = Nobody]
  /\ snap' = [snap EXCEPT ![w] = NewManifest]

Return(w) == Forget(w) /\ lock' = Nobody
Proceed(w, next) == Move(w, next) /\ UNCHANGED <<lock, target, snap>>

LoadManifest(w) ==
  /\ rpc[w] = "idle"
  /\ \E r \in Runs :
       /\ Recorded(r)
       /\ OperatorWaits => pc[r] \in Over
       /\ target' = [target EXCEPT ![w] = r]
       /\ snap' = [snap EXCEPT ![w] = manifest[r]]
  /\ Move(w, "loaded")
  /\ UNCHANGED <<boot, lock, storage, vmm, controller>>

LockForRecovery(w) ==
  /\ rpc[w] = "loaded"
  /\ \/ lock = Nobody /\ lock' = w /\ Move(w, "inspect") /\ UNCHANGED <<target, snap>>
     \/ lock # Nobody /\ UNCHANGED lock /\ Forget(w)
  /\ UNCHANGED <<boot, storage, vmm, controller>>

\* Faulty variant: a launch is not thought possible before the process is recorded.
NoLaunchAmbiguityWhenBooting(m) ==
  m.boot # boot \/ m.stage \in EarlyStage \cup {"BOOTING"} \/ m.cleanup = "COMPLETE"

NoLaunchAmbiguity(m) == m.boot # boot \/ m.stage \in EarlyStage \/ m.cleanup = "COMPLETE"

\* With a recorded identity the process is inspected: live, dead, or the PID is
\* unreadable or someone else's.  Without one the stage must rule a launch out.
Inspect(w) ==
  /\ rpc[w] = "inspect"
  /\ \/ snap[w].process /\ vmm[target[w]] = "live" /\ Proceed(w, "stop")
     \/ snap[w].process /\ vmm[target[w]] # "live" /\ Proceed(w, "remove")
     \/ ~snap[w].process /\ NoLaunchAmbiguity(snap[w]) /\ Proceed(w, "remove")
     \/ Return(w)  \* dry run, inspection error or manual review
  /\ UNCHANGED <<boot, storage, vmm, controller>>

\* Faulty variant: no second inspection after the stop request.
StopOwnedUnchecked(w) ==
  /\ rpc[w] = "stop"
  /\ Proceed(w, "remove")
  /\ UNCHANGED <<boot, storage, vmm, controller>>

\* StopOwned and the second inspection.
StopOwned(w) ==
  /\ rpc[w] = "stop"
  /\ \/ vmm[target[w]] # "live" /\ Proceed(w, "remove")
     \/ Return(w)
  /\ UNCHANGED <<boot, storage, vmm, controller>>

RecoverRuntime(w) ==
  /\ \/ rpc[w] = "remove" /\ RemoveFiles(target[w]) /\ Proceed(w, "rmdir")
     \/ rpc[w] = "rmdir" /\ RemoveDir(target[w]) /\ Proceed(w, "manifest")
     \/ rpc[w] \in {"remove", "rmdir"} /\ Return(w) /\ UNCHANGED files
  /\ UNCHANGED <<boot, evidence, manifest, report, vmm, controller>>

RecoverManifest(w) ==
  LET m == [snap[w] EXCEPT !.stage = "FINISHED", !.cleanup = "COMPLETE"] IN
  /\ rpc[w] = "manifest"
  /\ \/ SaveManifest(target[w], m, TRUE) /\ Proceed(w, "report")
     \/ SaveManifest(target[w], m, FALSE) /\ Return(w)
  /\ UNCHANGED <<boot, evidence, report, files, vmm, controller>>

RecoverReport(w) ==
  /\ rpc[w] = "report"
  /\ report' \in {report, [report EXCEPT ![target[w]] =
                             [ReadReport(target[w]) EXCEPT !.cleanup = "COMPLETE"]]}
  /\ Return(w)
  /\ UNCHANGED <<boot, evidence, manifest, files, vmm, controller>>

Recover(w) ==
  \/ LockForRecovery(w) \/ Inspect(w) \/ StopOwned(w)
  \/ RecoverRuntime(w) \/ RecoverManifest(w) \/ RecoverReport(w)

-----------------------------------------------------------------------------
(* The environment.                                                        *)

\* The VMM ends: on its own, by TERM or KILL, or by its parent death signal.
VMMExits(r) ==
  /\ vmm[r] = "live"
  /\ vmm' = [vmm EXCEPT ![r] = "dead"]
  /\ UNCHANGED <<boot, lock, storage, controller, recoverer>>

Crash(r) ==
  /\ pc[r] \in Active
  /\ Goto(r, "crashed")
  /\ mem' = [mem EXCEPT ![r] = NewManifest]
  /\ verdict' = [verdict EXCEPT ![r] = NoReport]
  /\ lock' = Nobody
  /\ UNCHANGED <<boot, storage, vmm, recoverer>>

CrashRecovery(w) ==
  /\ rpc[w] # "idle"
  /\ Forget(w)
  /\ lock' = IF lock = w THEN Nobody ELSE lock
  /\ UNCHANGED <<boot, storage, vmm, controller>>

Reboot ==
  /\ boot < MaxBoot
  /\ boot' = boot + 1
  /\ lock' = Nobody
  /\ files' \in {files, [r \in Runs |-> {}]}
  /\ vmm' = [r \in Runs |-> IF vmm[r] = "live" THEN "dead" ELSE vmm[r]]
  /\ pc' = [r \in Runs |-> IF pc[r] \in Active THEN "crashed" ELSE pc[r]]
  /\ mem' = [r \in Runs |-> NewManifest]
  /\ verdict' = [r \in Runs |-> IF pc[r] \in Active THEN NoReport ELSE verdict[r]]
  /\ rpc' = [w \in Recoverers |-> "idle"]
  /\ target' = [w \in Recoverers |-> Nobody]
  /\ snap' = [w \in Recoverers |-> NewManifest]
  /\ UNCHANGED <<evidence, manifest, report>>

Next ==
  \/ \E r \in Runs : AcquireLock(r) \/ Controller(r) \/ VMMExits(r) \/ Crash(r)
  \/ \E w \in Recoverers : LoadManifest(w) \/ Recover(w) \/ CrashRecovery(w)
  \/ Reboot

Spec == Init /\ [][Next]_vars

\* Every wait of a controller or of recovery has a deadline, so each goes on to
\* its next step; nothing obliges an operator to invoke either.
Fairness ==
  /\ \A r \in Runs : WF_vars(Controller(r))
  /\ \A w \in Recoverers : WF_vars(Recover(w))

FairSpec == Spec /\ Fairness

-----------------------------------------------------------------------------
(* Properties.                                                             *)

\* Every file and every in-memory record has one of the values that the engine
\* writes (validOutcomes for the report).
TypeOK ==
  /\ boot \in 0..MaxBoot
  /\ lock \in Runs \cup Recoverers \cup {Nobody}
  /\ evidence \subseteq Runs
  /\ manifest \in [Runs -> Manifest]
  /\ report \in [Runs -> Report]
  /\ files \in [Runs -> SUBSET Entry]
  /\ vmm \in [Runs -> {"none", "live", "dead"}]
  /\ pc \in [Runs -> Active \cup Over \cup {"idle"}]
  /\ mem \in [Runs -> Manifest]
  /\ verdict \in [Runs -> Report]
  /\ rpc \in [Recoverers -> Holding \cup {"idle", "loaded"}]
  /\ target \in [Recoverers -> Runs \cup {Nobody}]
  /\ snap \in [Recoverers -> Manifest]

\* While a VMM may live its private disk is preserved: neither the controller's
\* cleanup nor a recovery after a crash removes it first.
DiskOutlivesVMM == \A r \in Runs : vmm[r] = "live" => "disk" \in files[r]

\* Admission keeps two runs from ever having a live VMM at once, across crashes,
\* recoveries and the moment in which an orphaned VMM outlives its controller.
OneLiveVMM == \A r, s \in Runs : vmm[r] = "live" /\ vmm[s] = "live" => r = s

\* A controller is admitted only when every earlier run's report says that its
\* cleanup is complete and nothing is left of its runtime directory, so at most one
\* run of the host is ever unresolved.
OneUnresolvedRun == \A r, s \in Runs : Resolved(r) \/ Resolved(s) \/ r = s

\* Once its controller is gone, every run that left evidence can be inspected: its
\* report reads as final or as INTERRUPTED.
InterruptedIsReported == \A r \in evidence : pc[r] \in Over => Readable(r)

\* COMPLETE in the manifest or in the report means that nothing is left: no file of
\* the runtime directory and no live VMM.
CompleteMeansGone ==
  \A r \in Runs : "COMPLETE" \in {manifest[r].cleanup, report[r].cleanup} =>
    files[r] = {} /\ vmm[r] # "live"

\* Exit code 0 is backed by what is on disk: a saved COMPLETED/PASS/COMPLETE report
\* that no later recovery changes, a dead VMM and no runtime files.
ExitZeroIsBacked ==
  \A r \in Runs : pc[r] = "ended" /\ ExitCode(verdict[r]) = 0 =>
    report[r] = verdict[r] /\ vmm[r] = "dead" /\ files[r] = {}

\* A published verdict is final: a controller publishes once, recovery invents no
\* verdict but INTERRUPTED and afterwards touches only the cleanup status.
VerdictIsFinal ==
  [][\A r \in Runs : report'[r] # report[r] =>
       \/ report[r] = NoReport /\ (pc[r] = "report" \/ report'[r] = Interrupted)
       \/ report'[r] = [report[r] EXCEPT !.cleanup = "COMPLETE"]]_vars

\* A disk disappears from under a live VMM only through a recovery that works from
\* an ownership record older than the one on disk: with a current record, both
\* cleanup paths wait for the VMM's death.
RemovalNeedsDeadVMM ==
  [][\A r \in Runs : vmm[r] = "live" /\ "disk" \in files[r] /\ "disk" \notin files'[r] =>
       \/ vmm'[r] = "dead"
       \/ \E w \in Recoverers : lock = w /\ target[w] = r /\ snap[w] # manifest[r]]_vars

\* Neither an interrupted nor a failing holder keeps the operator lock: every
\* controller and every recovery releases it after finitely many steps.
LockIsReleased == lock # Nobody ~> lock = Nobody

-----------------------------------------------------------------------------
(* The promise that controllers and recoveries implement together.         *)

Custody == INSTANCE DiskCustody WITH
  disk <- {r \in Runs : "disk" \in files[r]},
  gone <- {r \in Runs : report[r].cleanup = "COMPLETE"}

\* Whatever crashes and whoever cleans up: one run at a time has a disk, its VMM is
\* launched once and on it, the disk goes only after the VMM, and a report says
\* COMPLETE, for good, only after both.
KeepsCustody == Custody!Spec

-----------------------------------------------------------------------------
(* The inductive invariant behind the safety properties.                   *)

PreLaunch == {"idle"} \cup Starting \cup
             {"validate", "prepare", "mkdir", "copy", "config", "rename", "boot", "start"}
Launched  == {"identify", "ready", "run", "collect", "decide"}

\* What recovery may not mistake for a run without a VMM.
MayLive(m) == m.stage \notin EarlyStage \cup {"NONE"} /\ m.boot = boot /\ m.cleanup = "INCOMPLETE"

\* Whoever is between taking and closing the operator lock holds it.
LockInv ==
  /\ \A r \in Runs : pc[r] \in Active <=> lock = r
  /\ \A w \in Recoverers : rpc[w] \in Holding <=> lock = w

\* The in-memory manifest and the runtime directory, by program point.
PhaseInv == \A r \in Runs :
  /\ pc[r] \in {"idle"} \cup Starting => ~Recorded(r)
  /\ pc[r] \in PreLaunch => vmm[r] = "none"
  /\ pc[r] \in Launched => vmm[r] # "none" /\ MayLive(mem[r]) /\ mem[r].process
  /\ pc[r] \in Executing \cup Cleaning => mem[r].boot = boot
  /\ pc[r] \in (Executing \cup Cleaning) \ {"report"} => mem[r].cleanup = "INCOMPLETE"
  /\ pc[r] \in {"config", "rename", "boot", "start"} => "disk" \in files[r]
  /\ pc[r] = "start" => manifest[r] = mem[r] /\ MayLive(mem[r])
  /\ pc[r] \in Cleaning /\ vmm[r] = "live" => mem[r].process
  /\ pc[r] \in {"remove", "rmdir"} => vmm[r] # "live"

\* A live VMM with its disk is on record.
LaunchInv ==
  \A r \in Runs : vmm[r] = "live" /\ "disk" \in files[r] => MayLive(manifest[r])

\* What a recovery knows about its target at each of its program points.
RecoveryInv == \A w \in Recoverers :
  /\ rpc[w] = "idle" <=> target[w] = Nobody
  /\ rpc[w] # "idle" => Recorded(target[w]) /\ snap[w].stage # "NONE"
  /\ rpc[w] = "remove" /\ vmm[target[w]] = "live" /\ "disk" \in files[target[w]] =>
       snap[w] # manifest[target[w]]
  /\ rpc[w] = "rmdir" => files[target[w]] \subseteq {"dir"}
  /\ rpc[w] \in {"manifest", "report"} => files[target[w]] = {}

\* What waiting for the controller's end adds.
WaitingInv == OperatorWaits =>
  /\ DiskOutlivesVMM
  /\ \A w \in Recoverers : rpc[w] # "idle" =>
       /\ pc[target[w]] \in Over
       /\ vmm[target[w]] = "live" => MayLive(snap[w]) /\ rpc[w] \in {"loaded", "inspect", "stop"}

\* An admitted controller is the only one with something to resolve.
AdmissionInv ==
  /\ OneUnresolvedRun
  /\ \A r, s \in Runs : pc[r] \in Active \ {"admit"} /\ r # s => Resolved(s)

\* The in-memory verdict, and what a published report has in common with it.
VerdictInv == \A r \in Runs :
  /\ pc[r] \in Active \cup {"idle"} \/ ~Saved(r) => report[r] = NoReport
  /\ pc[r] \in Executing \cup Cleaning => verdict[r].execution # "ABSENT"
  /\ pc[r] \notin {"finish", "report", "ended"} => verdict[r].cleanup = "INCOMPLETE"
  /\ pc[r] \notin Cleaning \cup {"ended"} => verdict[r].execution # "COMPLETED"
  /\ verdict[r].cleanup = "COMPLETE" => vmm[r] # "live" /\ files[r] = {}
  /\ verdict[r].execution = "COMPLETED" => vmm[r] # "none"
  /\ pc[r] = "ended" /\ ExitCode(verdict[r]) = 0 => report[r] = verdict[r]

\* What CompleteMeansGone needs besides: until its controller closes the record, no
\* manifest of a run in progress says COMPLETE.
CompleteInv ==
  /\ CompleteMeansGone
  /\ \A r \in Runs :
       pc[r] \in {"idle"} \cup (Active \ {"report"}) => manifest[r].cleanup = "INCOMPLETE"

\* The conjunction is inductive, whether or not operators wait.
IInv ==
  /\ TypeOK /\ LockInv /\ PhaseInv /\ LaunchInv /\ RecoveryInv
  /\ WaitingInv /\ AdmissionInv /\ VerdictInv
=============================================================================
