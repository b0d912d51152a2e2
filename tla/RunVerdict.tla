----------------------------- MODULE RunVerdict -----------------------------
(***************************************************************************)
(* How one run reaches its verdict (internal/engine/run.go) while other    *)
(* goroutines and processes interfere: the VMM may exit, its log writers   *)
(* share the evidence quota (internal/evidence), the operator may cancel,  *)
(* the deadline may pass, and a monitor turns a dead VMM into the end of   *)
(* the run's context.  The run starts with the VMM up, in stage BOOTING;   *)
(* RunOwnership has what precedes that, and crashes.                       *)
(*                                                                         *)
(* Evidence is counted in records.  A record that does not fit, or that    *)
(* the disk refuses, fails the recorder for good and ends the context.     *)
(***************************************************************************)
EXTENDS Naturals

CONSTANTS
  Steps,  \* number of steps of the plan
  Quota   \* records that fit into the evidence directory

ASSUME VerdictAssumption == Steps \in Nat /\ Quota \in Nat

VARIABLES
  pc,         \* where Run is
  step,       \* steps completed and judged
  runErr,     \* execute failed
  guest,      \* the guest answered hello
  exec, asserts, cleanup, saved,  \* the report
  failedAssertion,  \* some assertion of the report failed
  parent,     \* the caller's context
  ctx,        \* the run's context
  recErr,     \* Recorder.err
  used,       \* Recorder.used
  closed,     \* the recorder's files are closed
  vmm,        \* the VMM process
  dead,       \* Run knows that the VMM was reaped
  monitor,    \* the monitor goroutine
  lost,       \* history: a record or log bytes were dropped
  anomaly,    \* history: an observation of the host clocks was anomalous
  early       \* history: the operator's interrupt ended the caller's context, and before
              \* Run's last look at it

report   == <<exec, asserts, cleanup, saved, failedAssertion>>
recorder == <<recErr, used, closed, lost>>
outside  == <<parent, early, vmm, monitor>>
vars     == <<pc, step, runErr, guest, report, ctx, recorder, outside, dead, anomaly>>

Init ==
  /\ pc = "boot" /\ step = 0 /\ runErr = FALSE /\ guest = FALSE
  /\ exec = "ERROR" /\ asserts = "NOT_EVALUATED" /\ cleanup = "INCOMPLETE" /\ saved = FALSE
  /\ failedAssertion = FALSE
  /\ parent = "live" /\ ctx = "live"
  /\ recErr = FALSE /\ used = 0 /\ closed = FALSE /\ lost = FALSE
  /\ vmm = "up" /\ dead = FALSE /\ monitor = "watching"
  /\ anomaly = FALSE /\ early = FALSE

-----------------------------------------------------------------------------
(* The recorder.                                                           *)

EndContext(why) == ctx' = IF ctx = "live" THEN why ELSE ctx

failLocked ==
  /\ recErr' = TRUE /\ lost' = TRUE /\ EndContext("cancelled")
  /\ UNCHANGED <<used, closed>>

\* n records are written.
Recorded(n) ==
  /\ ~recErr /\ used + n <= Quota
  /\ used' = used + n
  /\ UNCHANGED <<recErr, closed, lost, ctx>>

\* A record is dropped: an earlier failure, the quota, or the disk.
NotRecorded ==
  \/ ~recErr /\ failLocked
  \/ recErr /\ lost' = TRUE /\ UNCHANGED <<recErr, used, closed, ctx>>

\* observe: a sample of the host clocks is compared with the one before.
Observed  == UNCHANGED anomaly
Anomalous == anomaly' = TRUE /\ Recorded(1)

\* Faulty variant: the log writers do not report what they drop.
LogSilently ==
  /\ vmm = "up"
  /\ \/ ~closed /\ Recorded(1)
     \/ lost' = TRUE /\ UNCHANGED <<recErr, used, closed, ctx>>
  /\ UNCHANGED <<pc, step, runErr, guest, report, outside, dead, anomaly>>

\* drainWriter: the VMM's output, written at any time until it is reaped.
Log ==
  /\ vmm = "up"
  /\ (~closed /\ Recorded(1)) \/ NotRecorded
  /\ UNCHANGED <<pc, step, runErr, guest, report, outside, dead, anomaly>>

-----------------------------------------------------------------------------
(* execute.                                                                *)

Fail == pc' = "join" /\ runErr' = TRUE

Proceed(next) == pc' = next /\ UNCHANGED runErr

\* The clocks cannot be read, or the manifest not saved: nothing is recorded.
Unrecorded == UNCHANGED <<ctx, recorder>>

\* An observation and n records in all, then on to next; or the first error ends execute.
RecordStep(n, next) ==
  \/ Observed /\ Recorded(n) /\ Proceed(next)
  \/ Observed /\ (NotRecorded \/ Unrecorded) /\ Fail
  \/ Anomalous /\ Fail

\* ready, then the stages READY and RUNNING.
Boot ==
  /\ pc = "boot"
  /\ \/ /\ vmm = "up" /\ guest' = TRUE
        /\ \/ Recorded(2) /\ Proceed("step")
           \/ (NotRecorded \/ Unrecorded) /\ Fail
     \/ Fail /\ Unrecorded /\ UNCHANGED guest
  /\ UNCHANGED <<step, report, outside, dead, anomaly>>

\* The context, the observation before the step and its first event.
BeginStep ==
  /\ pc = "step" /\ step < Steps
  /\ IF ctx # "live"
     THEN Fail /\ Unrecorded /\ UNCHANGED anomaly
     ELSE RecordStep(2, "send")
  /\ UNCHANGED <<step, guest, report, outside, dead>>

\* executeStep: the context is looked at when the call begins; it may end during the call.
SendCall ==
  /\ pc = "send"
  /\ IF ctx # "live" THEN Fail ELSE Proceed("call")
  /\ UNCHANGED <<step, guest, report, ctx, recorder, outside, dead, anomaly>>

StepFails ==
  /\ pc = "call"
  /\ Fail
  /\ (Observed /\ (Recorded(3) \/ NotRecorded)) \/ Anomalous
  /\ UNCHANGED <<step, guest, report, outside, dead>>

StepAnswered ==
  /\ pc = "call" /\ vmm = "up"
  /\ Proceed("judge")
  /\ UNCHANGED <<step, guest, report, ctx, recorder, outside, dead, anomaly>>

\* The step's records and assertions; an assertion that cannot be evaluated is an error.
JudgeStep ==
  /\ pc = "judge"
  /\ \/ RecordStep(4, "step")
     \/ Fail /\ Observed /\ (Recorded(1) \/ Recorded(3))
  /\ step' = IF runErr' THEN step ELSE step + 1
  /\ failedAssertion' \in {failedAssertion, TRUE}
  /\ UNCHANGED <<guest, exec, asserts, cleanup, saved, outside, dead>>

\* The last observation, then the context.
EndSteps ==
  /\ pc = "step" /\ step = Steps
  /\ RecordStep(1, "context")
  /\ UNCHANGED <<step, guest, report, outside, dead>>

CheckContext ==
  /\ pc = "context"
  /\ IF ctx # "live" THEN Fail ELSE Proceed("collect")
  /\ UNCHANGED <<step, guest, report, ctx, recorder, outside, dead, anomaly>>

\* Stage COLLECTING: saveManifest may fail; the recorder's error is the last word.
Collect ==
  /\ pc = "collect"
  /\ \/ Recorded(1) /\ Proceed("join")
     \/ (NotRecorded \/ Unrecorded) /\ Fail
  /\ UNCHANGED <<step, guest, report, outside, dead, anomaly>>

-----------------------------------------------------------------------------
(* The verdict.                                                            *)

CloseMonitor ==
  /\ pc = "join"
  /\ Proceed("joining")
  /\ UNCHANGED <<step, guest, report, ctx, recorder, outside, dead, anomaly>>

\* Faulty variant: the monitor waits for the VMM only.
MonitorOnlyVMM ==
  /\ monitor = "watching" /\ vmm = "exited"
  /\ EndContext("cancelled")
  /\ monitor' = "stopped"
  /\ UNCHANGED <<pc, step, runErr, guest, report, recorder, parent, early, vmm, dead, anomaly>>

\* The monitor goroutine: a dead VMM ends the context, monitorStop ends the monitor.
Monitor ==
  /\ monitor = "watching"
  /\ \/ vmm = "exited" /\ EndContext("cancelled")
     \/ pc = "joining" /\ UNCHANGED ctx
  /\ monitor' = "stopped"
  /\ UNCHANGED <<pc, step, runErr, guest, report, recorder, parent, early, vmm, dead, anomaly>>

\* Faulty variant: the VMM's state is not looked at before the verdict.
DecideUnchecked ==
  /\ pc = "joining" /\ monitor = "stopped"
  /\ pc' = "clean"
  /\ IF ~runErr
     THEN exec' = "COMPLETED" /\ asserts' = IF failedAssertion THEN "FAIL" ELSE "PASS"
     ELSE UNCHANGED asserts /\ exec' = IF parent = "cancelled" THEN "CANCELLED" ELSE exec
  /\ UNCHANGED <<step, guest, runErr, cleanup, saved, failedAssertion, ctx, recorder, outside,
                 dead, anomaly>>

Decide ==
  /\ pc = "joining" /\ monitor = "stopped"
  /\ pc' = "clean"
  /\ runErr' = (runErr \/ vmm = "exited")
  /\ IF ~runErr'
     THEN exec' = "COMPLETED" /\ asserts' = IF failedAssertion THEN "FAIL" ELSE "PASS"
     ELSE UNCHANGED asserts /\ exec' = IF parent = "cancelled" THEN "CANCELLED" ELSE exec
  /\ UNCHANGED <<step, guest, cleanup, saved, failedAssertion, ctx, recorder, outside, dead,
                 anomaly>>

-----------------------------------------------------------------------------
(* Cleanup.  An error here turns COMPLETED into ERROR and nothing else.    *)

Degrade == exec' = IF exec = "COMPLETED" THEN "ERROR" ELSE exec

\* Stage CLEANING, and FINISHED later: saveManifest and an event.
Stage(here, next) ==
  /\ pc = here /\ pc' = next
  /\ \/ Recorded(1) /\ UNCHANGED exec
     \/ (NotRecorded \/ Unrecorded) /\ Degrade
  /\ UNCHANGED <<step, runErr, guest, asserts, cleanup, saved, failedAssertion, outside, dead,
                 anomaly>>

\* The shutdown call needs a VMM that is still up.
ShutdownGuest ==
  /\ pc = "shutdown" /\ pc' = "stop"
  /\ IF guest
     THEN (vmm = "up" /\ UNCHANGED exec) \/ Degrade
     ELSE UNCHANGED exec
  /\ UNCHANGED <<step, runErr, guest, asserts, cleanup, saved, failedAssertion, ctx, recorder,
                 outside, dead, anomaly>>

\* Process.Stop returns nil only for a reaped VMM.
StopVMM ==
  /\ pc = "stop" /\ pc' = "observe"
  /\ \/ vmm' = "exited" /\ dead' = TRUE
     \/ UNCHANGED <<vmm, dead>>
  /\ UNCHANGED <<step, runErr, guest, report, ctx, recorder, parent, early, monitor, anomaly>>

ObserveEnd ==
  /\ pc = "observe" /\ pc' = "remove"
  /\ \/ Observed /\ Recorded(1) /\ UNCHANGED exec
     \/ Observed /\ (NotRecorded \/ Unrecorded) /\ Degrade
     \/ Anomalous /\ Degrade
  /\ UNCHANGED <<step, runErr, guest, asserts, cleanup, saved, failedAssertion, outside, dead>>

RemoveRuntime ==
  /\ pc = "remove" /\ pc' = "finish"
  /\ cleanup' \in IF dead THEN {"COMPLETE", cleanup} ELSE {cleanup}
  /\ UNCHANGED <<step, runErr, guest, exec, asserts, saved, failedAssertion, ctx, recorder,
                 outside, dead, anomaly>>

\* Recorder.Close: a file that cannot be synced is an error, of this call only.
CloseRecorder ==
  /\ pc = "close" /\ pc' = "check"
  /\ closed' = TRUE
  /\ \/ UNCHANGED <<exec, lost>>
     \/ lost' = TRUE /\ Degrade
  /\ UNCHANGED <<step, runErr, guest, asserts, cleanup, saved, failedAssertion, ctx, recErr,
                 used, outside, dead, anomaly>>

CheckRecorder ==
  /\ pc = "check" /\ pc' = "cancel"
  /\ IF recErr THEN Degrade ELSE UNCHANGED exec
  /\ UNCHANGED <<step, runErr, guest, asserts, cleanup, saved, failedAssertion, ctx, recorder,
                 outside, dead, anomaly>>

\* Faulty variant: only a run that failed is looked at for a late cancellation.
LateCancelOnlyErrors ==
  /\ pc = "cancel" /\ pc' = "publish"
  /\ exec' = IF parent = "cancelled" /\ exec = "ERROR" THEN "CANCELLED" ELSE exec
  /\ UNCHANGED <<step, runErr, guest, asserts, cleanup, saved, failedAssertion, ctx, recorder,
                 outside, dead, anomaly>>

LateCancel ==
  /\ pc = "cancel" /\ pc' = "publish"
  /\ exec' = IF parent = "cancelled" THEN "CANCELLED" ELSE exec
  /\ UNCHANGED <<step, runErr, guest, asserts, cleanup, saved, failedAssertion, ctx, recorder,
                 outside, dead, anomaly>>

\* Final: the reserved space is not part of the quota; the write may fail.
Publish ==
  /\ pc = "publish" /\ pc' = "done"
  /\ \/ saved' = TRUE /\ UNCHANGED exec
     \/ Degrade /\ UNCHANGED saved
  /\ UNCHANGED <<step, runErr, guest, asserts, cleanup, failedAssertion, ctx, recorder, outside,
                 dead, anomaly>>

Engine ==
  \/ Boot \/ BeginStep \/ SendCall \/ StepFails \/ StepAnswered \/ JudgeStep
  \/ EndSteps \/ CheckContext \/ Collect \/ CloseMonitor \/ Decide
  \/ Stage("clean", "shutdown") \/ ShutdownGuest \/ StopVMM \/ ObserveEnd \/ RemoveRuntime
  \/ Stage("finish", "close") \/ CloseRecorder \/ CheckRecorder \/ LateCancel \/ Publish

-----------------------------------------------------------------------------
(* The world outside.                                                      *)

\* The VMM dies, powers off, or is stopped because the context ended.
VMMExits ==
  /\ vmm = "up" /\ vmm' = "exited"
  /\ UNCHANGED <<pc, step, runErr, guest, report, ctx, recorder, parent, early, monitor, dead,
                 anomaly>>

\* The operator interrupts the CLI.  A context keeps the reason for which it ended first: an
\* interrupt after ParentDeadline changes nothing.
Cancel ==
  /\ parent = "live" /\ parent' = "cancelled"
  /\ EndContext("cancelled")
  /\ early' = (pc \notin {"publish", "done"})
  /\ UNCHANGED <<pc, step, runErr, guest, report, recorder, vmm, monitor, dead, anomaly>>

\* The CLI's own ten minutes are over; they started before the run's and may end during
\* its steps or its cleanup.
ParentDeadline ==
  /\ parent = "live" /\ parent' = "expired"
  /\ EndContext("expired")
  /\ UNCHANGED <<pc, step, runErr, guest, report, recorder, early, vmm, monitor, dead, anomaly>>

\* The scenario's timeout.
Deadline ==
  /\ ctx = "live" /\ ctx' = "expired"
  /\ UNCHANGED <<pc, step, runErr, guest, report, recorder, outside, dead, anomaly>>

Next == Engine \/ Monitor \/ Log \/ VMMExits \/ Cancel \/ ParentDeadline \/ Deadline

Spec == Init /\ [][Next]_vars

\* Every wait of the engine has a deadline, and the monitor's select is never starved.
FairSpec == Spec /\ WF_vars(Engine) /\ WF_vars(Monitor)

-----------------------------------------------------------------------------
(* Properties.                                                             *)

\* The report's three dimensions, the contexts and the recorder have their types; the
\* evidence never exceeds its quota.
TypeOK ==
  /\ pc \in {"boot", "step", "send", "call", "judge", "context", "collect", "join", "joining",
             "clean", "shutdown", "stop", "observe", "remove", "finish", "close", "check",
             "cancel", "publish", "done"}
  /\ step \in 0..Steps /\ used \in 0..Quota
  /\ exec \in {"ERROR", "COMPLETED", "CANCELLED"}
  /\ asserts \in {"NOT_EVALUATED", "PASS", "FAIL"}
  /\ cleanup \in {"INCOMPLETE", "COMPLETE"}
  /\ {parent, ctx} \subseteq {"live", "cancelled", "expired"}
  /\ vmm \in {"up", "exited"} /\ monitor \in {"watching", "stopped"}
  /\ {runErr, guest, saved, failedAssertion, recErr, closed, dead, lost, anomaly, early}
       \subseteq BOOLEAN

\* Report.ExitCode with the CLI's rule that a report must have been saved.
ExitZero ==
  pc = "done" /\ saved /\ cleanup = "COMPLETE" /\ exec = "COMPLETED" /\ asserts = "PASS"

\* Exit code 0 stands for a complete experiment: every step was answered and judged and no
\* assertion failed, no record and no byte of the VMM's log was dropped at any time, no
\* observation of the host clocks was anomalous, and the VMM is reaped.
PassIsBacked ==
  ExitZero => /\ step = Steps /\ ~failedAssertion
              /\ ~lost /\ ~anomaly
              /\ vmm = "exited" /\ dead

\* A run is reported as CANCELLED exactly when the operator interrupted it at any point up to
\* Run's last look at the caller's context, during cleanup included, and before the CLI's ten
\* minutes were over: whatever else failed does not hide the interrupt, and neither deadline
\* is taken for one.
CancellationIsReported ==
  /\ exec = "CANCELLED" => early
  /\ pc = "done" /\ early => exec = "CANCELLED"

\* "Overall assertions remain NOT_EVALUATED for an unfinished experiment" (docs/evidence.md):
\* a verdict on the assertions needs every step done, the guest reached, and a VMM that was
\* still there after the last step.
UnfinishedIsNotEvaluated ==
  [][asserts' # asserts => step = Steps /\ ~runErr /\ guest /\ vmm = "up"]_vars

Executing == {"boot", "step", "send", "call", "judge", "context", "collect"}
Deciding  == Executing \cup {"join", "joining"}
AfterObserveEnd == {"remove", "finish", "close", "check", "cancel", "publish", "done"}

\* What the report claims so far is backed by what happened so far; the strengthening that
\* makes the properties above inductive.
BackedInv ==
  /\ pc \in Executing => ~runErr
  /\ pc \in Deciding => exec = "ERROR" /\ asserts = "NOT_EVALUATED"
  /\ pc \in Executing \ {"boot"} => guest
  /\ pc \in {"context", "collect"} => step = Steps
  /\ pc \in {"send", "call", "judge"} => step < Steps
  /\ pc \in {"join", "joining"} /\ ~runErr => step = Steps /\ guest
  /\ pc \in Deciding /\ ~runErr => ~anomaly
  /\ exec = "COMPLETED" => step = Steps /\ ~anomaly
  /\ asserts = "PASS" => ~failedAssertion
  /\ lost /\ ~closed => recErr
  /\ closed <=> pc \in {"check", "cancel", "publish", "done"}
  /\ exec = "COMPLETED" /\ dead /\ pc \in AfterObserveEnd => ~lost
  /\ dead => vmm = "exited"
  /\ cleanup = "COMPLETE" => dead
  /\ early => parent = "cancelled"
  /\ parent = "cancelled" /\ pc \notin {"publish", "done"} => early
  /\ pc \in {"publish", "done"} /\ early => exec = "CANCELLED"
  /\ exec = "CANCELLED" => early

\* The inductive invariant: types, and a report that never claims more than what happened.
IInv == TypeOK /\ BackedInv

\* The run ends, whatever the guest, the VMM and the disk do.
RunEnds == <>(pc = "done")
=============================================================================
