-------------------------- MODULE RunVerdictProofs --------------------------
(***************************************************************************)
(* The properties of RunVerdict for any number of steps and any quota.     *)
(***************************************************************************)
EXTENDS RunVerdict, TLAPS

\* A run starts with an empty report that claims nothing.
LEMMA InitInv == Init => IInv
<1> SUFFICES ASSUME Init PROVE IInv
  BY SMTT(60)
<1>1. TypeOK
  <2>1. step \in 0..Steps /\ used \in 0..Quota
    BY VerdictAssumption, SMTT(60) DEF Init
  <2> QED
    BY <2>1, Zenon DEF Init, TypeOK
<1>2. BackedInv
  BY SMTT(60) DEF Init, BackedInv, Deciding, Executing, AfterObserveEnd
<1> QED
  BY <1>1, <1>2, SMTT(60) DEF IInv

\* What the recorder's variables and the context hold.
RecorderType ==
  /\ used \in 0..Quota /\ ctx \in {"live", "cancelled", "expired"}
  /\ {recErr, closed, lost} \subseteq BOOLEAN

\* Whether records are written, dropped or not attempted, the recorder keeps its types and
\* the evidence its quota.
LEMMA RecorderStep ==
  ASSUME TypeOK
  PROVE  /\ \A n \in Nat : Recorded(n) => RecorderType'
         /\ NotRecorded => RecorderType'
         /\ Unrecorded => RecorderType'
<1>1. ASSUME NEW n \in Nat, Recorded(n) PROVE RecorderType'
  <2>1. used' \in 0..Quota
    BY <1>1, VerdictAssumption, SMTT(60) DEF Recorded, TypeOK
  <2> QED
    BY <1>1, <2>1, Zenon DEF Recorded, TypeOK, RecorderType
<1>2. ASSUME NotRecorded PROVE RecorderType'
  BY <1>2, ZenonT(120) DEF NotRecorded, failLocked, EndContext, TypeOK, RecorderType
<1>3. ASSUME Unrecorded PROVE RecorderType'
  BY <1>3, ZenonT(120) DEF Unrecorded, recorder, TypeOK, RecorderType
<1> QED
  BY <1>1, <1>2, <1>3, SMTT(60)

\* Every step keeps the types, and the evidence within its quota.
LEMMA TypeStep == IInv /\ [Next]_vars => TypeOK'
<1> SUFFICES ASSUME IInv, [Next]_vars PROVE TypeOK'
  BY SMTT(60)
<1> USE DEF IInv, TypeOK, report, recorder, outside
<1>1. CASE Boot
  <2>1. RecorderType'
    BY <1>1, RecorderStep, SMTT(60) DEF Boot, Fail, Proceed, Unrecorded
  <2> QED
    BY <1>1, <2>1, ZenonT(120) DEF Boot, Fail, Proceed, Unrecorded, RecorderType
<1>2. CASE BeginStep
  <2>1. RecorderType'
    BY <1>2, RecorderStep, SMTT(60) DEF BeginStep, RecordStep, Fail, Proceed, Observed, Anomalous,
       Unrecorded
  <2> QED
    BY <1>2, <2>1, ZenonT(120) DEF BeginStep, RecordStep, Fail, Proceed, Observed, Anomalous,
       Unrecorded, RecorderType
<1>3. CASE SendCall
  BY <1>3, ZenonT(120) DEF SendCall, Fail, Proceed
<1>4. CASE StepFails
  <2>1. RecorderType'
    BY <1>4, RecorderStep, SMTT(60) DEF StepFails, Fail, Observed, Anomalous
  <2> QED
    BY <1>4, <2>1, ZenonT(120) DEF StepFails, Fail, Observed, Anomalous, RecorderType
<1>5. CASE StepAnswered
  BY <1>5, SMTT(60) DEF StepAnswered, Proceed
<1>6. CASE JudgeStep
  <2>1. RecorderType'
    BY <1>6, RecorderStep, SMTT(60) DEF JudgeStep, RecordStep, Fail, Proceed, Observed, Anomalous,
       Unrecorded
  <2>2. step' \in 0..Steps
    BY <1>6, VerdictAssumption, SMTT(60) DEF JudgeStep, BackedInv
  <2>3. pc' \in {"join", "step"} /\ runErr' \in BOOLEAN /\ anomaly' \in BOOLEAN
    BY <1>6, ZenonT(120) DEF JudgeStep, RecordStep, Fail, Proceed, Observed, Anomalous
  <2> QED
    BY <1>6, <2>1, <2>2, <2>3, ZenonT(120) DEF JudgeStep, RecorderType
<1>7. CASE EndSteps
  <2>1. RecorderType'
    BY <1>7, RecorderStep, SMTT(60) DEF EndSteps, RecordStep, Fail, Proceed, Observed, Anomalous,
       Unrecorded
  <2> QED
    BY <1>7, <2>1, ZenonT(120) DEF EndSteps, RecordStep, Fail, Proceed, Observed, Anomalous,
       Unrecorded, RecorderType
<1>8. CASE CheckContext
  BY <1>8, ZenonT(120) DEF CheckContext, Fail, Proceed
<1>9. CASE Collect
  <2>1. RecorderType'
    BY <1>9, RecorderStep, SMTT(60) DEF Collect, Fail, Proceed, Unrecorded
  <2> QED
    BY <1>9, <2>1, ZenonT(120) DEF Collect, Fail, Proceed, Unrecorded, RecorderType
<1>10. CASE CloseMonitor
  BY <1>10, SMTT(60) DEF CloseMonitor, Proceed
<1>11. CASE Decide
  BY <1>11, SMTT(60) DEF Decide
<1>12. CASE Stage("clean", "shutdown")
  <2>1. RecorderType'
    BY <1>12, RecorderStep, SMTT(60) DEF Stage, Degrade, Unrecorded
  <2> QED
    BY <1>12, <2>1, SMTT(60) DEF Stage, Degrade, Unrecorded, RecorderType
<1>13. CASE ShutdownGuest
  BY <1>13, SMTT(60) DEF ShutdownGuest, Degrade
<1>14. CASE StopVMM
  BY <1>14, ZenonT(120) DEF StopVMM
<1>15. CASE ObserveEnd
  <2>1. RecorderType'
    BY <1>15, RecorderStep, SMTT(60) DEF ObserveEnd, Degrade, Observed, Anomalous, Unrecorded
  <2> QED
    BY <1>15, <2>1, ZenonT(120) DEF ObserveEnd, Degrade, Observed, Anomalous, Unrecorded,
       RecorderType
<1>16. CASE RemoveRuntime
  BY <1>16, SMTT(60) DEF RemoveRuntime
<1>17. CASE Stage("finish", "close")
  <2>1. RecorderType'
    BY <1>17, RecorderStep, SMTT(60) DEF Stage, Degrade, Unrecorded
  <2> QED
    BY <1>17, <2>1, SMTT(60) DEF Stage, Degrade, Unrecorded, RecorderType
<1>18. CASE CloseRecorder
  BY <1>18, ZenonT(120) DEF CloseRecorder, Degrade
<1>19. CASE CheckRecorder
  BY <1>19, SMTT(60) DEF CheckRecorder, Degrade
<1>20. CASE LateCancel
  BY <1>20, SMTT(60) DEF LateCancel
<1>21. CASE Publish
  BY <1>21, ZenonT(120) DEF Publish, Degrade
<1>22. CASE Monitor
  BY <1>22, SMTT(60) DEF Monitor, EndContext
<1>23. CASE Log
  <2>1. RecorderType'
    BY <1>23, RecorderStep, SMTT(60) DEF Log
  <2> QED
    BY <1>23, <2>1, SMTT(60) DEF Log, RecorderType
<1>24. CASE VMMExits
  BY <1>24, SMTT(60) DEF VMMExits
<1>25. CASE Cancel
  BY <1>25, SMTT(60) DEF Cancel, EndContext
<1>26. CASE Deadline
  BY <1>26, SMTT(60) DEF Deadline
<1>27. CASE ParentDeadline
  BY <1>27, SMTT(60) DEF ParentDeadline, EndContext
<1>28. CASE UNCHANGED vars
  BY <1>28, SMTT(60) DEF vars
<1> QED
  BY <1>1, <1>2, <1>3, <1>4, <1>5, <1>6, <1>7, <1>8, <1>9, <1>10, <1>11, <1>12, <1>13, <1>14,
     <1>15, <1>16, <1>17, <1>18, <1>19, <1>20, <1>21, <1>22, <1>23, <1>24, <1>25, <1>26, <1>27,
     <1>28, ZenonT(120) DEF Next, Engine

\* No step lets the report claim more than what happened.
LEMMA BackedStep == IInv /\ [Next]_vars => BackedInv'
<1> SUFFICES ASSUME IInv, [Next]_vars PROVE BackedInv'
  BY SMTT(60)
<1> USE VerdictAssumption DEF IInv, TypeOK, BackedInv, Deciding, Executing, AfterObserveEnd,
    report, recorder, outside
<1>1. CASE Boot
  BY <1>1, SMTT(60) DEF Boot, Fail, Proceed, Unrecorded, Recorded, NotRecorded, failLocked,
     EndContext
<1>2. CASE BeginStep
  BY <1>2, SMTT(60) DEF BeginStep, RecordStep, Fail, Proceed, Observed, Anomalous, Unrecorded,
     Recorded,
     NotRecorded, failLocked, EndContext
<1>3. CASE SendCall
  BY <1>3, SMTT(60) DEF SendCall, Fail, Proceed
<1>4. CASE StepFails
  BY <1>4, SMTT(60) DEF StepFails, Fail, Observed, Anomalous, Recorded, NotRecorded, failLocked,
     EndContext
<1>5. CASE StepAnswered
  BY <1>5, SMTT(60) DEF StepAnswered, Proceed
<1>6. CASE JudgeStep
  BY <1>6, SMTT(60) DEF JudgeStep, RecordStep, Fail, Proceed, Observed, Anomalous, Unrecorded,
     Recorded,
     NotRecorded, failLocked, EndContext
<1>7. CASE EndSteps
  BY <1>7, SMTT(60) DEF EndSteps, RecordStep, Fail, Proceed, Observed, Anomalous, Unrecorded,
     Recorded,
     NotRecorded, failLocked, EndContext
<1>8. CASE CheckContext
  BY <1>8, SMTT(60) DEF CheckContext, Fail, Proceed
<1>9. CASE Collect
  BY <1>9, SMTT(60) DEF Collect, Fail, Proceed, Unrecorded, Recorded, NotRecorded, failLocked,
     EndContext
<1>10. CASE CloseMonitor
  BY <1>10, SMTT(60) DEF CloseMonitor, Proceed
<1>11. CASE Decide
  BY <1>11, SMTT(60) DEF Decide
<1>12. CASE Stage("clean", "shutdown")
  BY <1>12, SMTT(60) DEF Stage, Degrade, Unrecorded, Recorded, NotRecorded, failLocked, EndContext
<1>13. CASE ShutdownGuest
  BY <1>13, SMTT(60) DEF ShutdownGuest, Degrade
<1>14. CASE StopVMM
  BY <1>14, SMTT(60) DEF StopVMM
<1>15. CASE ObserveEnd
  BY <1>15, SMTT(60) DEF ObserveEnd, Degrade, Observed, Anomalous, Unrecorded, Recorded,
     NotRecorded,
     failLocked, EndContext
<1>16. CASE RemoveRuntime
  BY <1>16, SMTT(60) DEF RemoveRuntime
<1>17. CASE Stage("finish", "close")
  BY <1>17, SMTT(60) DEF Stage, Degrade, Unrecorded, Recorded, NotRecorded, failLocked, EndContext
<1>18. CASE CloseRecorder
  BY <1>18, SMTT(60) DEF CloseRecorder, Degrade
<1>19. CASE CheckRecorder
  BY <1>19, SMTT(60) DEF CheckRecorder, Degrade
<1>20. CASE LateCancel
  BY <1>20, SMTT(60) DEF LateCancel
<1>21. CASE Publish
  BY <1>21, SMTT(60) DEF Publish, Degrade
<1>22. CASE Monitor
  BY <1>22, SMTT(60) DEF Monitor, EndContext
<1>23. CASE Log
  BY <1>23, SMTT(60) DEF Log, Recorded, NotRecorded, failLocked, EndContext
<1>24. CASE VMMExits
  BY <1>24, SMTT(60) DEF VMMExits
<1>25. CASE Cancel
  <2>1. exec # "CANCELLED"
    BY <1>25, ZenonT(120) DEF Cancel
  <2>2. CASE pc \in {"publish", "done"}
    <3>1. early' = FALSE
      BY <1>25, <2>2, ZenonT(120) DEF Cancel
    <3> QED
      BY <1>25, <2>1, <2>2, <3>1, ZenonT(120) DEF Cancel
  <2>3. CASE pc \notin {"publish", "done"}
    <3>1. early' = TRUE
      BY <1>25, <2>3, ZenonT(120) DEF Cancel
    <3> QED
      BY <1>25, <2>1, <2>3, <3>1, ZenonT(120) DEF Cancel
  <2> QED
    BY <2>2, <2>3, ZenonT(120)
<1>26. CASE Deadline
  BY <1>26, SMTT(60) DEF Deadline
<1>27. CASE ParentDeadline
  BY <1>27, SMTT(60) DEF ParentDeadline, EndContext
<1>28. CASE UNCHANGED vars
  BY <1>28, SMTT(60) DEF vars
<1> QED
  BY <1>1, <1>2, <1>3, <1>4, <1>5, <1>6, <1>7, <1>8, <1>9, <1>10, <1>11, <1>12, <1>13, <1>14,
     <1>15, <1>16, <1>17, <1>18, <1>19, <1>20, <1>21, <1>22, <1>23, <1>24, <1>25, <1>26, <1>27,
     <1>28, ZenonT(120) DEF Next, Engine

\* The inductive invariant holds for every plan and every quota.
THEOREM Invariance == Spec => []IInv
<1>1. IInv /\ [Next]_vars => IInv'
  BY TypeStep, BackedStep, SMTT(60) DEF IInv
<1> QED
  BY InitInv, <1>1, PTL DEF Spec

\* Exit code 0 stands for a complete experiment, whatever happens beside the engine.
THEOREM PassBacked == Spec => []PassIsBacked
<1>1. IInv => PassIsBacked
  BY SMTT(60) DEF IInv, TypeOK, BackedInv, PassIsBacked, ExitZero, AfterObserveEnd
<1> QED
  BY Invariance, <1>1, PTL

\* CANCELLED is reported exactly for the runs that the operator interrupted before Run's last
\* look at the caller's context and before the CLI's own deadline.
THEOREM CancellationReported == Spec => []CancellationIsReported
<1>1. IInv => CancellationIsReported
  BY SMTT(60) DEF IInv, BackedInv, CancellationIsReported
<1> QED
  BY Invariance, <1>1, PTL

\* The assertions of an unfinished experiment stay NOT_EVALUATED.
THEOREM NotEvaluated == Spec => UnfinishedIsNotEvaluated
<1> DEFINE A == asserts' # asserts => step = Steps /\ ~runErr /\ guest /\ vmm = "up"
<1>1. IInv /\ [Next]_vars => [A]_vars
  <2> SUFFICES ASSUME IInv, [Next]_vars, asserts' # asserts
               PROVE  step = Steps /\ ~runErr /\ guest /\ vmm = "up"
    BY SMTT(20) DEF vars
  <2>1. Decide
    BY ZenonT(120) DEF Next, Engine, vars, report, outside, Boot, BeginStep, SendCall, StepFails,
       StepAnswered, JudgeStep, EndSteps, CheckContext, Collect, CloseMonitor, Stage,
       ShutdownGuest, StopVMM, ObserveEnd, RemoveRuntime, CloseRecorder, CheckRecorder,
       LateCancel, Publish, Monitor, Log, VMMExits, Cancel, ParentDeadline,
       Deadline
  <2> QED
    BY <2>1, SMTT(60) DEF Decide, IInv, TypeOK, BackedInv
<1> QED
  BY Invariance, <1>1, PTL DEF Spec, UnfinishedIsNotEvaluated
=============================================================================
