--------------------------- MODULE VMMStopProofs ---------------------------
(***************************************************************************)
(* VMMStop's invariants for any number of callers.  IInv is inductive: one *)
(* lemma per group of actions, and under it one step per action.           *)
(***************************************************************************)
EXTENDS VMMStop, TLAPS

\* The initial state satisfies the invariant.
LEMMA InitIInv == Init => IInv
<1> SUFFICES ASSUME Init PROVE IInv
  OBVIOUS
<1> USE CallersAssumption DEF Init
<1>1. TypeOK
  BY ZenonT(120) DEF TypeOK
<1>2. ChildInv
  BY DEF ChildInv, FailedStartIsClean
<1>3. StopInv
  BY DEF StopInv, KillIsRequested, Published
<1>4. RecoveryInv
  BY DEF RecoveryInv, NoStraySignal
<1> QED BY <1>1, <1>2, <1>3, <1>4 DEF IInv

\* The starting goroutine: it is the only one that reaps while the controller lives.
LEMMA StarterStep ==
  ASSUME IInv, StartFails \/ StartChild \/ Starter
  PROVE  IInv'
<1> USE SMTT(60)
<1> USE DEF IInv, TypeOK, ChildInv, StopInv, RecoveryInv, FailedStartIsClean, KillIsRequested,
            NoStraySignal, Published, process, starter, stopping, recovery
<1>1. CASE StartFails
  BY <1>1 DEF StartFails
<1>2. CASE StartChild
  BY <1>2 DEF StartChild
<1>3. CASE Publish
  BY <1>3 DEF Publish
<1>4. CASE DiscardChild
  BY <1>4 DEF DiscardChild, SignalHandle, Stronger
<1>5. CASE Wait
  BY <1>5 DEF Wait
<1>6. CASE CloseDone
  BY <1>6 DEF CloseDone
<1> HIDE DEF IInv
<1> QED BY <1>1, <1>2, <1>3, <1>4, <1>5, <1>6, ZenonT(120) DEF Starter

\* Stop's callers: success is copied from a closed channel, the error of p.stop is
\* copied only once p.stop has returned it.
LEMMA CallerStep ==
  ASSUME IInv, NEW c \in Callers,
         CallStop(c) \/ StopOnce(c) \/ StopReturns(c) \/ ContextEnds(c)
  PROVE  IInv'
<1> USE SMTT(60)
<1> USE CallersAssumption
    DEF IInv, TypeOK, ChildInv, StopInv, RecoveryInv, FailedStartIsClean, KillIsRequested,
        NoStraySignal, Published, process, starter, stopping, recovery
<1>1. CASE CallStop(c)
  BY <1>1 DEF CallStop
<1>2. CASE StopOnce(c)
  BY <1>2 DEF StopOnce
<1>3. CASE StopReturns(c)
  BY <1>3 DEF StopReturns
<1>4. CASE ContextEnds(c)
  BY <1>4 DEF ContextEnds
<1> QED BY <1>1, <1>2, <1>3, <1>4

\* p.stop: an error leaves it only after a KILL or a refused signal.
LEMMA PStopStep ==
  ASSUME IInv, PStop
  PROVE  IInv'
<1> USE SMTT(60)
<1> USE DEF IInv, TypeOK, ChildInv, StopInv, RecoveryInv, FailedStartIsClean, KillIsRequested,
            NoStraySignal, Published, process, starter, stopping, recovery
<1>1. CASE StopChecks
  BY <1>1 DEF StopChecks, StopFinishes
<1>2. CASE Terminate
  <2>1. CASE SignalRefused
    BY <1>2, <2>1 DEF Terminate, SignalRefused, StopFinishes
  <2>2. CASE SignalHandle("TERM") /\ kpc' = "grace" /\ UNCHANGED <<stopErr, refused>>
    <3>1. TypeOK' /\ ChildInv'
      BY <1>2, <2>2 DEF Terminate, SignalHandle, Stronger
    <3>2. StopInv'
      BY <1>2, <2>2 DEF Terminate, SignalHandle, Stronger
    <3>3. RecoveryInv'
      BY <1>2, <2>2 DEF Terminate, SignalHandle, Stronger
    <3> QED BY <3>1, <3>2, <3>3 DEF IInv
  <2> QED BY <1>2, <2>1, <2>2 DEF Terminate
<1>3. CASE Grace
  BY <1>3, SMTT(60) DEF Grace, StopFinishes
<1>4. CASE Kill
  <2>1. CASE SignalRefused
    BY <1>4, <2>1 DEF Kill, SignalRefused, StopFinishes
  <2>2. CASE SignalHandle("KILL") /\ kpc' = "reap" /\ UNCHANGED <<stopErr, refused>>
    <3>1. TypeOK' /\ ChildInv'
      BY <1>4, <2>2 DEF Kill, SignalHandle, Stronger
    <3>2. StopInv'
      BY <1>4, <2>2 DEF Kill, SignalHandle, Stronger
    <3>3. RecoveryInv'
      BY <1>4, <2>2 DEF Kill, SignalHandle, Stronger
    <3> QED BY <3>1, <3>2, <3>3 DEF IInv
  <2> QED BY <1>4, <2>1, <2>2 DEF Kill
<1>5. CASE AwaitReaping
  BY <1>5 DEF AwaitReaping, StopFinishes
<1> HIDE DEF IInv
<1> QED BY <1>1, <1>2, <1>3, <1>4, <1>5, ZenonT(120) DEF PStop

\* StopOwned: it signals only behind an inspection that followed pidfd_open.
LEMMA RecoveryStep ==
  ASSUME IInv, StopOwned
  PROVE  IInv'
<1> USE DEF IInv, TypeOK, ChildInv, StopInv, RecoveryInv, FailedStartIsClean, KillIsRequested,
            NoStraySignal, Published, process, starter, stopping, recovery,
            Inspect, SignalFd, Stronger
<1>1. CASE BeginRecovery
  BY <1>1, SMTT(60) DEF BeginRecovery
<1>2. CASE OpenFd
  BY <1>2, SMTT(60) DEF OpenFd
<1>3. CASE Recheck
  BY <1>3, SMTT(60) DEF Recheck
<1>4. CASE RecoveryTerm
  BY <1>4, SMTT(60) DEF RecoveryTerm
<1>5. CASE Poll
  <2>1. sig' \in {"none", "TERM", "KILL"} /\ hit' \in BOOLEAN /\ rpc' \in {"poll", "nil", "error"}
    BY <1>5, SMTT(60) DEF Poll
  <2>2. killed' = killed \/ killed' = TRUE
    BY <1>5, SMTT(60) DEF Poll
  <2>3. killed' \in BOOLEAN
    BY <2>2, ZenonT(120)
  <2>4. UNCHANGED <<child, reused, starter, stopping, fd, rctx>>
    BY <1>5, SMTT(60) DEF Poll
  <2>5. TypeOK'
    BY <2>1, <2>4, <2>3, SMTT(60)
  <2>6. ChildInv'
    BY <1>5, SMTT(60) DEF Poll
  <2>7. StopInv'
    BY <1>5, SMTT(60) DEF Poll
  <2>8. RecoveryInv'
    BY <1>5, SMTT(60) DEF Poll
  <2> QED BY <2>5, <2>6, <2>7, <2>8, SMTT(60)
<1>6. CASE RecoveryContextEnds
  BY <1>6, SMTT(60) DEF RecoveryContextEnds
<1> HIDE DEF IInv
<1> QED BY <1>1, <1>2, <1>3, <1>4, <1>5, <1>6, ZenonT(120) DEF StopOwned

\* The death of the controller keeps the types.
LEMMA ControllerDiesType == TypeOK /\ ControllerDies => TypeOK'
<1>1. TypeOK /\ ControllerDies => sig' \in {"none", "TERM", "KILL"}
  BY DEF TypeOK, ControllerDies
<1> QED BY <1>1, ZenonT(120) DEF TypeOK, ControllerDies, stopping, recovery

\* The kernel, the run's context and the death of the controller.
LEMMA EnvironmentStep ==
  ASSUME IInv,
         VMMExits \/ RunContextEnds \/ ThreadExits \/ ControllerDies \/ InitReaps \/ ReusePID
  PROVE  IInv'
<1> USE SMTT(60)
<1> USE DEF IInv, TypeOK, ChildInv, StopInv, RecoveryInv, FailedStartIsClean, KillIsRequested,
            NoStraySignal, Published, process, starter, stopping, recovery
<1>1. CASE VMMExits
  BY <1>1 DEF VMMExits
<1>2. CASE RunContextEnds
  BY <1>2 DEF RunContextEnds
<1>3. CASE ThreadExits
  BY <1>3, SMTT(60) DEF ThreadExits
<1>4. CASE ControllerDies
  <2>1. TypeOK'
    BY <1>4, ControllerDiesType
  <2>2. ChildInv'
    BY <1>4 DEF ControllerDies
  <2>3. StopInv'
    BY <1>4 DEF ControllerDies
  <2>4. RecoveryInv'
    BY <1>4 DEF ControllerDies
  <2> QED BY <2>1, <2>2, <2>3, <2>4, ZenonT(120)
<1>5. CASE InitReaps
  BY <1>5, SMTT(60) DEF InitReaps
<1>6. CASE ReusePID
  BY <1>6 DEF ReusePID
<1> HIDE DEF IInv
<1> QED BY <1>1, <1>2, <1>3, <1>4, <1>5, <1>6, ZenonT(120)

\* The invariant is inductive, with any number of goroutines calling Stop.
THEOREM StopInvariant == Spec => []IInv
<1>1. IInv /\ [Next]_vars => IInv'
  <2> SUFFICES ASSUME IInv, [Next]_vars PROVE IInv'
    BY ZenonT(120)
  <2>1. CASE UNCHANGED vars
    BY <2>1, SMTT(60)
    DEF vars, process, starter, stopping, recovery, IInv, TypeOK, ChildInv, StopInv, RecoveryInv,
        FailedStartIsClean, KillIsRequested, NoStraySignal, Published
  <2>2. CASE Next
    BY <2>2, StarterStep, CallerStep, PStopStep, RecoveryStep, EnvironmentStep DEF Next
  <2> QED BY <2>1, <2>2
<1> QED BY InitIInv, <1>1, PTL DEF Spec

\* What the engine and recovery rely on before they remove a disk: a nil of Stop or
\* of StopOwned is a dead VMM, and a failed start has left none.
THEOREM StopNilIsDeath == Spec => []StoppedMeansDead
<1>1. IInv => StoppedMeansDead
  BY DEF IInv, TypeOK, ChildInv, StopInv, RecoveryInv, FailedStartIsClean, StoppedMeansDead
<1> QED BY <1>1, StopInvariant, PTL

\* No signal of Stop or StopOwned reaches a process that was given the PID later.
THEOREM SignalsStayHome == Spec => []NoStraySignal
<1>1. IInv => NoStraySignal
  BY DEF IInv, RecoveryInv
<1> QED BY <1>1, StopInvariant, PTL

\* An error of the first caller's context, handed to another caller, comes after a
\* KILL, a death or a refused signal.
THEOREM ErrorsFollowKill == Spec => []BorrowedErrorKilled
<1>1. IInv => BorrowedErrorKilled
  BY DEF IInv, StopInv, BorrowedErrorKilled
<1> QED BY <1>1, StopInvariant, PTL

\* While the controller lives only Stop or a failed start kills the VMM, and a failed
\* start leaves none.
THEOREM KillsAndStarts == Spec => [](KillIsRequested /\ FailedStartIsClean)
<1>1. IInv => KillIsRequested /\ FailedStartIsClean
  BY DEF IInv, StopInv, ChildInv
<1> QED BY <1>1, StopInvariant, PTL
=============================================================================
