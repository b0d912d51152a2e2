-------------------------- MODULE OwnedGroupProofs --------------------------
(***************************************************************************)
(* Safety of the guest agent's process groups, for any number of children  *)
(* and any scan deadline.                                                  *)
(***************************************************************************)
EXTENDS OwnedGroup, TLAPS

USE GroupAssumption DEF Procs

\* A group signal keeps the states of the processes: it wakes, buries and frees nobody.
LEMMA SignalEffect ==
  ASSUME IInv, NEW sig, SignalNumber(sig), ~foreign
  PROVE  /\ proc' \in [Procs -> {"unborn", "running", "doomed", "dead"}]
         /\ \A p \in Procs : /\ Alive(p)' <=> Alive(p)
                             /\ proc'[p] = "dead" <=> proc[p] = "dead"
                             /\ proc'[p] = "unborn" <=> proc[p] = "unborn"
                             /\ proc'[p] = "running" => proc[p] = "running"
                             /\ sig = "KILL" => proc'[p] # "running"
         /\ struck' = struck
  BY DEF SignalNumber, IInv, TypeOK, Alive

\* The initial state satisfies the invariant.
LEMMA InitInv == Init => IInv
<1> SUFFICES ASSUME Init PROVE IInv
  OBVIOUS
<1>0. 0 \in 0..MaxScans
  OBVIOUS
<1>1. TypeOK
  BY <1>0, Zenon DEF Init, TypeOK
<1>2. GroupInv /\ NoForeignSignal /\ CleanTermination
  BY ZenonT(120) DEF Init, GroupInv, NoForeignSignal, CleanTermination, Alive, Reaped, Locked,
     Inside
<1> QED BY <1>1, <1>2 DEF IInv

\* Each step of the owning goroutine preserves the invariant.
LEMMA OwnerStep ==
  ASSUME IInv, Launch \/ Owner \/ ObserveFails
  PROVE  IInv'
<1> USE DEF IInv, TypeOK, GroupInv, NoForeignSignal, CleanTermination, Alive, Reaped, Locked, Inside,
            owner, caller
<1>1. CASE Launch
  BY <1>1 DEF Launch
<1>2. CASE ObserveExit \/ ObserveFails
  BY <1>2 DEF ObserveExit, ObserveFails
<1>3. CASE LockOwner
  BY <1>3 DEF LockOwner
<1>4. CASE KillGroup
  <2>1. ~foreign
    BY <1>4 DEF KillGroup
  <2>2. CASE SignalNumber("KILL") /\ rpc' = "scan" /\ UNCHANGED cleanupErr
    BY <1>4, <2>1, <2>2, SignalEffect DEF KillGroup
  <2>3. CASE rpc' = "mark" /\ cleanupErr' = TRUE /\ UNCHANGED <<proc, struck>>
    BY <1>4, <2>3 DEF KillGroup
  <2> QED BY <1>4, <2>2, <2>3, ZenonT(120) DEF KillGroup
<1>5. CASE ScanGroup
  <2>0. scans' \in 0..MaxScans
    BY <1>5 DEF ScanGroup
  <2>1. TypeOK'
    BY <1>5, <2>0, Zenon DEF ScanGroup
  <2>2. (\A p \in Procs : ~Alive(p)) \/ cleanupErr' \/ rpc' = "kill"
    BY <1>5 DEF ScanGroup
  <2>3. GroupInv'
    BY <1>5, <2>2 DEF ScanGroup
  <2> QED BY <1>5, <2>1, <2>3 DEF ScanGroup
<1>6. CASE KillLeader
  BY <1>6 DEF KillLeader
<1>7. CASE MarkReaping
  BY <1>7 DEF MarkReaping
<1>8. CASE WaitLeader
  BY <1>8, ZenonT(120) DEF WaitLeader
<1> QED BY <1>1, <1>2, <1>3, <1>4, <1>5, <1>6, <1>7, <1>8 DEF Owner

\* Each step of terminate preserves the invariant: it signals only under signalMu and
\* only while the leader cannot be reaped.
LEMMA CallerStep ==
  ASSUME IInv, Terminate \/ Caller
  PROVE  IInv'
<1> USE DEF IInv, TypeOK, GroupInv, NoForeignSignal, CleanTermination, Alive, Reaped, Locked, Inside,
            owner, caller
<1>1. CASE Terminate
  BY <1>1 DEF Terminate, Return, Outcome
<1>2. CASE EnterSignal("term", "terming", "grace") \/ EnterSignal("kill", "killing", "await")
  BY <1>2 DEF EnterSignal, Step
<1>3. ASSUME NEW sig, NEW inside \in Inside, NEW after \in {"grace", "await"},
             SendSignal(inside, sig, after)
      PROVE  IInv'
  <2>1. ~foreign
    BY <1>3 DEF SendSignal
  <2>2. CASE SignalNumber(sig) /\ Step(after)
    BY <1>3, <2>1, <2>2, SignalEffect DEF SendSignal, Step
  <2>3. CASE Return("error") /\ UNCHANGED <<proc, struck>>
    BY <1>3, <2>3 DEF SendSignal, Return
  <2> QED BY <1>3, <2>2, <2>3 DEF SendSignal
<1>4. CASE AwaitDone
  BY <1>4 DEF AwaitDone, Step, Return, Outcome
<1> QED BY <1>1, <1>2, <1>3, <1>4 DEF Caller, Escalate

\* Forks, exits and the reuse of a free number preserve the invariant.
LEMMA ProcessStep ==
  ASSUME IInv, ReuseNumber \/ \E p \in Procs : Fork(p) \/ Exit(p)
  PROVE  IInv'
<1> USE DEF IInv, TypeOK, GroupInv, NoForeignSignal, CleanTermination, Alive, Reaped, Locked, Inside,
            owner, caller
<1>1. CASE ReuseNumber
  BY <1>1 DEF ReuseNumber
<1>2. ASSUME NEW p \in Procs, Fork(p) PROVE IInv'
  BY <1>2 DEF Fork
<1>3. ASSUME NEW p \in Procs, Exit(p) PROVE IInv'
  BY <1>3 DEF Exit
<1> QED BY <1>1, <1>2, <1>3

\* The group invariant holds in every state.
THEOREM GroupInvariance == Spec => []IInv
<1>1. IInv /\ [Next]_vars => IInv'
  <2> SUFFICES ASSUME IInv, [Next]_vars PROVE IInv'
    OBVIOUS
  <2>1. CASE UNCHANGED vars
    BY <2>1 DEF vars, owner, caller, IInv, TypeOK, GroupInv, NoForeignSignal, CleanTermination,
                Alive, Reaped, Locked, Inside
  <2> QED BY <2>1, OwnerStep, CallerStep, ProcessStep DEF Next
<1> QED BY InitInv, <1>1, PTL DEF Spec

\* No group signal ever reaches an unrelated process group, whatever the workload
\* forks and whenever its leader exits.
THEOREM ForeignSafe == Spec => []NoForeignSignal
<1>1. IInv => NoForeignSignal
  BY DEF IInv
<1> QED BY <1>1, GroupInvariance, PTL

\* A nil result of terminate means that the whole group is gone.
THEOREM TerminationClean == Spec => []CleanTermination
<1>1. IInv => CleanTermination
  BY DEF IInv
<1> QED BY <1>1, GroupInvariance, PTL
=============================================================================
