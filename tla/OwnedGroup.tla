----------------------------- MODULE OwnedGroup -----------------------------
(***************************************************************************)
(* One workload process of the guest agent and its process group           *)
(* (internal/guestagent/process_linux.go).                                 *)
(*                                                                         *)
(* A goroutine started by startOwned owns the leader: it observes its exit *)
(* without reaping it, kills what is left of the group while the leader's  *)
(* PID is still taken, and reaps last.  The agent's request goroutine      *)
(* terminates the group by number, TERM first and KILL after a grace       *)
(* period; signalMu and the reaping flag order the two.  A number is free  *)
(* for another group once the leader is reaped and no member is left.      *)
(* Members do not leave their group (docs/guest.md forbids daemonizing).   *)
(***************************************************************************)
EXTENDS Naturals

CONSTANTS
  Leader,    \* the process that startOwned started
  Children,  \* the processes that it may fork, directly or not
  MaxScans   \* scans of /proc that fit in killGroupAndWait's deadline

ASSUME GroupAssumption == Leader \notin Children /\ MaxScans \in Nat

Procs == {Leader} \cup Children

VARIABLES
  proc,        \* the state of each process; a dead leader is a zombie until reaped
  rpc,         \* where the owning goroutine is
  mutex,       \* the holder of signalMu
  reaping,     \* p.reaping
  cleanupErr,  \* p.cleanupErr # nil
  scans,       \* scans done by killGroupAndWait
  cpc,         \* where the terminating caller is
  result,      \* what the last terminate returned
  foreign,     \* the group number belongs to an unrelated group
  struck       \* an unrelated group was signalled

owner  == <<rpc, cleanupErr, scans>>
caller == <<cpc, result>>
vars   == <<proc, mutex, reaping, owner, caller, foreign, struck>>

Alive(p) == proc[p] \in {"running", "doomed"}
Reaped   == rpc \in {"reaped", "done"}

Init ==
  /\ proc = [p \in Procs |-> "unborn"]
  /\ rpc = "start" /\ mutex = "free" /\ reaping = FALSE
  /\ cleanupErr = FALSE /\ scans = 0
  /\ cpc = "idle" /\ result = "none"
  /\ foreign = FALSE /\ struck = FALSE

-----------------------------------------------------------------------------
(* kill(-pgid, sig) reaches whatever group has the number now.  KILL dooms *)
(* every member at once; TERM may be ignored.                              *)

SignalNumber(sig) ==
  IF foreign
  THEN struck' = TRUE /\ UNCHANGED proc
  ELSE /\ proc' = [p \in Procs |->
                     IF sig = "KILL" /\ proc[p] = "running" THEN "doomed" ELSE proc[p]]
       /\ UNCHANGED struck

-----------------------------------------------------------------------------
(* The owning goroutine.                                                   *)

Launch ==
  /\ rpc = "start"
  /\ \/ rpc' = "observe" /\ proc' = [proc EXCEPT ![Leader] = "running"]
     \/ rpc' = "failed" /\ UNCHANGED proc  \* startOwned returns no process
  /\ UNCHANGED <<mutex, reaping, cleanupErr, scans, caller, foreign, struck>>

\* waitid with WNOWAIT returns when the leader is a zombie, or fails.
ObserveExit ==
  /\ rpc = "observe" /\ proc[Leader] = "dead"
  /\ rpc' = "lock"
  /\ UNCHANGED <<proc, mutex, reaping, cleanupErr, scans, caller, foreign, struck>>

ObserveFails ==
  /\ rpc = "observe"
  /\ rpc' = "lockFailed"
  /\ UNCHANGED <<proc, mutex, reaping, cleanupErr, scans, caller, foreign, struck>>

LockOwner ==
  /\ mutex = "free"
  /\ \/ rpc = "lock" /\ rpc' = "kill"
     \/ rpc = "lockFailed" /\ rpc' = "killLeader"
  /\ mutex' = "owner"
  /\ UNCHANGED <<proc, reaping, cleanupErr, scans, caller, foreign, struck>>

\* Faulty variant: one KILL is taken to be enough.
KillGroupOnce ==
  /\ rpc = "kill"
  /\ SignalNumber("KILL")
  /\ rpc' = "mark"
  /\ UNCHANGED <<mutex, reaping, cleanupErr, scans, caller, foreign>>

\* killGroupAndWait: KILL, then look for members that are neither dead nor zombies.
KillGroup ==
  /\ rpc = "kill"
  /\ \/ SignalNumber("KILL") /\ rpc' = "scan" /\ UNCHANGED cleanupErr
     \/ rpc' = "mark" /\ cleanupErr' = TRUE /\ UNCHANGED <<proc, struck>>
  /\ UNCHANGED <<mutex, reaping, scans, caller, foreign>>

\* Faulty variant: the loop has no deadline.
ScanForever ==
  /\ rpc = "scan"
  /\ IF \E p \in Children : Alive(p) THEN rpc' = "kill" ELSE rpc' = "mark"
  /\ UNCHANGED <<proc, mutex, reaping, cleanupErr, scans, caller, foreign, struck>>

ScanGroup ==
  /\ rpc = "scan"
  /\ \/ ~(\E p \in Children : Alive(p)) /\ rpc' = "mark" /\ UNCHANGED <<cleanupErr, scans>>
     \/ /\ \E p \in Children : Alive(p)
        /\ scans < MaxScans /\ scans' = scans + 1 /\ rpc' = "kill" /\ UNCHANGED cleanupErr
     \/ cleanupErr' = TRUE /\ rpc' = "mark" /\ UNCHANGED scans  \* deadline or /proc error
  /\ UNCHANGED <<proc, mutex, reaping, caller, foreign, struck>>

\* After a failed waitid only the leader is killed.
KillLeader ==
  /\ rpc = "killLeader"
  /\ proc' = [proc EXCEPT ![Leader] = IF @ = "running" THEN "doomed" ELSE @]
  /\ cleanupErr' = TRUE
  /\ rpc' = "mark"
  /\ UNCHANGED <<mutex, reaping, scans, caller, foreign, struck>>

MarkReaping ==
  /\ rpc = "mark"
  /\ reaping' = TRUE /\ mutex' = "free" /\ rpc' = "wait"
  /\ UNCHANGED <<proc, cleanupErr, scans, caller, foreign, struck>>

\* cmd.Wait reaps, then waits at most WaitDelay for the output pipes.
WaitLeader ==
  /\ \/ rpc = "wait" /\ proc[Leader] = "dead" /\ rpc' = "reaped" /\ UNCHANGED cleanupErr
     \/ rpc = "reaped" /\ rpc' = "done" /\ cleanupErr' \in {cleanupErr, TRUE}
  /\ UNCHANGED <<proc, mutex, reaping, scans, caller, foreign, struck>>

Owner ==
  \/ ObserveExit \/ LockOwner \/ KillGroup \/ ScanGroup \/ KillLeader
  \/ MarkReaping \/ WaitLeader

-----------------------------------------------------------------------------
(* The caller: terminate, possibly several times for one process.          *)

Step(next) == cpc' = next /\ UNCHANGED result
Return(r)  == cpc' = "idle" /\ result' = r
Outcome    == IF cleanupErr THEN "error" ELSE "nil"

Terminate ==
  /\ cpc = "idle" /\ rpc \notin {"start", "failed"}
  /\ IF rpc = "done" THEN Return(Outcome) ELSE cpc' = "term" /\ result' = "none"
  /\ UNCHANGED <<proc, mutex, reaping, owner, foreign, struck>>

\* Faulty variant: signalGroup does not look at the reaping flag.
EnterSignalUnchecked(at, inside, after) ==
  /\ cpc = at /\ mutex = "free"
  /\ mutex' = "caller" /\ Step(inside)
  /\ UNCHANGED <<proc, reaping, owner, foreign, struck>>

\* signalGroup: under signalMu, nothing is sent once the leader may be reaped.
EnterSignal(at, inside, after) ==
  /\ cpc = at /\ mutex = "free"
  /\ IF reaping THEN Step(after) /\ UNCHANGED mutex ELSE Step(inside) /\ mutex' = "caller"
  /\ UNCHANGED <<proc, reaping, owner, foreign, struck>>

SendSignal(inside, sig, after) ==
  /\ cpc = inside
  /\ \/ SignalNumber(sig) /\ Step(after)
     \/ Return("error") /\ UNCHANGED <<proc, struck>>
  /\ mutex' = "free"
  /\ UNCHANGED <<reaping, owner, foreign>>

\* Faulty variant: the escalation repeats TERM.
EscalateWithTerm == SendSignal("killing", "TERM", "await")

Escalate == SendSignal("killing", "KILL", "await")

\* The grace timer or the context ends the first wait, the context the second.
AwaitDone ==
  /\ \/ cpc \in {"grace", "await"} /\ rpc = "done" /\ Return(Outcome)
     \/ cpc = "grace" /\ Step("kill")
     \/ cpc = "await" /\ Return("error")
  /\ UNCHANGED <<proc, mutex, reaping, owner, foreign, struck>>

Caller ==
  \/ EnterSignal("term", "terming", "grace") \/ SendSignal("terming", "TERM", "grace")
  \/ EnterSignal("kill", "killing", "await") \/ Escalate
  \/ AwaitDone

-----------------------------------------------------------------------------
(* Processes and the kernel's number allocation.                           *)

Fork(p) ==
  /\ proc[p] = "unborn" /\ p # Leader
  /\ \E q \in Procs : proc[q] = "running"
  /\ proc' = [proc EXCEPT ![p] = "running"]
  /\ UNCHANGED <<mutex, reaping, owner, caller, foreign, struck>>

Exit(p) ==
  /\ Alive(p)
  /\ proc' = [proc EXCEPT ![p] = "dead"]
  /\ UNCHANGED <<mutex, reaping, owner, caller, foreign, struck>>

ReuseNumber ==
  /\ Reaped /\ ~foreign /\ ~(\E p \in Procs : Alive(p))
  /\ foreign' = TRUE
  /\ UNCHANGED <<proc, mutex, reaping, owner, caller, struck>>

Next ==
  \/ Launch \/ Owner \/ ObserveFails \/ Terminate \/ Caller \/ ReuseNumber
  \/ \E p \in Procs : Fork(p) \/ Exit(p)

Spec == Init /\ [][Next]_vars

\* Goroutines run, and every wait of theirs but the one for the leader's exit is
\* bounded by a timer.  Nothing obliges waitid to fail.
FairSpec == Spec /\ WF_vars(Owner) /\ WF_vars(Caller)

\* A process with a pending KILL dies, and a mutex is not kept from a waiter for ever
\* (sync.Mutex hands over to a waiter that starves).
KernelFairness ==
  /\ SF_vars(LockOwner)
  /\ \A p \in Procs : WF_vars(Exit(p) /\ proc[p] = "doomed")

-----------------------------------------------------------------------------
(* Properties.                                                             *)

\* Processes, goroutines and flags have the values that process_linux.go gives them.
TypeOK ==
  /\ proc \in [Procs -> {"unborn", "running", "doomed", "dead"}]
  /\ rpc \in {"start", "failed", "observe", "lock", "lockFailed", "kill", "scan", "killLeader",
              "mark", "wait", "reaped", "done"}
  /\ mutex \in {"free", "owner", "caller"}
  /\ cpc \in {"idle", "term", "terming", "grace", "kill", "killing", "await"}
  /\ result \in {"none", "nil", "error"}
  /\ scans \in 0..MaxScans
  /\ reaping \in BOOLEAN /\ cleanupErr \in BOOLEAN
  /\ foreign \in BOOLEAN /\ struck \in BOOLEAN

\* No group signal, of the owner or of terminate, reaches an unrelated group that
\* got the number after the leader was reaped.
NoForeignSignal == ~struck

\* When terminate returns nil the leader is reaped and no member of its group is
\* left, whoever forked what and whenever; an error may leave members.
CleanTermination == result = "nil" => rpc = "done" /\ \A p \in Procs : ~Alive(p)

\* terminate returns although the owner may hold signalMu and members may hang.
TerminateReturns == cpc # "idle" ~> cpc = "idle"

\* A terminate that got as far as its KILL leaves no leader behind, given a kernel that
\* carries signals out and a mutex that starves nobody.
KillReaps == KernelFairness => (cpc = "await" ~> rpc = "done")

-----------------------------------------------------------------------------
(* The inductive invariant.                                                *)

Inside == {"terming", "killing"}
Locked == {"kill", "scan", "killLeader", "mark"}

\* A signal is sent while its sender holds signalMu, so before the flag is set, so
\* while the zombie leader keeps the number; and without an error the scan has seen
\* that nobody is left who could fork.
GroupInv ==
  /\ mutex = "owner" <=> rpc \in Locked
  /\ mutex = "caller" <=> cpc \in Inside
  /\ cpc \in Inside => ~reaping
  /\ reaping <=> rpc \in {"wait", "reaped", "done"}
  /\ foreign => Reaped /\ \A p \in Procs : ~Alive(p)
  /\ rpc \in {"lock", "kill", "scan"} \cup {"reaped", "done"} => proc[Leader] = "dead"
  /\ rpc \in {"start", "failed"} => \A p \in Procs : proc[p] = "unborn"
  /\ rpc \in {"mark", "wait", "reaped", "done"} /\ ~cleanupErr => \A p \in Procs : ~Alive(p)
  /\ rpc = "scan" => \A p \in Procs : proc[p] # "running"

IInv == TypeOK /\ GroupInv /\ NoForeignSignal /\ CleanTermination
=============================================================================
