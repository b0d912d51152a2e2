------------------------------ MODULE VMMStop ------------------------------
(***************************************************************************)
(* Stopping the VMM process, from inside and from outside.                 *)
(*                                                                         *)
(* startOwned (internal/firecracker/process_linux.go) starts the child on  *)
(* a goroutine that pins its OS thread until the sole Wait returned: the   *)
(* child's parent death signal follows the thread, not the process.        *)
(* Process.Stop (firecracker.go) runs p.stop once, with the first caller's *)
(* context; every caller waits for that one run or for its own context.  A *)
(* watcher calls Stop when the run's context ends.                         *)
(*                                                                         *)
(* StopOwned is what `epoch recover` does once the controller is dead: it  *)
(* works from a recorded identity (PID, start time) and a pidfd.  By then  *)
(* the PID may be free again or belong to somebody else.                   *)
(***************************************************************************)
CONSTANTS
  Callers,  \* goroutines of the controller that call Stop
  Watcher,  \* the one that calls it when the run's context ends
  Nobody    \* Stop was not called yet

ASSUME CallersAssumption == Watcher \in Callers /\ Nobody \notin Callers

VARIABLES
  child,   \* the VMM: not started, running, waiting to be reaped, reaped
  sig,     \* the strongest signal it was sent
  reused,  \* its PID belongs to another process
  hit,     \* that other process was sent a signal
  alive,   \* the controller lives
  ctx,     \* the run's context
  thread,  \* the OS thread that started the child
  spc,     \* where the starting goroutine is
  done,    \* p.done is closed
  first,   \* whose context p.stop was given
  kpc,     \* where p.stop is
  stopErr, \* what it returned
  refused, \* the kernel refused it a signal
  cpc,     \* where each caller of Stop is
  cctx,    \* each caller's context
  rpc,     \* where StopOwned is
  fd,      \* whom its pidfd refers to
  killed,  \* StopOwned: killed
  rctx     \* its context

process    == <<child, sig, reused, hit>>
starter    == <<alive, ctx, thread, spc, done>>
stopping   == <<first, kpc, stopErr, refused, cpc, cctx>>
recovery   == <<rpc, fd, killed, rctx>>
vars       == <<process, starter, stopping, recovery>>

Init ==
  /\ child = "none" /\ sig = "none" /\ reused = FALSE /\ hit = FALSE
  /\ alive = TRUE /\ ctx = "live" /\ thread = "pool" /\ spc = "begin" /\ done = FALSE
  /\ first = Nobody /\ kpc = "off" /\ stopErr = "none" /\ refused = FALSE
  /\ cpc = [c \in Callers |-> "idle"] /\ cctx = [c \in Callers |-> "live"]
  /\ rpc = "off" /\ fd = "none" /\ killed = FALSE /\ rctx = "live"

-----------------------------------------------------------------------------
(* Signals.  A process handle and a pidfd refer to a process, not to its   *)
(* number: nothing is delivered once that process is reaped.               *)

Stronger(s) == IF child = "up" /\ sig # "KILL" THEN s ELSE sig

\* Faulty variant: kill(2) with the number.
SignalNumber(s) ==
  /\ sig' = Stronger(s)
  /\ hit' = (hit \/ reused)
  /\ UNCHANGED <<child, reused>>

\* os.Process.Signal and Kill: ErrProcessDone after Wait.
SignalHandle(s) ==
  /\ sig' = Stronger(s)
  /\ UNCHANGED <<child, reused, hit>>

\* pidfd_send_signal
SignalFd(s) ==
  /\ sig' = IF fd = "vmm" THEN Stronger(s) ELSE sig
  /\ hit' = (hit \/ (fd = "other" /\ reused))
  /\ UNCHANGED <<child, reused>>

-----------------------------------------------------------------------------
(* startOwned.                                                             *)

\* The checks of Start, a context that ended, or a failed fork.
StartFails ==
  /\ alive /\ spc = "begin"
  /\ spc' = "failed"
  /\ UNCHANGED <<process, alive, ctx, thread, done, stopping, recovery>>

StartChild ==
  /\ alive /\ spc = "begin" /\ ctx = "live"
  /\ child' = "up" /\ thread' = "pinned" /\ spc' = "identify"
  /\ UNCHANGED <<sig, reused, hit, alive, ctx, done, stopping, recovery>>

\* Faulty variant: the goroutine gives its thread back before Wait.
PublishUnpinned ==
  /\ alive /\ spc = "identify"
  /\ spc' = "serving" /\ thread' = "pool"
  /\ UNCHANGED <<process, alive, ctx, done, stopping, recovery>>

Publish ==
  /\ alive /\ spc = "identify"
  /\ spc' = "serving"
  /\ UNCHANGED <<process, alive, ctx, thread, done, stopping, recovery>>

\* The identity cannot be read: the child is killed, and waited for.
DiscardChild ==
  /\ alive /\ spc = "identify"
  /\ SignalHandle("KILL")
  /\ spc' = "discard"
  /\ UNCHANGED <<alive, ctx, thread, done, stopping, recovery>>

\* cmd.Wait
Wait ==
  /\ alive /\ child = "zombie"
  /\ child' = "reaped"
  /\ \/ spc = "discard" /\ spc' = "failed" /\ thread' = "pool"
     \/ spc = "serving" /\ spc' = "closing" /\ UNCHANGED thread
  /\ UNCHANGED <<sig, reused, hit, alive, ctx, done, stopping, recovery>>

CloseDone ==
  /\ alive /\ spc = "closing"
  /\ done' = TRUE /\ spc' = "ended" /\ thread' = "pool"
  /\ UNCHANGED <<process, alive, ctx, stopping, recovery>>

-----------------------------------------------------------------------------
(* Process.Stop: the callers.                                              *)

Published == spc \in {"serving", "closing", "ended"}

\* Faulty variant: nobody watches the run's context.
CallStopUnwatched(c) ==
  /\ alive /\ Published /\ cpc[c] = "idle" /\ c # Watcher
  /\ cpc' = [cpc EXCEPT ![c] = IF done THEN "nil" ELSE "once"]
  /\ UNCHANGED <<process, starter, first, kpc, stopErr, refused, cctx, recovery>>

CallStop(c) ==
  /\ alive /\ Published /\ cpc[c] = "idle"
  /\ c = Watcher => ctx = "done"
  /\ cpc' = [cpc EXCEPT ![c] = IF done THEN "nil" ELSE "once"]
  /\ UNCHANGED <<process, starter, first, kpc, stopErr, refused, cctx, recovery>>

StopOnce(c) ==
  /\ alive /\ cpc[c] = "once"
  /\ cpc' = [cpc EXCEPT ![c] = "waiting"]
  /\ IF first = Nobody THEN first' = c /\ kpc' = "check" ELSE UNCHANGED <<first, kpc>>
  /\ UNCHANGED <<process, starter, stopErr, refused, cctx, recovery>>

\* Faulty variant: the caller waits for the process, not for p.stop or its context.
StopReturnsDone(c) ==
  /\ alive /\ cpc[c] = "waiting" /\ done
  /\ cpc' = [cpc EXCEPT ![c] = "nil"]
  /\ UNCHANGED <<process, starter, first, kpc, stopErr, refused, cctx, recovery>>

StopReturns(c) ==
  /\ alive /\ cpc[c] = "waiting"
  /\ \/ kpc = "over" /\ cpc' = [cpc EXCEPT ![c] = stopErr]
     \/ cctx[c] = "done" /\ cpc' = [cpc EXCEPT ![c] = "error"]
  /\ UNCHANGED <<process, starter, first, kpc, stopErr, refused, cctx, recovery>>

\* Every caller's context has a deadline.
ContextEnds(c) ==
  /\ alive /\ cpc[c] \in {"once", "waiting"} /\ cctx[c] = "live"
  /\ cctx' = [cctx EXCEPT ![c] = "done"]
  /\ UNCHANGED <<process, starter, first, kpc, stopErr, refused, cpc, recovery>>

-----------------------------------------------------------------------------
(* Process.Stop: p.stop, with the context of its first caller.             *)

StopFinishes(e) == kpc' = "over" /\ stopErr' = e

StopChecks ==
  /\ alive /\ kpc = "check"
  /\ IF done THEN StopFinishes("nil") ELSE kpc' = "term" /\ UNCHANGED stopErr
  /\ UNCHANGED <<process, starter, first, refused, cpc, cctx, recovery>>

\* Faulty variant: the child is signalled through its number.
TerminateNumber ==
  /\ alive /\ kpc = "term"
  /\ SignalNumber("TERM")
  /\ kpc' = "grace"
  /\ UNCHANGED <<starter, first, stopErr, refused, cpc, cctx, recovery>>

\* An error of kill(2) other than "already done" is returned.
SignalRefused ==
  /\ refused' = TRUE /\ StopFinishes("error")
  /\ UNCHANGED process

Terminate ==
  /\ alive /\ kpc = "term"
  /\ \/ SignalHandle("TERM") /\ kpc' = "grace" /\ UNCHANGED <<stopErr, refused>>
     \/ SignalRefused
  /\ UNCHANGED <<starter, first, cpc, cctx, recovery>>

\* Faulty variant: the end of the context is returned at once.
GraceReturnsOnContext ==
  /\ alive /\ kpc = "grace"
  /\ \/ done /\ StopFinishes("nil")
     \/ cctx[first] = "done" /\ StopFinishes("error")
     \/ kpc' = "kill" /\ UNCHANGED stopErr
  /\ UNCHANGED <<process, starter, first, refused, cpc, cctx, recovery>>

\* The child is reaped, or the grace period or the context ended.
Grace ==
  /\ alive /\ kpc = "grace"
  /\ \/ done /\ StopFinishes("nil")
     \/ kpc' = "kill" /\ UNCHANGED stopErr
  /\ UNCHANGED <<process, starter, first, refused, cpc, cctx, recovery>>

Kill ==
  /\ alive /\ kpc = "kill"
  /\ \/ SignalHandle("KILL") /\ kpc' = "reap" /\ UNCHANGED <<stopErr, refused>>
     \/ SignalRefused
  /\ UNCHANGED <<starter, first, cpc, cctx, recovery>>

\* Faulty variant: a sent KILL counts as success.
AwaitNothing ==
  /\ alive /\ kpc = "reap"
  /\ StopFinishes("nil")
  /\ UNCHANGED <<process, starter, first, refused, cpc, cctx, recovery>>

AwaitReaping ==
  /\ alive /\ kpc = "reap"
  /\ \/ done /\ StopFinishes("nil")
     \/ cctx[first] = "done" /\ StopFinishes("error")
  /\ UNCHANGED <<process, starter, first, refused, cpc, cctx, recovery>>

PStop == StopChecks \/ Terminate \/ Grace \/ Kill \/ AwaitReaping

-----------------------------------------------------------------------------
(* StopOwned: recovery, once the controller and with it the lock is gone.  *)

\* InspectProcess: the recorded identity is alive, exited or absent, or the number
\* belongs to somebody else; reading /proc may fail.
Inspect(next) ==
  \/ child = "up" /\ rpc' = next
  \/ child # "up" /\ ~reused /\ rpc' = "nil"
  \/ rpc' = "error"

BeginRecovery ==
  /\ ~alive /\ rpc = "off" /\ Published
  /\ Inspect("open")
  /\ UNCHANGED <<process, starter, stopping, fd, killed, rctx>>

\* pidfd_open takes a number: it refers to whoever has it now.
OpenFd ==
  /\ rpc = "open"
  /\ \/ child \in {"up", "zombie"} /\ fd' = "vmm" /\ rpc' = "recheck"
     \/ reused /\ fd' = "other" /\ rpc' = "recheck"
     \/ rpc' = "error" /\ UNCHANGED fd
  /\ UNCHANGED <<process, starter, stopping, killed, rctx>>

Recheck ==
  /\ rpc = "recheck"
  /\ Inspect("term")
  /\ UNCHANGED <<process, starter, stopping, fd, killed, rctx>>

RecoveryTerm ==
  /\ rpc = "term"
  /\ \/ SignalFd("TERM") /\ rpc' = "poll"
     \/ rpc' = "error" /\ UNCHANGED process
  /\ UNCHANGED <<starter, stopping, fd, killed, rctx>>

\* The pidfd is readable once its process ended; otherwise the grace period, once,
\* or the end of the context, with the KILL that was not sent yet, or an error.
Poll ==
  /\ rpc = "poll"
  /\ \/ fd = "vmm" /\ child # "up" /\ rpc' = "nil" /\ UNCHANGED <<process, killed>>
     \/ ~killed /\ SignalFd("KILL") /\ killed' = TRUE /\ UNCHANGED rpc
     \/ /\ rctx = "done" /\ rpc' = "error" /\ UNCHANGED killed
        /\ IF killed THEN UNCHANGED process ELSE SignalFd("KILL")
     \/ rpc' = "error" /\ UNCHANGED <<process, killed>>
  /\ UNCHANGED <<starter, stopping, fd, rctx>>

RecoveryContextEnds ==
  /\ rpc \notin {"off", "nil", "error"} /\ rctx = "live"
  /\ rctx' = "done"
  /\ UNCHANGED <<process, starter, stopping, rpc, fd, killed>>

StopOwned == BeginRecovery \/ OpenFd \/ Recheck \/ RecoveryTerm \/ Poll \/ RecoveryContextEnds

-----------------------------------------------------------------------------
(* The environment.                                                        *)

\* On its own, by TERM, or by KILL.
VMMExits ==
  /\ child = "up"
  /\ child' = "zombie"
  /\ UNCHANGED <<sig, reused, hit, starter, stopping, recovery>>

RunContextEnds ==
  /\ alive /\ ctx = "live"
  /\ ctx' = "done"
  /\ UNCHANGED <<process, alive, thread, spc, done, stopping, recovery>>

\* A thread of the Go runtime ends: the kernel sends the parent death signal to the
\* children it started.
ThreadExits ==
  /\ alive /\ thread = "pool" /\ spc # "begin"
  /\ thread' = "exited"
  /\ sig' = IF child = "up" THEN "KILL" ELSE sig
  /\ UNCHANGED <<child, reused, hit, alive, ctx, spc, done, stopping, recovery>>

ControllerDies ==
  /\ alive
  /\ alive' = FALSE /\ thread' = "exited"
  /\ sig' = IF child = "up" THEN "KILL" ELSE sig
  /\ UNCHANGED <<child, reused, hit, ctx, spc, done, stopping, recovery>>

\* The host's init adopts and reaps an orphan.
InitReaps ==
  /\ ~alive /\ child = "zombie"
  /\ child' = "reaped"
  /\ UNCHANGED <<sig, reused, hit, starter, stopping, recovery>>

\* Another process is given the free PID, or ends.
ReusePID ==
  /\ child = "reaped"
  /\ reused' = ~reused
  /\ UNCHANGED <<child, sig, hit, starter, stopping, recovery>>

Starter == Publish \/ DiscardChild \/ Wait \/ CloseDone

Next ==
  \/ StartFails \/ StartChild \/ Starter
  \/ \E c \in Callers : CallStop(c) \/ StopOnce(c) \/ StopReturns(c) \/ ContextEnds(c)
  \/ PStop \/ StopOwned
  \/ VMMExits \/ RunContextEnds \/ ThreadExits \/ ControllerDies \/ InitReaps \/ ReusePID

Spec == Init /\ [][Next]_vars

\* Goroutines run, contexts and the grace period have deadlines, the watcher's select
\* wakes up, and the kernel carries out a KILL.  Nothing obliges the VMM to end on
\* its own or after TERM.
Fairness ==
  /\ WF_vars(Starter) /\ WF_vars(PStop) /\ WF_vars(InitReaps)
  /\ WF_vars(CallStop(Watcher))
  /\ \A c \in Callers : WF_vars(StopOnce(c)) /\ WF_vars(StopReturns(c)) /\ WF_vars(ContextEnds(c))
  /\ WF_vars(VMMExits /\ sig = "KILL")
  /\ WF_vars(StopOwned)

FairSpec == Spec /\ Fairness

-----------------------------------------------------------------------------
(* Properties.                                                             *)

TypeOK ==
  /\ child \in {"none", "up", "zombie", "reaped"} /\ sig \in {"none", "TERM", "KILL"}
  /\ reused \in BOOLEAN /\ hit \in BOOLEAN /\ alive \in BOOLEAN
  /\ ctx \in {"live", "done"} /\ thread \in {"pool", "pinned", "exited"}
  /\ spc \in {"begin", "identify", "serving", "closing", "ended", "discard", "failed"}
  /\ done \in BOOLEAN /\ first \in Callers \cup {Nobody}
  /\ kpc \in {"off", "check", "term", "grace", "kill", "reap", "over"}
  /\ stopErr \in {"none", "nil", "error"} /\ refused \in BOOLEAN
  /\ cpc \in [Callers -> {"idle", "once", "waiting", "nil", "error"}]
  /\ cctx \in [Callers -> {"live", "done"}]
  /\ rpc \in {"off", "open", "recheck", "term", "poll", "nil", "error"}
  /\ fd \in {"none", "vmm", "other"} /\ killed \in BOOLEAN /\ rctx \in {"live", "done"}

\* startOwned returns an error only when no process is left behind.
FailedStartIsClean == spc = "failed" => child \in {"none", "reaped"}

\* What cleanup and recovery conclude before they remove the disk. Stop returns nil, to
\* any caller and however the calls interleave, only for a reaped child, StopOwned
\* only for a process that has ended, and a start that failed has left none.
StoppedMeansDead ==
  /\ FailedStartIsClean
  /\ (\E c \in Callers : cpc[c] = "nil") => child = "reaped"
  /\ rpc = "nil" => child # "up"

\* No signal reaches a process that was given the VMM's PID later: not from p.stop,
\* which may signal while Wait reaps, and not from a recovery that read the identity
\* before somebody else got the number.
NoStraySignal == ~hit

\* A caller whose own context is live gets the error of the first caller's context
\* only after the VMM was killed or had ended: Stop never gives up in its name with a
\* VMM that nobody tried to kill.
BorrowedErrorKilled ==
  \A c \in Callers :
    cpc[c] = "error" /\ cctx[c] = "live" => sig = "KILL" \/ child # "up" \/ refused

\* The VMM of a live controller is killed only because Stop was called, or because it
\* could not be identified: the parent death signal never follows a thread that the
\* Go runtime retires.
KillIsRequested ==
  alive /\ sig = "KILL" => first # Nobody \/ spc \in {"discard", "failed"}

\* Once its run is cancelled or Stop was called the VMM ends and is reaped, also when
\* it ignores TERM and the contexts of all callers expire; and it never outlives its
\* controller, not even when that had failed to stop it.
OwnedVMMEnds ==
  /\ (ctx = "done" \/ kpc # "off") ~> (child \in {"none", "reaped"} \/ refused)
  /\ ~alive ~> child \in {"none", "reaped"}

\* Every call of Stop returns, also when p.stop still waits for another context.
CallersReturn ==
  \A c \in Callers : cpc[c] = "once" ~> (cpc[c] \in {"nil", "error"} \/ ~alive)

-----------------------------------------------------------------------------
(* The inductive invariant.                                                *)

\* The child is reaped by the starting goroutine alone while the controller lives,
\* and the thread that started it stays until then.
ChildInv ==
  /\ spc = "begin" => child = "none"
  /\ spc \in {"identify", "discard", "serving"} =>
       child # "none" /\ (alive => child # "reaped" /\ thread = "pinned")
  /\ spc \in {"closing", "ended"} => child = "reaped"
  /\ FailedStartIsClean
  /\ done <=> spc = "ended"
  /\ reused => child = "reaped"

StopInv ==
  /\ first = Nobody <=> kpc = "off"
  /\ first # Nobody => Published
  /\ kpc = "over" <=> stopErr # "none"
  /\ stopErr = "nil" => done
  /\ kpc = "reap" \/ stopErr = "error" => sig = "KILL" \/ child # "up" \/ refused
  /\ \A c \in Callers :
       /\ cpc[c] # "idle" => Published
       /\ cpc[c] = "nil" => done
       /\ cpc[c] = "error" /\ cctx[c] = "live" => stopErr = "error"
  /\ KillIsRequested

\* The second inspection found the VMM alive, so the pidfd opened before it is the VMM's.
RecoveryInv ==
  /\ rpc # "off" => ~alive /\ Published
  /\ rpc = "nil" => child # "up"
  /\ fd = "other" => child = "reaped"
  /\ rpc = "recheck" => fd # "none"
  /\ rpc \in {"term", "poll"} => fd = "vmm"
  /\ NoStraySignal

IInv == TypeOK /\ ChildInv /\ StopInv /\ RecoveryInv
=============================================================================
