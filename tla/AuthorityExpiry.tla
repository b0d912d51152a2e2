-------------------------- MODULE AuthorityExpiry --------------------------
(***************************************************************************)
(* The agent-authority-expiry workload                                     *)
(* (workloads/agent-authority-expiry/main.go): an operation is authorized  *)
(* when it is requested and again when it is executed, with the guest      *)
(* clock moving in between.  Every command is a process of its own, run by *)
(* the guest agent one at a time, that the agent may kill at any point;    *)
(* only the files of the state directory outlive it.                       *)
(*                                                                         *)
(* A request is reduced to what authorize distinguishes: its resource, its *)
(* validity interval, and the set of checks that it fails.                 *)
(***************************************************************************)
EXTENDS Naturals, FiniteSets, FiniteSetsExt, Sequences

CONSTANTS
  Request,         \* the requests that scenarios submit
  NoRequest,       \* no request
  MaxTime,         \* bound on the guest clock
  MaxInvocations   \* bound on the commands of a run

\* authorize's checks before those of the clock, in their order.
Checks == <<"request", "operation", "authority", "principal", "capability", "resource">>
Check  == {Checks[i] : i \in DOMAIN Checks}

ASSUME AuthorityAssumption ==
  /\ MaxTime \in Nat /\ MaxInvocations \in Nat /\ NoRequest \notin Request
  /\ \A r \in Request : r.notBefore \in Nat /\ r.expiresAt \in Nat /\ r.defects \subseteq Check

VARIABLES
  now,          \* the guest's CLOCK_REALTIME
  pending,      \* pending-request.json
  worker,       \* worker-state.json: resource and restart count
  tmp,          \* which of the two has a .tmp file beside it
  pc, cmd, req, \* the running command
  result,       \* what the last command reported
  invocations,
  accepted,     \* history: how often each request was accepted for execution
  performed,    \* history: how often it restarted the worker
  during,       \* history: clock values since the command began
  effect        \* history: the command restarted the worker

command == <<pc, cmd, req>>
files   == <<pending, worker, tmp>>
history == <<invocations, accepted, performed, during, effect>>
vars    == <<now, files, command, result, history>>

Worker   == [resource : {r.resource : r \in Request} \cup {NoRequest}, count : Nat]
NoWorker == [resource |-> NoRequest, count |-> 0]

Init ==
  /\ now \in 0..MaxTime
  /\ pending = NoRequest /\ worker = NoWorker /\ tmp = {}
  /\ pc = "idle" /\ cmd = "none" /\ req = NoRequest /\ result = "none"
  /\ invocations = 0 /\ during = {} /\ effect = FALSE
  /\ accepted = [r \in Request |-> 0] /\ performed = [r \in Request |-> 0]

-----------------------------------------------------------------------------
(* Decisions.                                                              *)

\* parseAuthority: the interval must not be empty.
Malformed(r) == "authority" \in r.defects \/ r.notBefore >= r.expiresAt

Failed(r) == {i \in DOMAIN Checks : IF Checks[i] = "authority" THEN Malformed(r)
                                                              ELSE Checks[i] \in r.defects}

authorize(r, t) ==
  CASE Failed(r) # {} -> Checks[Min(Failed(r))]
    [] Failed(r) = {} /\ t < r.notBefore -> "notYetValid"
    [] Failed(r) = {} /\ t >= r.notBefore /\ t >= r.expiresAt -> "expired"
    [] OTHER -> "authorized"

-----------------------------------------------------------------------------
(* Commands.                                                               *)

Goto(step) == pc' = step /\ UNCHANGED <<cmd, req>>

\* The process reports r and ends.
Report(r) == pc' = "idle" /\ result' = r /\ UNCHANGED <<cmd, req>>

run(c, r) ==
  /\ pc = "idle" /\ invocations < MaxInvocations
  /\ invocations' = invocations + 1
  /\ cmd' = c /\ req' = r /\ result' = "none"
  /\ pc' = IF c = "execute-pending" THEN "read" ELSE "decide"
  /\ during' = {now} /\ effect' = FALSE
  /\ UNCHANGED <<now, files, accepted, performed>>

\* The initial decision of attempt and request.
Decide ==
  /\ pc = "decide"
  /\ IF authorize(req, now) # "authorized"
     THEN Report("denied") /\ UNCHANGED accepted
     ELSE /\ UNCHANGED result
          /\ Goto(IF cmd = "attempt" THEN "redecide" ELSE "lstat")
          /\ accepted' = IF cmd = "attempt" THEN [accepted EXCEPT ![req] = @ + 1] ELSE accepted
  /\ UNCHANGED <<now, files, invocations, performed, during, effect>>

\* request: there is at most one pending request.
Lstat ==
  /\ pc = "lstat"
  /\ IF pending # NoRequest
     THEN Report("error")
     ELSE Goto("open") /\ UNCHANGED result
  /\ UNCHANGED <<now, files, history>>

ReadPending ==
  /\ pc = "read"
  /\ IF pending = NoRequest
     THEN Report("error")
     ELSE /\ pc' = "consume" /\ req' = pending
          /\ UNCHANGED <<cmd, result>>
  /\ UNCHANGED <<now, files, history>>

\* Faulty variant: the pending request stays until it has been executed.
ConsumeLater ==
  /\ pc = "consume"
  /\ Goto("redecide")
  /\ UNCHANGED <<now, files, result, history>>

\* The request is consumed before it is executed; the directory sync may fail.
Consume ==
  /\ pc = "consume"
  /\ pending' = NoRequest
  /\ (Report("error") \/ (Goto("redecide") /\ UNCHANGED result))
  /\ UNCHANGED <<now, worker, tmp, history>>

\* Faulty variant: the execution relies on the initial decision.
NoSecondDecision ==
  /\ pc = "redecide"
  /\ Goto("open") /\ UNCHANGED result
  /\ UNCHANGED <<now, files, history>>

\* The decision at execution, then readWorkerState: the worker must be the request's.
ExecutionDecision ==
  /\ pc = "redecide"
  /\ IF authorize(req, now) # "authorized"
     THEN Report("denied")
     ELSE IF worker # NoWorker /\ worker.resource # req.resource
          THEN Report("error")
          ELSE Goto("open") /\ UNCHANGED result
  /\ UNCHANGED <<now, files, history>>

-----------------------------------------------------------------------------
(* writeJSON: an exclusive temporary file, then a rename.                  *)

Target == IF cmd = "request" THEN "pending" ELSE "worker"

\* Faulty variant: the temporary file is opened whether or not it exists.
OpenTmpShared ==
  /\ pc = "open"
  /\ \/ Report("error") /\ UNCHANGED tmp
     \/ tmp' = tmp \cup {Target} /\ Goto("rename") /\ UNCHANGED result
  /\ UNCHANGED <<now, pending, worker, history>>

\* The exclusive open fails on a file that is there, and may fail otherwise.
OpenTmp ==
  /\ pc = "open"
  /\ \/ Report("error") /\ UNCHANGED tmp
     \/ Target \notin tmp /\ tmp' = tmp \cup {Target} /\ Goto("rename") /\ UNCHANGED result
  /\ UNCHANGED <<now, pending, worker, history>>

\* A failed write, sync, close or rename: the file is removed unless that fails too, which
\* the code ignores.
WriteFails ==
  /\ pc = "rename"
  /\ tmp' \in {tmp, tmp \ {Target}}
  /\ Report("error")
  /\ UNCHANGED <<now, pending, worker, history>>

\* The rename publishes the file; the directory sync after it may still fail.
Rename ==
  /\ pc = "rename"
  /\ tmp' = tmp \ {Target}
  /\ IF cmd = "request"
     THEN /\ pending' = req
          /\ accepted' = [accepted EXCEPT ![req] = @ + 1]
          /\ UNCHANGED <<worker, performed, effect>>
     ELSE /\ worker' = [resource |-> req.resource, count |-> worker.count + 1]
          /\ performed' = [performed EXCEPT ![req] = @ + 1]
          /\ effect' = TRUE
          /\ UNCHANGED <<pending, accepted>>
  /\ Goto("sync")
  /\ UNCHANGED <<now, result, invocations, during>>

\* Faulty variant: a restart that could not be made durable is reported as denied.
SyncDirectoryDenies ==
  /\ pc = "sync"
  /\ Report("denied") \/ Report(IF cmd = "request" THEN "accepted" ELSE "performed")
  /\ UNCHANGED <<now, files, history>>

SyncDirectory ==
  /\ pc = "sync"
  /\ Report("error") \/ Report(IF cmd = "request" THEN "accepted" ELSE "performed")
  /\ UNCHANGED <<now, files, history>>

-----------------------------------------------------------------------------
(* The guest agent kills a command at its deadline; clock.set moves the    *)
(* clock between commands, and time passes at any point.                   *)

Kill ==
  /\ pc # "idle"
  /\ Report("killed")
  /\ UNCHANGED <<now, files, history>>

Tick ==
  /\ now < MaxTime
  /\ now' = now + 1 /\ during' = during \cup {now + 1}
  /\ UNCHANGED <<files, command, result, invocations, accepted, performed, effect>>

ClockSet ==
  /\ pc = "idle" /\ now' \in 0..MaxTime
  /\ UNCHANGED <<files, command, result, history>>

Next ==
  \/ \E r \in Request : run("attempt", r) \/ run("request", r)
  \/ run("execute-pending", NoRequest)
  \/ Decide \/ Lstat \/ ReadPending \/ Consume \/ ExecutionDecision
  \/ OpenTmp \/ WriteFails \/ Rename \/ SyncDirectory
  \/ Kill \/ Tick \/ ClockSet

Spec == Init /\ [][Next]_vars

-----------------------------------------------------------------------------
(* Properties.                                                             *)

\* The files, the command and its counters have their types.
TypeOK ==
  /\ now \in Nat /\ during \subseteq Nat
  /\ pending \in Request \cup {NoRequest}
  /\ worker \in Worker /\ tmp \subseteq {"pending", "worker"}
  /\ pc \in {"idle", "decide", "lstat", "read", "consume", "redecide", "open", "rename", "sync"}
  /\ cmd \in {"none", "attempt", "request", "execute-pending"}
  /\ req \in Request \cup {NoRequest}
  /\ result \in {"none", "denied", "error", "killed", "accepted", "performed"}
  /\ invocations \in Nat /\ effect \in BOOLEAN
  /\ accepted \in [Request -> Nat] /\ performed \in [Request -> Nat]

\* An accepted request restarts the worker at most once, wherever a command is killed:
\* "A crash can lose this safe simulation request, but cannot cause Epoch recovery to
\* replay it or this workload to execute it twice" (main.go:279).
AtMostOnce == \A r \in Request : performed[r] <= accepted[r]

\* The request has no defect and its half-open interval contains t.
Valid(r, t) == r.defects = {} /\ r.notBefore <= t /\ t < r.expiresAt

\* The worker restarts only on an authority that was valid at some instant of the very
\* command that restarts it, never on the strength of the initial decision alone.
EffectIsAuthorized ==
  [][performed' # performed => \E t \in during : Valid(req, t)]_vars

\* What a command reports about the restart is what happened; only an error or a kill
\* leaves it open.
OutcomeIsTruthful ==
  /\ result = "performed" => effect
  /\ result \in {"denied", "accepted"} => ~effect

\* A pending request is never overwritten: only execute-pending removes it.
PendingIsKept ==
  [][pending # NoRequest /\ pending' # pending =>
       cmd = "execute-pending" /\ pending' = NoRequest]_vars

\* The temporary files that no running command is writing.
LeftBehind == tmp \ (IF pc = "rename" THEN {Target} ELSE {})

\* A temporary file left behind, by a kill or by a removal that failed, is never taken
\* over: no later command removes or publishes it.  From then on that file's writes fail, so
\* the worker is never restarted again, no further request becomes pending, and no command
\* reports that one did.
LeftoverBlocks ==
  [][/\ LeftBehind \subseteq LeftBehind'
     /\ "worker" \in LeftBehind =>
          worker' = worker /\ (result' = "performed" => result = "performed")
     /\ "pending" \in LeftBehind =>
          pending' \in {pending, NoRequest} /\ (result' = "accepted" => result = "accepted")]_vars

\* The command holds the right to restart the worker once.
Executing(r) == req = r /\ cmd # "request" /\ pc \in {"redecide", "open", "rename"}

Weight(b) == IF b THEN 1 ELSE 0

\* What the files and the command say about each other at every step; the strengthening
\* that makes the properties above inductive.
StepInv ==
  /\ pc \notin {"idle", "read"} => req \in Request
  /\ pc # "idle" => result = "none" /\ cmd # "none"
  /\ pc \in {"decide", "lstat"} => cmd \in {"attempt", "request"}
  /\ pc = "lstat" => cmd = "request"
  /\ pc \in {"read", "consume"} => cmd = "execute-pending"
  /\ pc = "redecide" => cmd # "request"
  /\ pc = "consume" => pending = req
  /\ pc \in {"open", "rename"} =>
       IF cmd = "request" THEN pending = NoRequest ELSE \E t \in during : Valid(req, t)
  /\ pc \notin {"idle", "sync"} => ~effect
  /\ pc = "sync" => effect = (cmd # "request")
  /\ pc = "rename" => Target \in tmp
  /\ pc = "sync" => Target \notin tmp
  /\ now \in during \/ pc = "idle"

\* A request is accepted once for each time that it is pending, about to restart the
\* worker, or has restarted it.
CreditInv == \A r \in Request :
  performed[r] + Weight(pending = r) + Weight(Executing(r)) <= accepted[r]

\* The inductive invariant: at every step the files, the running command and the history
\* of acceptances and restarts agree.
IInv == TypeOK /\ StepInv /\ CreditInv /\ OutcomeIsTruthful
=============================================================================
