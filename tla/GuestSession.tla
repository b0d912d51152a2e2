---------------------------- MODULE GuestSession ----------------------------
(***************************************************************************)
(* One scenario run over the guest connection: the engine's steps          *)
(* (internal/engine/steps.go, run.go), the client's calls                  *)
(* (internal/guestclient), the agent's session loop and guards             *)
(* (internal/guestagent/server.go) and its service manager                 *)
(* (internal/guestagent/process_linux.go).                                 *)
(*                                                                         *)
(* The client has one call outstanding, so the wire holds one frame.  A    *)
(* call that fails in any way closes the connection: the request may       *)
(* still be read and executed by the guest, but nothing is sent again.     *)
(* The plan is chosen step by step: every choice that Scenario.Validate    *)
(* accepts after the steps so far, which yields every valid plan.          *)
(* Requests are numbered by their step; step 0 is hello and the last one   *)
(* shutdown.  OwnedGroup has the details of terminating a process.         *)
(***************************************************************************)
EXTENDS Naturals, FiniteSets

CONSTANTS
  Services,      \* declared services
  NoService,     \* the service of a step that has none
  ServiceLimit,  \* services that may run at once (4)
  MaxSteps       \* bound on the steps of a plan (128)

ASSUME SessionAssumption ==
  /\ NoService \notin Services /\ IsFiniteSet(Services)
  /\ ServiceLimit \in Nat /\ MaxSteps \in Nat

VARIABLES
  hpc,         \* where the engine is
  verdict,     \* running, completed or failed
  steps,       \* steps begun
  planned,     \* Validate: services running after those steps
  clockSet,    \* Validate: a clock.set is among those steps
  call,        \* the client's current call
  conn,        \* the connection, as closed by either end
  wire,        \* the frame in transit
  answer,      \* the guest's answer to the current call
  outcome,     \* what each step's call returned
  gpc,         \* where the agent is
  clockReady,  \* Server.clockReady
  svc,         \* Manager.services and the processes behind it
  effects,     \* how often the guest performed each step
  lost         \* history: a service overran its output quota, or its end was announced while
               \* it was meant to run and before the health check of the shutdown

host  == <<hpc, verdict, steps, planned, clockSet, call, outcome>>
guest == <<gpc, clockReady, svc, effects, lost>>
vars  == <<host, conn, wire, answer, guest>>

\* A wait is two clock.read requests around a timer of the host.
Reads     == {"clock.read", "wait", "wait.end"}
Op        == Reads \cup {"hello", "clock.set", "action.exec", "service.start", "service.stop",
                         "shutdown"}
Call      == [op : Op, service : Services \cup {NoService}, live : BOOLEAN]
\* What Manager knows of a service, and its process: up, dead, or done once its group is
\* killed, it is reaped and p.done is closed.  A new Manager has no entry.
Service   == [entry : BOOLEAN, proc : {"none", "up", "dead", "done"},
              expected : BOOLEAN, over : BOOLEAN]
NoEntry   == [entry |-> FALSE, proc |-> "none", expected |-> FALSE, over |-> FALSE]
Hello     == [op |-> "hello", service |-> NoService, live |-> FALSE]
StepIndex == 1..MaxSteps

Init ==
  /\ hpc = "dial" /\ verdict = "running" /\ steps = 0
  /\ planned = {} /\ clockSet = FALSE
  /\ call = Hello /\ conn = "none" /\ wire = "none" /\ answer = "none"
  /\ outcome = [i \in StepIndex |-> "none"]
  /\ gpc = "listening" /\ clockReady = FALSE
  /\ svc = [s \in Services |-> NoEntry]
  /\ effects = [i \in StepIndex |-> 0]
  /\ lost = FALSE

-----------------------------------------------------------------------------
(* The host: readiness.  A dial that times out after the guest accepted it *)
(* closes the connection and is retried until the boot deadline.           *)

Dial ==
  /\ hpc = "dial" /\ gpc = "listening"
  /\ conn' = "open" /\ hpc' = "handshake" /\ gpc' = "idle"
  /\ UNCHANGED <<verdict, steps, planned, clockSet, call, outcome, wire, answer,
                 clockReady, svc, effects, lost>>

AbortDial ==
  /\ hpc = "handshake"
  /\ conn' = "closed" /\ hpc' = "dial"
  /\ UNCHANGED <<verdict, steps, planned, clockSet, call, outcome, wire, answer, guest>>

BootDeadline ==
  /\ hpc = "dial"
  /\ verdict' = "failed" /\ hpc' = "over"
  /\ UNCHANGED <<steps, planned, clockSet, call, outcome, conn, wire, answer, guest>>

-----------------------------------------------------------------------------
(* The host: calls.                                                        *)

Send(c) ==
  /\ call' = c /\ wire' = "request" /\ answer' = "none" /\ hpc' = "call"

SendHello ==
  /\ hpc = "handshake"
  /\ Send(Hello)
  /\ UNCHANGED <<verdict, steps, planned, clockSet, outcome, conn, guest>>

\* No room for another service.
Full(table) == Cardinality(table) >= ServiceLimit

\* What Scenario.Validate accepts next.
ValidStep(c) ==
  \/ c.op \in {"clock.read", "wait"} /\ c.service = NoService /\ ~c.live
  \/ c.op = "clock.set" /\ c.service = NoService /\ (planned # {} => c.live)
  \/ c.op = "action.exec" /\ c.service = NoService /\ ~c.live /\ clockSet
  \/ /\ c.op = "service.start" /\ c.service \in Services \ planned /\ ~c.live
     /\ clockSet /\ ~Full(planned)
  \/ c.op = "service.stop" /\ c.service \in planned /\ ~c.live

BeginStep(c) ==
  /\ hpc = "next" /\ steps < MaxSteps /\ ValidStep(c)
  /\ steps' = steps + 1
  /\ clockSet' = (clockSet \/ c.op = "clock.set")
  /\ planned' = IF c.op = "service.start" THEN planned \cup {c.service} ELSE planned \ {c.service}
  /\ Send(c)
  /\ UNCHANGED <<verdict, outcome, conn, guest>>

\* The last step is done, or the run's context ended before the next one.
EndSteps ==
  /\ hpc = "next"
  /\ \/ steps > 0 /\ verdict' = "completed"
     \/ verdict' = "failed"
  /\ hpc' = "shutdown"
  /\ UNCHANGED <<steps, planned, clockSet, call, outcome, conn, wire, answer, guest>>

\* Client.Call refuses a broken connection.
BeginShutdown ==
  /\ hpc = "shutdown"
  /\ IF conn = "closed"
     THEN hpc' = "over" /\ verdict' = "failed" /\ UNCHANGED <<call, wire, answer>>
     ELSE Send([Hello EXCEPT !.op = "shutdown"]) /\ UNCHANGED verdict
  /\ UNCHANGED <<steps, planned, clockSet, outcome, conn, guest>>

\* The call is over with result r: an error ends the steps, but not the cleanup.
Finish(r) ==
  CASE call.op = "hello" ->
         /\ UNCHANGED outcome
         /\ IF r = "ok" THEN hpc' = "next" /\ UNCHANGED verdict
                        ELSE hpc' = "over" /\ verdict' = "failed"
    [] call.op = "shutdown" ->
         /\ hpc' = "over" /\ UNCHANGED outcome
         /\ verdict' = IF r = "ok" THEN verdict ELSE "failed"
    [] call.op = "wait" /\ r = "ok" ->
         hpc' = "waiting" /\ UNCHANGED <<outcome, verdict>>
    [] OTHER ->
         /\ outcome' = [outcome EXCEPT ![steps] = r]
         /\ IF r = "ok" THEN hpc' = "next" /\ UNCHANGED verdict
                        ELSE hpc' = "shutdown" /\ verdict' = "failed"

\* The timer of a wait, or the end of the run's context.
EndWait ==
  /\ hpc = "waiting"
  /\ \/ Send([call EXCEPT !.op = "wait.end"]) /\ UNCHANGED <<verdict, outcome>>
     \/ /\ outcome' = [outcome EXCEPT ![steps] = "error"] /\ verdict' = "failed"
        /\ hpc' = "shutdown" /\ UNCHANGED <<call, wire, answer>>
  /\ UNCHANGED <<steps, planned, clockSet, conn, guest>>

\* A well-formed answer; the host re-validates clock and lifecycle observations.
Receive ==
  /\ hpc = "call" /\ wire = "response"
  /\ wire' = "none"
  /\ Finish(IF answer = "ok" THEN "ok" ELSE "error")
  /\ conn' = IF hpc' = "over" THEN "closed" ELSE conn
  /\ UNCHANGED <<steps, planned, clockSet, call, answer, guest>>

\* Faulty variant: a call that timed out is sent again.
RetryCall ==
  /\ hpc = "call" /\ conn = "open" /\ wire = "response"
  /\ wire' = "request"
  /\ UNCHANGED <<host, conn, answer, guest>>

\* Faulty variant: the client waits for an answer without a deadline.
AwaitForever ==
  /\ hpc = "call" /\ conn = "guestClosed"
  /\ conn' = "closed" /\ Finish("unknown")
  /\ UNCHANGED <<steps, planned, clockSet, call, wire, answer, guest>>

\* The deadline, a cancelled run, a lost connection or a malformed answer.
CallFails ==
  /\ hpc = "call"
  /\ conn' = "closed"
  /\ Finish(IF call.op \in Reads \cup {"hello"} THEN "error" ELSE "unknown")
  /\ UNCHANGED <<steps, planned, clockSet, call, wire, answer, guest>>

Host ==
  \/ Dial \/ AbortDial \/ BootDeadline \/ SendHello
  \/ (\E c \in Call : BeginStep(c)) \/ EndWait \/ EndSteps \/ BeginShutdown \/ Receive \/ CallFails

-----------------------------------------------------------------------------
(* The guest: the session loop.  serveConn never returns without an error  *)
(* unless it was shut down, so Serve serves one connection.                *)

Reply(a) == answer' = a /\ gpc' = "reply"

TakeRequest ==
  /\ gpc = "idle" /\ wire = "request"
  /\ wire' = "none" /\ gpc' = "handle"
  /\ UNCHANGED <<host, conn, answer, clockReady, svc, effects, lost>>

\* The write may fail; the host may be gone.
SendReply ==
  /\ gpc = "reply"
  /\ \/ /\ conn = "open" /\ wire' = "response" /\ UNCHANGED conn
        /\ gpc' = IF call.op = "shutdown" THEN "closing" ELSE "idle"
     \/ /\ gpc' = "closing" /\ UNCHANGED wire
        /\ conn' = IF conn = "open" THEN "guestClosed" ELSE conn
  /\ UNCHANGED <<host, answer, clockReady, svc, effects, lost>>

SessionEnds ==
  /\ gpc = "idle" /\ conn = "closed"
  /\ gpc' = "closing"
  /\ UNCHANGED <<host, conn, wire, answer, clockReady, svc, effects, lost>>

-----------------------------------------------------------------------------
(* The guest: Server.handle and the service manager.                       *)

Entries   == {s \in Services : svc[s].entry}
Unhealthy == \E s \in Entries : ~svc[s].expected /\ (svc[s].over \/ svc[s].proc = "done")
Performed == effects' = [effects EXCEPT ![steps] = @ + 1]

\* The guards of handle and of the manager.
Refused ==
  CASE call.op = "clock.set" -> Entries # {} /\ ~call.live
    [] call.op = "action.exec" -> ~clockReady
    [] call.op = "service.start" ->
         ~clockReady \/ svc[call.service].entry \/ Full(Entries)
    [] call.op = "service.stop" -> ~svc[call.service].entry
    [] OTHER -> FALSE

Sick == call.op \notin {"shutdown", "service.stop"} /\ Unhealthy

Reject ==
  /\ gpc = "handle" /\ (Sick \/ Refused)
  /\ Reply(IF Sick THEN "error" ELSE "refused")
  /\ UNCHANGED <<host, conn, wire, clockReady, svc, effects, lost>>

Admitted(op) == gpc = "handle" /\ call.op = op /\ ~Sick /\ ~Refused

SayHello ==
  /\ Admitted("hello")
  /\ Reply("ok")
  /\ UNCHANGED <<host, conn, wire, clockReady, svc, effects, lost>>

ReadClock ==
  /\ \E op \in Reads : Admitted(op)
  /\ \/ /\ Reply("ok")
        /\ IF call.op = "wait" THEN UNCHANGED effects ELSE Performed
     \/ Reply("error") /\ UNCHANGED effects
  /\ UNCHANGED <<host, conn, wire, clockReady, svc, lost>>

\* A failed or invalid readback closes the barrier; the host rejects the latter.
SetClock ==
  /\ Admitted("clock.set")
  /\ \/ Reply("ok") /\ Performed /\ clockReady' = TRUE
     \/ Reply("error") /\ (Performed \/ UNCHANGED effects) /\ clockReady' = FALSE
  /\ UNCHANGED <<host, conn, wire, svc, lost>>

LaunchAction ==
  /\ Admitted("action.exec")
  /\ \/ gpc' = "action" /\ Performed /\ UNCHANGED answer
     \/ Reply("error") /\ UNCHANGED effects
  /\ UNCHANGED <<host, conn, wire, clockReady, svc, lost>>

\* The declared process ends with an exit code and JSON output.
ActionEnds ==
  /\ gpc = "action"
  /\ Reply("ok")
  /\ UNCHANGED <<host, conn, wire, clockReady, svc, effects, lost>>

\* Faulty variant: a running action notices neither its deadline nor a lost host.
ActionOnlyFailsSick ==
  /\ gpc \in {"action", "ready"} /\ Unhealthy
  /\ Reply("error")
  /\ UNCHANGED <<host, conn, wire, clockReady, svc, effects, lost>>

\* The deadline, a lost host, an unhealthy service, output over quota or malformed,
\* or an error of the termination; a readiness action ends service.start with it.
ActionFails ==
  /\ gpc \in {"action", "ready"}
  /\ Reply("error")
  /\ UNCHANGED <<host, conn, wire, clockReady, svc, effects, lost>>

LaunchService ==
  /\ Admitted("service.start")
  /\ \/ /\ gpc' = "ready" /\ Performed /\ UNCHANGED answer
        /\ svc' = [svc EXCEPT ![call.service] = [NoEntry EXCEPT !.entry = TRUE, !.proc = "up"]]
     \/ Reply("error") /\ UNCHANGED <<effects, svc>>
  /\ UNCHANGED <<host, conn, wire, clockReady, lost>>

ServiceReady ==
  /\ gpc = "ready" /\ ~Unhealthy
  /\ Reply("ok")
  /\ UNCHANGED <<host, conn, wire, clockReady, svc, effects, lost>>

\* A service that is done before is an error, and so is a failed clock read; one that is
\* dead and not yet done passes for running.
BeginStop ==
  /\ Admitted("service.stop")
  /\ \/ Reply("error") /\ UNCHANGED svc
     \/ /\ svc[call.service].proc # "done"
        /\ svc' = [svc EXCEPT ![call.service].expected = TRUE]
        /\ gpc' = "stopping" /\ UNCHANGED answer
  /\ UNCHANGED <<host, conn, wire, clockReady, effects, lost>>

\* Faulty variant: a stopped service stays in the table.
EndStopKept ==
  /\ gpc = "stopping"
  /\ \/ Performed /\ (Reply("error") \/ (~svc[call.service].over /\ Reply("ok")))
     \/ Reply("error") /\ UNCHANGED effects
  /\ UNCHANGED <<host, conn, wire, clockReady, svc, lost>>

\* A failed terminate leaves the entry, marked as expected to end.
EndStop ==
  /\ gpc = "stopping"
  /\ \/ /\ svc' = [svc EXCEPT ![call.service] = NoEntry] /\ Performed
        /\ Reply("error") \/ (~svc[call.service].over /\ Reply("ok"))
     \/ Reply("error") /\ UNCHANGED <<svc, effects>>
  /\ UNCHANGED <<host, conn, wire, clockReady, lost>>

\* terminate fails for the services in F.
StopAll(F) ==
  svc' = [s \in Services |-> IF ~svc[s].entry THEN svc[s]
                            ELSE IF s \in F THEN [svc[s] EXCEPT !.expected = TRUE] ELSE NoEntry]

\* Faulty variant: shutdown does not ask for the health of the services first.
ShutdownUnchecked ==
  /\ Admitted("shutdown")
  /\ gpc' = "stopAll"
  /\ UNCHANGED <<host, conn, wire, answer, clockReady, svc, effects, lost>>

\* shutdown: Health, which gives the manager's lock back, and later StopAll; the two
\* errors are joined.
Shutdown ==
  /\ Admitted("shutdown")
  /\ gpc' = IF Unhealthy THEN "stopSick" ELSE "stopAll"
  /\ UNCHANGED <<host, conn, wire, answer, clockReady, svc, effects, lost>>

StoppingAll == gpc \in {"stopAll", "stopSick"}
Flooded     == \E s \in Entries : svc[s].over

EndShutdown ==
  /\ StoppingAll
  /\ \E F \in SUBSET Entries :
       /\ StopAll(F)
       /\ Reply(IF gpc = "stopSick" \/ F # {} \/ Flooded THEN "error" ELSE "ok")
  /\ UNCHANGED <<host, conn, wire, clockReady, effects, lost>>

\* Serve's deferred StopAll; the agent is not restarted.
AgentReturns ==
  /\ gpc = "closing"
  /\ \E F \in SUBSET Entries : StopAll(F)
  /\ gpc' = "gone"
  /\ conn' = IF conn = "open" THEN "guestClosed" ELSE conn
  /\ UNCHANGED <<host, wire, answer, clockReady, effects, lost>>

Guest ==
  \/ TakeRequest \/ SendReply \/ SessionEnds \/ Reject
  \/ SayHello \/ ReadClock \/ SetClock \/ LaunchAction \/ ActionFails \/ LaunchService
  \/ BeginStop \/ EndStop \/ Shutdown \/ EndShutdown \/ AgentReturns

-----------------------------------------------------------------------------
(* Services end and write output on their own.                             *)

ServiceExits(s) ==
  /\ svc[s].proc = "up"
  /\ svc' = [svc EXCEPT ![s].proc = "dead"]
  /\ UNCHANGED <<host, conn, wire, answer, gpc, clockReady, effects, lost>>

\* startOwned's goroutine: the rest of the group is killed, the process reaped, p.done closed.
ServiceDone(s) ==
  /\ svc[s].proc = "dead"
  /\ svc' = [svc EXCEPT ![s].proc = "done"]
  /\ lost' = (lost \/ ~(svc[s].expected \/ StoppingAll))
  /\ UNCHANGED <<host, conn, wire, answer, gpc, clockReady, effects>>

\* The output is still read from the pipes of a dead process.
ServiceFloods(s) ==
  /\ svc[s].proc \in {"up", "dead"} /\ ~svc[s].over
  /\ svc' = [svc EXCEPT ![s].over = TRUE]
  /\ lost' = TRUE
  /\ UNCHANGED <<host, conn, wire, answer, gpc, clockReady, effects>>

Next ==
  \/ Host \/ Guest \/ ActionEnds \/ ServiceReady
  \/ \E s \in Services : ServiceExits(s) \/ ServiceDone(s) \/ ServiceFloods(s)

Spec == Init /\ [][Next]_vars

\* Every call of the host has a deadline; nothing obliges the guest, an action or a
\* service to get anywhere.
FairSpec == Spec /\ WF_vars(Host)

-----------------------------------------------------------------------------
(* Properties.                                                             *)

\* No step is performed twice or out of order, also when its answer is late or lost:
\* a successful outcome stands for exactly one execution, and a step is performed
\* only after all earlier ones succeeded.
NoReplay == \A i \in StepIndex :
  /\ effects[i] <= 1
  /\ outcome[i] = "ok" => effects[i] = 1
  /\ effects[i] = 1 => \A j \in 1..(i - 1) : outcome[j] = "ok"

\* A plan that Scenario.Validate accepts never runs into a guard of the agent: the
\* clock barrier, live clock changes, the service limit, double starts and stops.
NoGuardRefusal == answer # "refused"

\* A run that stays COMPLETED through the guest's shutdown has no service left, none that
\* overran its output quota, and none whose end was announced (p.done closed) before its stop,
\* or before the shutdown's health check, was begun: every such failure is noticed, whatever
\* requests run meanwhile.  A service that dies in the gaps, while its group is still being
\* killed and reaped or between the health check and StopAll, passes for one that was stopped.
PassMeansHealthy ==
  hpc = "over" /\ verdict = "completed" => ~lost /\ \A s \in Services : svc[s].proc = "none"

\* An agent that runs gives up its work and its services when the host is gone, also
\* in the middle of an action that hangs: every request of the guest has a deadline.
AgentEnds == WF_vars(Guest) => (conn = "closed" ~> gpc = "gone")

\* The host ends its calls, also when the agent or the whole guest hangs.
CallsEnd == <>(hpc = "over")

\* A lost connection ends its session only: while the host still retries its dial,
\* the agent is there to accept.
RetryCanSucceed == hpc = "dial" => gpc # "gone"
-----------------------------------------------------------------------------
(* The inductive invariant behind the safety properties.                   *)

\* Calls, frames, table entries and outcomes have the shapes the two ends give them.
TypeOK ==
  /\ hpc \in {"dial", "handshake", "call", "waiting", "next", "shutdown", "over"}
  /\ verdict \in {"running", "completed", "failed"}
  /\ steps \in 0..MaxSteps /\ planned \subseteq Services /\ clockSet \in BOOLEAN
  /\ call \in Call
  /\ conn \in {"none", "open", "closed", "guestClosed"}
  /\ wire \in {"none", "request", "response"}
  /\ answer \in {"none", "ok", "error"}
  /\ outcome \in [StepIndex -> {"none", "ok", "error", "unknown"}]
  /\ gpc \in {"listening", "idle", "handle", "action", "ready", "stopping", "stopAll",
              "stopSick", "reply", "closing", "gone"}
  /\ clockReady \in BOOLEAN /\ lost \in BOOLEAN
  /\ svc \in [Services -> Service]
  /\ effects \in [StepIndex -> {0, 1}]

\* The connection, and where both ends can be: a guest that is waited for has the
\* current call, and nobody sends on a connection that a failed call has closed.
LinkInv ==
  /\ conn = "none" => gpc = "listening" /\ hpc \in {"dial", "over"}
  /\ hpc = "dial" => conn \in {"none", "closed"}
  /\ hpc \in {"handshake", "next", "waiting"} => conn = "open"
  /\ hpc = "shutdown" => conn \in {"open", "closed"}
  /\ hpc = "call" => conn \in {"open", "guestClosed"}
  /\ hpc = "over" => conn \in {"none", "closed"}
  /\ hpc \in {"handshake", "next", "waiting", "shutdown"} /\ conn = "open" =>
       gpc = "idle" /\ wire = "none"
  /\ conn = "guestClosed" => gpc \in {"closing", "gone"}
  /\ wire # "none" => gpc \in {"idle", "closing", "gone"}
  /\ hpc = "call" /\ wire = "response" /\ call.op # "shutdown" => conn = "open" /\ gpc = "idle"

\* The current call: its step, its progress at the guest and its answer.
Stepping == call.op \notin {"hello", "shutdown"}
Pending  == (gpc = "idle" /\ wire = "request") \/ gpc \in {"handle", "stopping"}

CallInv ==
  /\ call.op = "hello" \/ hpc \in {"dial", "handshake"} => steps = 0
  /\ Stepping => steps > 0
  /\ hpc = "waiting" => call.op = "wait"
  /\ hpc = "next" /\ steps > 0 => outcome[steps] = "ok"
  /\ hpc \in {"dial", "handshake", "next", "waiting"} => verdict = "running"
  /\ hpc = "call" /\ call.op # "shutdown" => verdict = "running"
  /\ Pending \/ gpc \in {"action", "ready"} => answer = "none"
  /\ gpc = "reply" => answer # "none"
  /\ gpc = "action" => call.op = "action.exec"
  /\ gpc = "ready" => call.op = "service.start"
  /\ gpc = "stopping" => call.op = "service.stop" /\ svc[call.service].expected
  /\ StoppingAll => call.op = "shutdown" /\ answer = "none"

\* Every step before the current one succeeded and was performed once; the current
\* one is performed with its answer still to come.
EffectInv ==
  /\ \A i \in StepIndex : i > steps => outcome[i] = "none" /\ effects[i] = 0
  /\ \A i \in StepIndex : i < steps => outcome[i] = "ok" /\ effects[i] = 1
  /\ \A i \in StepIndex : i = steps /\ outcome[i] = "ok" => effects[i] = 1
  /\ Stepping /\ (Pending \/ call.op = "wait") => effects[steps] = 0
  /\ gpc \in {"action", "ready"} \/ (Stepping /\ call.op # "wait" /\ answer = "ok") =>
       effects[steps] = 1

\* The services that Manager must have before it performs the current call.
TableBefore ==
  CASE call.op = "service.start" -> planned \ {call.service}
    [] call.op = "service.stop" -> planned \cup {call.service}
    [] OTHER -> planned

\* The guest's table is the one that Validate computed for the plan so far.
InStep == Entries = planned /\ (clockSet => clockReady)

TableInv ==
  /\ steps = 0 => planned = {} /\ ~clockSet
  /\ hpc \in {"next", "waiting"} \/ gpc \in {"action", "ready"} => InStep
  /\ Stepping /\ answer = "ok" /\ gpc \in {"reply", "idle"} => InStep
  /\ Stepping /\ Pending =>
       /\ Entries = TableBefore
       /\ clockSet /\ call.op # "clock.set" => clockReady
       /\ call.op = "clock.set" /\ planned # {} => call.live
       /\ call.op \in {"action.exec", "service.start"} => clockSet
       /\ call.op = "service.start" =>
            call.service \in planned /\ ~Full(planned \ {call.service})
       /\ call.op = "service.stop" => call.service \in Services \ planned

\* A service that was lost is still to be noticed, or its error is on its way.
Evidence == \E s \in Entries : svc[s].over \/ (~svc[s].expected /\ svc[s].proc = "done")
Unsent   == hpc = "call" /\ conn = "guestClosed" /\ wire = "none"

HealthInv ==
  /\ \A s \in Services : ~svc[s].entry => svc[s] = NoEntry
  /\ steps = 0 => ~lost /\ \A s \in Services : svc[s] = NoEntry
  /\ call.op = "shutdown" /\ answer = "ok" => \A s \in Services : svc[s] = NoEntry
  /\ verdict = "running" => hpc \notin {"shutdown", "over"} /\ call.op # "shutdown"
  /\ verdict = "completed" =>
       hpc \in {"shutdown", "call", "over"} /\ (hpc # "shutdown" => call.op = "shutdown")
  /\ verdict # "failed" =>
       /\ conn = "closed" => hpc \in {"dial", "over"}
       /\ hpc \in {"next", "waiting", "shutdown", "over"} => answer = "ok"
       /\ gpc \in {"closing", "gone"} =>
            steps = 0 \/ answer = "error" \/ Unsent \/ (call.op = "shutdown" /\ answer = "ok")
       /\ lost => Evidence \/ gpc = "stopSick" \/ answer = "error" \/ Unsent
       /\ lost /\ gpc = "stopAll" => Flooded

\* Each conjunct leans on the others: the table on the call, the effects on both.
IInv == TypeOK /\ LinkInv /\ CallInv /\ EffectInv /\ TableInv /\ HealthInv
=============================================================================
