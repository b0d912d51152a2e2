------------------------ MODULE GuestSessionProofs -------------------------
(***************************************************************************)
(* The session keeps its promises for every plan: no step is performed     *)
(* twice or out of order, the agent's guards refuse no valid plan, and a   *)
(* run that completes lost no service.                                     *)
(***************************************************************************)
EXTENDS GuestSession, TLAPS

-----------------------------------------------------------------------------
(* Records, the ends of a call and the agent's guards.                     *)

\* A table entry stays one through every write the agent makes to it.
LEMMA Entry ==
  /\ NoEntry \in Service
  /\ [NoEntry EXCEPT !.entry = TRUE, !.proc = "up"] \in Service
  /\ \A s \in Service : /\ [s EXCEPT !.expected = TRUE] \in Service
                        /\ [s EXCEPT !.over = TRUE] \in Service
                        /\ [s EXCEPT !.proc = "dead"] \in Service
                        /\ [s EXCEPT !.proc = "done"] \in Service
<1>1. /\ NoEntry \in Service
      /\ [NoEntry EXCEPT !.entry = TRUE, !.proc = "up"] \in Service
  BY ZenonT(120) DEF NoEntry, Service
<1>2. ASSUME NEW s \in Service
      PROVE  /\ [s EXCEPT !.expected = TRUE] \in Service
             /\ [s EXCEPT !.over = TRUE] \in Service
             /\ [s EXCEPT !.proc = "dead"] \in Service
             /\ [s EXCEPT !.proc = "done"] \in Service
  BY ZenonT(120) DEF Service
<1> QED BY <1>1, <1>2

\* Which fields each of those writes leaves alone.
LEMMA EntryFields ==
  /\ [NoEntry EXCEPT !.entry = TRUE, !.proc = "up"].entry /\ ~NoEntry.entry
  /\ \A s \in Service : /\ [s EXCEPT !.expected = TRUE].entry = s.entry
                        /\ [s EXCEPT !.expected = TRUE].over = s.over
  BY ZenonT(120) DEF NoEntry, Service

\* The calls that are built from another one have a call's shape.
LEMMA Calls ==
  /\ Hello \in Call /\ [Hello EXCEPT !.op = "shutdown"] \in Call
  /\ \A c \in Call : [c EXCEPT !.op = "wait.end"] \in Call
  BY ZenonT(120) DEF Hello, Call, Op, Reads

\* The closing request is a shutdown.
LEMMA ShutdownCall == [Hello EXCEPT !.op = "shutdown"].op = "shutdown"
  BY ZenonT(120) DEF Hello

\* A request that performs a step names a step of the plan.
LEMMA StepRange == IInv /\ Stepping => steps \in StepIndex
  BY SessionAssumption DEF IInv, TypeOK, CallInv, StepIndex

\* stopAll, as its effect on the table.
LEMMA StopAllCases ==
  ASSUME NEW F, StopAll(F), NEW t \in Services
  PROVE  \/ ~svc[t].entry /\ svc'[t] = svc[t]
         \/ svc[t].entry /\ t \in F /\ svc'[t] = [svc[t] EXCEPT !.expected = TRUE]
         \/ svc[t].entry /\ t \notin F /\ svc'[t] = NoEntry
  BY DEF StopAll

\* Where the host goes on from a call's result, and what it writes.
LEMMA FinishCases ==
  ASSUME NEW r, Finish(r)
  PROVE  \/ /\ call.op = "hello" /\ r = "ok"
            /\ hpc' = "next" /\ UNCHANGED <<outcome, verdict>>
         \/ /\ call.op = "hello" /\ r # "ok"
            /\ hpc' = "over" /\ verdict' = "failed" /\ UNCHANGED outcome
         \/ /\ call.op = "shutdown" /\ hpc' = "over" /\ UNCHANGED outcome
            /\ verdict' = IF r = "ok" THEN verdict ELSE "failed"
         \/ /\ call.op = "wait" /\ r = "ok"
            /\ hpc' = "waiting" /\ UNCHANGED <<outcome, verdict>>
         \/ /\ Stepping /\ call.op # "wait" /\ r = "ok"
            /\ outcome' = [outcome EXCEPT ![steps] = "ok"]
            /\ hpc' = "next" /\ UNCHANGED verdict
         \/ /\ Stepping /\ r # "ok" /\ outcome' = [outcome EXCEPT ![steps] = r]
            /\ hpc' = "shutdown" /\ verdict' = "failed"
  BY DEF Finish, Stepping

\* The host's ways on from an answer.
LEMMA ReceiveCases ==
  ASSUME Receive
  PROVE  /\ hpc = "call" /\ wire = "response" /\ wire' = "none"
         /\ UNCHANGED <<steps, planned, clockSet, call, answer, guest>>
         /\ \/ /\ call.op = "hello" /\ answer = "ok"
               /\ hpc' = "next" /\ UNCHANGED <<outcome, verdict, conn>>
            \/ /\ call.op = "hello" /\ answer # "ok"
               /\ hpc' = "over" /\ verdict' = "failed" /\ conn' = "closed" /\ UNCHANGED outcome
            \/ /\ call.op = "shutdown" /\ hpc' = "over" /\ conn' = "closed" /\ UNCHANGED outcome
               /\ verdict' = IF answer = "ok" THEN verdict ELSE "failed"
            \/ /\ call.op = "wait" /\ answer = "ok"
               /\ hpc' = "waiting" /\ UNCHANGED <<outcome, verdict, conn>>
            \/ /\ Stepping /\ call.op # "wait" /\ answer = "ok"
               /\ outcome' = [outcome EXCEPT ![steps] = "ok"]
               /\ hpc' = "next" /\ UNCHANGED <<verdict, conn>>
            \/ /\ Stepping /\ answer # "ok" /\ outcome' = [outcome EXCEPT ![steps] = "error"]
               /\ hpc' = "shutdown" /\ verdict' = "failed" /\ UNCHANGED conn
<1> DEFINE r == IF answer = "ok" THEN "ok" ELSE "error"
<1>1. Finish(r)  BY DEF Receive
<1> HIDE DEF r
<1>2. r = IF answer = "ok" THEN "ok" ELSE "error"  BY DEF r
<1>3. conn' = IF hpc' = "over" THEN "closed" ELSE conn  BY DEF Receive
<1>4. /\ hpc = "call" /\ wire = "response" /\ wire' = "none"
      /\ UNCHANGED <<steps, planned, clockSet, call, answer, guest>>
  BY DEF Receive
<1> QED BY <1>1, <1>2, <1>3, <1>4, FinishCases

\* The host's ways on from a call that failed.
LEMMA CallFailsCases ==
  ASSUME CallFails
  PROVE  /\ hpc = "call" /\ conn' = "closed" /\ verdict' = "failed"
         /\ UNCHANGED <<steps, planned, clockSet, call, wire, answer, guest>>
         /\ \/ hpc' = "over" /\ ~Stepping /\ UNCHANGED outcome
            \/ /\ hpc' = "shutdown" /\ Stepping
               /\ \E r \in {"error", "unknown"} : outcome' = [outcome EXCEPT ![steps] = r]
<1> DEFINE r == IF call.op \in Reads \cup {"hello"} THEN "error" ELSE "unknown"
<1>1. Finish(r)  BY DEF CallFails
<1>2. r \in {"error", "unknown"}  OBVIOUS
<1> HIDE DEF r
<1>3. /\ hpc = "call" /\ conn' = "closed"
      /\ UNCHANGED <<steps, planned, clockSet, call, wire, answer, guest>>
  BY DEF CallFails
<1> QED BY <1>1, <1>2, <1>3, FinishCases DEF Stepping

\* The guest's table is the plan's when a request arrives, so no guard refuses it.
LEMMA Guards == IInv /\ gpc = "handle" => ~Refused
<1> SUFFICES ASSUME IInv, gpc = "handle" PROVE ~Refused
  OBVIOUS
<1> USE DEF IInv, TypeOK, TableInv, Pending, Stepping, TableBefore
<1>1. CASE call.op = "clock.set"
  BY <1>1 DEF Refused
<1>2. CASE call.op = "action.exec"
  BY <1>2 DEF Refused
<1>3. CASE call.op = "service.start"
  <2>1. Entries = planned \ {call.service} /\ clockReady /\ ~Full(Entries)
    BY <1>3, ZenonT(120)
  <2>2. ~svc[call.service].entry
    BY <1>3, <2>1 DEF Entries
  <2> QED BY <1>3, <2>1, <2>2 DEF Refused
<1>4. CASE call.op = "service.stop"
  <2>1. call.service \in Entries
    BY <1>4
  <2> QED BY <1>4, <2>1 DEF Refused, Entries
<1> QED BY <1>1, <1>2, <1>3, <1>4 DEF Refused

-----------------------------------------------------------------------------
(* The invariant, one conjunct at a time.                                  *)

\* A session that has not begun satisfies the invariant.
LEMMA InitInv == Init => IInv
<1> SUFFICES ASSUME Init PROVE IInv
  OBVIOUS
<1> USE SessionAssumption DEF Init
<1>1. TypeOK
  <2>1. /\ steps \in 0..MaxSteps /\ planned \subseteq Services
        /\ outcome \in [StepIndex -> {"none", "ok", "error", "unknown"}]
        /\ effects \in [StepIndex -> {0, 1}] /\ svc \in [Services -> Service]
    BY Entry
  <2> QED BY <2>1, Calls, ZenonT(120) DEF TypeOK
<1>2. LinkInv /\ CallInv /\ EffectInv
  BY DEF LinkInv, CallInv, StoppingAll, EffectInv, Stepping, Pending, Hello, StepIndex
<1>3. TableInv /\ HealthInv
  BY DEF TableInv, HealthInv, Stepping, Hello, NoEntry, Unsent
<1> QED BY <1>1, <1>2, <1>3 DEF IInv

\* Every step keeps the types, and with them that no guard of the agent refuses.
LEMMA TypeStep == IInv /\ Next => TypeOK'
<1> SUFFICES ASSUME IInv, Next PROVE TypeOK'
  OBVIOUS
<1>1. CASE Dial
  BY <1>1 DEF Dial, IInv, TypeOK, host, guest
<1>2. CASE AbortDial
  BY <1>2 DEF AbortDial, IInv, TypeOK, host, guest
<1>3. CASE BootDeadline
  BY <1>3 DEF BootDeadline, IInv, TypeOK, host, guest
<1>4. CASE SendHello
  BY <1>4, Calls DEF SendHello, Send, IInv, TypeOK, host, guest
<1>5. ASSUME NEW c \in Call, BeginStep(c) PROVE TypeOK'
  <2>1. clockSet' \in BOOLEAN
    BY <1>5, Zenon DEF BeginStep
  <2>2. steps' \in 0..MaxSteps /\ planned' \subseteq Services
    BY <1>5, SessionAssumption DEF BeginStep, ValidStep, IInv, TypeOK
  <2> QED BY <1>5, <2>1, <2>2, ZenonT(120) DEF IInv, TypeOK, host, guest, BeginStep, Send
<1>6. CASE EndWait
  <2>1. outcome' \in [StepIndex -> {"none", "ok", "error", "unknown"}]
    BY <1>6 DEF EndWait, IInv, TypeOK
  <2>2. call' \in Call
    BY <1>6, Calls DEF EndWait, Send, IInv, TypeOK
  <2> QED BY <1>6, <2>1, <2>2 DEF IInv, TypeOK, host, guest, EndWait, Send
<1>7. CASE EndSteps
  BY <1>7 DEF EndSteps, IInv, TypeOK, host, guest
<1>8. CASE BeginShutdown
  BY <1>8, Calls DEF BeginShutdown, Send, IInv, TypeOK, host, guest
<1>9. CASE Receive
  BY <1>9, ReceiveCases DEF IInv, TypeOK, host, guest
<1>10. CASE CallFails
  BY <1>10, CallFailsCases DEF IInv, TypeOK, host, guest
<1>11. CASE TakeRequest
  BY <1>11 DEF TakeRequest, IInv, TypeOK, host, guest
<1>12. CASE SendReply
  BY <1>12 DEF SendReply, IInv, TypeOK, host, guest
<1>13. CASE SessionEnds
  BY <1>13 DEF SessionEnds, IInv, TypeOK, host, guest
<1>14. CASE Reject
  BY <1>14, Guards DEF Reject, Reply, IInv, TypeOK, host, guest
<1>15. CASE SayHello
  BY <1>15 DEF SayHello, Admitted, Reply, IInv, TypeOK, host, guest
<1>16. CASE ReadClock
  <2>1. effects[steps] = 0 /\ steps \in StepIndex
    BY <1>16, StepRange DEF ReadClock, Admitted, IInv, EffectInv, Stepping, Pending, Reads
  <2> QED BY <1>16, <2>1 DEF IInv, TypeOK, host, guest, ReadClock, Admitted, Reply, Performed
<1>17. CASE SetClock
  <2>1. effects[steps] = 0 /\ steps \in StepIndex
    BY <1>17, StepRange DEF SetClock, Admitted, IInv, EffectInv, Stepping, Pending
  <2>2. clockReady' \in BOOLEAN
    BY <1>17, Zenon DEF SetClock
  <2> QED BY <1>17, <2>1, <2>2 DEF IInv, TypeOK, host, guest, SetClock, Admitted, Reply, Performed
<1>18. CASE LaunchAction
  <2>1. effects[steps] = 0 /\ steps \in StepIndex
    BY <1>18, StepRange DEF LaunchAction, Admitted, IInv, EffectInv, Stepping, Pending, Reads
  <2> QED BY <1>18, <2>1 DEF IInv, TypeOK, host, guest, LaunchAction, Admitted, Reply, Performed
<1>19. CASE ActionFails
  BY <1>19 DEF ActionFails, Reply, IInv, TypeOK, host, guest
<1>20. CASE LaunchService
  <2>1. effects[steps] = 0 /\ steps \in StepIndex
    BY <1>20, StepRange DEF LaunchService, Admitted, IInv, EffectInv, Stepping, Pending
  <2>2. svc' \in [Services -> Service]
    BY <1>20, Entry DEF LaunchService, IInv, TypeOK
  <2> QED BY <1>20, <2>1, <2>2 DEF IInv, TypeOK, host, guest, LaunchService, Admitted, Reply,
             Performed
<1>21. CASE BeginStop
  <2>1. call.service \in Services
    BY <1>21 DEF BeginStop, Admitted, IInv, TableInv, Stepping, Pending
  <2>2. [svc[call.service] EXCEPT !.expected = TRUE] \in Service
    BY <2>1, Entry, ZenonT(120) DEF IInv, TypeOK
  <2>3. svc' \in [Services -> Service]
    BY <1>21, <2>2 DEF BeginStop, IInv, TypeOK
  <2> QED BY <1>21, <2>3 DEF IInv, TypeOK, host, guest, BeginStop, Admitted, Reply
<1>22. CASE EndStop
  <2>1. effects[steps] = 0 /\ steps \in StepIndex
    BY <1>22, StepRange DEF EndStop, IInv, CallInv, StoppingAll, EffectInv, Stepping, Pending
  <2>2. svc' \in [Services -> Service]
    BY <1>22, Entry DEF EndStop, IInv, TypeOK
  <2> QED BY <1>22, <2>1, <2>2 DEF IInv, TypeOK, host, guest, EndStop, Reply, Performed
<1>23. CASE Shutdown
  BY <1>23 DEF Shutdown, Admitted, IInv, TypeOK, host, guest
<1>24. CASE AgentReturns
  <2>1. PICK F : StopAll(F)
    BY <1>24 DEF AgentReturns
  <2>2. ASSUME NEW t \in Services PROVE svc'[t] \in Service
    <3>1. svc[t] \in Service
      BY DEF IInv, TypeOK
    <3> QED BY <2>1, <3>1, StopAllCases, Entry, ZenonT(120)
  <2>3. svc' \in [Services -> Service]
    BY <2>1, <2>2 DEF StopAll
  <2> QED BY <1>24, <2>3 DEF IInv, TypeOK, host, guest, AgentReturns
<1>25. CASE ActionEnds
  BY <1>25 DEF ActionEnds, Reply, IInv, TypeOK, host, guest
<1>26. CASE ServiceReady
  BY <1>26 DEF ServiceReady, Reply, IInv, TypeOK, host, guest
<1>27. ASSUME NEW s \in Services, ServiceExits(s) PROVE TypeOK'
  <2>1. [svc[s] EXCEPT !.proc = "dead"] \in Service
    BY Entry, ZenonT(120) DEF IInv, TypeOK
  <2>2. svc' \in [Services -> Service]
    BY <1>27, <2>1 DEF ServiceExits, IInv, TypeOK
  <2> QED BY <1>27, <2>2 DEF IInv, TypeOK, host, guest, ServiceExits
<1>28. ASSUME NEW s \in Services, ServiceFloods(s) PROVE TypeOK'
  <2>1. [svc[s] EXCEPT !.over = TRUE] \in Service
    BY Entry, ZenonT(120) DEF IInv, TypeOK
  <2>2. svc' \in [Services -> Service]
    BY <1>28, <2>1 DEF ServiceFloods, IInv, TypeOK
  <2>3. lost' \in BOOLEAN
    BY <1>28, Zenon DEF ServiceFloods
  <2> QED BY <1>28, <2>2, <2>3 DEF IInv, TypeOK, host, guest, ServiceFloods
<1>29. CASE EndShutdown
  <2>1. PICK F : StopAll(F)
    BY <1>29 DEF EndShutdown
  <2>2. ASSUME NEW t \in Services PROVE svc'[t] \in Service
    <3>1. svc[t] \in Service
      BY DEF IInv, TypeOK
    <3> QED BY <2>1, <3>1, StopAllCases, Entry, ZenonT(120)
  <2>3. svc' \in [Services -> Service]
    BY <2>1, <2>2 DEF StopAll
  <2> QED BY <1>29, <2>3 DEF IInv, TypeOK, host, guest, EndShutdown, StoppingAll, Reply
<1>30. ASSUME NEW s \in Services, ServiceDone(s) PROVE TypeOK'
  <2>1. [svc[s] EXCEPT !.proc = "done"] \in Service
    BY Entry, ZenonT(120) DEF IInv, TypeOK
  <2>2. svc' \in [Services -> Service]
    BY <1>30, <2>1 DEF ServiceDone, IInv, TypeOK
  <2>3. lost' \in BOOLEAN
    BY <1>30, Zenon DEF ServiceDone, IInv, TypeOK
  <2> QED BY <1>30, <2>2, <2>3 DEF IInv, TypeOK, host, guest, ServiceDone
<1> QED
  BY <1>1, <1>2, <1>3, <1>4, <1>5, <1>6, <1>7, <1>8, <1>9, <1>10, <1>11, <1>12, <1>13, <1>14,
     <1>15, <1>16, <1>17, <1>18, <1>19, <1>20, <1>21, <1>22, <1>23, <1>24, <1>25, <1>26, <1>27,
     <1>28, <1>29, <1>30, ZenonT(120) DEF Next, Host, Guest

\* Every step keeps what ties the two ends of the connection together.
LEMMA LinkStep == IInv /\ Next => LinkInv'
<1> SUFFICES ASSUME IInv, Next PROVE LinkInv'
  OBVIOUS
<1>1. CASE Dial
  BY <1>1 DEF Dial, IInv, TypeOK, LinkInv, host, guest
<1>2. CASE AbortDial
  BY <1>2 DEF AbortDial, IInv, TypeOK, LinkInv, host, guest
<1>3. CASE BootDeadline
  BY <1>3 DEF BootDeadline, IInv, TypeOK, LinkInv, host, guest
<1>4. CASE SendHello
  BY <1>4 DEF SendHello, Send, IInv, TypeOK, LinkInv, host, guest
<1>5. ASSUME NEW c \in Call, BeginStep(c) PROVE LinkInv'
  BY <1>5 DEF IInv, TypeOK, LinkInv, host, guest, BeginStep, Send
<1>6. CASE EndWait
  BY <1>6 DEF IInv, TypeOK, LinkInv, host, guest, EndWait, Send
<1>7. CASE EndSteps
  BY <1>7 DEF EndSteps, IInv, TypeOK, LinkInv, host, guest
<1>8. CASE BeginShutdown
  BY <1>8 DEF BeginShutdown, Send, IInv, TypeOK, LinkInv, host, guest
<1>9. CASE Receive
  BY <1>9, ReceiveCases DEF IInv, TypeOK, LinkInv, host, guest, Stepping
<1>10. CASE CallFails
  BY <1>10, CallFailsCases DEF IInv, TypeOK, LinkInv, host, guest
<1>11. CASE TakeRequest
  BY <1>11 DEF TakeRequest, IInv, TypeOK, LinkInv, host, guest
<1>12. CASE SendReply
  BY <1>12 DEF SendReply, IInv, TypeOK, LinkInv, host, guest
<1>13. CASE SessionEnds
  BY <1>13 DEF SessionEnds, IInv, TypeOK, LinkInv, host, guest
<1>14. CASE Reject
  BY <1>14 DEF Reject, Reply, IInv, TypeOK, LinkInv, host, guest
<1>15. CASE SayHello
  BY <1>15 DEF SayHello, Admitted, Reply, IInv, TypeOK, LinkInv, host, guest
<1>16. CASE ReadClock
  BY <1>16 DEF ReadClock, Admitted, Reply, Performed, Reads, IInv, TypeOK, LinkInv, host, guest
<1>17. CASE SetClock
  BY <1>17 DEF SetClock, Admitted, Reply, Performed, IInv, TypeOK, LinkInv, host, guest
<1>18. CASE LaunchAction
  BY <1>18 DEF LaunchAction, Admitted, Reply, Performed, IInv, TypeOK, LinkInv, host, guest
<1>19. CASE ActionFails
  BY <1>19 DEF ActionFails, Reply, IInv, TypeOK, LinkInv, host, guest
<1>20. CASE LaunchService
  BY <1>20 DEF LaunchService, Admitted, Reply, Performed, IInv, TypeOK, LinkInv, host, guest
<1>21. CASE BeginStop
  BY <1>21 DEF BeginStop, Admitted, Reply, IInv, TypeOK, LinkInv, host, guest
<1>22. CASE EndStop
  BY <1>22 DEF EndStop, Reply, Performed, IInv, TypeOK, LinkInv, host, guest
<1>23. CASE Shutdown
  BY <1>23 DEF Shutdown, Admitted, IInv, TypeOK, LinkInv, host, guest
<1>24. CASE AgentReturns
  BY <1>24 DEF AgentReturns, StopAll, IInv, TypeOK, LinkInv, host, guest
<1>25. CASE ActionEnds
  BY <1>25 DEF ActionEnds, Reply, IInv, TypeOK, LinkInv, host, guest
<1>26. CASE ServiceReady
  BY <1>26 DEF ServiceReady, Reply, IInv, TypeOK, LinkInv, host, guest
<1>27. ASSUME NEW s \in Services, ServiceExits(s) PROVE LinkInv'
  BY <1>27 DEF ServiceExits, IInv, TypeOK, LinkInv, host, guest
<1>28. ASSUME NEW s \in Services, ServiceFloods(s) PROVE LinkInv'
  BY <1>28, ZenonT(120) DEF ServiceFloods, IInv, TypeOK, LinkInv, host, guest
<1>29. CASE EndShutdown
  BY <1>29 DEF EndShutdown, StoppingAll, Reply, StopAll, IInv, TypeOK, LinkInv, host, guest
<1>30. ASSUME NEW s \in Services, ServiceDone(s) PROVE LinkInv'
  BY <1>30, ZenonT(120) DEF ServiceDone, IInv, LinkInv, host
<1> QED
  BY <1>1, <1>2, <1>3, <1>4, <1>5, <1>6, <1>7, <1>8, <1>9, <1>10, <1>11, <1>12, <1>13, <1>14,
     <1>15, <1>16, <1>17, <1>18, <1>19, <1>20, <1>21, <1>22, <1>23, <1>24, <1>25, <1>26, <1>27,
     <1>28, <1>29, <1>30, ZenonT(120) DEF Next, Host, Guest

\* Every step keeps what ties the request in flight to the host's place in the plan.
LEMMA CallStep == IInv /\ Next => CallInv'
<1> SUFFICES ASSUME IInv, Next PROVE CallInv'
  OBVIOUS
<1>1. CASE Dial
  BY <1>1 DEF Dial, IInv, TypeOK, LinkInv, CallInv, StoppingAll, Stepping, Pending, host, guest
<1>2. CASE AbortDial
  BY <1>2 DEF AbortDial, IInv, TypeOK, LinkInv, CallInv, StoppingAll, Stepping, Pending, host,
     guest
<1>3. CASE BootDeadline
  BY <1>3 DEF BootDeadline, IInv, TypeOK, LinkInv, CallInv, StoppingAll, Stepping, Pending, host,
     guest
<1>4. CASE SendHello
  BY <1>4 DEF IInv, TypeOK, LinkInv, CallInv, StoppingAll, Stepping, Pending, host, guest,
     SendHello, Send, Hello
<1>5. ASSUME NEW c \in Call, BeginStep(c) PROVE CallInv'
  BY <1>5 DEF IInv, TypeOK, LinkInv, CallInv, StoppingAll, Stepping, Pending, host, guest,
     BeginStep, Send, ValidStep
<1>6. CASE EndWait
  BY <1>6 DEF IInv, TypeOK, LinkInv, CallInv, StoppingAll, Stepping, Pending, host, guest,
     EndWait, Send, Call
<1>7. CASE EndSteps
  BY <1>7 DEF EndSteps, IInv, TypeOK, LinkInv, CallInv, StoppingAll, Stepping, Pending, host,
     guest
<1>8. CASE BeginShutdown
  BY <1>8, ShutdownCall, ZenonT(120) DEF BeginShutdown, Send, IInv, TypeOK, LinkInv, CallInv,
     StoppingAll, Stepping, Pending, host, guest
<1>9. CASE Receive
  BY <1>9, ReceiveCases, StepRange DEF IInv, TypeOK, LinkInv, CallInv, StoppingAll, Stepping,
     Pending, host, guest
<1>10. CASE CallFails
  BY <1>10, CallFailsCases DEF IInv, TypeOK, LinkInv, CallInv, StoppingAll, Stepping, Pending,
     host, guest
<1>11. CASE TakeRequest
  BY <1>11 DEF TakeRequest, IInv, TypeOK, LinkInv, CallInv, StoppingAll, Stepping, Pending, host,
     guest
<1>12. CASE SendReply
  BY <1>12 DEF SendReply, IInv, TypeOK, LinkInv, CallInv, StoppingAll, Stepping, Pending, host,
     guest
<1>13. CASE SessionEnds
  BY <1>13 DEF SessionEnds, IInv, TypeOK, LinkInv, CallInv, StoppingAll, Stepping, Pending, host,
     guest
<1>14. CASE Reject
  BY <1>14 DEF Reject, Reply, IInv, TypeOK, LinkInv, CallInv, StoppingAll, Stepping, Pending,
     host, guest
<1>15. CASE SayHello
  BY <1>15 DEF SayHello, Admitted, Reply, IInv, TypeOK, LinkInv, CallInv, StoppingAll, Stepping,
     Pending, host, guest
<1>16. CASE ReadClock
  BY <1>16 DEF ReadClock, Admitted, Reply, Performed, Reads, IInv, TypeOK, LinkInv, CallInv,
     StoppingAll, Stepping, Pending, host, guest
<1>17. CASE SetClock
  BY <1>17 DEF SetClock, Admitted, Reply, Performed, IInv, TypeOK, LinkInv, CallInv, StoppingAll,
     Stepping, Pending, host, guest
<1>18. CASE LaunchAction
  BY <1>18 DEF LaunchAction, Admitted, Reply, Performed, IInv, TypeOK, LinkInv, CallInv,
     StoppingAll, Stepping, Pending, host, guest
<1>19. CASE ActionFails
  BY <1>19 DEF ActionFails, Reply, IInv, TypeOK, LinkInv, CallInv, StoppingAll, Stepping,
     Pending, host, guest
<1>20. CASE LaunchService
  BY <1>20 DEF LaunchService, Admitted, Reply, Performed, IInv, TypeOK, LinkInv, CallInv,
     StoppingAll, Stepping, Pending, host, guest
<1>21. CASE BeginStop
  <2>1. call.service \in Services
    BY <1>21 DEF BeginStop, Admitted, IInv, TableInv, Stepping, Pending
  <2>2. gpc' = "stopping" => svc'[call.service].expected
    BY <1>21, <2>1 DEF BeginStop, Reply, IInv, TypeOK, Service
  <2> QED BY <1>21, <2>2 DEF IInv, TypeOK, LinkInv, CallInv, StoppingAll, Stepping, Pending,
             host, guest, BeginStop, Admitted, Reply
<1>22. CASE EndStop
  BY <1>22 DEF EndStop, Reply, Performed, IInv, TypeOK, LinkInv, CallInv, StoppingAll, Stepping,
     Pending, host, guest
<1>23. CASE Shutdown
  BY <1>23 DEF Shutdown, Admitted, IInv, TypeOK, LinkInv, CallInv, StoppingAll, Stepping,
     Pending, host, guest
<1>24. CASE AgentReturns
  BY <1>24 DEF AgentReturns, StopAll, IInv, TypeOK, LinkInv, CallInv, StoppingAll, Stepping,
     Pending, host, guest
<1>25. CASE ActionEnds
  BY <1>25, SMTT(60) DEF ActionEnds, Reply, IInv, TypeOK, LinkInv, CallInv, StoppingAll,
     Stepping, Pending, host, guest
<1>26. CASE ServiceReady
  BY <1>26 DEF ServiceReady, Reply, IInv, TypeOK, LinkInv, CallInv, StoppingAll, Stepping,
     Pending, host, guest
<1>27. ASSUME NEW s \in Services, ServiceExits(s) PROVE CallInv'
  BY <1>27 DEF IInv, TypeOK, LinkInv, CallInv, StoppingAll, Stepping, Pending, host, guest,
     ServiceExits, Service
<1>28. ASSUME NEW s \in Services, ServiceFloods(s) PROVE CallInv'
  BY <1>28, SMTT(60), Z3T(60) DEF IInv, TypeOK, LinkInv, CallInv, StoppingAll, Stepping, Pending,
     host, guest, ServiceFloods, Service
<1>29. CASE EndShutdown
  BY <1>29 DEF EndShutdown, Reply, StopAll, IInv, TypeOK, LinkInv, CallInv, StoppingAll, Stepping,
     Pending, host, guest
<1>30. ASSUME NEW s \in Services, ServiceDone(s) PROVE CallInv'
  BY <1>30, SMTT(60), Z3T(60) DEF IInv, TypeOK, CallInv, StoppingAll, Stepping, Pending, host,
     ServiceDone, Service
<1> QED
  BY <1>1, <1>2, <1>3, <1>4, <1>5, <1>6, <1>7, <1>8, <1>9, <1>10, <1>11, <1>12, <1>13, <1>14,
     <1>15, <1>16, <1>17, <1>18, <1>19, <1>20, <1>21, <1>22, <1>23, <1>24, <1>25, <1>26, <1>27,
     <1>28, <1>29, <1>30, ZenonT(120) DEF Next, Host, Guest

\* Every step keeps the count of effects tied to the outcomes reported.
LEMMA EffectStep == IInv /\ Next => EffectInv'
<1> SUFFICES ASSUME IInv, Next PROVE EffectInv'
  OBVIOUS
<1>1. CASE Dial
  BY <1>1 DEF Dial, IInv, TypeOK, LinkInv, CallInv, EffectInv, Stepping, Pending, StepIndex, host,
     guest
<1>2. CASE AbortDial
  BY <1>2 DEF AbortDial, IInv, TypeOK, LinkInv, CallInv, EffectInv, Stepping, Pending, StepIndex,
     host, guest
<1>3. CASE BootDeadline
  BY <1>3 DEF BootDeadline, IInv, TypeOK, LinkInv, CallInv, EffectInv, Stepping, Pending,
     StepIndex, host, guest
<1>4. CASE SendHello
  BY <1>4, ZenonT(120) DEF IInv, TypeOK, LinkInv, CallInv, EffectInv, Stepping, Pending,
     StepIndex, host, guest, SendHello, Send, Hello
<1>5. ASSUME NEW c \in Call, BeginStep(c) PROVE EffectInv'
  BY <1>5, SessionAssumption DEF IInv, TypeOK, LinkInv, CallInv, EffectInv, Stepping, Pending,
     StepIndex, host, guest, BeginStep, Send, ValidStep
<1>6. CASE EndWait
  BY <1>6, SessionAssumption, SMTT(60), ZenonT(120) DEF IInv, TypeOK, LinkInv, CallInv,
     EffectInv, Stepping, Pending, StepIndex, host, guest, EndWait, Send, Call
<1>7. CASE EndSteps
  BY <1>7 DEF EndSteps, IInv, TypeOK, LinkInv, CallInv, EffectInv, Stepping, Pending, StepIndex,
     host, guest
<1>8. CASE BeginShutdown
  <2>1. CASE conn = "closed"
    BY <1>8, <2>1 DEF IInv, TypeOK, LinkInv, CallInv, EffectInv, Stepping, Pending, StepIndex,
       host, guest, BeginShutdown
  <2>2. CASE conn # "closed"
    BY <1>8, <2>2, ShutdownCall, ZenonT(120) DEF IInv, TypeOK, LinkInv, CallInv, EffectInv,
       Stepping, Pending,
       StepIndex, host, guest, BeginShutdown, Send
  <2> QED BY <2>1, <2>2
<1>9. CASE Receive
  BY <1>9, ReceiveCases, SessionAssumption DEF IInv, TypeOK, LinkInv, CallInv, EffectInv,
     Stepping, Pending, StepIndex, host, guest
<1>10. CASE CallFails
  <2>1. CASE ~Stepping
    BY <1>10, <2>1, CallFailsCases, ZenonT(120) DEF IInv, EffectInv, Stepping, Pending, guest
  <2>2. CASE Stepping
    <3>1. PICK r \in {"error", "unknown"} : outcome' = [outcome EXCEPT ![steps] = r]
      BY <1>10, <2>2, CallFailsCases
    <3>2. \A i \in StepIndex : outcome'[i] = IF i = steps THEN r ELSE outcome[i]
      BY <3>1, ZenonT(120) DEF IInv, TypeOK
    <3> QED BY <1>10, <2>2, <3>2, CallFailsCases DEF IInv, TypeOK, LinkInv, CallInv, EffectInv,
               Stepping, Pending, StepIndex, host, guest
  <2> QED BY <2>1, <2>2, ZenonT(120)
<1>11. CASE TakeRequest
  BY <1>11, ZenonT(120) DEF TakeRequest, IInv, TypeOK, LinkInv, CallInv, EffectInv, Stepping,
     Pending, StepIndex, host, guest
<1>12. CASE SendReply
  BY <1>12, ZenonT(120) DEF SendReply, IInv, TypeOK, LinkInv, CallInv, EffectInv, Stepping,
     Pending, StepIndex, host, guest
<1>13. CASE SessionEnds
  BY <1>13, ZenonT(120) DEF SessionEnds, IInv, TypeOK, LinkInv, CallInv, EffectInv, Stepping,
     Pending, StepIndex, host, guest
<1>14. CASE Reject
  BY <1>14, ZenonT(120) DEF Reject, Reply, IInv, TypeOK, LinkInv, CallInv, EffectInv, Stepping,
     Pending, StepIndex, host, guest
<1>15. CASE SayHello
  BY <1>15, ZenonT(120) DEF SayHello, Admitted, Reply, IInv, TypeOK, LinkInv, CallInv, EffectInv,
     Stepping, Pending, StepIndex, host, guest
<1>16. CASE ReadClock
  BY <1>16, SessionAssumption, SMTT(60), Z3T(60) DEF IInv, TypeOK, LinkInv, CallInv, EffectInv,
     Stepping, Pending, StepIndex, host, guest, ReadClock, Admitted, Reply, Performed, Reads
<1>17. CASE SetClock
  BY <1>17, SessionAssumption, SMTT(60), Z3T(60) DEF SetClock, Admitted, Reply, Performed, IInv,
     TypeOK, LinkInv, CallInv, EffectInv, Stepping, Pending, StepIndex, host, guest
<1>18. CASE LaunchAction
  BY <1>18, SessionAssumption, SMTT(60), Z3T(60) DEF LaunchAction, Admitted, Reply, Performed,
     IInv, TypeOK, LinkInv, CallInv, EffectInv, Stepping, Pending, StepIndex, host, guest
<1>19. CASE ActionFails
  BY <1>19 DEF ActionFails, Reply, IInv, TypeOK, LinkInv, CallInv, EffectInv, Stepping, Pending,
     StepIndex, host, guest
<1>20. CASE LaunchService
  BY <1>20, SessionAssumption DEF LaunchService, Admitted, Reply, Performed, IInv, TypeOK,
     LinkInv, CallInv, EffectInv, Stepping, Pending, StepIndex, host, guest
<1>21. CASE BeginStop
  BY <1>21, ZenonT(120) DEF BeginStop, Admitted, Reply, IInv, TypeOK, LinkInv, CallInv,
     EffectInv, Stepping, Pending, StepIndex, host, guest
<1>22. CASE EndStop
  BY <1>22, SessionAssumption, SMTT(60), Z3T(60) DEF EndStop, Reply, Performed, IInv, TypeOK,
     LinkInv, CallInv, EffectInv, Stepping, Pending, StepIndex, host, guest
<1>23. CASE Shutdown
  BY <1>23, ZenonT(120) DEF Shutdown, Admitted, IInv, TypeOK, LinkInv, CallInv,
     EffectInv, Stepping, Pending, StepIndex, host, guest
<1>24. CASE AgentReturns
  BY <1>24, ZenonT(120) DEF AgentReturns, StopAll, IInv, TypeOK, LinkInv, CallInv, EffectInv,
     Stepping, Pending, StepIndex, host, guest
<1>25. CASE ActionEnds
  BY <1>25, ZenonT(120) DEF ActionEnds, Reply, IInv, TypeOK, LinkInv, CallInv, EffectInv,
     Stepping, Pending, StepIndex, host, guest
<1>26. CASE ServiceReady
  BY <1>26 DEF ServiceReady, Reply, IInv, TypeOK, LinkInv, CallInv, EffectInv, Stepping, Pending,
     StepIndex, host, guest
<1>27. ASSUME NEW s \in Services, ServiceExits(s) PROVE EffectInv'
  BY <1>27 DEF ServiceExits, IInv, TypeOK, LinkInv, CallInv, EffectInv, Stepping, Pending,
     StepIndex, host, guest
<1>28. ASSUME NEW s \in Services, ServiceFloods(s) PROVE EffectInv'
  BY <1>28, ZenonT(120) DEF ServiceFloods, IInv, TypeOK, LinkInv, CallInv, EffectInv, Stepping,
     Pending, StepIndex, host, guest
<1>29. CASE EndShutdown
  BY <1>29 DEF EndShutdown, Reply, StopAll, IInv, TypeOK, LinkInv, CallInv, StoppingAll,
     EffectInv, Stepping, Pending, StepIndex, host, guest
<1>30. ASSUME NEW s \in Services, ServiceDone(s) PROVE EffectInv'
  BY <1>30, ZenonT(120) DEF ServiceDone, IInv, EffectInv, Stepping, Pending, host
<1> QED
  BY <1>1, <1>2, <1>3, <1>4, <1>5, <1>6, <1>7, <1>8, <1>9, <1>10, <1>11, <1>12, <1>13, <1>14,
     <1>15, <1>16, <1>17, <1>18, <1>19, <1>20, <1>21, <1>22, <1>23, <1>24, <1>25, <1>26, <1>27,
     <1>28, <1>29, <1>30, ZenonT(120) DEF Next, Host, Guest

\* Every step keeps the table equal to what the performed steps imply.
LEMMA TableStep == IInv /\ Next => TableInv'
<1> SUFFICES ASSUME IInv, Next PROVE TableInv'
  OBVIOUS
<1>1. CASE Dial
  BY <1>1 DEF Dial, IInv, TypeOK, LinkInv, CallInv, TableInv, Stepping, Pending, InStep,
     TableBefore, Entries, host, guest
<1>2. CASE AbortDial
  BY <1>2 DEF AbortDial, IInv, TypeOK, LinkInv, CallInv, TableInv, Stepping, Pending, InStep,
     TableBefore, Entries, host, guest
<1>3. CASE BootDeadline
  BY <1>3, ZenonT(120) DEF BootDeadline, IInv, TypeOK, LinkInv, CallInv, TableInv, Stepping,
     Pending, InStep, TableBefore, Entries, host, guest
<1>4. CASE SendHello
  BY <1>4, ZenonT(120) DEF IInv, TypeOK, LinkInv, CallInv, TableInv, Stepping, Pending, InStep,
     TableBefore, Entries, host, guest, SendHello, Send, Hello
<1>5. ASSUME NEW c \in Call, BeginStep(c) PROVE TableInv'
  <2>1. /\ call' = c /\ gpc' = "idle" /\ answer' = "none" /\ hpc' = "call" /\ steps' > 0
        /\ Entries' = planned /\ (clockSet => clockReady') /\ ValidStep(c)
    BY <1>5 DEF BeginStep, Send, IInv, TypeOK, LinkInv, TableInv, InStep, Entries, guest
  <2>2. TableBefore' = planned
    BY <1>5, <2>1, SessionAssumption DEF BeginStep, ValidStep, TableBefore, IInv, TypeOK
  <2>3. clockSet' <=> (clockSet \/ c.op = "clock.set")
    BY <1>5, Zenon DEF BeginStep
  <2>4. /\ c.op = "clock.set" /\ planned' # {} => c.live
        /\ c.op = "service.start" =>
             c.service \in planned' /\ ~Full(planned' \ {c.service})
        /\ c.op = "service.stop" => c.service \in Services \ planned'
    BY <1>5, <2>1, <2>2, ZenonT(120) DEF BeginStep, ValidStep, TableBefore, IInv, TypeOK
  <2> QED BY <2>1, <2>2, <2>3, <2>4, SMTT(60), Z3T(60) DEF TableInv, ValidStep, Stepping, Pending
<1>6. CASE EndWait
  BY <1>6 DEF IInv, TypeOK, LinkInv, CallInv, TableInv, Stepping, Pending, InStep, TableBefore,
     Entries, host, guest, EndWait, Send, Call
<1>7. CASE EndSteps
  BY <1>7, ZenonT(120) DEF EndSteps, IInv, TypeOK, LinkInv, CallInv, TableInv, Stepping, Pending,
     InStep, TableBefore, Entries, host, guest
<1>8. CASE BeginShutdown
  <2>1. CASE conn = "closed"
    BY <1>8, <2>1, ZenonT(120) DEF IInv, TypeOK, LinkInv, CallInv, TableInv, Stepping, Pending,
       InStep, TableBefore, Entries, host, guest, BeginShutdown
  <2>2. CASE conn # "closed"
    BY <1>8, <2>2, ShutdownCall, ZenonT(120) DEF IInv, TypeOK, LinkInv, CallInv, TableInv,
       Stepping, Pending,
       InStep, TableBefore, Entries, host, guest, BeginShutdown, Send
  <2> QED BY <2>1, <2>2
<1>9. CASE Receive
  <2>1. steps = 0 => InStep
    BY DEF IInv, TableInv, HealthInv, InStep, Entries, NoEntry
  <2> QED BY <1>9, <2>1, ReceiveCases, SMTT(60) DEF IInv, TypeOK, LinkInv, CallInv, TableInv,
             Stepping, Pending, InStep, TableBefore, Entries, host, guest
<1>10. CASE CallFails
  BY <1>10, CallFailsCases DEF IInv, TypeOK, LinkInv, CallInv, TableInv, Stepping, Pending,
     InStep, TableBefore, Entries, host, guest
<1>11. CASE TakeRequest
  BY <1>11 DEF TakeRequest, IInv, TypeOK, LinkInv, CallInv, TableInv, Stepping, Pending, InStep,
     TableBefore, Entries, host, guest
<1>12. CASE SendReply
  BY <1>12, ZenonT(120) DEF SendReply, IInv, TypeOK, LinkInv, CallInv, TableInv, Stepping,
     Pending, InStep, TableBefore, Entries, host, guest
<1>13. CASE SessionEnds
  BY <1>13, ZenonT(120) DEF SessionEnds, IInv, TypeOK, LinkInv, CallInv, TableInv, Stepping,
     Pending, InStep, TableBefore, Entries, host, guest
<1>14. CASE Reject
  BY <1>14, ZenonT(120) DEF Reject, Reply, IInv, TypeOK, LinkInv, CallInv, TableInv, Stepping,
     Pending, InStep, TableBefore, Entries, host, guest
<1>15. CASE SayHello
  BY <1>15 DEF SayHello, Admitted, Reply, IInv, TypeOK, LinkInv, CallInv, TableInv, Stepping,
     Pending, InStep, TableBefore, Entries, host, guest
<1>16. CASE ReadClock
  BY <1>16 DEF ReadClock, Admitted, Reply, Performed, Reads, IInv, TypeOK, LinkInv, CallInv,
     TableInv, Stepping, Pending, InStep, TableBefore, Entries, host, guest
<1>17. CASE SetClock
  BY <1>17, ZenonT(120) DEF SetClock, Admitted, Reply, Performed, IInv, TypeOK, LinkInv, CallInv,
     TableInv, Stepping, Pending, InStep, TableBefore, Entries, host, guest
<1>18. CASE LaunchAction
  BY <1>18, ZenonT(120) DEF LaunchAction, Admitted, Reply, Performed, IInv, TypeOK, LinkInv,
     CallInv, TableInv, Stepping, Pending, InStep, TableBefore, Entries, host, guest
<1>19. CASE ActionFails
  BY <1>19 DEF ActionFails, Reply, IInv, TypeOK, LinkInv, CallInv, TableInv, Stepping, Pending,
     InStep, TableBefore, Entries, host, guest
<1>20. CASE LaunchService
  <2>1. CASE gpc' = "reply"
    BY <1>20, <2>1, ZenonT(120) DEF IInv, TypeOK, LinkInv, CallInv, TableInv, Stepping, Pending,
       InStep, TableBefore, Entries, host, guest, LaunchService, Admitted, Reply
  <2>2. CASE gpc' = "ready"
    <3>1. /\ Entries = planned \ {call.service} /\ call.service \in planned
          /\ clockSet => clockReady
      BY <1>20 DEF LaunchService, Admitted, IInv, TableInv, TableBefore, Stepping, Pending
    <3>2. svc' = [svc EXCEPT ![call.service] = [NoEntry EXCEPT !.entry = TRUE, !.proc = "up"]]
      BY <1>20, <2>2 DEF LaunchService, Reply
    <3>3. Entries' = Entries \cup {call.service}
      BY <3>1, <3>2, EntryFields, SMTT(60), Z3T(60) DEF Entries, IInv, TypeOK
    <3> QED BY <1>20, <2>2, <3>1, <3>3, ZenonT(120) DEF LaunchService, Admitted, IInv, LinkInv,
               CallInv, TableInv, InStep, Pending, Stepping, host
  <2> QED BY <1>20, <2>1, <2>2, ZenonT(120) DEF LaunchService, Reply
<1>21. CASE BeginStop
  BY <1>21 DEF IInv, TypeOK, LinkInv, CallInv, TableInv, Stepping, Pending, InStep, TableBefore,
     Entries, host, guest, BeginStop, Admitted, Reply, Service
<1>22. CASE EndStop
  <2>1. /\ Entries = planned \cup {call.service} /\ call.service \in Services \ planned
        /\ clockSet => clockReady
    BY <1>22 DEF EndStop, IInv, CallInv, TableInv, TableBefore, Stepping, Pending
  <2>2. CASE UNCHANGED svc
    BY <1>22, <2>1, <2>2, EntryFields, SMTT(60), Z3T(60) DEF IInv, TypeOK, LinkInv, CallInv,
       TableInv, Stepping, Pending, InStep, TableBefore, Entries, host, guest, EndStop, Reply
  <2>3. CASE svc' = [svc EXCEPT ![call.service] = NoEntry]
    <3>1. Entries' = Entries \ {call.service}
      BY <2>1, <2>3, EntryFields DEF Entries, IInv, TypeOK
    <3> QED BY <1>22, <2>1, <3>1 DEF EndStop, Reply, IInv, LinkInv, CallInv, TableInv, InStep,
               Pending, Stepping, host
  <2> QED BY <1>22, <2>2, <2>3 DEF EndStop
<1>23. CASE Shutdown
  BY <1>23, ZenonT(120) DEF Shutdown, Admitted, IInv, TypeOK, LinkInv, CallInv,
     TableInv, Stepping, Pending, InStep, TableBefore, Entries, host, guest
<1>24. CASE AgentReturns
  BY <1>24, ZenonT(120) DEF AgentReturns, StopAll, IInv, TypeOK, LinkInv, CallInv, TableInv,
     Stepping, Pending, InStep, TableBefore, Entries, host, guest
<1>25. CASE ActionEnds
  BY <1>25, ZenonT(120) DEF ActionEnds, Reply, IInv, TypeOK, LinkInv, CallInv, TableInv,
     Stepping, Pending, InStep, TableBefore, Entries, host, guest
<1>26. CASE ServiceReady
  BY <1>26, ZenonT(120) DEF ServiceReady, Reply, IInv, TypeOK, LinkInv, CallInv, TableInv,
     Stepping, Pending, InStep, TableBefore, Entries, host, guest
<1>27. ASSUME NEW s \in Services, ServiceExits(s) PROVE TableInv'
  BY <1>27, SMTT(60), Z3T(60) DEF IInv, TypeOK, LinkInv, CallInv, TableInv, Stepping, Pending,
     InStep, TableBefore, Entries, host, guest, ServiceExits, Service
<1>28. ASSUME NEW s \in Services, ServiceFloods(s) PROVE TableInv'
  BY <1>28, SMTT(60), Z3T(60) DEF IInv, TypeOK, LinkInv, CallInv, TableInv, Stepping, Pending,
     InStep, TableBefore, Entries, host, guest, ServiceFloods, Service
<1>29. CASE EndShutdown
  BY <1>29, ZenonT(120) DEF EndShutdown, Reply, StopAll, IInv, TypeOK, LinkInv, CallInv,
     StoppingAll, TableInv, Stepping, Pending, InStep, TableBefore, Entries, host, guest
<1>30. ASSUME NEW s \in Services, ServiceDone(s) PROVE TableInv'
  BY <1>30, SMTT(60), Z3T(60) DEF IInv, TypeOK, LinkInv, CallInv, StoppingAll, TableInv,
     Stepping, Pending, InStep, TableBefore, Entries, host, guest, ServiceDone, Service
<1> QED
  BY <1>1, <1>2, <1>3, <1>4, <1>5, <1>6, <1>7, <1>8, <1>9, <1>10, <1>11, <1>12, <1>13, <1>14,
     <1>15, <1>16, <1>17, <1>18, <1>19, <1>20, <1>21, <1>22, <1>23, <1>24, <1>25, <1>26, <1>27,
     <1>28, <1>29, <1>30, ZenonT(120) DEF Next, Host, Guest

\* Every step keeps a lost service in evidence until the verdict has it.
LEMMA HealthStep == IInv /\ Next => HealthInv'
<1> SUFFICES ASSUME IInv, Next PROVE HealthInv'
  OBVIOUS
<1>1. CASE Dial
  BY <1>1, ZenonT(120) DEF Dial, IInv, TypeOK, LinkInv, CallInv, HealthInv, Stepping, Pending,
     Evidence, Flooded, Unsent, Entries, host, guest
<1>2. CASE AbortDial
  BY <1>2, ZenonT(120) DEF AbortDial, IInv, TypeOK, LinkInv, CallInv, HealthInv, Stepping,
     Pending, Evidence, Flooded, Unsent, Entries, host, guest
<1>3. CASE BootDeadline
  BY <1>3, ZenonT(120) DEF BootDeadline, IInv, TypeOK, LinkInv, CallInv, HealthInv, Stepping,
     Pending, Evidence, Flooded, Unsent, Entries, host, guest
<1>4. CASE SendHello
  BY <1>4, ZenonT(120) DEF IInv, TypeOK, LinkInv, CallInv, HealthInv, Stepping, Pending,
     Evidence, Flooded, Unsent, Entries, host, guest, SendHello, Send, Hello
<1>5. ASSUME NEW c \in Call, BeginStep(c) PROVE HealthInv'
  BY <1>5 DEF IInv, TypeOK, LinkInv, CallInv, HealthInv, Stepping, Pending, Evidence, Flooded,
     Unsent, Entries, host, guest, BeginStep, Send, ValidStep
<1>6. CASE EndWait
  BY <1>6, ZenonT(120) DEF IInv, TypeOK, LinkInv, CallInv, HealthInv, Stepping, Pending,
     Evidence, Flooded, Unsent, Entries, host, guest, EndWait, Send, Call
<1>7. CASE EndSteps
  BY <1>7 DEF EndSteps, IInv, TypeOK, LinkInv, CallInv, HealthInv, Stepping, Pending, Evidence,
     Unsent, Entries, host, guest
<1>8. CASE BeginShutdown
  BY <1>8, ShutdownCall, ZenonT(120) DEF BeginShutdown, Send, IInv, TypeOK, LinkInv, CallInv,
     HealthInv,
     Stepping, Pending, Evidence, Flooded, Unsent, Entries, host, guest
<1>9. CASE Receive
  <2>1. hpc = "call" /\ UNCHANGED <<steps, call, answer, svc, gpc, lost>>
    BY <1>9, ReceiveCases DEF guest
  <2>2. Evidence <=> Evidence'
    BY <2>1 DEF Evidence, Entries
  <2> QED BY <1>9, <2>1, <2>2, ReceiveCases, SMTT(60) DEF IInv, TypeOK, LinkInv, CallInv,
             HealthInv, Stepping,
             Unsent
<1>10. CASE CallFails
  BY <1>10, CallFailsCases, SMTT(60) DEF IInv, TypeOK, LinkInv, CallInv, HealthInv, Stepping,
     Pending,
     Evidence, Flooded, Unsent, Entries, host, guest
<1>11. CASE TakeRequest
  BY <1>11, ZenonT(120) DEF TakeRequest, IInv, TypeOK, LinkInv, CallInv, HealthInv, Stepping,
     Pending, Evidence, Flooded, Unsent, Entries, host, guest
<1>12. CASE SendReply
  <2>1. hpc = "call" \/ conn = "closed"
    BY <1>12 DEF SendReply, IInv, TypeOK, LinkInv
  <2>2. UNCHANGED <<host, answer, svc, lost>> /\ wire = "none" /\ answer # "none"
    BY <1>12 DEF SendReply, IInv, TypeOK, LinkInv, CallInv
  <2>3. Evidence => Evidence'
    BY <2>2 DEF Evidence, Entries
  <2>4. conn' = "guestClosed" => Unsent'
    BY <1>12, <2>1, <2>2, ZenonT(120) DEF SendReply, Unsent, IInv, LinkInv, host
  <2> QED BY <1>12, <2>1, <2>2, <2>3, <2>4, SMTT(60) DEF SendReply, IInv, TypeOK, LinkInv,
             CallInv, HealthInv,
             Stepping, Pending, Unsent, host, guest
<1>13. CASE SessionEnds
  BY <1>13, ZenonT(120) DEF SessionEnds, IInv, TypeOK, LinkInv, CallInv, HealthInv, Stepping,
     Pending, Evidence, Flooded, Unsent, Entries, host, guest
<1>14. CASE Reject
  BY <1>14, ZenonT(120) DEF Reject, Reply, IInv, TypeOK, LinkInv, CallInv, HealthInv, Stepping,
     Pending, Evidence, Flooded, Unsent, Entries, host, guest
<1>15. CASE SayHello
  BY <1>15, ZenonT(120) DEF SayHello, Admitted, Reply, IInv, TypeOK, LinkInv, CallInv, HealthInv,
     Stepping, Pending, Evidence, Flooded, Unsent, Entries, host, guest
<1>16. CASE ReadClock
  BY <1>16, ZenonT(120) DEF ReadClock, Admitted, Reply, Performed, Reads, IInv, TypeOK, LinkInv,
     CallInv, HealthInv, Stepping, Pending, Evidence, Flooded, Unsent, Entries, host, guest
<1>17. CASE SetClock
  BY <1>17, ZenonT(120) DEF SetClock, Admitted, Reply, Performed, IInv, TypeOK, LinkInv, CallInv,
     HealthInv, Stepping, Pending, Evidence, Flooded, Unsent, Entries, host, guest
<1>18. CASE LaunchAction
  BY <1>18, ZenonT(120) DEF LaunchAction, Admitted, Reply, Performed, IInv, TypeOK, LinkInv,
     CallInv, HealthInv,
     Stepping, Pending, Evidence, Flooded, Unsent, Entries, host, guest
<1>19. CASE ActionFails
  BY <1>19 DEF ActionFails, Reply, IInv, TypeOK, LinkInv, CallInv, HealthInv, Stepping, Pending,
     Evidence, Flooded, Unsent, Entries, host, guest
<1>20. CASE LaunchService
  <2>1. ~svc[call.service].entry /\ call.service \in Services /\ answer = "none" /\ steps > 0
    BY <1>20 DEF LaunchService, Admitted, Refused, IInv, TypeOK, CallInv, TableInv, Stepping,
       Pending
  <2>2. \A t \in Services : t # call.service => svc'[t] = svc[t]
    BY <1>20, <2>1 DEF LaunchService, IInv, TypeOK
  <2>3. \A t \in Services : ~svc'[t].entry => svc'[t] = NoEntry
    <3>1. CASE UNCHANGED svc
      BY <3>1 DEF IInv, HealthInv
    <3>2. CASE svc' = [svc EXCEPT ![call.service] = [NoEntry EXCEPT !.entry = TRUE, !.proc = "up"]]
      <4>1. svc'[call.service] = [NoEntry EXCEPT !.entry = TRUE, !.proc = "up"]
        BY <2>1, <3>2 DEF IInv, TypeOK
      <4>2. svc'[call.service].entry
        BY <4>1, EntryFields, Zenon
      <4> QED BY <2>2, <4>2 DEF IInv, HealthInv
    <3> QED BY <1>20, <3>1, <3>2 DEF LaunchService
  <2>4. Evidence => Evidence'
    BY <2>1, <2>2 DEF Evidence, Entries
  <2> QED BY <1>20, <2>1, <2>3, <2>4, SMTT(60), Z3T(60) DEF LaunchService, Admitted, Reply, IInv,
             TypeOK, LinkInv, CallInv, HealthInv, Stepping, Pending, Unsent, host, guest
<1>21. CASE BeginStop
  <2>1. /\ svc[call.service].entry /\ svc[call.service] \in Service /\ call.service \in Services
        /\ answer = "none" /\ steps > 0
    BY <1>21 DEF BeginStop, Admitted, Refused, IInv, TypeOK, CallInv, TableInv, Stepping, Pending
  <2>2. \A t \in Services : t # call.service => svc'[t] = svc[t]
    BY <1>21, <2>1 DEF BeginStop, IInv, TypeOK
  <2>3. svc'[call.service].entry /\ svc'[call.service].over = svc[call.service].over
    <3>1. CASE UNCHANGED svc
      BY <2>1, <3>1
    <3>2. CASE svc' = [svc EXCEPT ![call.service].expected = TRUE]
      <4>1. svc'[call.service] = [svc[call.service] EXCEPT !.expected = TRUE]
        BY <2>1, <3>2, ZenonT(120) DEF IInv, TypeOK
      <4> QED BY <2>1, <4>1, EntryFields, Zenon
    <3> QED BY <1>21, <3>1, <3>2 DEF BeginStop
  <2>4. \A t \in Services : ~svc'[t].entry => svc'[t] = NoEntry
    BY <2>2, <2>3 DEF IInv, HealthInv
  <2>5. Evidence => Evidence' \/ answer' = "error"
    BY <1>21, <2>1, <2>2, <2>3, ZenonT(120) DEF BeginStop, Reply, Evidence, Entries
  <2> QED BY <1>21, <2>1, <2>4, <2>5, SMTT(60), Z3T(60) DEF BeginStop, Admitted, Reply, IInv,
             TypeOK, LinkInv, CallInv, HealthInv, Stepping, Pending, Unsent, host, guest
<1>22. CASE EndStop
  <2>1. call.service \in Services /\ svc[call.service].expected /\ answer = "none" /\ steps > 0
    BY <1>22 DEF EndStop, IInv, TypeOK, CallInv, TableInv, Stepping, Pending
  <2>2. \A t \in Services : t # call.service => svc'[t] = svc[t]
    BY <1>22, <2>1 DEF EndStop, IInv, TypeOK
  <2>3. svc'[call.service] = svc[call.service] \/ svc'[call.service] = NoEntry
    BY <1>22, <2>1 DEF EndStop, IInv, TypeOK
  <2>4. \A t \in Services : ~svc'[t].entry => svc'[t] = NoEntry
    BY <2>2, <2>3 DEF IInv, HealthInv
  <2>5. Evidence => Evidence' \/ answer' = "error"
    BY <1>22, <2>1, <2>2, ZenonT(120) DEF EndStop, Reply, Evidence, Entries
  <2> QED BY <1>22, <2>1, <2>4, <2>5, ZenonT(120) DEF EndStop, Reply, IInv, TypeOK, LinkInv,
             CallInv, HealthInv, Stepping, Pending, Unsent, host, guest
<1>23. CASE Shutdown
  <2>1. Evidence /\ gpc' = "stopAll" => Flooded
    BY <1>23, ZenonT(120) DEF Shutdown, Unhealthy, Evidence, Flooded
  <2>2. (Evidence <=> Evidence') /\ (Flooded <=> Flooded')
    BY <1>23, ZenonT(120) DEF Shutdown, Evidence, Flooded, Entries
  <2>3. answer = "none"
    BY <1>23, ZenonT(120) DEF Shutdown, Admitted, IInv, CallInv, Pending
  <2> QED BY <1>23, <2>1, <2>2, <2>3, ZenonT(120) DEF Shutdown, Admitted, IInv, LinkInv,
             HealthInv, Unsent, host, guest
<1>24. CASE AgentReturns
  <2>1. PICK F \in SUBSET Entries : StopAll(F)
    BY <1>24 DEF AgentReturns
  <2>2. ASSUME NEW t \in Services, ~svc'[t].entry PROVE svc'[t] = NoEntry
    <3>1. svc[t] \in Service /\ (~svc[t].entry => svc[t] = NoEntry)
      BY DEF IInv, TypeOK, HealthInv
    <3> QED BY <2>1, <2>2, <3>1, StopAllCases, EntryFields, ZenonT(120)
  <2>3. (\A t \in Services : svc[t] = NoEntry) =>
          ~Evidence /\ \A t \in Services : svc'[t] = NoEntry
    BY <2>1, StopAllCases, EntryFields, ZenonT(120) DEF Evidence, Entries
  <2> QED BY <1>24, <2>2, <2>3 DEF AgentReturns, IInv, TypeOK, LinkInv, CallInv, HealthInv,
             Stepping, Pending, Unsent, host, guest
<1>25. CASE ActionEnds
  BY <1>25, SMTT(60) DEF ActionEnds, Reply, IInv, TypeOK, LinkInv, CallInv, HealthInv, Stepping,
     Pending,
     Evidence, Flooded, Unsent, Entries, host, guest
<1>26. CASE ServiceReady
  BY <1>26, ZenonT(120) DEF ServiceReady, Reply, IInv, TypeOK, LinkInv, CallInv, HealthInv,
     Stepping, Pending, Evidence, Flooded, Unsent, Entries, host, guest
<1>27. ASSUME NEW s \in Services, ServiceExits(s) PROVE HealthInv'
  <2>1. svc[s].entry /\ steps > 0 /\ ~(call.op = "shutdown" /\ answer = "ok")
    BY <1>27 DEF ServiceExits, IInv, TypeOK, HealthInv, NoEntry
  <2>2. \A t \in Services : /\ (svc'[t].entry <=> svc[t].entry) /\ svc'[t].over = svc[t].over
                            /\ svc'[t].expected = svc[t].expected
                            /\ svc[t].proc = "done" => svc'[t].proc = "done"
                            /\ t # s => svc'[t] = svc[t]
    BY <1>27, ZenonT(120) DEF ServiceExits, IInv, TypeOK, Service
  <2>3. \A t \in Services : ~svc'[t].entry => svc'[t] = NoEntry
    BY <2>1, <2>2 DEF IInv, HealthInv
  <2>4. (Evidence => Evidence') /\ (Flooded => Flooded')
    BY <2>2 DEF Evidence, Flooded, Entries
  <2> QED BY <1>27, <2>1, <2>3, <2>4, SMTT(60), Z3T(60) DEF ServiceExits, IInv,
             TypeOK, LinkInv, HealthInv, Stepping, Pending, Unsent, host, guest
<1>28. ASSUME NEW s \in Services, ServiceFloods(s) PROVE HealthInv'
  <2>1. svc[s].entry /\ steps > 0 /\ ~(call.op = "shutdown" /\ answer = "ok")
    BY <1>28 DEF ServiceFloods, IInv, TypeOK, HealthInv, NoEntry
  <2>2. \A t \in Services : (svc'[t].entry <=> svc[t].entry) /\ (t # s => svc'[t] = svc[t])
    BY <1>28 DEF ServiceFloods, IInv, TypeOK, Service
  <2>3. \A t \in Services : ~svc'[t].entry => svc'[t] = NoEntry
    BY <2>1, <2>2 DEF IInv, HealthInv
  <2>4. svc'[s].over
    BY <1>28 DEF ServiceFloods, IInv, TypeOK, Service
  <2>5. Evidence' /\ Flooded'
    BY <2>1, <2>2, <2>4 DEF Evidence, Flooded, Entries
  <2> QED BY <1>28, <2>1, <2>3, <2>5, SMTT(60), Z3T(60) DEF ServiceFloods, IInv, TypeOK, LinkInv,
             CallInv, HealthInv, Stepping, Pending, Unsent, host, guest
<1>29. CASE EndShutdown
  <2>1. PICK F \in SUBSET Entries :
          /\ StopAll(F)
          /\ Reply(IF gpc = "stopSick" \/ F # {} \/ Flooded THEN "error" ELSE "ok")
    BY <1>29 DEF EndShutdown
  <2>2. ASSUME NEW t \in Services, ~svc'[t].entry PROVE svc'[t] = NoEntry
    <3>1. svc[t] \in Service /\ (~svc[t].entry => svc[t] = NoEntry)
      BY DEF IInv, TypeOK, HealthInv
    <3> QED BY <2>1, <2>2, <3>1, StopAllCases, EntryFields, ZenonT(120)
  <2>3. (\A t \in Services : svc[t] = NoEntry) => \A t \in Services : svc'[t] = NoEntry
    <3> SUFFICES ASSUME \A t \in Services : svc[t] = NoEntry, NEW t \in Services
                 PROVE  svc'[t] = NoEntry
      OBVIOUS
    <3> QED BY <2>1, StopAllCases, EntryFields, ZenonT(120)
  <2>4. answer' = "ok" => gpc = "stopAll" /\ ~Flooded /\ \A t \in Services : svc'[t] = NoEntry
    <3>1. answer' = "ok" => F = {} /\ gpc = "stopAll" /\ ~Flooded
      BY <1>29, <2>1, ZenonT(120) DEF Reply, EndShutdown, StoppingAll
    <3>2. ASSUME F = {}, NEW t \in Services PROVE svc'[t] = NoEntry
      BY <2>1, <3>2, StopAllCases, ZenonT(120) DEF IInv, HealthInv
    <3> QED BY <3>1, <3>2
  <2>5. answer' \in {"ok", "error"}
    BY <2>1, SMTT(60) DEF Reply
  <2> QED BY <1>29, <2>2, <2>3, <2>4, <2>5, ZenonT(120) DEF EndShutdown, StoppingAll, Reply,
             IInv, TypeOK, LinkInv, CallInv, StoppingAll, HealthInv, Stepping, Pending, Unsent,
             host, guest
<1>30. ASSUME NEW s \in Services, ServiceDone(s) PROVE HealthInv'
  <2>1. svc[s].entry /\ steps > 0 /\ ~(call.op = "shutdown" /\ answer = "ok")
    BY <1>30 DEF ServiceDone, IInv, TypeOK, HealthInv, NoEntry
  <2>2. \A t \in Services : /\ (svc'[t].entry <=> svc[t].entry) /\ svc'[t].over = svc[t].over
                            /\ svc'[t].expected = svc[t].expected
                            /\ svc'[t].proc = IF t = s THEN "done" ELSE svc[t].proc
                            /\ t # s => svc'[t] = svc[t]
    BY <1>30, ZenonT(120) DEF ServiceDone, IInv, TypeOK, Service
  <2>3. \A t \in Services : ~svc'[t].entry => svc'[t] = NoEntry
    BY <2>1, <2>2 DEF IInv, HealthInv
  <2>4. (Evidence => Evidence') /\ (Flooded => Flooded')
    BY <2>2 DEF Evidence, Flooded, Entries
  <2>5. ~svc[s].expected => Evidence'
    BY <2>1, <2>2 DEF Evidence, Entries
  <2>6. lost' => lost \/ (~svc[s].expected /\ ~StoppingAll)
    BY <1>30, Zenon DEF ServiceDone
  <2> QED BY <1>30, <2>1, <2>3, <2>4, <2>5, <2>6, SMTT(60), Z3T(60) DEF ServiceDone, IInv,
             TypeOK, LinkInv, CallInv, StoppingAll, HealthInv, Stepping, Pending, Unsent, host,
             guest
<1> QED
  BY <1>1, <1>2, <1>3, <1>4, <1>5, <1>6, <1>7, <1>8, <1>9, <1>10, <1>11, <1>12, <1>13, <1>14,
     <1>15, <1>16, <1>17, <1>18, <1>19, <1>20, <1>21, <1>22, <1>23, <1>24, <1>25, <1>26, <1>27,
     <1>28, <1>29, <1>30, ZenonT(120) DEF Next, Host, Guest

\* The invariant is inductive.
LEMMA NextInv == IInv /\ [Next]_vars => IInv'
<1> SUFFICES ASSUME IInv, [Next]_vars PROVE IInv'
  OBVIOUS
<1>1. CASE Next
  BY <1>1, TypeStep, LinkStep, CallStep, EffectStep, TableStep, HealthStep DEF IInv
<1>2. CASE UNCHANGED vars
  <2> USE DEF vars, host, guest
  <2>1. TypeOK' /\ LinkInv'
    BY <1>2, SMTT(60), Z3T(60) DEF IInv, TypeOK, LinkInv
  <2>2. CallInv' /\ EffectInv'
    BY <1>2, SMTT(60) DEF IInv, CallInv, StoppingAll, EffectInv, Stepping, Pending
  <2>3. TableInv'
    BY <1>2, ZenonT(120) DEF IInv, TableInv, Stepping, Pending, InStep, TableBefore, Entries
  <2>4. HealthInv'
    BY <1>2 DEF IInv, HealthInv, Evidence, Flooded, Unsent, Entries
  <2> QED BY <2>1, <2>2, <2>3, <2>4, ZenonT(120) DEF IInv
<1> QED BY <1>1, <1>2

\* The inductive invariant holds in every session of every plan.
THEOREM Invariance == Spec => []IInv
BY InitInv, NextInv, PTL DEF Spec

-----------------------------------------------------------------------------
(* What follows.                                                           *)

\* Every plan, whatever answer is late or lost: no step is performed twice or out of
\* order, and a step that the report calls successful was performed.
THEOREM NoStepIsReplayed == Spec => []NoReplay
<1>1. IInv => NoReplay
  <2> SUFFICES ASSUME IInv, NEW i \in StepIndex
               PROVE  /\ effects[i] <= 1
                      /\ outcome[i] = "ok" => effects[i] = 1
                      /\ effects[i] = 1 => \A j \in 1..(i - 1) : outcome[j] = "ok"
    BY DEF NoReplay
  <2> USE SessionAssumption DEF IInv, TypeOK, EffectInv, StepIndex
  <2>1. effects[i] \in {0, 1}
    OBVIOUS
  <2>2. outcome[i] = "ok" => effects[i] = 1
    OBVIOUS
  <2>3. ASSUME effects[i] = 1, NEW j \in 1..(i - 1) PROVE outcome[j] = "ok"
    <3>1. i <= steps
      BY <2>3
    <3> QED BY <3>1
  <2> QED BY <2>1, <2>2, <2>3
<1> QED BY <1>1, Invariance, PTL

\* What Scenario.Validate accepts, the agent's guards accept: for any services, limit
\* and number of steps, whatever the services do meanwhile.
THEOREM PlansAreAdmitted == Spec => []NoGuardRefusal
<1>1. IInv => NoGuardRefusal
  BY DEF IInv, TypeOK, NoGuardRefusal
<1> QED BY <1>1, Invariance, PTL

\* A run that stays COMPLETED has no service left, and none on the way overran its quota or
\* was known to have ended before its stop or the shutdown's health check was begun.
THEOREM CompletedIsHealthy == Spec => []PassMeansHealthy
<1>1. IInv => PassMeansHealthy
  <2> SUFFICES ASSUME IInv, hpc = "over", verdict = "completed"
               PROVE  ~lost /\ \A s \in Services : svc[s].proc = "none"
    BY DEF PassMeansHealthy
  <2>1. \A s \in Services : svc[s] = NoEntry
    BY DEF IInv, HealthInv
  <2>2. ~Evidence /\ \A s \in Services : svc[s].proc = "none"
    BY <2>1 DEF Evidence, Entries, NoEntry
  <2>3. ~Unsent /\ answer = "ok" /\ ~StoppingAll
    BY DEF IInv, CallInv, HealthInv, Unsent
  <2> QED BY <2>2, <2>3 DEF IInv, HealthInv, StoppingAll
<1> QED BY <1>1, Invariance, PTL
=============================================================================
