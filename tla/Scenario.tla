------------------------------ MODULE Scenario ------------------------------
(***************************************************************************)
(* One scenario from its validation to its assertion results: the plan     *)
(* with its defaults, the budget of every request, the guest's answer, the *)
(* host's own checks of it and the evaluation of the assertions.           *)
(*                                                                         *)
(* Times are counted in units of 1/MS milliseconds, fields named _ms in    *)
(* milliseconds.  A duration of 0 is an omitted one; "given" holds the     *)
(* names of the fields that are present.  Checks of one field's syntax     *)
(* (identifiers, versions, resources, sizes) are the plan's "wellFormed".  *)
(* Crashes, recorder and host clock are in RunVerdict, the connection and  *)
(* the agent's state in GuestSession.                                      *)
(***************************************************************************)
EXTENDS JSONValues

CONSTANTS
  Plans,       \* the scenarios as decoded
  MS,          \* units of time in a millisecond
  Limits,      \* [timeout, boot, maxTimeout, policy, step, tolerance, maxTolerance,
               \*  services, steps, assertions]
  Actions,     \* declared by the image, with its services
  Services,
  Allowance,   \* responseAllowance, in milliseconds
  Termination, \* the agent's bound on ending a workload process, in milliseconds
  From, Until, \* the interval of clock targets
  Outputs,     \* what an action prints
  Skews,       \* realtime read back minus the target
  Decodes(_, _),    \* jsonutil.Decode of a value, so many levels inside its text
  Available(_, _),  \* availablePointer, of an operation and a pointer
  Judgement(_, _)   \* whether an assertion passes on an observation, {} for an error

ASSUME TimesAssumption ==
  /\ MS \in Nat \ {0} /\ Allowance \in Nat /\ Termination \in 0 .. Allowance
  /\ From \in Int /\ Until \in Int /\ From < Until /\ Skews \subseteq Int
  /\ Limits \in [{"timeout", "boot", "maxTimeout", "policy", "step", "tolerance", "maxTolerance",
                  "services", "steps", "assertions"} -> Nat \ {0}]

StepField == {"id", "op", "at", "action", "service", "input", "timeout_ms", "duration_ms",
              "allow_live", "tolerance_ms", "expected_exit_code"}

StepRecord ==
  [id : STRING, op : STRING, given : SUBSET StepField, at : [local : Int, offset : Int],
   allow_live : BOOLEAN, tolerance_ms : Int, action : STRING, service : STRING,
   timeout_ms : Int, duration_ms : Int, expected : Int]

\* What decoding gives: nothing yet about the values of the fields, but a timeout that
\* a step does not give is 0.
ASSUME PlansAssumption == \A p \in Plans :
  /\ DOMAIN p = {"wellFormed", "given", "timeout_ms", "boot_timeout_ms", "steps", "assertions"}
  /\ p.timeout_ms \in Int /\ p.boot_timeout_ms \in Int /\ p.steps \in Seq(StepRecord)
  /\ \A s \in Range(p.steps) : "timeout_ms" \in s.given \/ s.timeout_ms = 0
  /\ p.assertions \in Seq(Range(p.assertions))
  /\ \A a \in Range(p.assertions) : a.id \in STRING /\ a.step \in STRING

VARIABLES
  plan,      \* the scenario, with its defaults once it is accepted
  pc,        \* "decode", "rejected", "step", "call", "judge", "done", "error"
  at,        \* index of the current step, 0 before the first
  left,      \* what was left of the run's budget when the last request was sent
  request,   \* timeout_ms of the request
  answer,    \* the guest's answer
  due,       \* index of the next assertion, while a step is judged
  results,   \* assertion results, in the order of the report
  cause      \* why the execution failed

vars == <<plan, pc, at, left, request, answer, due, results, cause>>

Workload == {"action.exec", "service.start", "service.stop"}
NoAnswer == [op |-> "none"]

Init ==
  /\ plan \in Plans
  /\ pc = "decode" /\ at = 0
  /\ left = 0 /\ request = 0 /\ answer = NoAnswer
  /\ due = 1 /\ results = <<>> /\ cause = "none"

-----------------------------------------------------------------------------
(* Validation.                                                             *)

Allowed(op) == {"id", "op"} \cup
  CASE op = "clock.set"     -> {"at", "allow_live", "tolerance_ms"}
    [] op = "action.exec"   -> {"action", "input", "timeout_ms", "expected_exit_code"}
    [] op = "service.start" -> {"service", "input", "timeout_ms"}
    [] op = "service.stop"  -> {"service", "timeout_ms"}
    [] op = "wait"          -> {"duration_ms"}
    [] OTHER                -> {}

\* An RFC 3339 timestamp is a local time and its offset; UTC has offset 0.
Instant(t) == t.local - t.offset
UTC(t)     == [local |-> Instant(t), offset |-> 0]

Default(n, d) == IF n = 0 THEN d ELSE n

\* Faulty variant: an omitted tolerance stays omitted.
StepWithoutTolerance(s, runTimeout) ==
  CASE s.op = "clock.set" -> [s EXCEPT !.at = UTC(@)]
    [] s.op \in Workload ->
         [s EXCEPT !.timeout_ms = Default(@, Min({Limits.step, runTimeout})),
                   !.given = @ \cup {"timeout_ms"}]
    [] OTHER -> s

StepWithDefaults(s, runTimeout) ==
  CASE s.op = "clock.set" ->
         [s EXCEPT !.at = UTC(@), !.tolerance_ms = Default(@, Limits.tolerance),
                   !.given = @ \cup {"tolerance_ms"}]
    [] s.op \in Workload ->
         [s EXCEPT !.timeout_ms = Default(@, Min({Limits.step, runTimeout})),
                   !.given = @ \cup {"timeout_ms"}]
    [] OTHER -> s

ValidStep(s, runTimeout) ==
  /\ s.given \subseteq Allowed(s.op)
  /\ \A f \in s.given \cap {"timeout_ms", "duration_ms", "tolerance_ms"} : s[f] > 0
  /\ s.op \in {"clock.read", "clock.set", "wait"} \cup Workload
  /\ s.op = "clock.set" =>
       Instant(s.at) \in From .. Until - 1 /\ s.tolerance_ms <= Limits.maxTolerance
  /\ s.op = "wait" => s.duration_ms \in 1 .. runTimeout - 1
  /\ s.op \in Workload => s.timeout_ms <= runTimeout

\* The services that run, and whether the clock was set, before step i.
Running(steps, i) ==
  {s \in {steps[j].service : j \in 1 .. i - 1} :
     \E j \in 1 .. i - 1 : /\ steps[j].op = "service.start" /\ steps[j].service = s
                           /\ \A k \in j + 1 .. i - 1 :
                                ~(steps[k].op = "service.stop" /\ steps[k].service = s)}

ClockSet(steps, i) == \E j \in 1 .. i - 1 : steps[j].op = "clock.set"

ValidOrder(steps, i) ==
  LET s == steps[i]  running == Running(steps, i) IN
  /\ \A j \in 1 .. i - 1 : steps[j].id # s.id
  /\ s.op = "clock.set" /\ running # {} => s.allow_live
  /\ s.op \in {"action.exec", "service.start"} => ClockSet(steps, i)
  /\ s.op = "service.start" => s.service \notin running /\ Cardinality(running) < Limits.services
  /\ s.op = "service.stop" => s.service \in running

Waits(steps) ==
  FoldFunction(LAMBDA s, n : IF s.op = "wait" THEN s.duration_ms + n ELSE n, 0, steps)

ValidAssertion(p, a) ==
  /\ \E s \in Range(p.steps) : s.id = a.step /\ s.op # "wait" /\ Available(s.op, a.pointer)
  /\ a.op \in {"exists", "absent"} => a.value = None
  /\ a.op \in Valued => a.value # None /\ Decodes(a.value, 0)
  /\ a.op \in Ordering => a.value.type = "number"
  /\ a.op \in {"exists", "absent"} \cup Valued

\* The scenario with its defaults; then every check of Validate.
WithDefaults(p) ==
  LET timeout == Default(p.timeout_ms, Limits.timeout) IN
  [p EXCEPT !.timeout_ms = timeout,
            !.boot_timeout_ms = Default(@, Limits.boot),
            !.steps = [i \in DOMAIN p.steps |-> StepWithDefaults(p.steps[i], timeout)]]

Accepted(p) ==
  /\ p.wellFormed
  /\ p.timeout_ms \in 1 .. Limits.maxTimeout /\ p.boot_timeout_ms \in 1 .. p.timeout_ms
  /\ Len(p.steps) \in 1 .. Limits.steps /\ Len(p.assertions) \in 1 .. Limits.assertions
  /\ \A i \in DOMAIN p.steps : ValidStep(p.steps[i], p.timeout_ms) /\ ValidOrder(p.steps, i)
  /\ Waits(p.steps) < p.timeout_ms
  /\ \A i, j \in DOMAIN p.assertions : p.assertions[i].id = p.assertions[j].id => i = j
  /\ \A i \in DOMAIN p.assertions : ValidAssertion(p, p.assertions[i])

\* What Decode rejects before the defaults are filled in: a duration given as 0, and
\* an expected value, three levels inside the scenario's own text, nested too deep.
Undecodable(p) ==
  \/ \E f \in p.given : p[f] = 0
  \/ \E s \in Range(p.steps) :
       \E f \in s.given \cap {"timeout_ms", "duration_ms", "tolerance_ms"} : s[f] = 0
  \/ \E a \in Range(p.assertions) : ~Decodes(a.value, 3)

\* The operator's policy, and what the prepared image declares.
Permitted(p) ==
  /\ p.timeout_ms <= Limits.policy
  /\ \A s \in Range(p.steps) : s.op = "action.exec" => s.action \in Actions
  /\ \A s \in Range(p.steps) : s.op \in {"service.start", "service.stop"} => s.service \in Services

Planned(p) == ~Undecodable(p) /\ Accepted(WithDefaults(p)) /\ Permitted(WithDefaults(p))

Decode ==
  /\ pc = "decode"
  /\ IF Planned(plan)
     THEN plan' = WithDefaults(plan) /\ left' = plan'.timeout_ms * MS /\ pc' = "step"
     ELSE UNCHANGED <<plan, left>> /\ pc' = "rejected"
  /\ UNCHANGED <<at, request, answer, due, results, cause>>

-----------------------------------------------------------------------------
(* One request.                                                            *)

Step == plan.steps[at]

\* executeStep cuts a workload's budget to whole milliseconds of what is left.
RequestBudget(s, t) ==
  LET budget == Default(s.timeout_ms, Limits.step)
  IN  IF s.op \in Workload /\ t < budget * MS THEN t \div MS ELSE budget

\* How long the host waits for the answer; the run's own deadline comes first.
HostWait(s, ms, t) ==
  Min({t, CASE s.op \in Workload -> (ms + Allowance) * MS
            [] s.op = "wait"     -> (s.duration_ms + Limits.step) * MS
            [] OTHER             -> ms * MS})

\* The least time a step takes.
Takes(s) == IF s.op = "wait" THEN s.duration_ms * MS ELSE 0

\* What may be left of the run's one deadline when the next step begins.
Remaining == 0 .. left - (IF at = 0 THEN 0 ELSE Takes(Step))

\* Faulty variant: a request is sent although less than a millisecond is left.
SendStepLate ==
  /\ pc = "step" /\ at < Len(plan.steps)
  /\ at' = at + 1
  /\ \E t \in Remaining :
       left' = t /\ request' = RequestBudget(plan.steps[at'], t) /\ pc' = "call" /\ UNCHANGED cause
  /\ answer' = NoAnswer
  /\ UNCHANGED <<plan, due, results>>

SendStep ==
  /\ pc = "step" /\ at < Len(plan.steps)
  /\ at' = at + 1
  /\ \E t \in Remaining :
       /\ left' = t
       /\ IF t = 0 \/ (plan.steps[at'].op \in Workload /\ t < MS)
          THEN request' = 0 /\ pc' = "error" /\ cause' = "deadline"
          ELSE request' = RequestBudget(plan.steps[at'], t) /\ pc' = "call" /\ UNCHANGED cause
  /\ answer' = NoAnswer
  /\ UNCHANGED <<plan, due, results>>

\* The agent's requestTimeout: an absent timeout is its default.
GuestBudget(ms) == Default(ms, Limits.step)

-----------------------------------------------------------------------------
(* The guest's answer.  A clock sample is a realtime and a monotonic time. *)

Sample(t, n) == [realtime |-> t, mono |-> n]

\* Controller.Set, on a guest whose clock is then read back skewed by skew.
SetClock(s, skew, elapsed) ==
  LET target    == Instant(s.at)
      tolerance == Default(s.tolerance_ms, Limits.tolerance)
  IN  [op |-> "clock.set", target |-> target, tolerance |-> tolerance, elapsed |-> elapsed,
       before |-> Sample(From, 1), after |-> Sample(target + skew, 1 + elapsed),
       valid |-> elapsed >= 0 /\ skew \in -(tolerance * MS) .. elapsed + tolerance * MS]

\* What an agent that succeeds answers; only the end of a service has its output.
Answers(s) ==
  LET before == Sample(From, 1)  after == Sample(From, 2) IN
  CASE s.op = "clock.read" -> {[op |-> s.op, clock |-> before]}
    [] s.op = "clock.set" ->
         IF Default(s.tolerance_ms, Limits.tolerance) \in 1 .. Limits.maxTolerance
         THEN {SetClock(s, skew, elapsed) : skew \in Skews, elapsed \in 0 .. MS}
         ELSE {}
    [] s.op = "action.exec" ->
         {[op |-> s.op, exit |-> e, stdout |-> out, before |-> before, after |-> after] :
            e \in {0, 7}, out \in {o \in Outputs : Decodes(o, 0)}}
    [] s.op = "service.start" ->
         {[op |-> s.op, service |-> s.service, running |-> TRUE, stdout |-> <<>>,
           stderr |-> <<>>, before |-> before, after |-> after]}
    [] s.op = "service.stop" ->
         {[op |-> s.op, service |-> s.service, running |-> FALSE, stdout |-> out,
           stderr |-> err, before |-> before, after |-> after] :
            out \in {<<>>, <<"line">>}, err \in {<<>>, <<"line">>}}
    [] s.op = "wait" -> {[op |-> s.op, before |-> before, after |-> after]}

ClockJSON(c) == Obj(<<"realtime">> :> Str(<<"time">>) @@ <<"monotonic_ns">> :> Num(c.mono, 0))

IntervalJSON(v) == <<"before">> :> ClockJSON(v.before) @@ <<"after">> :> ClockJSON(v.after)

\* A service's output, a field that is omitted when it is empty.
Printed(name, text) == [k \in IF text = <<>> THEN {} ELSE {<<name>>} |-> Str(text)]

\* The result as encoding/json writes it.
AsJSON(v) ==
  CASE v.op = "clock.read" -> ClockJSON(v.clock)
    [] v.op = "clock.set" ->
         Obj(<<"target">> :> Str(<<"time">>) @@ <<"elapsed_ns">> :> Num(v.elapsed, 0) @@
             <<"tolerance_ms">> :> Num(v.tolerance, 0) @@ <<"readback_valid">> :> Bool(v.valid) @@
             IntervalJSON(v))
    [] v.op = "action.exec" ->
         Obj(<<"exit_code">> :> Num(v.exit, 0) @@ <<"stdout_json">> :> v.stdout @@
             <<"stderr">> :> Str(<<>>) @@ <<"stdout_truncated">> :> Bool(FALSE) @@
             <<"stderr_truncated">> :> Bool(FALSE) @@ IntervalJSON(v))
    [] v.op \in {"service.start", "service.stop"} ->
         Obj(<<"service">> :> Str(<<v.service>>) @@ <<"running">> :> Bool(v.running) @@
             Printed("stdout", v.stdout) @@ Printed("stderr", v.stderr) @@ IntervalJSON(v))
    [] v.op = "wait" -> Obj(<<"duration_ms">> :> Num(1, 0) @@ IntervalJSON(v))

\* The result of a clock.set is shallow and has only integers that every decoder takes.
ASSUME ClockResultAssumption ==
  \A t \in From .. Until - 1, tolerance \in 1 .. Limits.maxTolerance, skew \in Skews,
     elapsed \in 0 .. MS :
    LET s == [at |-> [local |-> t, offset |-> 0], tolerance_ms |-> tolerance]
    IN  Decodes(AsJSON(SetClock(s, skew, elapsed)), 1)

ValidClock(c) == c.mono >= 0

ValidInterval(v) == ValidClock(v.before) /\ ValidClock(v.after) /\ v.before.mono <= v.after.mono

\* The host repeats the guest's readback check from the plan and the samples.
ReadbackValid(s, v) ==
  LET target == Instant(s.at)  tolerance == s.tolerance_ms * MS IN
  /\ v.valid /\ v.target = target /\ v.tolerance = s.tolerance_ms
  /\ v.elapsed >= 0 /\ v.elapsed = v.after.mono - v.before.mono
  /\ v.after.realtime \in target - tolerance .. target + v.elapsed + tolerance

HostAccepts(s, v) ==
  CASE s.op = "clock.read"  -> ValidClock(v.clock)
    [] s.op = "clock.set"   -> ValidClock(v.before) /\ ValidClock(v.after) /\ ReadbackValid(s, v)
    [] s.op = "action.exec" -> v.exit \in 0 .. 255 /\ Decodes(v.stdout, 0) /\ ValidInterval(v)
    [] s.op \in {"service.start", "service.stop"} ->
         v.service = s.service /\ v.running = (s.op = "service.start") /\ ValidInterval(v)
    [] s.op = "wait"        -> ValidInterval(v)

Fail(why) == pc' = "error" /\ cause' = why

\* The connection fails, a deadline passes or the agent answers with an error.
CallFails ==
  /\ pc = "call"
  /\ Fail("call")
  /\ UNCHANGED <<plan, at, left, request, answer, due, results>>

\* The results so far exceed the report's budget with this one, which is not recorded.
\* Sizes are left out: any result may be the one that exceeds it.
Oversize == Fail("oversize")

\* In a response the result is one level below the frame.
ReceiveAnswer ==
  /\ pc = "call" /\ Takes(Step) < HostWait(Step, request, left)
  /\ \E v \in Answers(Step) :
       /\ answer' = v
       /\ \/ ~Decodes(AsJSON(v), 1) /\ Fail("wire")
          \/ Decodes(AsJSON(v), 1) /\ ~HostAccepts(Step, v) /\ Fail("answer")
          \/ Decodes(AsJSON(v), 1) /\ HostAccepts(Step, v) /\ Oversize
          \/ Decodes(AsJSON(v), 1) /\ HostAccepts(Step, v) /\ pc' = "judge" /\ UNCHANGED cause
  /\ due' = 1
  /\ UNCHANGED <<plan, at, left, request, results>>

-----------------------------------------------------------------------------
(* The verdict on one step.                                                *)

ResultRecord == [kind : {"assertion", "exit_code"}, id : STRING, step : STRING, pass : BOOLEAN]

Result(a, pass) == [kind |-> "assertion", id |-> a.id, step |-> a.step, pass |-> pass]

\* A result quotes the value that was found, and only such a result takes up room.
Quotes(a, judgement) ==
  /\ judgement # {}
  /\ a.op = "exists" => TRUE \in judgement
  /\ a.op = "absent" => FALSE \in judgement

\* Faulty variant: an error discards the step's results before it.
DiscardOnError ==
  LET a == plan.assertions[due]
      judgement == Judgement(a, AsJSON(answer))
  IN
  /\ pc = "judge" /\ due <= Len(plan.assertions)
  /\ \/ /\ a.step # Step.id
        /\ due' = due + 1 /\ UNCHANGED <<pc, results, cause>>
     \/ /\ a.step = Step.id /\ judgement = {}
        /\ results' = SelectSeq(results, LAMBDA r : r.step # Step.id)
        /\ Fail("assertion") /\ UNCHANGED due
     \/ /\ a.step = Step.id /\ Quotes(a, judgement)
        /\ Fail("detail") /\ UNCHANGED <<due, results>>
     \/ /\ a.step = Step.id /\ judgement # {}
        /\ results' = Append(results, Result(a, TRUE \in judgement))
        /\ due' = due + 1 /\ UNCHANGED <<pc, cause>>
  /\ UNCHANGED <<plan, at, left, request, answer>>

\* One turn of the loop over the plan's assertions: those on other steps are not
\* selected, and Evaluate ends at the first error, with the results before it.  A result
\* that the report's budget has no room for ends the run before that error is seen, and
\* is lost with the results that Evaluate has after it.
JudgeAssertion ==
  LET a == plan.assertions[due]
      judgement == Judgement(a, AsJSON(answer))
  IN
  /\ pc = "judge" /\ due <= Len(plan.assertions)
  /\ \/ /\ a.step # Step.id
        /\ due' = due + 1 /\ UNCHANGED <<pc, results, cause>>
     \/ /\ a.step = Step.id /\ judgement = {}
        /\ Fail("assertion") /\ UNCHANGED <<due, results>>
     \/ /\ a.step = Step.id /\ Quotes(a, judgement)
        /\ Fail("detail") /\ UNCHANGED <<due, results>>
     \/ /\ a.step = Step.id /\ judgement # {}
        /\ results' = Append(results, Result(a, TRUE \in judgement))
        /\ due' = due + 1 /\ UNCHANGED <<pc, cause>>
  /\ UNCHANGED <<plan, at, left, request, answer>>

\* Faulty variant: the automatic result names no step.
ExitCodeWithoutStep(s) ==
  IF s.op = "action.exec"
  THEN <<[kind |-> "exit_code", id |-> s.id, step |-> "", pass |-> answer.exit = s.expected]>>
  ELSE <<>>

\* The automatic assertion on an action's exit code.
ExitCode(s) ==
  IF s.op = "action.exec"
  THEN <<[kind |-> "exit_code", id |-> s.id, step |-> s.id, pass |-> answer.exit = s.expected]>>
  ELSE <<>>

EndStep ==
  /\ pc = "judge" /\ due > Len(plan.assertions)
  /\ results' = results \o ExitCode(Step) /\ pc' = "step"
  /\ UNCHANGED <<plan, at, left, request, answer, due, cause>>

Complete ==
  /\ pc = "step" /\ at = Len(plan.steps)
  /\ pc' = "done"
  /\ UNCHANGED <<plan, at, left, request, answer, due, results, cause>>

Next ==
  \/ Decode \/ SendStep \/ CallFails \/ ReceiveAnswer \/ JudgeAssertion \/ EndStep \/ Complete

Spec == Init /\ [][Next]_vars

-----------------------------------------------------------------------------
(* Properties.                                                             *)

\* Every result belongs to a planned step, and a failure has a cause.
TypeOK ==
  /\ pc \in {"decode", "rejected", "step", "call", "judge", "done", "error"}
  /\ at \in 0 .. Len(plan.steps) /\ left \in Nat /\ request \in Nat
  /\ due \in 1 .. Len(plan.assertions) + 1
  /\ answer.op \in {"none", "clock.read", "clock.set", "wait"} \cup Workload
  /\ cause \in {"none", "deadline", "call", "wire", "answer", "oversize", "assertion", "detail"}
  /\ pc = "error" <=> cause # "none"
  /\ results \in Seq(ResultRecord)
  /\ \A n \in DOMAIN results : \E k \in 1 .. at : results[n].step = plan.steps[k].id

\* Deadlines nest. The agent never takes a workload's budget to be longer than what is
\* left of the run: in particular the host sends no 0, which the agent reads as its
\* default. And a workload that uses up its budget still gets its typed timeout
\* delivered: the host outwaits the budget and the agent's bound on ending the
\* process, unless the run's own budget ends first.
DeadlinesNest ==
  pc = "call" /\ Step.op \in Workload =>
    LET budget == GuestBudget(request) IN
    /\ budget \in 1 .. Limits.maxTimeout
    /\ budget * MS <= left
    /\ HostWait(Step, request, left) >= Min({left, (budget + Termination) * MS})

\* Host and guest judge a clock readback alike, although each computes its own
\* interval, the guest from the request and the host from the plan.
HostAgreesWithGuest ==
  answer.op = "clock.set" => (answer.valid <=> cause # "answer")

\* The report has the result of the plan's i-th assertion.
Reported(i) ==
  \E n \in DOMAIN results : /\ results[n].kind = "assertion"
                           /\ results[n].id = plan.assertions[i].id
                           /\ results[n].step = plan.assertions[i].step

\* The report has every result of the plan's k-th step.
StepReported(k) ==
  /\ \A i \in DOMAIN plan.assertions : plan.assertions[i].step = plan.steps[k].id => Reported(i)
  /\ plan.steps[k].op = "action.exec" => \E n \in DOMAIN results :
       results[n].kind = "exit_code" /\ results[n].step = plan.steps[k].id

\* The steps that were judged to their end.
Finished == IF pc \in {"step", "done"} THEN at ELSE at - 1

\* By the plan the m-th result comes before the n-th: its step comes before, or in the
\* same step its assertion does; the exit code is last.
Precedes(m, n) ==
  /\ \E k \in 1 .. at : \E l \in k .. at :
       results[m].step = plan.steps[k].id /\ results[n].step = plan.steps[l].id
  /\ results[m].step = results[n].step =>
       /\ results[m].kind = "assertion"
       /\ results[n].kind = "assertion" =>
            \E j \in DOMAIN plan.assertions : \E i \in 1 .. j - 1 :
              results[m].id = plan.assertions[i].id /\ results[n].id = plan.assertions[j].id

\* Results come step by step and in the plan's order, none of them twice.
ResultsInOrder == \A m, n \in DOMAIN results : m < n => Precedes(m, n)

\* Of the current step the report has the results of the assertions before the i-th, which
\* is the step's too, and no others.
ReportEndsBefore(i) ==
  /\ plan.assertions[i].step = Step.id
  /\ \A j \in 1 .. i - 1 : plan.assertions[j].step = Step.id => Reported(j)
  /\ \A n \in DOMAIN results : results[n].step = Step.id =>
       /\ results[n].kind = "assertion"
       /\ \E j \in 1 .. i - 1 : results[n].id = plan.assertions[j].id

\* What a failure leaves of the results.  A step that was judged keeps those of all its
\* assertions and, an action, of its exit code.  An assertion that cannot be judged keeps
\* those of the assertions before it; so does a result that the report has no room for,
\* but it is lost itself, with every result of its step after it.  A step whose answer is
\* not taken has none.
ResultsAreKept ==
  /\ ResultsInOrder
  /\ \A k \in 1 .. Finished : StepReported(k)
  /\ cause = "assertion" => \E i \in DOMAIN plan.assertions :
       ReportEndsBefore(i) /\ Judgement(plan.assertions[i], AsJSON(answer)) = {}
  /\ cause = "detail" => \E i \in DOMAIN plan.assertions :
       ReportEndsBefore(i) /\ Quotes(plan.assertions[i], Judgement(plan.assertions[i], AsJSON(answer)))
  /\ cause \in {"deadline", "call", "wire", "answer", "oversize"} =>
       \A n \in DOMAIN results : results[n].step # Step.id

\* The n-th result is what was found on the last answer: for an assertion its own
\* judgement, and no error, for an action whether it exited as expected.
TrueOfAnswer(n) ==
  LET r == results[n] IN
  /\ r.kind = "assertion" => \E i \in DOMAIN plan.assertions :
       LET judgement == Judgement(plan.assertions[i], AsJSON(answer)) IN
       /\ plan.assertions[i].id = r.id /\ plan.assertions[i].step = r.step
       /\ judgement # {} /\ (r.pass <=> TRUE \in judgement)
  /\ r.kind = "exit_code" => (r.pass <=> answer.exit = Step.expected)

\* A result is judged on the answer of its own step: none on an earlier answer, none
\* before the answer was checked.
ResultsAreJudged == \A n \in DOMAIN results : results[n].step = Step.id => TrueOfAnswer(n)

-----------------------------------------------------------------------------
(* The inductive invariant behind the properties.                          *)

\* An accepted plan has its defaults, passed the checks of its steps and repeats no
\* identifier.
PlanInv ==
  /\ pc \in {"decode", "rejected"} => plan \in Plans
  /\ DOMAIN plan.assertions = 1 .. Len(plan.assertions) /\ Len(plan.assertions) \in Nat
  /\ \A i \in DOMAIN plan.assertions :
       plan.assertions[i].id \in STRING /\ plan.assertions[i].step \in STRING
  /\ plan.steps \in Seq(StepRecord)
  /\ pc \notin {"decode", "rejected"} =>
       /\ plan.timeout_ms \in 1 .. Limits.maxTimeout
       /\ \A i \in DOMAIN plan.steps :
            LET s == plan.steps[i] IN
            /\ ValidStep(s, plan.timeout_ms)
            /\ \A j \in 1 .. i - 1 : plan.steps[j].id # s.id
            /\ s.op = "clock.set" => s.at.offset = 0 /\ "tolerance_ms" \in s.given
            /\ s.op \in Workload => "timeout_ms" \in s.given
            /\ "timeout_ms" \in s.given \/ s.timeout_ms = 0

\* A request is sent with the budget that its step and the run leave it.
RequestInv ==
  /\ at \in 0 .. Len(plan.steps) /\ left \in Nat /\ request \in Nat
  /\ pc \in {"decode", "rejected", "step", "call", "judge", "done", "error"}
  /\ pc \in {"decode", "rejected"} => at = 0
  /\ pc \in {"call", "judge"} => at > 0
  /\ pc = "call" =>
       /\ answer = NoAnswer /\ request = RequestBudget(Step, left)
       /\ Step.op \in Workload => left >= MS
  /\ answer.op \in {"none", "clock.read", "clock.set", "wait"} \cup Workload
  /\ cause \in {"none", "deadline", "call", "wire", "answer", "oversize", "assertion", "detail"}
  /\ pc = "error" <=> cause # "none"

\* A step has no result before its answer; while it is judged, it has those of the
\* assertions before the next one that is due.
ResultInv ==
  /\ due \in 1 .. Len(plan.assertions) + 1
  /\ results \in Seq(ResultRecord)
  /\ pc \in {"decode", "rejected"} => results = <<>>
  /\ \A n \in DOMAIN results : \E k \in 1 .. at : results[n].step = plan.steps[k].id
  /\ pc = "call" => \A n \in DOMAIN results : results[n].step # Step.id
  /\ pc = "judge" =>
       /\ \A n \in DOMAIN results : results[n].step = Step.id =>
            /\ results[n].kind = "assertion"
            /\ \E i \in 1 .. due - 1 : results[n].id = plan.assertions[i].id
       /\ \A i \in 1 .. due - 1 : plan.assertions[i].step = Step.id => Reported(i)

IInv == PlanInv /\ RequestInv /\ HostAgreesWithGuest /\ ResultInv /\ ResultsAreKept
=============================================================================
