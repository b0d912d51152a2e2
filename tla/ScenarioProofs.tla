--------------------------- MODULE ScenarioProofs ---------------------------
(***************************************************************************)
(* Deadlines nest, host and guest judge a clock readback alike, and the    *)
(* report keeps every result, in order and as judged: for every plan,      *)
(* every set of limits, every unit of time and every judgement.            *)
(*                                                                         *)
(* The first two rest on what validation leaves in an accepted plan: a     *)
(* workload has a positive timeout within the run's, a clock.set has a     *)
(* positive tolerance and a target in UTC, so the default that the guest   *)
(* would fill in is never used.  The others rest on identifiers that are   *)
(* not repeated and on the place of the loop over the assertions.          *)
(***************************************************************************)
EXTENDS Scenario, TLAPS

-----------------------------------------------------------------------------
(* Arithmetic.                                                             *)

\* The smaller of two deadlines.
LEMMA MinOfTwo ==
  ASSUME NEW a \in Int, NEW b \in Int
  PROVE  Min({a, b}) = IF a <= b THEN a ELSE b
<1>1. \E x \in {a, b} : \A y \in {a, b} : x <= y
  OBVIOUS
<1>2. Min({a, b}) \in {a, b} /\ \A y \in {a, b} : Min({a, b}) <= y
  BY <1>1 DEF Min
<1> QED BY <1>2

\* A longer time in milliseconds is no shorter in units.
LEMMA Units ==
  ASSUME NEW a \in Int, NEW b \in Int, a <= b
  PROVE  a * MS <= b * MS
<1>1. MS \in Nat \ {0}
  BY TimesAssumption
<1>2. (b - a) * MS >= 0
  BY <1>1
<1> QED BY <1>1, <1>2

\* Cutting to whole milliseconds rounds down, to no less than the last whole one.
LEMMA WholeMilliseconds ==
  ASSUME NEW t \in Nat, t >= MS
  PROVE  t \div MS \in Nat \ {0} /\ (t \div MS) * MS <= t
<1>1. MS \in Nat \ {0}
  BY TimesAssumption
<1> QED BY <1>1

-----------------------------------------------------------------------------
(* What validation leaves in a plan.                                       *)

\* Defaults keep a step's operation, give a workload its timeout, and a clock.set its
\* tolerance and a target in UTC.
LEMMA StepDefaults ==
  ASSUME NEW s \in StepRecord, NEW t \in Int
  PROVE  LET d == StepWithDefaults(s, t) IN
         /\ d \in StepRecord
         /\ "timeout_ms" \in s.given \/ s.timeout_ms = 0 =>
              "timeout_ms" \in d.given \/ d.timeout_ms = 0
         /\ d.op = "clock.set" => d.at.offset = 0 /\ "tolerance_ms" \in d.given
         /\ d.op \in Workload => "timeout_ms" \in d.given
<1>0. "tolerance_ms" \in StepField /\ "timeout_ms" \in StepField
  BY DEF StepField
<1>4. Limits.step \in Int /\ Limits.tolerance \in Int
  BY TimesAssumption
<1>1. CASE s.op = "clock.set"
  <2> DEFINE u == UTC(s.at)
             n == Default(s.tolerance_ms, Limits.tolerance)
             d == [s EXCEPT !.at = u, !.tolerance_ms = n, !.given = @ \cup {"tolerance_ms"}]
  <2>1. u \in [local : Int, offset : Int] /\ u.offset = 0 /\ n \in Int
    BY <1>4 DEF UTC, Instant, Default, StepRecord
  <2>2. StepWithDefaults(s, t) = d
    BY <1>1, ZenonT(120) DEF StepWithDefaults, Workload
  <2> HIDE DEF u, n
  <2>3. /\ d \in StepRecord /\ d.op = s.op /\ d.at = u /\ "tolerance_ms" \in d.given
    BY <1>0, <2>1, ZenonT(120) DEF StepRecord
  <2>4. s.given \subseteq d.given /\ d.timeout_ms = s.timeout_ms
    BY ZenonT(120) DEF StepRecord
  <2> HIDE DEF d
  <2> QED BY <1>1, <2>1, <2>2, <2>3, <2>4 DEF Workload
<1>2. CASE s.op \in Workload
  <2> DEFINE n == Default(s.timeout_ms, Min({Limits.step, t}))
             d == [s EXCEPT !.timeout_ms = n, !.given = @ \cup {"timeout_ms"}]
  <2>1. n \in Int
    BY <1>4, MinOfTwo DEF Default, StepRecord
  <2>2. StepWithDefaults(s, t) = d
    BY <1>2 DEF StepWithDefaults, Workload
  <2> HIDE DEF n
  <2>3. /\ d \in StepRecord /\ d.op = s.op /\ "timeout_ms" \in d.given
    BY <1>0, <2>1, ZenonT(120) DEF StepRecord
  <2> HIDE DEF d
  <2> QED BY <1>2, <2>2, <2>3 DEF Workload
<1>3. CASE s.op \notin Workload \cup {"clock.set"}
  BY <1>3 DEF StepWithDefaults
<1> QED BY <1>1, <1>2, <1>3

\* An accepted plan is within the limits and its steps have their defaults.
LEMMA AcceptedPlan ==
  ASSUME NEW p \in Plans, Accepted(WithDefaults(p))
  PROVE  LET q == WithDefaults(p) IN
         /\ q.timeout_ms \in 1 .. Limits.maxTimeout
         /\ q.steps \in Seq(StepRecord) /\ q.assertions = p.assertions
         /\ \A i \in DOMAIN q.steps :
              LET s == q.steps[i] IN
              /\ ValidStep(s, q.timeout_ms)
              /\ \A j \in 1 .. i - 1 : q.steps[j].id # s.id
              /\ "timeout_ms" \in s.given \/ s.timeout_ms = 0
              /\ s.op = "clock.set" => s.at.offset = 0 /\ "tolerance_ms" \in s.given
              /\ s.op \in Workload => "timeout_ms" \in s.given
<1> DEFINE q == WithDefaults(p)
           t == Default(p.timeout_ms, Limits.timeout)
           steps == [i \in DOMAIN p.steps |-> StepWithDefaults(p.steps[i], t)]
<1>1. /\ t \in Int /\ p.steps \in Seq(StepRecord)
      /\ \A i \in DOMAIN p.steps : "timeout_ms" \in p.steps[i].given \/ p.steps[i].timeout_ms = 0
  <2>1. \A i \in DOMAIN p.steps : p.steps[i] \in Range(p.steps)
    BY DEF Range
  <2> QED BY <2>1, TimesAssumption, PlansAssumption, SMTT(60), Z3T(60) DEF Default
<1>2. q.timeout_ms = t /\ q.steps = steps /\ q.assertions = p.assertions
  BY PlansAssumption DEF WithDefaults
<1>3. /\ q.timeout_ms \in 1 .. Limits.maxTimeout
      /\ \A i \in DOMAIN q.steps : ValidStep(q.steps[i], q.timeout_ms) /\ ValidOrder(q.steps, i)
  BY DEF Accepted
<1>7. \A i \in DOMAIN q.steps : \A j \in 1 .. i - 1 : q.steps[j].id # q.steps[i].id
  BY <1>3, ZenonT(120) DEF ValidOrder
<1> HIDE DEF q, t
<1>4. \A i \in DOMAIN steps : steps[i] = StepWithDefaults(p.steps[i], t) /\ p.steps[i] \in StepRecord
  BY <1>1
<1>5. steps \in Seq(StepRecord)
  <2>1. \A i \in DOMAIN steps : steps[i] \in StepRecord
    BY <1>1, <1>4, StepDefaults
  <2>2. Len(p.steps) \in Nat /\ DOMAIN steps = 1 .. Len(p.steps)
    BY <1>1
  <2>3. steps \in [1 .. Len(p.steps) -> StepRecord]
    BY <2>1, <2>2, ZenonT(120)
  <2> QED BY <2>2, <2>3
<1>6. \A i \in DOMAIN steps :
        /\ steps[i].op = "clock.set" => steps[i].at.offset = 0 /\ "tolerance_ms" \in steps[i].given
        /\ steps[i].op \in Workload => "timeout_ms" \in steps[i].given
        /\ "timeout_ms" \in steps[i].given \/ steps[i].timeout_ms = 0
  BY <1>1, <1>4, StepDefaults, ZenonT(120)
<1> HIDE DEF steps
<1> QED BY <1>2, <1>3, <1>5, <1>6, <1>7, ZenonT(120) DEF q

\* The current step of an accepted plan, and what it needs no default for.
LEMMA CurrentStep ==
  ASSUME PlanInv, pc \notin {"decode", "rejected"}, NEW i \in 1 .. Len(plan.steps)
  PROVE  LET s == plan.steps[i] IN
         /\ s \in StepRecord /\ ValidStep(s, plan.timeout_ms)
         /\ s.op = "clock.set" =>
              s.at.offset = 0 /\ s.tolerance_ms \in 1 .. Limits.maxTolerance
         /\ s.op \in Workload => s.timeout_ms \in 1 .. Limits.maxTimeout
         /\ s.timeout_ms \in Nat
<1>1. plan.timeout_ms \in 1 .. Limits.maxTimeout /\ plan.steps \in Seq(StepRecord)
  BY DEF PlanInv
<1> DEFINE s == plan.steps[i]
<1>2. i \in DOMAIN plan.steps /\ s \in StepRecord
  BY <1>1
<1>3. /\ ValidStep(s, plan.timeout_ms)
      /\ s.op = "clock.set" => s.at.offset = 0 /\ "tolerance_ms" \in s.given
      /\ s.op \in Workload => "timeout_ms" \in s.given
      /\ "timeout_ms" \in s.given \/ s.timeout_ms = 0
  BY <1>2 DEF PlanInv
<1> HIDE DEF s
<1>4. s.tolerance_ms \in Int /\ s.timeout_ms \in Int
  BY <1>2 DEF StepRecord
<1>5. Limits.maxTolerance \in Int /\ Limits.maxTimeout \in Int
  BY TimesAssumption
<1>6. /\ "tolerance_ms" \in s.given => s.tolerance_ms > 0
      /\ "timeout_ms" \in s.given => s.timeout_ms > 0
  BY <1>3 DEF ValidStep
<1>7. /\ s.op = "clock.set" => s.tolerance_ms <= Limits.maxTolerance
      /\ s.op \in Workload => s.timeout_ms <= plan.timeout_ms
  BY <1>3 DEF ValidStep
<1> QED BY <1>1, <1>2, <1>3, <1>4, <1>5, <1>6, <1>7 DEF s

-----------------------------------------------------------------------------
(* The guest's answer to a clock.set.                                      *)

\* An answer is one to its step's operation.
LEMMA AnswerOp ==
  ASSUME NEW s \in StepRecord, s.op \in {"clock.read", "clock.set", "wait"} \cup Workload,
         NEW v \in Answers(s)
  PROVE  v.op = s.op
<1>1. CASE s.op = "clock.set"
  BY <1>1 DEF Answers, SetClock
<1>2. CASE s.op = "action.exec"
  BY <1>2 DEF Answers
<1>3. CASE s.op = "service.stop"
  BY <1>3 DEF Answers
<1>4. CASE s.op \in {"clock.read", "service.start", "wait"}
  BY <1>4 DEF Answers
<1> QED BY <1>1, <1>2, <1>3, <1>4 DEF Workload

\* The host decodes the result of a clock.set and accepts it exactly when the guest
\* says that its readback is valid: no default and no rounding comes between them.
LEMMA SameReadback ==
  ASSUME NEW s \in StepRecord, s.op = "clock.set", s.at.offset = 0,
         s.tolerance_ms \in 1 .. Limits.maxTolerance, Instant(s.at) \in From .. Until - 1,
         NEW v \in Answers(s)
  PROVE  Decodes(AsJSON(v), 1) /\ (v.valid <=> HostAccepts(s, v))
<1>1. PICK skew \in Skews, elapsed \in 0 .. MS : v = SetClock(s, skew, elapsed)
  BY DEF Answers
<1> DEFINE target == Instant(s.at)
           T == s.tolerance_ms * MS
           r == [at |-> [local |-> target, offset |-> 0], tolerance_ms |-> s.tolerance_ms]
<1>2. /\ MS \in Nat \ {0} /\ From \in Int /\ Until \in Int /\ Skews \subseteq Int
      /\ Limits.maxTolerance \in Int
  BY TimesAssumption
<1>3. /\ s.tolerance_ms \in Int /\ s.tolerance_ms > 0 /\ target \in Int /\ T \in Int
      /\ skew \in Int /\ elapsed \in Int /\ elapsed >= 0
  BY <1>2
<1>4. Default(s.tolerance_ms, Limits.tolerance) = s.tolerance_ms
  BY <1>3 DEF Default
<1>5. Decodes(AsJSON(v), 1)
  <2>1. Instant(r.at) = target
    BY <1>3 DEF Instant
  <2>2. SetClock(r, skew, elapsed) = SetClock(s, skew, elapsed)
    BY <2>1 DEF SetClock
  <2> QED BY <1>1, <2>2, ClockResultAssumption
<1>6. /\ v.target = target /\ v.tolerance = s.tolerance_ms /\ v.elapsed = elapsed
      /\ v.before.mono = 1 /\ v.after.mono = 1 + elapsed /\ v.after.realtime = target + skew
      /\ v.valid <=> skew \in -T .. elapsed + T
  BY <1>1, <1>3, <1>4, ZenonT(120) DEF SetClock, Sample
<1> HIDE DEF target, T
<1>7. ReadbackValid(s, v) <=> v.valid
  BY <1>3, <1>6 DEF ReadbackValid, target, T
<1>8. HostAccepts(s, v) <=> ReadbackValid(s, v)
  BY <1>3, <1>6 DEF HostAccepts, ValidClock
<1> QED BY <1>5, <1>7, <1>8, ZenonT(120)

-----------------------------------------------------------------------------
(* The invariant.                                                          *)

\* What decoding gives to validation.
LEMMA DecodedPlan ==
  ASSUME NEW p \in Plans
  PROVE  /\ DOMAIN p.assertions = 1 .. Len(p.assertions) /\ Len(p.assertions) \in Nat
         /\ \A i \in DOMAIN p.assertions : p.assertions[i].id \in STRING /\ p.assertions[i].step \in STRING
         /\ p.steps \in Seq(StepRecord)
<1>1. /\ p.assertions \in Seq(Range(p.assertions)) /\ p.steps \in Seq(StepRecord)
      /\ \A a \in Range(p.assertions) : a.id \in STRING /\ a.step \in STRING
  BY PlansAssumption
<1>2. \A i \in DOMAIN p.assertions : p.assertions[i] \in Range(p.assertions)
  BY DEF Range
<1> QED BY <1>1, <1>2

\* A step that leaves the report and the place in the plan alone keeps what is reported.
LEMMA ReportStays ==
  ASSUME plan' = plan, results' = results, at' = at
  PROVE  /\ ResultsInOrder' <=> ResultsInOrder
         /\ \A i : Reported(i)' <=> Reported(i)
         /\ \A k : StepReported(k)' <=> StepReported(k)
         /\ \A i : ReportEndsBefore(i)' <=> ReportEndsBefore(i)
<1>1. /\ ResultsInOrder' <=> ResultsInOrder
      /\ \A i : Reported(i)' <=> Reported(i)
      /\ \A k : StepReported(k)' <=> StepReported(k)
  BY DEF ResultsInOrder, Precedes, Reported, StepReported
<1>2. \A i : ReportEndsBefore(i)' <=> ReportEndsBefore(i)
  BY <1>1, ZenonT(120) DEF ReportEndsBefore, Step
<1> QED BY <1>1, <1>2

\* The state before the plan is read satisfies the invariant.
LEMMA InitInv == Init => IInv
<1> SUFFICES ASSUME Init PROVE IInv
  OBVIOUS
<1>1. plan \in Plans /\ pc = "decode" /\ at = 0 /\ left = 0 /\ request = 0 /\ answer = NoAnswer
      /\ due = 1 /\ results = <<>> /\ cause = "none"
  BY DEF Init
<1>2. PlanInv
  BY <1>1, DecodedPlan DEF PlanInv
<1>3. Len(plan.steps) \in Nat /\ Len(plan.assertions) \in Nat
  BY <1>2 DEF PlanInv
<1>4. RequestInv /\ HostAgreesWithGuest
  BY <1>1, <1>3 DEF RequestInv, HostAgreesWithGuest, NoAnswer
<1>5. ResultInv
  BY <1>1, <1>3 DEF ResultInv
<1>6. ResultsAreKept
  BY <1>1 DEF ResultsAreKept, ResultsInOrder, Finished
<1> QED BY <1>2, <1>4, <1>5, <1>6 DEF IInv

\* Reading and validating the plan keeps the invariant.
LEMMA DecodeInv == IInv /\ Decode => IInv'
<1> SUFFICES ASSUME IInv, Decode PROVE IInv'
  OBVIOUS
<1>1. /\ pc = "decode" /\ plan \in Plans /\ at = 0 /\ left \in Nat /\ request \in Nat
      /\ answer.op \in {"none", "clock.read", "clock.set", "wait"} \cup Workload
      /\ cause = "none" /\ results = <<>>
  BY DEF IInv, PlanInv, RequestInv, ResultInv, Decode
<1>2. /\ at' = at /\ request' = request /\ answer' = answer /\ due' = due /\ results' = results
      /\ cause' = cause
  BY DEF Decode
<1>3. plan'.assertions = plan.assertions
  BY <1>1, AcceptedPlan DEF Decode, Planned
<1>4. PlanInv'
  <2>1. CASE Planned(plan)
    <3>1. plan' = WithDefaults(plan) /\ pc' = "step" /\ Accepted(WithDefaults(plan))
      BY <2>1 DEF Decode, Planned
    <3> QED BY <1>1, <3>1, AcceptedPlan, DecodedPlan, ZenonT(120) DEF PlanInv
  <2>2. CASE ~Planned(plan)
    BY <1>1, <2>2, DecodedPlan DEF Decode, PlanInv
  <2> QED BY <2>1, <2>2, ZenonT(120)
<1>5. left' \in Nat /\ pc' \in {"step", "rejected"}
  <2>1. CASE pc' = "step"
    <3>0. plan'.timeout_ms \in 1 .. Limits.maxTimeout
      BY <1>4, <2>1, ZenonT(120) DEF PlanInv
    <3>1. plan'.timeout_ms \in Nat
      BY <3>0, SMTT(60)
    <3>2. left' = plan'.timeout_ms * MS
      BY <2>1, SMTT(60) DEF Decode
    <3> QED BY <2>1, <3>1, <3>2, TimesAssumption
  <2>2. CASE pc' # "step"
    BY <1>1, <2>2 DEF Decode
  <2> QED BY <2>1, <2>2
<1>6. Len(plan'.steps) \in Nat
  BY <1>4 DEF PlanInv
<1>7. RequestInv'
  BY <1>1, <1>2, <1>5, <1>6 DEF RequestInv
<1>8. HostAgreesWithGuest'
  BY <1>2 DEF IInv, HostAgreesWithGuest
<1>9. due \in 1 .. Len(plan.assertions) + 1
  BY DEF IInv, ResultInv
<1>10. ResultInv'
  BY <1>1, <1>2, <1>3, <1>5, <1>9 DEF ResultInv
<1>11. ResultsAreKept'
  BY <1>1, <1>2, <1>5 DEF ResultsAreKept, ResultsInOrder, Finished
<1> QED BY <1>4, <1>7, <1>8, <1>10, <1>11 DEF IInv

\* The step that begins has no results yet, because identifiers are not repeated.
LEMMA NoResultsYet ==
  ASSUME IInv, SendStep
  PROVE  /\ at \in Nat /\ at' = at + 1 /\ results' = results /\ Step' = plan.steps[at']
         /\ \A n \in DOMAIN results : results[n].step # Step'.id
<1>1. /\ at \in Nat /\ Len(plan.steps) \in Nat /\ at + 1 <= Len(plan.steps) /\ pc = "step"
  BY DEF IInv, PlanInv, RequestInv, SendStep
<1>2. at' = at + 1 /\ plan' = plan /\ results' = results /\ Step' = plan.steps[at']
  BY ZenonT(120) DEF SendStep, Step
<1>3. \A n \in DOMAIN results : \E k \in 1 .. at : results[n].step = plan.steps[k].id
  BY ZenonT(120) DEF IInv, ResultInv
<1>4. \A k \in 1 .. at : plan.steps[k].id # plan.steps[at + 1].id
  BY <1>1 DEF IInv, PlanInv
<1> QED BY <1>1, <1>2, <1>3, <1>4, ZenonT(120)

\* What is left shrinks, a request is sent only within it, and the step that begins has
\* no results yet.
LEMMA SendStepInv == IInv /\ SendStep => IInv'
<1> SUFFICES ASSUME IInv, SendStep PROVE IInv'
  OBVIOUS
<1>1. PlanInv'
  <2>1. plan' = plan /\ pc' \in {"call", "error"} /\ pc = "step"
    BY ZenonT(120) DEF SendStep
  <2> QED BY <2>1 DEF IInv, PlanInv
<1>2. /\ at \in Nat /\ left \in Nat /\ Len(plan.steps) \in Nat /\ at + 1 <= Len(plan.steps)
      /\ cause = "none" /\ pc = "step"
  BY DEF IInv, PlanInv, RequestInv, SendStep
<1>3. PICK t \in Remaining :
        /\ left' = t
        /\ IF t = 0 \/ (plan.steps[at'].op \in Workload /\ t < MS)
           THEN request' = 0 /\ pc' = "error" /\ cause' = "deadline"
           ELSE request' = RequestBudget(plan.steps[at'], t) /\ pc' = "call" /\ UNCHANGED cause
  BY DEF SendStep
<1>4. t \in Nat
  <2>1. at # 0 => Step \in StepRecord
    BY <1>2, CurrentStep DEF IInv, Step
  <2>2. at # 0 => Takes(Step) \in Int
    BY <2>1, TimesAssumption, SMTT(60) DEF Takes, StepRecord
  <2> QED BY <1>2, <2>2 DEF Remaining
<1>5. /\ at' = at + 1 /\ plan' = plan /\ answer' = NoAnswer /\ due' = due /\ results' = results
      /\ Step' = plan.steps[at']
  BY DEF SendStep, Step
<1>6. request' \in Nat
  <2>1. plan.steps[at'].timeout_ms \in Nat
    BY <1>2, <1>5, CurrentStep DEF IInv
  <2>2. RequestBudget(plan.steps[at'], t) \in Nat
    BY <1>4, <2>1, TimesAssumption, SMTT(60) DEF RequestBudget, Default
  <2> QED BY <1>3, <2>2, SMTT(60)
<1>7. RequestInv'
  <2>1. pc' = "call" => /\ request' = RequestBudget(Step', left')
                        /\ Step'.op \in Workload => left' >= MS
    BY <1>3, <1>4, <1>5, TimesAssumption
  <2> HIDE DEF Step
  <2> QED BY <1>2, <1>3, <1>4, <1>5, <1>6, <2>1, SMTT(60) DEF RequestInv, NoAnswer
<1>8. HostAgreesWithGuest'
  BY <1>5 DEF HostAgreesWithGuest, NoAnswer
<1>9. pc' \in {"call", "error"} /\ cause' \in {"none", "deadline"}
  BY <1>2, <1>3
<1>10. /\ due \in 1 .. Len(plan.assertions) + 1 /\ results \in Seq(ResultRecord)
       /\ \A n \in DOMAIN results : \E k \in 1 .. at : results[n].step = plan.steps[k].id
  BY DEF IInv, ResultInv
<1>11. ResultInv'
  <2>2. \A n \in DOMAIN results : results[n].step # Step'.id
    BY NoResultsYet, ZenonT(120)
  <2>3. \A n \in DOMAIN results : \E k \in 1 .. at + 1 : results[n].step = plan.steps[k].id
    BY <1>2, <1>10
  <2> HIDE DEF Step
  <2> QED BY <1>5, <1>9, <1>10, <2>2, <2>3 DEF ResultInv
<1>12. ResultsAreKept'
  <2>1. ResultsInOrder'
    <3>1. \A m, n \in DOMAIN results : Precedes(m, n) => Precedes(m, n)'
      <4>1. \A k \in 1 .. at : k \in 1 .. at + 1 /\ \A l \in k .. at : l \in k .. at + 1
        BY <1>2
      <4> QED BY <1>5, <4>1, ZenonT(120) DEF Precedes
    <3> QED BY <1>5, <3>1, ZenonT(120) DEF IInv, ResultsAreKept, ResultsInOrder
  <2>2. Finished = at /\ Finished' = at
    BY <1>2, <1>5, <1>9 DEF Finished
  <2>3. \A k \in 1 .. Finished' : StepReported(k)'
    BY <1>5, <2>2 DEF IInv, ResultsAreKept, StepReported, Reported
  <2>4. \A n \in DOMAIN results' : results'[n].step # Step'.id
    BY <1>5, NoResultsYet, ZenonT(120)
  <2> HIDE DEF Step
  <2> QED BY <1>9, <2>1, <2>3, <2>4, ZenonT(120) DEF ResultsAreKept
<1> QED BY <1>1, <1>7, <1>8, <1>11, <1>12, ZenonT(120) DEF IInv

\* The host's verdict on an answer is the guest's.
LEMMA ReceiveAnswerInv == IInv /\ ReceiveAnswer => IInv'
<1> SUFFICES ASSUME IInv, ReceiveAnswer PROVE IInv'
  OBVIOUS
<1>1. /\ plan' = plan /\ at' = at /\ left' = left /\ request' = request /\ results' = results
      /\ due' = 1 /\ pc = "call" /\ Step' = Step
  BY DEF ReceiveAnswer, Step
<1>2. at \in 1 .. Len(plan.steps) /\ cause = "none"
  BY <1>1 DEF IInv, PlanInv, RequestInv
<1>3. PICK v \in Answers(Step) :
        /\ answer' = v
        /\ \/ ~Decodes(AsJSON(v), 1) /\ Fail("wire")
           \/ Decodes(AsJSON(v), 1) /\ ~HostAccepts(Step, v) /\ Fail("answer")
           \/ Decodes(AsJSON(v), 1) /\ HostAccepts(Step, v) /\ Fail("oversize")
           \/ Decodes(AsJSON(v), 1) /\ HostAccepts(Step, v) /\ pc' = "judge" /\ UNCHANGED cause
  BY ZenonT(120) DEF ReceiveAnswer, Oversize
<1>4. /\ Step \in StepRecord /\ Step.op \in {"clock.read", "clock.set", "wait"} \cup Workload
      /\ Step.op = "clock.set" =>
           /\ Step.at.offset = 0 /\ Step.tolerance_ms \in 1 .. Limits.maxTolerance
           /\ Instant(Step.at) \in From .. Until - 1
  BY <1>1, <1>2, CurrentStep DEF IInv, Step, ValidStep
<1> HIDE DEF Step
<1>5. \/ pc' = "error" /\ cause' \in {"wire", "answer", "oversize"}
      \/ pc' = "judge" /\ cause' = "none"
  BY <1>2, <1>3, ZenonT(120) DEF Fail
<1>6. PlanInv'
  BY <1>1, <1>5 DEF IInv, PlanInv
<1>7. RequestInv'
  <2>1. answer'.op = Step.op
    BY <1>3, <1>4, AnswerOp
  <2> QED BY <1>1, <1>2, <1>4, <1>5, <2>1, ZenonT(120) DEF IInv, RequestInv
<1>8. HostAgreesWithGuest'
  <2> SUFFICES ASSUME v.op = "clock.set" PROVE v.valid <=> cause' # "answer"
    BY <1>3 DEF HostAgreesWithGuest
  <2>1. Decodes(AsJSON(v), 1) /\ (v.valid <=> HostAccepts(Step, v))
    BY <1>4, AnswerOp, SameReadback
  <2> QED BY <1>2, <1>3, <2>1 DEF Fail
<1>9. ResultInv'
  <2>1. Len(plan.assertions) \in Nat
    BY DEF IInv, PlanInv
  <2> QED BY <1>1, <1>5, <2>1, SMTT(60) DEF IInv, ResultInv
<1>10. ResultsAreKept'
  <2>1. Finished' = Finished /\ cause' \notin {"assertion", "detail"}
    BY <1>1, <1>5, ZenonT(120) DEF Finished
  <2>2. \A n \in DOMAIN results' : results'[n].step # Step'.id
    BY <1>1, ZenonT(120) DEF IInv, ResultInv
  <2> QED BY <1>1, <2>1, <2>2, ReportStays, ZenonT(120) DEF IInv, ResultsAreKept
<1> QED BY <1>6, <1>7, <1>8, <1>9, <1>10 DEF IInv

\* A result that is added to the report belongs to the current step and comes after its
\* other results.
LEMMA AppendResult ==
  ASSUME PlanInv, ResultInv, ResultsInOrder, pc = "judge", at \in 1 .. Len(plan.steps),
         NEW r \in ResultRecord, r.step = Step.id,
         r.kind = "exit_code" \/ (due <= Len(plan.assertions) /\ r.id = plan.assertions[due].id),
         results' = Append(results, r), plan' = plan, at' = at
  PROVE  /\ results' \in Seq(ResultRecord) /\ ResultsInOrder'
         /\ \A n \in DOMAIN results' : \E k \in 1 .. at : results'[n].step = plan.steps[k].id
         /\ DOMAIN results' = DOMAIN results \cup {Len(results) + 1}
         /\ \A n \in DOMAIN results : results'[n] = results[n] /\ n <= Len(results)
         /\ results'[Len(results) + 1] = r
         /\ \A i \in DOMAIN plan.assertions : Reported(i) => Reported(i)'
         /\ \A k \in 1 .. at : StepReported(k) => StepReported(k)'
<1> DEFINE N == Len(results) + 1
<1>1. /\ results \in Seq(ResultRecord) /\ at \in Nat /\ due \in Nat \ {0}
      /\ \A n \in DOMAIN results : \E k \in 1 .. at : results[n].step = plan.steps[k].id
      /\ \A n \in DOMAIN results : results[n].step = Step.id =>
            /\ results[n].kind = "assertion"
            /\ \E i \in 1 .. due - 1 : results[n].id = plan.assertions[i].id
      /\ DOMAIN plan.assertions = 1 .. Len(plan.assertions) /\ Len(plan.assertions) \in Nat
  BY SMTT(60) DEF PlanInv, ResultInv
<1>2. /\ results' \in Seq(ResultRecord) /\ DOMAIN results' = DOMAIN results \cup {N}
      /\ \A n \in DOMAIN results : results'[n] = results[n] /\ n \in Nat /\ n < N
      /\ results'[N] = r /\ N \in Nat /\ Len(results) \in Nat
  BY <1>1
<1>3. \A n \in DOMAIN results' : \E k \in 1 .. at : results'[n].step = plan.steps[k].id
  <2>1. at \in 1 .. at /\ r.step = plan.steps[at].id
    BY <1>1 DEF Step
  <2> QED BY <1>1, <1>2, <2>1, ZenonT(120)
<1>4. \A i \in DOMAIN plan.assertions : Reported(i) => Reported(i)'
  BY <1>2 DEF Reported
<1>5. \A k \in 1 .. at : StepReported(k) => StepReported(k)'
  <2> TAKE k \in 1 .. at
  <2>1. (\E n \in DOMAIN results : results[n].kind = "exit_code" /\ results[n].step = plan.steps[k].id)
        => \E n \in DOMAIN results' :
             results'[n].kind = "exit_code" /\ results'[n].step = plan.steps[k].id
    BY <1>2, ZenonT(120)
  <2> QED BY <1>4, <2>1, ZenonT(120) DEF StepReported
<1>6. ResultsInOrder'
  <2> SUFFICES ASSUME NEW m \in DOMAIN results', NEW n \in DOMAIN results', m < n
               PROVE  Precedes(m, n)'
    BY DEF ResultsInOrder
  <2>1. m \in DOMAIN results
    BY <1>2
  <2>2. CASE n \in DOMAIN results
    <3>1. Precedes(m, n)
      BY <2>1, <2>2 DEF ResultsInOrder
    <3>2. results'[m] = results[m] /\ results'[n] = results[n]
      BY <1>2, <2>1, <2>2
    <3> QED BY <3>1, <3>2, ZenonT(120) DEF Precedes
  <2>3. CASE n = N
    <3>1. results'[m] = results[m] /\ results'[n] = r
      BY <1>2, <2>1, <2>3
    <3>2. PICK k \in 1 .. at : results[m].step = plan.steps[k].id
      BY <1>1, <2>1
    <3>3. at \in k .. at /\ r.step = plan.steps[at].id
      BY <1>1, SMTT(60) DEF Step
    <3>4. results[m].step = r.step =>
            /\ results[m].kind = "assertion"
            /\ \E i \in 1 .. due - 1 : results[m].id = plan.assertions[i].id
      BY <1>1, <2>1, ZenonT(120)
    <3>5. r.kind = "assertion" => due \in DOMAIN plan.assertions /\ r.id = plan.assertions[due].id
      BY <1>1
    <3> QED BY <3>1, <3>2, <3>3, <3>4, <3>5, ZenonT(120) DEF Precedes
  <2> QED BY <1>2, <2>2, <2>3
<1> QED BY <1>2, <1>3, <1>4, <1>5, <1>6, SMTT(60), Z3T(60)

\* One turn of the loop: the assertion is skipped, ends the run or has its result.
LEMMA JudgeAssertionInv == IInv /\ JudgeAssertion => IInv'
<1> SUFFICES ASSUME IInv, JudgeAssertion PROVE IInv'
  OBVIOUS
<1> DEFINE a == plan.assertions[due]
<1>1. /\ pc = "judge" /\ due <= Len(plan.assertions) /\ plan' = plan /\ at' = at /\ left' = left
      /\ request' = request /\ answer' = answer /\ Step' = Step
  BY ZenonT(120) DEF JudgeAssertion, Step
<1>2. /\ due \in DOMAIN plan.assertions /\ due \in Nat \ {0} /\ due + 1 \in 1 .. Len(plan.assertions) + 1
      /\ at \in 1 .. Len(plan.steps) /\ cause = "none" /\ a.id \in STRING /\ a.step \in STRING
  BY <1>1, SMTT(60), Z3T(60) DEF IInv, PlanInv, RequestInv, ResultInv
<1>3. \/ /\ a.step # Step.id /\ due' = due + 1 /\ pc' = pc /\ results' = results /\ cause' = cause
      \/ /\ a.step = Step.id /\ Judgement(a, AsJSON(answer)) = {}
         /\ pc' = "error" /\ cause' = "assertion" /\ due' = due /\ results' = results
      \/ /\ a.step = Step.id /\ Quotes(a, Judgement(a, AsJSON(answer)))
         /\ pc' = "error" /\ cause' = "detail" /\ due' = due /\ results' = results
      \/ /\ a.step = Step.id /\ due' = due + 1 /\ pc' = pc /\ cause' = cause
         /\ results' = Append(results, Result(a, TRUE \in Judgement(a, AsJSON(answer))))
  BY ZenonT(120) DEF JudgeAssertion, Fail
<1>4. pc' \in {"judge", "error"} /\ (pc' = "error" <=> cause' # "none")
      /\ cause' \in {"none", "assertion", "detail"}
  BY <1>1, <1>2, <1>3, ZenonT(120)
<1> HIDE DEF a, Step
<1>5. PlanInv'
  BY <1>1, <1>4 DEF IInv, PlanInv
<1>6. RequestInv'
  BY <1>1, <1>2, <1>4, ZenonT(120) DEF IInv, RequestInv
<1>7. HostAgreesWithGuest'
  BY <1>1, <1>2, <1>4 DEF IInv, HostAgreesWithGuest
<1>8. Finished' = Finished
  BY <1>1, <1>4 DEF Finished
<1>9. CASE a.step # Step.id /\ due' = due + 1 /\ pc' = pc /\ results' = results /\ cause' = cause
  <2>1. ResultsAreKept'
    BY <1>1, <1>2, <1>8, <1>9, ReportStays, ZenonT(120) DEF IInv, ResultsAreKept
  <2>2. \A i \in 1 .. due : plan.assertions[i].step = Step.id => i \in 1 .. due - 1
    BY <1>2, <1>9, SMTT(60) DEF a
  <2>3. ResultInv'
    <3>1. \A i \in 1 .. due' - 1 : plan.assertions[i].step = Step.id => Reported(i)'
      <4>1. due' - 1 = due
        BY <1>2, <1>9, SMTT(60)
      <4>2. \A i \in 1 .. due - 1 : plan.assertions[i].step = Step.id => Reported(i)
        BY <1>1, ZenonT(120) DEF IInv, ResultInv
      <4>3. \A i : Reported(i)' <=> Reported(i)
        BY <1>1, <1>9, ReportStays, ZenonT(120)
      <4> QED BY <2>2, <4>1, <4>2, <4>3, ZenonT(120)
    <3>2. \A n \in DOMAIN results : results[n].step = Step.id =>
            /\ results[n].kind = "assertion"
            /\ \E i \in 1 .. due' - 1 : results[n].id = plan.assertions[i].id
      <4>1. \A i \in 1 .. due - 1 : i \in 1 .. due' - 1
        BY <1>2, <1>9
      <4> QED BY <1>1, <4>1, ZenonT(120) DEF IInv, ResultInv
    <3>3. /\ results \in Seq(ResultRecord)
          /\ \A n \in DOMAIN results : \E k \in 1 .. at : results[n].step = plan.steps[k].id
      BY DEF IInv, ResultInv
    <3> QED BY <1>1, <1>2, <1>9, <3>1, <3>2, <3>3, ZenonT(120) DEF ResultInv
  <2> QED BY <1>5, <1>6, <1>7, <2>1, <2>3, ZenonT(120) DEF IInv
<1>10. CASE /\ a.step = Step.id /\ due' = due /\ results' = results /\ pc' = "error"
            /\ \/ cause' = "assertion" /\ Judgement(a, AsJSON(answer)) = {}
               \/ cause' = "detail" /\ Quotes(a, Judgement(a, AsJSON(answer)))
  <2>1. ResultInv'
    BY <1>1, <1>10, ZenonT(120) DEF IInv, ResultInv
  <2>2. \E i \in DOMAIN plan'.assertions : plan'.assertions[i] = a /\ ReportEndsBefore(i)'
    <3>1. ReportEndsBefore(due) /\ plan.assertions[due] = a
      BY <1>1, <1>10, ZenonT(120) DEF IInv, ResultInv, ReportEndsBefore, a
    <3>2. \A i : ReportEndsBefore(i)' <=> ReportEndsBefore(i)
      BY <1>1, <1>10, ReportStays, ZenonT(120)
    <3> QED BY <1>1, <1>2, <3>1, <3>2, ZenonT(120)
  <2>3. ResultsInOrder' /\ \A k \in 1 .. Finished' : StepReported(k)'
    BY <1>1, <1>8, <1>10, ReportStays DEF IInv, ResultsAreKept
  <2> DEFINE J(i) == Judgement(plan.assertions[i], AsJSON(answer))
  <2>4. PICK i \in DOMAIN plan'.assertions : /\ plan'.assertions[i] = a /\ ReportEndsBefore(i)'
                                            /\ J(i)' = Judgement(a, AsJSON(answer))
    BY <1>1, <2>2, ZenonT(120)
  <2>5. ResultsAreKept'
    <3>1. CASE cause' = "assertion" /\ Judgement(a, AsJSON(answer)) = {}
      BY <2>3, <2>4, <3>1, ZenonT(120) DEF ResultsAreKept
    <3>2. CASE cause' = "detail" /\ Quotes(a, Judgement(a, AsJSON(answer)))
      <4>1. Quotes(plan.assertions[i], J(i))'
        BY <2>4, <3>2, ZenonT(120)
      <4> QED BY <2>3, <2>4, <3>2, <4>1, ZenonT(120) DEF ResultsAreKept
    <3> QED BY <1>10, <3>1, <3>2
  <2> QED BY <1>5, <1>6, <1>7, <2>1, <2>5 DEF IInv
<1>11. CASE /\ a.step = Step.id /\ due' = due + 1 /\ pc' = pc /\ cause' = cause
            /\ results' = Append(results, Result(a, TRUE \in Judgement(a, AsJSON(answer))))
  <2> DEFINE r == Result(a, TRUE \in Judgement(a, AsJSON(answer)))
             N == Len(results) + 1
  <2>1. r \in ResultRecord /\ r.kind = "assertion" /\ r.id = a.id /\ r.step = a.step
    BY <1>2 DEF Result, ResultRecord
  <2> HIDE DEF r
  <2>2. PlanInv /\ ResultInv /\ ResultsInOrder /\ \A k \in 1 .. Finished : StepReported(k)
    BY ZenonT(120) DEF IInv, ResultsAreKept
  <2>3. /\ results' \in Seq(ResultRecord) /\ ResultsInOrder'
        /\ \A n \in DOMAIN results' : \E k \in 1 .. at : results'[n].step = plan.steps[k].id
        /\ DOMAIN results' = DOMAIN results \cup {N}
        /\ \A n \in DOMAIN results : results'[n] = results[n]
        /\ results'[N] = r
        /\ \A i \in DOMAIN plan.assertions : Reported(i) => Reported(i)'
        /\ \A k \in 1 .. at : StepReported(k) => StepReported(k)'
    <3>1. r.step = Step.id /\ r.id = plan.assertions[due].id /\ results' = Append(results, r)
      BY <1>11, <2>1, ZenonT(120) DEF r, a
    <3> HIDE DEF N
    <3> QED BY <1>1, <1>2, <2>1, <2>2, <3>1, AppendResult, ZenonT(120) DEF N
  <2> HIDE DEF N
  <2>4. /\ \A i \in 1 .. due - 1 : i \in DOMAIN plan.assertions
        /\ \A i \in 1 .. due - 1 : plan.assertions[i].step = Step.id => Reported(i)
        /\ \A n \in DOMAIN results : results[n].step = Step.id =>
             /\ results[n].kind = "assertion"
             /\ \E i \in 1 .. due - 1 : results[n].id = plan.assertions[i].id
    BY <1>1, <1>2, <2>2 DEF ResultInv, PlanInv
  <2>5. \A i \in 1 .. due : plan.assertions[i].step = Step.id => Reported(i)'
    <3>1. \A i : i = due => Reported(i)'
      BY <1>1, <2>1, <2>3, ZenonT(120) DEF Reported, a
    <3>2. \A i \in 1 .. due : i = due \/ i \in 1 .. due - 1
      BY <1>2
    <3>3. \A i \in 1 .. due - 1 : plan.assertions[i].step = Step.id => Reported(i)'
      BY <2>3, <2>4, ZenonT(120)
    <3> QED BY <3>1, <3>2, <3>3
  <2>6. \A n \in DOMAIN results' : results'[n].step = Step.id =>
          /\ results'[n].kind = "assertion"
          /\ \E i \in 1 .. due : results'[n].id = plan.assertions[i].id
    <3>1. 1 .. due - 1 \subseteq 1 .. due /\ due \in 1 .. due
      BY <1>2
    <3> QED BY <2>1, <2>3, <2>4, <3>1, ZenonT(120) DEF a
  <2>7. ResultInv'
    <3>1. due' - 1 = due
      BY <1>2, <1>11
    <3> QED BY <1>1, <1>2, <1>11, <2>3, <2>5, <2>6, <3>1, ZenonT(120) DEF ResultInv
  <2>8. \A k \in 1 .. Finished' : StepReported(k)'
    <3>1. 1 .. Finished \subseteq 1 .. at
      BY <1>1, <1>2, SMTT(60), Z3T(60) DEF Finished
    <3> QED BY <1>8, <2>2, <2>3, <3>1, ZenonT(120)
  <2>9. ResultsAreKept'
    BY <1>2, <1>11, <2>3, <2>8 DEF ResultsAreKept
  <2> QED BY <1>5, <1>6, <1>7, <2>7, <2>9 DEF IInv
<1> QED BY <1>3, <1>9, <1>10, <1>11, ZenonT(120) DEF a

\* A step that was judged to its end has all its results.
LEMMA EndStepInv == IInv /\ EndStep => IInv'
<1> SUFFICES ASSUME IInv, EndStep PROVE IInv'
  OBVIOUS
<1>1. /\ pc = "judge" /\ pc' = "step" /\ due > Len(plan.assertions) /\ plan' = plan /\ at' = at
      /\ left' = left /\ request' = request /\ answer' = answer /\ due' = due /\ cause' = cause
      /\ Step' = Step /\ results' = results \o ExitCode(Step)
  BY ZenonT(120) DEF EndStep, Step
<1>2. PlanInv'
  <2>1. PlanInv /\ pc \notin {"decode", "rejected"} /\ pc' \notin {"decode", "rejected"}
    BY <1>1, ZenonT(120) DEF IInv
  <2> QED BY <1>1, <2>1, ZenonT(120), SMTT(60) DEF PlanInv
<1>3. RequestInv' /\ HostAgreesWithGuest'
  BY <1>1 DEF IInv, RequestInv, HostAgreesWithGuest
<1>4. /\ PlanInv /\ ResultInv /\ ResultsInOrder /\ at \in 1 .. Len(plan.steps) /\ at \in Nat \ {0}
      /\ cause = "none" /\ \A k \in 1 .. at - 1 : StepReported(k)
  <2>1. PlanInv /\ RequestInv /\ ResultInv /\ ResultsAreKept
    BY ZenonT(120) DEF IInv
  <2>2. at \in 1 .. Len(plan.steps) /\ at \in Nat \ {0} /\ cause = "none"
    BY <1>1, <2>1 DEF PlanInv, RequestInv
  <2> QED BY <1>1, <2>1, <2>2, ZenonT(120) DEF ResultsAreKept, Finished
<1>5. /\ results \in Seq(ResultRecord) /\ due \in 1 .. Len(plan.assertions) + 1
      /\ \A n \in DOMAIN results : \E k \in 1 .. at : results[n].step = plan.steps[k].id
      /\ \A i \in DOMAIN plan.assertions : plan.assertions[i].step = Step.id => Reported(i)
  <2>1. 1 .. due - 1 = DOMAIN plan.assertions
    <3>1. /\ due \in 1 .. Len(plan.assertions) + 1 /\ Len(plan.assertions) \in Nat
          /\ DOMAIN plan.assertions = 1 .. Len(plan.assertions)
      BY <1>4, ZenonT(120) DEF ResultInv, PlanInv
    <3> QED BY <1>1, <3>1, SMTT(60)
  <2> QED BY <1>1, <1>4, <2>1, ZenonT(120) DEF ResultInv
<1>6. Step = plan.steps[at] /\ Step \in StepRecord
  BY <1>1, <1>4, CurrentStep, ZenonT(120) DEF Step
<1> HIDE DEF Step
<1>7. /\ results' \in Seq(ResultRecord) /\ ResultsInOrder'
      /\ \A n \in DOMAIN results' : \E k \in 1 .. at : results'[n].step = plan.steps[k].id
      /\ \A k \in 1 .. at : StepReported(k)'
  <2>1. CASE Step.op = "action.exec"
    <3> DEFINE r == [kind |-> "exit_code", id |-> Step.id, step |-> Step.id,
                     pass |-> answer.exit = Step.expected]
    <3>1. /\ r \in ResultRecord /\ r.kind = "exit_code" /\ r.step = Step.id
      BY <1>6 DEF ResultRecord, StepRecord
    <3>2. ExitCode(Step) = <<r>>
      BY <2>1 DEF ExitCode
    <3> HIDE DEF r
    <3>3. results' = Append(results, r)
      BY <1>1, <1>5, <3>1, <3>2, SMTT(60), Z3T(60)
    <3>4. /\ results' \in Seq(ResultRecord) /\ ResultsInOrder'
          /\ \A n \in DOMAIN results' : \E k \in 1 .. at : results'[n].step = plan.steps[k].id
          /\ Len(results) + 1 \in DOMAIN results' /\ results'[Len(results) + 1] = r
          /\ \A i \in DOMAIN plan.assertions : Reported(i) => Reported(i)'
          /\ \A k \in 1 .. at : StepReported(k) => StepReported(k)'
      BY <1>1, <1>4, <3>1, <3>3, AppendResult
    <3>5. ASSUME NEW k, k = at PROVE StepReported(k)'
      <4>1. plan.steps[k].id = Step.id
        BY <1>6, <3>5
      <4>2. \A i \in DOMAIN plan.assertions :
              plan.assertions[i].step = plan.steps[k].id => Reported(i)'
        BY <1>5, <3>4, <4>1, ZenonT(120)
      <4>3. \E n \in DOMAIN results' :
              results'[n].kind = "exit_code" /\ results'[n].step = plan.steps[k].id
        BY <3>1, <3>4, <4>1, ZenonT(120)
      <4> QED BY <1>1, <4>2, <4>3, ZenonT(120) DEF StepReported
    <3>6. \A k \in 1 .. at : k = at \/ k \in 1 .. at - 1
      BY <1>4
    <3>7. \A k \in 1 .. at - 1 : k \in 1 .. at
      BY <1>4
    <3> QED BY <1>4, <3>4, <3>5, <3>6, <3>7, ZenonT(120)
  <2>2. CASE Step.op # "action.exec"
    <3>1. results' = results
      BY <1>1, <1>5, <2>2, SMTT(60) DEF ExitCode
    <3>2. StepReported(at)
      BY <1>5, <1>6, <2>2, ZenonT(120) DEF StepReported
    <3>3. \A k \in 1 .. at : k = at \/ k \in 1 .. at - 1
      BY <1>4
    <3> QED BY <1>1, <1>4, <1>5, <3>1, <3>2, <3>3, ReportStays, ZenonT(120)
  <2> QED BY <2>1, <2>2
<1>8. ResultInv'
  BY <1>1, <1>5, <1>7, ZenonT(120) DEF ResultInv
<1>9. ResultsAreKept'
  BY <1>1, <1>4, <1>7 DEF ResultsAreKept, Finished
<1> QED BY <1>2, <1>3, <1>8, <1>9 DEF IInv

\* A failed call, the end of the run and a stuttering step keep the report.
LEMMA OtherInv == IInv /\ (CallFails \/ Complete \/ UNCHANGED vars) => IInv'
<1> SUFFICES ASSUME IInv, CallFails \/ Complete \/ UNCHANGED vars PROVE IInv'
  OBVIOUS
<1>1. /\ plan' = plan /\ at' = at /\ left' = left /\ request' = request /\ answer' = answer
      /\ due' = due /\ results' = results /\ Step' = Step
  BY DEF CallFails, Complete, vars, Step
<1>2. \/ pc = "call" /\ pc' = "error" /\ cause' = "call"
      \/ pc = "step" /\ pc' = "done" /\ cause' = cause
      \/ pc' = pc /\ cause' = cause
  BY ZenonT(120) DEF CallFails, Fail, Complete, vars
<1> HIDE DEF Step
<1>3. PlanInv'
  BY <1>1, <1>2, SMTT(60) DEF IInv, PlanInv
<1>4. RequestInv'
  BY <1>1, <1>2, SMTT(60) DEF IInv, RequestInv
<1>5. HostAgreesWithGuest'
  BY <1>1, <1>2, ZenonT(120) DEF IInv, RequestInv, HostAgreesWithGuest, NoAnswer
<1>6. ResultInv'
  <2>1. \A i : Reported(i)' <=> Reported(i)
    BY <1>1, ReportStays
  <2> QED BY <1>1, <1>2, <2>1 DEF IInv, ResultInv
<1>7. ResultsAreKept'
  <2>1. Finished' = Finished
    BY <1>1, <1>2 DEF Finished
  <2>2. CASE pc = "call" /\ pc' = "error" /\ cause' = "call"
    <3>1. \A n \in DOMAIN results' : results'[n].step # Step'.id
      BY <1>1, <2>2, ZenonT(120) DEF IInv, ResultInv
    <3> QED BY <1>1, <2>1, <2>2, <3>1, ReportStays, ZenonT(120) DEF IInv, ResultsAreKept
  <2>3. CASE cause' = cause
    BY <1>1, <2>1, <2>3, ReportStays, ZenonT(120) DEF IInv, ResultsAreKept
  <2> QED BY <1>2, <2>2, <2>3
<1> QED BY <1>3, <1>4, <1>5, <1>6, <1>7 DEF IInv

\* Every step keeps the invariant.
LEMMA NextInv == IInv /\ [Next]_vars => IInv'
  BY DecodeInv, SendStepInv, ReceiveAnswerInv, JudgeAssertionInv, EndStepInv, OtherInv DEF Next

\* The inductive invariant holds for every plan.
THEOREM Invariance == Spec => []IInv
  BY InitInv, NextInv, PTL DEF Spec

\* Every variable has its type, a run fails with a cause, and a result belongs to a step
\* that began.
THEOREM TypeCorrect == Spec => []TypeOK
<1>1. IInv => TypeOK
  BY DEF IInv, RequestInv, ResultInv, TypeOK
<1> QED BY <1>1, Invariance, PTL

\* For every plan and every judgement of its assertions: the report is in the plan's
\* order, a judged step has all its results, a step whose answer is not taken has none,
\* and a step that ends at an assertion without judgement, or at a result that the report
\* has no room for, has exactly those of the assertions before it.
THEOREM ResultsKept == Spec => []ResultsAreKept
<1>1. IInv => ResultsAreKept
  BY DEF IInv
<1> QED BY <1>1, Invariance, PTL

\* What a result says of the current step's answer stays true, and the next step
\* begins without results.
LEMMA JudgedStep == IInv /\ ResultsAreJudged /\ [Next]_vars => ResultsAreJudged'
<1> SUFFICES ASSUME IInv, ResultsAreJudged, [Next]_vars PROVE ResultsAreJudged'
  OBVIOUS
<1>1. ASSUME plan' = plan, at' = at, answer' = answer, NEW n \in DOMAIN results,
             n \in DOMAIN results', results'[n] = results[n], results'[n].step = Step'.id
      PROVE  TrueOfAnswer(n)'
  <2>1. Step' = Step
    BY <1>1, ZenonT(120) DEF Step
  <2> HIDE DEF Step
  <2>2. TrueOfAnswer(n)
    BY <1>1, <2>1, ZenonT(120) DEF ResultsAreJudged
  <2> DEFINE J(i) == Judgement(plan.assertions[i], AsJSON(answer))
  <2>3. \A i : J(i)' = J(i)
    BY <1>1, ZenonT(120)
  <2> QED BY <1>1, <2>1, <2>2, <2>3, ZenonT(120) DEF TrueOfAnswer
<1>2. CASE Decode
  <2>1. results' = results /\ results = <<>>
    BY <1>2, ZenonT(120) DEF Decode, IInv, ResultInv
  <2> QED BY <2>1, SMTT(60) DEF ResultsAreJudged
<1>3. CASE SendStep
  BY <1>3, NoResultsYet, ZenonT(120) DEF ResultsAreJudged
<1>4. CASE ReceiveAnswer
  <2>1. results' = results /\ Step' = Step /\ \A n \in DOMAIN results : results[n].step # Step.id
    BY <1>4, ZenonT(120) DEF ReceiveAnswer, Step, IInv, ResultInv
  <2> QED BY <2>1, ZenonT(120) DEF ResultsAreJudged
<1>5. CASE JudgeAssertion
  <2> DEFINE a == plan.assertions[due]
             judgement == Judgement(a, AsJSON(answer))
             r == Result(a, TRUE \in judgement)
  <2>1. /\ plan' = plan /\ at' = at /\ answer' = answer /\ Step' = Step
        /\ \/ results' = results
           \/ judgement # {} /\ results' = Append(results, r)
    BY <1>5, ZenonT(120) DEF JudgeAssertion, Fail, Step
  <2>2. due \in DOMAIN plan.assertions /\ results \in Seq(ResultRecord) /\ r \in ResultRecord
    <3>1. PlanInv /\ ResultInv /\ due <= Len(plan.assertions)
      BY <1>5, ZenonT(120) DEF IInv, JudgeAssertion
    <3>2. due \in DOMAIN plan.assertions /\ results \in Seq(ResultRecord)
      BY <3>1, SMTT(60) DEF PlanInv, ResultInv
    <3> QED BY <3>1, <3>2, SMTT(60) DEF PlanInv, Result, ResultRecord
  <2>3. /\ r.kind = "assertion" /\ r.id = a.id /\ r.step = a.step
        /\ r.pass <=> TRUE \in judgement
    BY ZenonT(120) DEF Result
  <2> HIDE DEF r
  <2>4. CASE results' = results
    BY <1>1, <2>1, <2>4, ZenonT(120) DEF ResultsAreJudged
  <2>5. CASE judgement # {} /\ results' = Append(results, r)
    <3> SUFFICES ASSUME NEW n \in DOMAIN results', results'[n].step = Step'.id PROVE TrueOfAnswer(n)'
      BY ZenonT(120) DEF ResultsAreJudged
    <3>1. (n \in DOMAIN results /\ results'[n] = results[n]) \/ results'[n] = r
      BY <2>2, <2>5, SMTT(60)
    <3>2. CASE results'[n] = r
      BY <2>1, <2>2, <2>3, <2>5, <3>2, ZenonT(120) DEF TrueOfAnswer
    <3> QED BY <1>1, <2>1, <3>1, <3>2, ZenonT(120)
  <2> QED BY <2>1, <2>4, <2>5, ZenonT(120)
<1>6. CASE EndStep
  <2>1. /\ plan' = plan /\ at' = at /\ answer' = answer /\ Step' = Step
        /\ results' = results \o ExitCode(Step) /\ results \in Seq(ResultRecord)
    BY <1>6, ZenonT(120) DEF EndStep, Step, IInv, ResultInv
  <2> DEFINE r == [kind |-> "exit_code", id |-> Step.id, step |-> Step.id,
                   pass |-> answer.exit = Step.expected]
  <2>2. r.kind = "exit_code" /\ (r.pass <=> answer.exit = Step.expected)
    BY ZenonT(120)
  <2>3. ExitCode(Step) \in {<<>>, <<r>>}
    BY ZenonT(120) DEF ExitCode
  <2> HIDE DEF r, Step
  <2> SUFFICES ASSUME NEW n \in DOMAIN results', results'[n].step = Step'.id PROVE TrueOfAnswer(n)'
    BY ZenonT(120) DEF ResultsAreJudged
  <2>4. (n \in DOMAIN results /\ results'[n] = results[n]) \/ results'[n] = r
    BY <2>1, <2>3, SMTT(60)
  <2>5. CASE results'[n] = r
    BY <2>1, <2>2, <2>5, ZenonT(120) DEF TrueOfAnswer
  <2> QED BY <1>1, <2>1, <2>4, <2>5, ZenonT(120)
<1>7. CASE CallFails \/ Complete \/ UNCHANGED vars
  <2>1. plan' = plan /\ at' = at /\ answer' = answer /\ results' = results
    BY <1>7, ZenonT(120) DEF CallFails, Complete, vars
  <2> QED BY <1>1, <2>1, ZenonT(120) DEF ResultsAreJudged
<1> QED BY <1>2, <1>3, <1>4, <1>5, <1>6, <1>7, ZenonT(120) DEF Next

\* For every plan and every judgement: a result is its assertion's judgement on the
\* answer of its own step, or its action's exit code compared with the expected one.
THEOREM ResultsJudged == Spec => []ResultsAreJudged
<1>1. Init => ResultsAreJudged
  <2>1. Init => results = <<>>
    BY ZenonT(120) DEF Init
  <2> QED BY <2>1, SMTT(60) DEF ResultsAreJudged
<1> QED BY <1>1, JudgedStep, Invariance, PTL DEF Spec

\* For every plan: the agent's budget for a workload is positive and within what is
\* left of the run, and the host outwaits it.
THEOREM BudgetsNest == Spec => []DeadlinesNest
<1>1. ASSUME IInv, pc = "call", Step.op \in Workload
      PROVE  /\ GuestBudget(request) \in 1 .. Limits.maxTimeout
             /\ GuestBudget(request) * MS <= left
             /\ HostWait(Step, request, left) >= Min({left, (GuestBudget(request) + Termination) * MS})
  <2>1. /\ MS \in Nat \ {0} /\ Limits.maxTimeout \in Nat /\ Allowance \in Nat
        /\ Termination \in Nat /\ Termination <= Allowance
    BY TimesAssumption, SMTT(60)
  <2>2. Step.timeout_ms \in 1 .. Limits.maxTimeout
    <3>1. PlanInv /\ at \in 1 .. Len(plan.steps)
      BY <1>1 DEF IInv, PlanInv, RequestInv
    <3> QED BY <1>1, <3>1, CurrentStep, ZenonT(120) DEF Step
  <2>3. left \in Nat /\ left >= MS /\ request = RequestBudget(Step, left)
    BY <1>1 DEF IInv, RequestInv
  <2> DEFINE n == Step.timeout_ms
  <2> HIDE DEF Step
  <2>4. request = IF left < n * MS THEN left \div MS ELSE n
    BY <1>1, <2>1, <2>2, <2>3 DEF RequestBudget, Default
  <2>5. request \in 1 .. Limits.maxTimeout /\ request * MS <= left
    <3>1. CASE left < n * MS
      <4>1. request \in Nat \ {0} /\ request * MS <= left
        BY <2>3, <2>4, <3>1, WholeMilliseconds
      <4>2. request <= n
        BY <2>1, <2>2, <2>3, <3>1, <4>1, Units
      <4> QED BY <2>1, <2>2, <4>1, <4>2
    <3>2. CASE ~(left < n * MS)
      BY <2>1, <2>2, <2>3, <2>4, <3>2
    <3> QED BY <3>1, <3>2
  <2>6. GuestBudget(request) = request
    BY <2>1, <2>5 DEF GuestBudget, Default
  <2>7. HostWait(Step, request, left) = Min({left, (request + Allowance) * MS})
    BY <1>1 DEF HostWait, Workload
  <2>8. (request + Termination) * MS <= (request + Allowance) * MS
    BY <2>1, <2>5, Units
  <2>9. Min({left, (request + Termination) * MS}) <= Min({left, (request + Allowance) * MS})
    <3> DEFINE a == (request + Termination) * MS
               b == (request + Allowance) * MS
    <3>1. a \in Int /\ b \in Int /\ left \in Int /\ a <= b
      BY <2>1, <2>3, <2>5, <2>8
    <3> HIDE DEF a, b
    <3>2. Min({left, a}) <= Min({left, b})
      BY <3>1, MinOfTwo
    <3> QED BY <3>2 DEF a, b
  <2> QED BY <2>5, <2>6, <2>7, <2>9
<1>2. IInv => DeadlinesNest
  BY <1>1 DEF DeadlinesNest
<1> QED BY <1>2, Invariance, PTL

\* For every plan, tolerance and readback: the host rejects a clock.set exactly when
\* the guest reported an invalid readback.
THEOREM ReadbackAgreed == Spec => []HostAgreesWithGuest
<1>1. IInv => HostAgreesWithGuest
  BY DEF IInv
<1> QED BY <1>1, Invariance, PTL

=============================================================================
