----------------------------- MODULE MCScenario -----------------------------
(***************************************************************************)
(* Scenarios for TLC, in families that each vary one part of a plan.  A    *)
(* millisecond has two units of time, the limits keep the code's order.    *)
(***************************************************************************)
EXTENDS ScenarioResults

MCLimits == [timeout |-> 6, boot |-> 2, maxTimeout |-> 8, policy |-> 7, step |-> 3, tolerance |-> 1,
             maxTolerance |-> 2, services |-> 2, steps |-> 4, assertions |-> 3]
MCSkews  == -5 .. 7

\* Steps.
Do(id, op) ==
  [id |-> id, op |-> op, given |-> {"id", "op"}, at |-> [local |-> From, offset |-> 0],
   allow_live |-> FALSE, tolerance_ms |-> 0, action |-> "none", service |-> "none",
   timeout_ms |-> 0, duration_ms |-> 0, expected |-> 0]

With(s, field, n) == [s EXCEPT ![field] = n, !.given = @ \cup {field}]

SetStep  == With(Do("set", "clock.set"), "at", [local |-> From, offset |-> 0])
Run(n)   == With(Do("act", "action.exec"), "action", n)
Act      == Run("run")
Read     == Do("read", "clock.read")
Start(n) == With(Do("start", "service.start"), "service", n)
Stop(n)  == With(Do("stop", "service.stop"), "service", n)
Wait(n)  == With(Do("wait", "wait"), "duration_ms", n)

Check(step, pointer, op, value) ==
  [id |-> "a", step |-> step, pointer |-> pointer, op |-> op, value |-> value]

SetReads == Check("set", <<"/", "readback_valid">>, "eq", Bool(TRUE))

Plan(steps, assertions) ==
  [wellFormed |-> TRUE, given |-> {"timeout_ms", "boot_timeout_ms"}, timeout_ms |-> 1,
   boot_timeout_ms |-> 1, steps |-> steps, assertions |-> assertions]

OnAct(pointer, op, value) == Plan(<<SetStep, Act>>, <<Check("act", pointer, op, value)>>)

\* What an action prints: nested to both limits, odd keys, numbers in two notations.
Deep(n) == IF n = 2 THEN Arr(<<Arr(<<Null>>)>>) ELSE Arr(<<Arr(<<Arr(<<Null>>)>>)>>)
MCOutputs ==
  {Null, Bool(TRUE), Str(<<"1">>), Num(1, 0), Num(10, -1), Num(1, 1), Num(1, 3),
   Arr(<<Num(1, 0), Str(<<"a">>)>>), Deep(2), Deep(3),
   Obj(<<"a">> :> Num(10, 0) @@ <<"~">> :> Null @@ <<"/">> :> Bool(FALSE)),
   Obj(<<"~", "1">> :> Num(2, 0) @@ <<>> :> Arr(<<>>) @@ <<"0">> :> Str(<<"0">>))}

\* Pointers, raw and below what the action printed.
Pointers ==
  {OnAct(p, "exists", None) : p \in BoundedSeq({"/", "~", "0", "1", "stdout_json"}, 4)} \cup
  {OnAct(<<"/", "stdout_json">> \o p, "absent", None) :
     p \in BoundedSeq({"/", "~", "0", "1", "a", "-"}, 3) \cup {<<"/", "~", "0", "1">>}}

\* Comparisons.
Comparisons ==
  {OnAct(p, op, v) :
     p \in {<<>>} \cup {<<"/", "stdout_json">> \o sub : sub \in {<<>>, <<"/", "a">>, <<"/", "0">>}},
     op \in Valued \cup {"exists", "like"}, v \in (MCOutputs \ {Deep(2)}) \cup {None}}

\* Budgets of the run and of its requests.
Budgets ==
  {[Plan(<<SetStep, s>>, <<SetReads>>) EXCEPT !.timeout_ms = t, !.boot_timeout_ms = b,
                                              !.given = g] :
     t \in {0, 1, 2, 7, 8, 9}, b \in {0, 1, 3}, g \in {{}, {"timeout_ms", "boot_timeout_ms"}},
     s \in {Act, Wait(0), Wait(1), Wait(7)} \cup {With(Act, "timeout_ms", n) : n \in {0, 1, 3, 9}}}

\* Clock targets and tolerances.
Clocks ==
  {Plan(<<s>>, <<SetReads>>) : s \in UNION {
     {x, With(x, "tolerance_ms", n)} : n \in 0 .. 3,
     x \in {With(SetStep, "at", [local |-> l, offset |-> o]) :
              l \in {From - 1, From, Until - 1, Until}, o \in {-1, 0, 1}}}}

\* Orders of steps.
Kinds == {Read, SetStep, With(SetStep, "allow_live", TRUE), Act, Wait(1),
          With(Read, "timeout_ms", 1),
          Start("s"), Start("t"), Start("u"), Start("v"), Stop("s"), Stop("t")}
Numbered(steps) ==
  [i \in DOMAIN steps |->
     [steps[i] EXCEPT !.id = <<"one", "two", "three", "four", "five">>[i]]]
Orders ==
  {[Plan(Numbered(s), <<Check("one", <<>>, "exists", None)>>) EXCEPT !.timeout_ms = 2] :
     s \in BoundedSeq(Kinds, 2) \cup {<<SetStep>> \o t : t \in BoundedSeq(Kinds, 3)}
           \cup {<<Read, Read, Read, Read, Read>>}} \cup
  {Plan(<<SetStep, SetStep>>, <<SetReads>>),
   [Plan(<<SetStep>>, <<SetReads>>) EXCEPT !.wellFormed = FALSE],
   Plan(<<SetStep>>, <<SetReads, SetReads>>),
   Plan(<<SetStep>>, <<>>),
   Plan(<<SetStep, Run("undeclared")>>, <<SetReads>>),
   [Plan(<<SetStep, Wait(1)>>, <<Check("wait", <<>>, "exists", None)>>) EXCEPT !.timeout_ms = 2]}

\* Fields of every result.
Typed ==
  {Plan(steps, <<Check(Last(steps).id, p, op, Num(1, 0))>>) :
     steps \in {<<Read>>, <<SetStep>>, <<SetStep, Act>>, <<SetStep, Start("s")>>,
                <<SetStep, Start("s"), Stop("s")>>},
     p \in {<<"/", f>> \o sub :
              f \in UNION {Fields(o) :
                             o \in {"clock.read", "clock.set", "action.exec", "service.stop"}},
              sub \in {<<>>, <<"/", "realtime">>, <<"/", "monotonic_ns">>, <<"/", "name">>}},
     op \in {"eq", "gt"}} \cup
  {Plan(steps, <<Check(Last(steps).id, <<"/", f>>, op, None)>>) :
     steps \in {<<SetStep, Start("s")>>, <<SetStep, Start("s"), Stop("s")>>},
     f \in {"running", "stdout", "stderr"}, op \in {"exists", "absent"}}

\* Several assertions on one step and on two, one of them an error.
Marked(as) == [i \in DOMAIN as |-> [as[i] EXCEPT !.id = <<"a", "b", "c", "d">>[i]]]
Several ==
  {Plan(<<SetStep, Act>>, Marked(as)) : as \in UNION {[1 .. n -> {SetReads,
     Check("act", <<"/", "exit_code">>, "eq", Num(0, 0)),
     Check("act", <<"/", "stdout_json", "/", "a">>, "lte", Num(1, 1)),
     Check("act", <<"/", "stderr">>, "gt", Num(0, 0))}] : n \in 2 .. 4}}

MCPlans == Pointers \cup Comparisons \cup Budgets \cup Clocks \cup Orders \cup Typed \cup Several
=============================================================================
