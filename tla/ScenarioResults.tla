--------------------------- MODULE ScenarioResults --------------------------
(***************************************************************************)
(* What the results of a scenario mean: Scenario with the evaluation of    *)
(* Assertions, against a reference reading of pointers and values.         *)
(***************************************************************************)
EXTENDS Scenario, Assertions

-----------------------------------------------------------------------------
(* Reference definitions.                                                  *)

\* The pointer that RFC 6901 gives to a path.
Escape(token) ==
  FlattenSeq([i \in DOMAIN token |-> CASE token[i] = "~" -> <<"~", "0">>
                                       [] token[i] = "/" -> <<"~", "1">>
                                       [] OTHER          -> <<token[i]>>])

PointerOf(tokens) == FlattenSeq([i \in DOMAIN tokens |-> <<"/">> \o Escape(tokens[i])])

\* Every value inside a value, with its pointer.
RECURSIVE Nodes(_)
Nodes(v) ==
  {<< <<>>, v>>} \cup
  UNION {LET name == IF v.type = "array" THEN <<ToString(k - 1)>> ELSE k
         IN  {<<PointerOf(<<name>>) \o n[1], n[2]>> : n \in Nodes(Members(v)[k])}
         : k \in DOMAIN Members(v)}

\* A value with every number in one unit: two JSON texts mean the same iff these are equal.
RECURSIVE Canon(_)
Canon(v) ==
  CASE v.type = "number" -> [type |-> "number", value |-> v.num * 10 ^ (v.exp + MaxExponent)]
    [] v.type = "array"  -> [v EXCEPT !.items = [i \in DOMAIN @ |-> Canon(@[i])]]
    [] v.type = "object" -> [v EXCEPT !.fields = [k \in DOMAIN @ |-> Canon(@[k])]]
    [] OTHER             -> v

\* What an assertion says of an observation.
Holds(a, observation) ==
  LET values == {n[2] : n \in {n \in Nodes(observation) : n[1] = a.pointer}} IN
  CASE a.op = "exists" -> values # {}
    [] a.op = "absent" -> values = {}
    [] a.op = "eq"     -> \E v \in values : Canon(v) = Canon(a.value)
    [] a.op = "ne"     -> \E v \in values : Canon(v) # Canon(a.value)
    [] a.op = "gt"     -> \E v \in values : Canon(v).value > Canon(a.value).value
    [] a.op = "gte"    -> \E v \in values : Canon(v).value >= Canon(a.value).value
    [] a.op = "lt"     -> \E v \in values : Canon(v).value < Canon(a.value).value
    [] a.op = "lte"    -> \E v \in values : Canon(v).value <= Canon(a.value).value

-----------------------------------------------------------------------------
(* Properties.                                                             *)

\* A pointer has one reading, which escapes back to it, and only a pointer without
\* leading slash or with a stray tilde has none.
PointersReadBack ==
  \A a \in Range(plan.assertions) :
    LET p == a.pointer IN
    /\ \A tokens \in PointerTokens(p) : PointerOf(tokens) = p
    /\ PointerTokens(p) = {} <=>
         /\ p # <<>>
         /\ \/ Len(p) > MaxPointer \/ p[1] # "/"
            \/ \E i \in DOMAIN p : p[i] = "~" /\ (i = Len(p) \/ p[i + 1] \notin {"0", "1"})

\* Every reported result is what the assertion means: it is about the value whose
\* pointer it names, numbers count by value and types are kept apart; and a pointer
\* is refused only for what RFC 6901 or the limit on its length says.
ResultsAreTrue ==
  /\ PointersReadBack
  /\ pc \in {"step", "done", "error"} /\ at > 0 =>
       \A r \in Range(results), a \in Range(plan.assertions) :
         r.kind = "assertion" /\ r.step = Step.id /\ r.id = a.id => (r.pass <=> Holds(a, AsJSON(answer)))

\* A service's diagnostics, the optional fields of its result.
Diagnostics == {<<"stdout">>, <<"stderr">>}

\* The first token of a validated pointer, if it has one.
FirstTokens(p) == {tokens[1] : tokens \in PointerTokens(p) \ {<<>>}}

\* A validated reference to a typed field never ends a run: an evaluation fails only
\* on what the workload printed, on a stopped service's diagnostics when it printed none,
\* on the order of something that is no number, or on a started service's diagnostics.
\* Validation takes these last although no start returns them: a value comparison with
\* them always ends the run, "exists" always fails and "absent" always holds.
ReferencesResolve ==
  /\ cause = "assertion" =>
       LET a == plan.assertions[due]
           tokens == CHOOSE ts \in PointerTokens(a.pointer) : TRUE
       IN  \/ tokens # <<>> /\ tokens[1] = <<"stdout_json">>
           \/ /\ tokens # <<>> /\ tokens[1] \in Diagnostics
              /\ \/ Step.op = "service.stop" /\ tokens[1] \notin DOMAIN AsJSON(answer).fields
                 \/ Step.op = "service.start" /\ a.op \in Valued
           \/ /\ a.op \in Ordering
              /\ tokens # <<>> => Last(tokens) \notin {<<"exit_code">>, <<"monotonic_ns">>,
                                                       <<"elapsed_ns">>, <<"tolerance_ms">>}
  /\ \A r \in Range(results), a \in Range(plan.assertions), s \in Range(plan.steps) :
       /\ r.kind = "assertion" /\ r.id = a.id /\ r.step = s.id
       /\ s.op = "service.start" /\ FirstTokens(a.pointer) \cap Diagnostics # {}
       => a.op \in {"exists", "absent"} /\ (r.pass <=> a.op = "absent")
=============================================================================
