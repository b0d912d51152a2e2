----------------------------- MODULE Assertions -----------------------------
(***************************************************************************)
(* What an assertion of a scenario says about an observation: JSON values, *)
(* JSON Pointers and the comparisons of internal/scenario/assertions.go.   *)
(***************************************************************************)
EXTENDS JSONValues, SequencesExt

CONSTANTS
  MaxDepth,     \* jsonutil.MaxDepth
  MaxExponent,  \* of a number literal
  MaxPointer    \* length of a pointer

ASSUME LimitsAssumption == {MaxDepth, MaxExponent, MaxPointer} \subseteq Nat

\* jsonutil.Decode of a text whose root is depth levels below the text's own.
RECURSIVE Decodable(_, _)
Decodable(v, depth) ==
  /\ depth <= MaxDepth
  /\ v.type = "number" => v.exp \in -MaxExponent .. MaxExponent
  /\ \A k \in DOMAIN Members(v) : Decodable(Members(v)[k], depth + 1)

-----------------------------------------------------------------------------
(* Comparison.                                                             *)

\* Faulty variant: the literals are compared, not their values.
CompareMantissas(x, y) == x.num - y.num

\* The sign of the difference of the two rationals.
CompareNumbers(x, y) ==
  LET low == Min({x.exp, y.exp})
  IN  x.num * 10 ^ (x.exp - low) - y.num * 10 ^ (y.exp - low)

RECURSIVE Equal(_, _)
Equal(a, b) ==
  /\ a.type = b.type
  /\ a.type = "bool" => a.bool = b.bool
  /\ a.type = "string" => a.str = b.str
  /\ a.type = "number" => CompareNumbers(a, b) = 0
  /\ Cardinality(DOMAIN Members(a)) = Cardinality(DOMAIN Members(b))
  /\ \A k \in DOMAIN Members(a) :
       k \in DOMAIN Members(b) /\ Equal(Members(a)[k], Members(b)[k])

-----------------------------------------------------------------------------
(* Pointers.  An operator that may fail returns a set: of its result, or   *)
(* the empty set.                                                          *)

RECURSIVE Unescape(_)
Unescape(t) ==
  CASE t = <<>>                      -> {<<>>}
    [] t # <<>> /\ Head(t) # "~"     -> {<<Head(t)>> \o u : u \in Unescape(Tail(t))}
    [] Len(t) > 1 /\ Head(t) = "~" /\ t[2] \in {"0", "1"} ->
         {<<IF t[2] = "0" THEN "~" ELSE "/">> \o u : u \in Unescape(SubSeq(t, 3, Len(t)))}
    [] OTHER                         -> {}

\* strings.Split of what follows the first slash.
Segments(p) ==
  LET cuts  == {i \in DOMAIN p : p[i] = "/"}
      Cut(n) == CHOOSE i \in cuts : Cardinality({j \in cuts : j <= i}) = n
      End(i) == Min({j \in cuts : j > i} \cup {Len(p) + 1}) - 1
  IN  [n \in 1..Cardinality(cuts) |-> SubSeq(p, Cut(n) + 1, End(Cut(n)))]

PointerTokens(p) ==
  IF p = <<>> THEN {<<>>}
  ELSE IF Len(p) > MaxPointer \/ Head(p) # "/" THEN {}
  ELSE LET readings == [n \in DOMAIN Segments(p) |-> Unescape(Segments(p)[n])]
       IN  IF \E n \in DOMAIN readings : readings[n] = {} THEN {}
           ELSE {[n \in DOMAIN readings |-> CHOOSE t \in readings[n] : TRUE]}

Digits == [d \in {"0", "1", "2"} |-> CASE d = "0" -> 0 [] d = "1" -> 1 [] d = "2" -> 2]

IsIndex(t) == t # <<>> /\ Range(t) \subseteq DOMAIN Digits /\ (Len(t) > 1 => t[1] # "0")

Index(t) == FoldLeft(LAMBDA n, d : 10 * n + Digits[d], 0, t)

Found(v) == [found |-> TRUE, value |-> v]
Missing  == [found |-> FALSE, value |-> Null]

RECURSIVE Resolve(_, _)
Resolve(v, tokens) ==
  IF tokens = <<>> THEN {Found(v)}
  ELSE LET t == Head(tokens) IN
    CASE v.type = "object" /\ t \in DOMAIN v.fields -> Resolve(v.fields[t], Tail(tokens))
      [] v.type = "array" /\ t # <<"-">> /\ ~IsIndex(t) -> {}
      [] v.type = "array" /\ IsIndex(t) /\ Index(t) < Len(v.items) ->
           Resolve(v.items[Index(t) + 1], Tail(tokens))
      [] OTHER -> {Missing}

ResolvePointer(v, p) == UNION {Resolve(v, tokens) : tokens \in PointerTokens(p)}

\* The fields of an operation's result.
Fields(op) ==
  CASE op = "clock.read"  -> {"realtime", "monotonic_ns"}
    [] op = "clock.set"   -> {"target", "before", "after", "elapsed_ns", "tolerance_ms",
                              "readback_valid"}
    [] op = "action.exec" -> {"exit_code", "stdout_json", "stderr", "stdout_truncated",
                              "stderr_truncated", "before", "after"}
    [] op \in {"service.start", "service.stop"} ->
         {"service", "running", "before", "after", "stdout", "stderr"}
    [] OTHER -> {}

\* Faulty variant: only the first token is checked.
AvailableField(op, p) ==
  \E tokens \in PointerTokens(p) : tokens = <<>> \/ tokens[1] \in {<<f>> : f \in Fields(op)}

AvailablePointer(op, p) ==
  \E tokens \in PointerTokens(p) :
    \/ tokens = <<>>
    \/ /\ tokens[1] \in {<<f>> : f \in Fields(op)}
       /\ \/ Len(tokens) = 1 \/ tokens[1] = <<"stdout_json">>
          \/ /\ tokens[1] \in {<<"before">>, <<"after">>} /\ Len(tokens) = 2
             /\ tokens[2] \in {<<"realtime">>, <<"monotonic_ns">>}

-----------------------------------------------------------------------------
(* Evaluation.                                                             *)

Compares(op, x, y) ==
  LET cmp == CompareNumbers(x, y) IN
  CASE op = "gt" -> cmp > 0 [] op = "gte" -> cmp >= 0
    [] op = "lt" -> cmp < 0 [] op = "lte" -> cmp <= 0

\* Whether an assertion passes on an observation, or {} for an execution error.
Judged(a, observation) ==
  IF ~Decodable(observation, 0) THEN {}
  ELSE UNION {
    CASE a.op = "exists" -> {r.found}
      [] a.op = "absent" -> {~r.found}
      [] a.op \in Valued /\ ~(r.found /\ Decodable(a.value, 0)) -> {}
      [] a.op = "eq" /\ r.found -> {Equal(r.value, a.value)}
      [] a.op = "ne" /\ r.found -> {~Equal(r.value, a.value)}
      [] a.op \in Ordering /\ r.found /\ {r.value.type, a.value.type} = {"number"} ->
           {Compares(a.op, r.value, a.value)}
      [] OTHER -> {}
    : r \in ResolvePointer(observation, a.pointer)}
=============================================================================
