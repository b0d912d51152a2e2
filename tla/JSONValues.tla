----------------------------- MODULE JSONValues -----------------------------
(***************************************************************************)
(* JSON texts as parsed values, and the comparisons that assertions make.  *)
(*                                                                         *)
(* A string, an object key and a pointer are sequences of atoms: a byte    *)
(* that some rule of the code looks at, or a whole name without such       *)
(* bytes.  A number is the literal num * 10^exp.                           *)
(***************************************************************************)
EXTENDS Integers, FiniteSets, Sequences, FiniteSetsExt, TLC

Null      == [type |-> "null"]
Bool(b)   == [type |-> "bool", bool |-> b]
Str(s)    == [type |-> "string", str |-> s]
Num(m, e) == [type |-> "number", num |-> m, exp |-> e]
Arr(s)    == [type |-> "array", items |-> s]
Obj(f)    == [type |-> "object", fields |-> f]

\* Children of a value, by index or by key.
Members(v) ==
  CASE v.type = "array"  -> v.items
    [] v.type = "object" -> v.fields
    [] OTHER             -> <<>>

\* The operators of an assertion that have a value; None is an omitted one.
None     == [type |-> "none"]
Ordering == {"gt", "gte", "lt", "lte"}
Valued   == {"eq", "ne"} \cup Ordering
=============================================================================
