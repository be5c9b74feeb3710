------------------------------ MODULE AzoTypes -------------------------------
(***************************************************************************)
(* The values the interpreter moves and the questions it asks about their  *)
(* types.  Types and conversions belong to the external az library; here   *)
(* is one representative of each kind of type the interpreter tells apart, *)
(* with as much content as its branches depend on.                         *)
(***************************************************************************)
EXTENDS Integers, Sequences

Signs == {"neg", "zero", "pos"}

Small    == {"int8", "uint16"}                \* types without arithmetic
Signed   == {"int8", "int32", "int64", "double"}
Integral == Small \cup {"int32", "uint32", "int64"}
Complex  == {"complex"}
Ordered  == Integral \cup {"double"}          \* types with < and >
Numeric  == Ordered \cup Complex
Primitive == Numeric \cup {"bool", "pointer"}

Functions == {"function", "native"}           \* AZOCompiledFunction; host functions

\* The types values have.  A "thing" is a host object with properties, a
\* "dict" one with attributes; "boxed" is AZBoxedInterface.
ValueTypes == Primitive \cup Functions \cup
  {"none", "string", "class", "program", "array", "dict", "thing", "boxed", "field", "block"}

\* Classes and interfaces that have no values of their own.
AbstractTypes == {"any", "object", "FUNCTION", "ATTRIBUTE_DICT", "LIST"}

Types == ValueTypes \cup AbstractTypes

IsA(t, u) ==
  /\ t # "none"
  /\ \/ t = u
     \/ u = "any"
     \/ u = "object" /\ t \in Functions \cup {"dict", "thing"}
     \/ u = "block" /\ t \notin Primitive

Implements(t, i) ==
  \/ i = "FUNCTION" /\ t \in Functions
  \/ i = "ATTRIBUTE_DICT" /\ t = "dict"
  \/ i = "LIST" /\ t = "array"

\* The types in the order of their numbers, as far as the compiled code
\* compares them; all others come after these.
TypeOrder == <<"none", "any", "bool", "int8", "uint16", "int32", "uint32", "int64", "double", "complex">>
TypeRank(t) ==
  IF \E i \in DOMAIN TypeOrder : TypeOrder[i] = t
  THEN CHOOSE i \in DOMAIN TypeOrder : TypeOrder[i] = t ELSE Len(TypeOrder) + 1

(***************************************************************************)
(* A value: its type, its content and, for a compiled function, the        *)
(* closure it refers to.  A bool is "true" or "false", a number is known   *)
(* by its sign (a uint32 may be a type), a program by its name.            *)
(***************************************************************************)
Of(t, c) == [type |-> t, content |-> c, ref |-> 0]

Null == Of("none", "nil")
Truth(b) == Of("bool", IF b THEN "true" ELSE "false")
TypeCode(t) == Of("uint32", t)
FunctionOf(c) == [type |-> "function", content |-> "nil", ref |-> c]

\* A value of type t by default (az_value_init).
Default(t) ==
  IF t = "bool" THEN Truth(FALSE)
  ELSE IF t \in Numeric THEN Of(t, "zero")
  ELSE IF t = "none" THEN Null
  ELSE Of(t, "nil")

\* az_value_convert_in_place: what already is of the type stays as it is,
\* numbers convert to numbers when the sign survives.
Convertible(x, t) ==
  \/ IsA(x.type, t) \/ t = "any"
  \/ x.type \in Numeric /\ t \in Numeric /\ (t \in {"uint16", "uint32"} => x.content # "neg")

Converted(x, t) ==
  IF IsA(x.type, t) \/ t = "any" THEN x
  ELSE Of(t, IF x.content \in Signs THEN x.content ELSE "pos")

(***************************************************************************)
(* How two values of one type may compare: type codes by their order,      *)
(* numbers as far as their signs tell.                                     *)
(***************************************************************************)
Order(m, n) == IF m < n THEN "neg" ELSE IF m > n THEN "pos" ELSE "zero"
SignRank(s) == CASE s = "neg" -> 0 [] s = "zero" -> 1 [] s = "pos" -> 2

Compared(x, y) ==
  IF x.content \in Types /\ y.content \in Types THEN {Order(TypeRank(x.content), TypeRank(y.content))}
  ELSE IF x.content \in Signs /\ y.content \in Signs /\ (x.content # y.content \/ x.content = "zero")
  THEN {Order(SignRank(x.content), SignRank(y.content))}
  ELSE Signs

\* Blocks compare by identity, of which a value has no more than its content.
SameValue(x, y) ==
  CASE x.type = "bool" -> {x = y}
    [] x.type \in Numeric -> IF x.content \in Types THEN {x = y} ELSE {s = "zero" : s \in Compared(x, y)}
    [] OTHER -> BOOLEAN
=============================================================================
