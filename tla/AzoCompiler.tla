---------------------------- MODULE AzoCompiler ----------------------------
(***************************************************************************)
(* The code generator (compiler.c, arithmetic.c, compare.c) over the code  *)
(* and the constants of a frame (code.c, frame.c): a resolved tree becomes *)
(* the instructions AzoMachine runs.                                       *)
(*                                                                         *)
(* A compiler state c is the program being written: its code, its          *)
(* constants, the number of its captures and the programs of the lambdas   *)
(* in it.  Every operator but Attempt and Always is strict: once c.failed, *)
(* it writes nothing, which is the early return of the code.               *)
(***************************************************************************)
EXTENDS AzoResolver

LOCAL INSTANCE SequencesExt

CONSTANTS
  MaxCallArguments,  \* 32 in the code
  Memory             \* Memory[x]: the word at the address that a pointer or block constant x holds

ASSUME MaxCallArgumentsAssumption == MaxCallArguments \in Nat

Writer(name, captures) ==
  [name |-> name, captures |-> captures, code |-> << >>, data |-> << >>, subs |-> << >>, failed |-> FALSE]

Failed(c) == [c EXCEPT !.failed = TRUE]

\* The result d of a step from c that may fail unnoticed.
Attempt(c, d) == [d EXCEPT !.failed = c.failed]
-----------------------------------------------------------------------------
(***************************************************************************)
(* Instructions.  A jump within a sequence names a label in it; START is   *)
(* where a jump goes that is never updated.                                *)
(***************************************************************************)
I(op) == [op |-> op, a |-> 0, b |-> 0, t |-> "none", v |-> Null]
N(op, n) == [I(op) EXCEPT !.a = n]
T(op, n, type) == [N(op, n) EXCEPT !.t = type]
Imm(v) == [I("PUSH_IMMEDIATE") EXCEPT !.v = v]
Rem(first, n) == [N("REMOVE", first) EXCEPT !.b = n]
To(op, label) == T(op, 0, label)
Label(label) == T("LABEL", 0, label)

Jumps == {"JMP_32", "JMP_32_IF", "JMP_32_IF_NOT", "JMP_32_IF_POSITIVE", "JMP_32_IF_NEGATIVE"}

\* The instructions of a sequence that is written after n others.
Assembled(seq, n) ==
  LET Place(i) == n + 1 + Cardinality({j \in 1 .. i - 1 : seq[j].op # "LABEL"})
      Target(label) == IF label = "START" THEN 1 ELSE Place(CHOOSE i \in DOMAIN seq : seq[i] = Label(label))
      Linked(i) == IF seq[i].op \in Jumps /\ seq[i].t # "none"
                   THEN N(seq[i].op, Target(seq[i].t) - Place(i) - 1) ELSE seq[i]
  IN SelectSeq([i \in DOMAIN seq |-> Linked(i)], LAMBDA ins : ins.op # "LABEL")

Emit(c, seq) == IF c.failed THEN c ELSE [c EXCEPT !.code = @ \o Assembled(seq, Len(@))]

\* Written even if the step from c to d failed.
Always(c, d, seq) == IF c.failed THEN c ELSE [Emit(Attempt(c, d), seq) EXCEPT !.failed = d.failed]

Here(c) == Len(c.code) + 1
JumpTo(c, op, target) == Emit(c, <<N(op, target - Here(c) - 1)>>)

UpdateJumpEarly(c, at) ==  \* mutant
  IF c.failed THEN c ELSE [c EXCEPT !.code[at].a = Here(c) - at - 2]

\* The jump at place `at' goes to what is written next.
UpdateJump(c, at) == IF c.failed THEN c ELSE [c EXCEPT !.code[at].a = Here(c) - at - 1]

\* Constants come after the captures; strings and objects are written once.
PushConstant(c, v) ==
  LET known == (v.type = "string" \/ IsA(v.type, "object")) /\ Contains(c.data, v)
      data == IF known THEN c.data ELSE Append(c.data, v)
      pos == IF known THEN CHOOSE i \in DOMAIN data : data[i] = v ELSE Len(data)
  IN IF c.failed THEN c ELSE Emit([c EXCEPT !.data = data], <<N("PUSH_VALUE", c.captures + pos - 1)>>)

PushText(c, text) == PushConstant(c, Of("string", text))

CompileConstant(c, n) ==
  LET v == ConstantValue(n)
  IN IF v.type \in Primitive \cup {"none"} THEN Emit(c, <<Imm(v)>>) ELSE PushConstant(c, v)
-----------------------------------------------------------------------------
(***************************************************************************)
(* Sequences that need no more than the values on the stack.               *)
(***************************************************************************)
Push(type) == Imm(TypeCode(type))
Invalid == <<Label("invalid"), T("EXCEPTION", 0, "INVALID_TYPE"), Label("end")>>
ToEnd == To("JMP_32", "end")

Below(pos, type, label) ==
  <<N("TYPE_OF", pos), Push(type), T("COMPARE_TYPED", 0, "uint32"), To("JMP_32_IF_NEGATIVE", label)>>
Above(pos, type, label) ==
  <<N("TYPE_OF", pos), Push(type), T("COMPARE_TYPED", 0, "uint32"), To("JMP_32_IF_POSITIVE", label)>>

\* To "invalid" unless the type at pos is a number up to a type.
InRange(pos, type) == Below(pos, "int8", "invalid") \o Above(pos, type, "invalid")

\* The types of the two topmost values.
TheirTypes == <<N("TYPE_OF", 1), N("TYPE_OF", 1)>>

\* The value of the lesser type is promoted to the greater type.
Equalize ==
  TheirTypes \o <<T("EQUAL_TYPED", 0, "uint32"), To("JMP_32_IF", "equal")>>
  \o TheirTypes \o <<T("COMPARE_TYPED", 0, "uint32"), To("JMP_32_IF_POSITIVE", "greater"),
                     N("TYPE_OF", 0), N("PROMOTE", 2), To("JMP_32", "equal"),
                     Label("greater"), N("TYPE_OF", 1), N("PROMOTE", 1), Label("equal")>>

Operation ==
  "PLUS" :> "ADD" @@ "MINUS" :> "SUBTRACT" @@ "STAR" :> "MULTIPLY" @@ "SLASH" :> "DIVIDE" @@ "PERCENT" :> "MODULO"

\* Shifts and bitwise operators write no operation: both operands stay.
ArithmeticAny(s) ==
  LET highest == IF s = "PERCENT" THEN "double" ELSE "complex"
  IN InRange(1, highest) \o InRange(0, highest)
     \o TheirTypes \o <<T("MAX_TYPED", 0, "uint32"), Push("uint16"), T("COMPARE_TYPED", 0, "uint32"),
                        To("JMP_32_IF_POSITIVE", "large"),
                        Push("int32"), N("PROMOTE", 2), Push("int32"), N("PROMOTE", 1), To("JMP_32", "equal"),
                        Label("large")>>
     \o Equalize \o (IF s \in DOMAIN Operation THEN <<I(Operation[s])>> ELSE << >>) \o <<ToEnd>> \o Invalid

ArithmeticBoolean(s) ==
  <<T("TYPE_EQUALS_IMMEDIATE", 1, "bool"), To("JMP_32_IF_NOT", "invalid"),
    T("TYPE_EQUALS_IMMEDIATE", 0, "bool"), To("JMP_32_IF_NOT", "invalid"),
    I(IF s = "ANDAND" THEN "LOGICAL_AND" ELSE "LOGICAL_OR"), ToEnd>> \o Invalid

Tilde ==
  Below(0, "int8", "invalid") \o Above(0, "int64", "above") \o <<I("BITWISE_NOT"), ToEnd, Label("above")>>
  \o Above(0, "complex", "invalid") \o <<I("CONJUGATE"), ToEnd>> \o Invalid

\* One more or one less than the topmost value; the range tested is that of
\* the value below it.
StepByOne(op) ==
  InRange(1, "complex")
  \o <<Imm(Of("int8", "pos"))>> \o TheirTypes \o <<T("EQUAL_TYPED", 0, "uint32"), To("JMP_32_IF", "equal"),
       N("TYPE_OF", 1), N("PROMOTE", 1), Label("equal"), I(op), ToEnd>> \o Invalid

Negated(s) == IF s = "NE" THEN <<I("LOGICAL_NOT")>> ELSE << >>

EqualNone(s, invalid) ==
  <<T("TYPE_EQUALS_IMMEDIATE", 0, "none"), To("JMP_32_IF", "both null"),
    T("TYPE_IS_IMMEDIATE", 0, "block"), To("JMP_32_IF", "one null"),
    T("TYPE_EQUALS_IMMEDIATE", 0, "pointer"), To("JMP_32_IF_NOT", invalid),
    Imm(Of("pointer", "null")), T("EQUAL_TYPED", 0, "pointer")>> \o Negated(s)
  \o <<To("JMP_32", "compared"),
       Label("both null"), N("POP", 1), Imm(Truth(s = "E")), To("JMP_32", "compared"),
       Label("one null"), N("POP", 1), Imm(Truth(s # "E")), Label("compared")>>

EqualBoolean(s, here) ==
  <<T("TYPE_EQUALS_IMMEDIATE", 1, "bool"), To("JMP_32_IF", here),
    N("POP", 2), To("JMP_32", "invalid"), Label(here), T("EQUAL_TYPED", 0, "bool")>> \o Negated(s)

EqualBlock(s) ==
  <<N("TYPE_OF", 0), N("TYPE_IS", 2), To("JMP_32_IF", "related"),
    N("TYPE_OF", 0), N("TYPE_IS", 1), To("JMP_32_IF_NOT", "invalid"),
    Label("related"), T("EQUAL_TYPED", 0, "block")>> \o Negated(s)

EqualArithmetic(s) == Equalize \o <<I("EQUAL")>> \o Negated(s)

EqualAny(s) ==
  <<T("TYPE_EQUALS_IMMEDIATE", 0, "none"), To("JMP_32_IF", "right null"),
    T("TYPE_EQUALS_IMMEDIATE", 1, "none"), To("JMP_32_IF", "left null"),
    T("TYPE_EQUALS_IMMEDIATE", 0, "bool"), To("JMP_32_IF", "right bool"),
    T("TYPE_EQUALS_IMMEDIATE", 0, "pointer"), To("JMP_32_IF", "right pointer"),
    T("TYPE_IS_IMMEDIATE", 0, "block"), To("JMP_32_IF", "right block")>>
  \o InRange(1, "complex") \o InRange(0, "complex") \o EqualArithmetic(s) \o <<ToEnd>>
  \o <<Label("left null"), N("EXCHANGE", 1), Label("right null"), N("POP", 1)>> \o EqualNone(s, "invalid") \o <<ToEnd>>
  \o <<Label("right bool")>> \o EqualBoolean(s, "left bool") \o <<ToEnd>>
  \o <<Label("right pointer")>> \o EqualBoolean(s, "left bool too") \o <<ToEnd>>
  \o <<Label("right block")>> \o EqualBlock(s) \o <<ToEnd>> \o Invalid

Ordering ==
  "LT" :> <<"JMP_32_IF_NEGATIVE", "true", "false">> @@ "LE" :> <<"JMP_32_IF_POSITIVE", "false", "true">>
  @@ "GE" :> <<"JMP_32_IF_NEGATIVE", "false", "true">> @@ "GT" :> <<"JMP_32_IF_POSITIVE", "true", "false">>

CompareOrdered(s) ==
  InRange(1, "double") \o InRange(0, "double") \o Equalize
  \o <<I("COMPARE"), To(Ordering[s][1], Ordering[s][2]), To("JMP_32", Ordering[s][3]),
       Label("true"), Imm(Truth(TRUE)), ToEnd, Label("false"), Imm(Truth(FALSE)), ToEnd>> \o Invalid

IsNone == T("TYPE_EQUALS_IMMEDIATE", 0, "none")

\* [inst, function, arguments] -> [result]
CallInstanceFunction(n) == <<N("PUSH_FRAME", n), N("INVOKE", n), I("POP_FRAME"), Rem(1, n + 2)>>

InvokeExchanged(n) == <<N("EXCHANGE", n + 1), N("POP", 1)>> \o CallInstanceFunction(n) \o <<ToEnd>>

GetAttributeFunction(n) ==
  <<T("TYPE_IMPLEMENTS_IMMEDIATE", n + 1, "ATTRIBUTE_DICT"), To("JMP_32_IF_NOT", "no dictionary"),
    N("DUPLICATE", n + 1), N("DUPLICATE", n + 1), I("GET_ATTRIBUTE"),
    T("TYPE_IMPLEMENTS_IMMEDIATE", 0, "FUNCTION"), To("JMP_32_IF_NOT", "invalid")>>

\* [inst, key, inst, arguments] -> [result]; n counts the second inst.
CallPropertyFunction(n) ==
  <<N("GET_FUNCTION", n), IsNone, To("JMP_32_IF_NOT", "member"), N("POP", 1),
    T("TYPE_EQUALS_IMMEDIATE", n + 1, "class"), To("JMP_32_IF", "class")>>
  \o GetAttributeFunction(n) \o <<Label("member")>> \o InvokeExchanged(n)
  \o <<Label("class"), Rem(n - 1, 1), N("GET_STATIC_FUNCTION", n - 1), IsNone, To("JMP_32_IF", "no dictionary")>>
  \o InvokeExchanged(n - 1)
  \o <<Label("no dictionary"), T("EXCEPTION", 0, "INVALID_PROPERTY"), ToEnd>> \o Invalid

CallAttributeFunction(n) ==
  GetAttributeFunction(n) \o InvokeExchanged(n)
  \o <<Label("no dictionary"), T("EXCEPTION", 0, "INVALID_PROPERTY")>> \o Invalid

\* [instance] -> [value of its property or attribute]
ReferenceLookup(c, key) ==
  LET d == PushText(Emit(c, <<N("DUPLICATE", 0)>>), key)
      found == Here(d) + 2
      e == Emit(d, <<I("GET_PROPERTY"), IsNone, N("JMP_32_IF_NOT", 0),
                     T("TYPE_IMPLEMENTS_IMMEDIATE", 1, "ATTRIBUTE_DICT"), N("JMP_32_IF_NOT", 0), N("POP", 1)>>)
      g == Emit(PushText(e, key), <<I("GET_ATTRIBUTE"), N("JMP_32", 1)>>)
  IN Emit(UpdateJump(UpdateJump(g, found), found + 2), <<Rem(1, 1)>>)
-----------------------------------------------------------------------------
(***************************************************************************)
(* Assignment targets.                                                     *)
(***************************************************************************)
LValue(n) ==
  CASE Is(n, "VARIABLE", {"LOCAL"})                    -> "STACK"
    [] Is(n, "VARIABLE", {"PARENT"})                   -> "VALUE"
    [] Is(n, "REFERENCE", {"PROPERTY", "ATTRIBUTE"})   -> n.s
    [] n.t = "ARRAY_ELEMENT"                           -> "ELEMENT"
    [] OTHER                                           -> "NONE"

LValueSize(n) == IF LValue(n) \in {"STACK", "VALUE"} THEN 0 ELSE 2

AssignedTo(n) ==
  CASE LValue(n) = "STACK"     -> <<N("EXCHANGE_FRAME", The(n).pos), N("POP", 1)>>
    [] LValue(n) = "PROPERTY"  -> <<I("SET_PROPERTY"), N("JMP_32_IF", 1), I("SET_ATTRIBUTE")>>
    [] LValue(n) = "ATTRIBUTE" -> <<I("SET_ATTRIBUTE")>>
    [] LValue(n) = "ELEMENT"   -> <<I("WRITE_ARRAY_ELEMENT"), N("POP", 1)>>

AssignToLValue(c, n) == Emit(c, AssignedTo(n))

RECURSIVE CompileExpression(_, _), CompileSentence(_, _)

CompileLValue(c, n, readOnly) ==
  LET owner == CompileExpression(c, n.kids[1])
  IN CASE LValue(n) = "STACK"                     -> c
       [] LValue(n) = "VALUE"                     -> IF readOnly THEN c ELSE Failed(c)
       [] LValue(n) \in {"PROPERTY", "ATTRIBUTE"} -> PushText(owner, The(n.kids[2]))
       [] LValue(n) = "ELEMENT"                   -> CompileExpression(owner, n.kids[2])
       [] OTHER                                   -> Failed(c)
-----------------------------------------------------------------------------
(***************************************************************************)
(* Expressions.                                                            *)
(***************************************************************************)
CompileEach(c, kids) == FoldLeft(CompileExpression, c, kids)

\* An argument that fails goes unnoticed.
CompileArguments(c, kids) == Attempt(c, FoldLeft(LAMBDA d, n : Attempt(d, CompileExpression(d, n)), c, kids))

CompileCallFrameKept(c, list, hasThis, test) ==  \* mutant
  LET e == CompileArguments(Emit(c, <<IF hasThis THEN N("DUPLICATE", 1) ELSE N("DUPLICATE_FRAME", 0)>>), list.kids)
      n == Len(list.kids) + 1
  IN Emit(e, <<N("PUSH_FRAME", n), N("INVOKE", n), Rem(1, n + 1)>>)

\* [function] or [this, function] -> the result in place of the function; the
\* first value of the frame is `this', if there is none below the function.
CompileCall(c, list, hasThis, test) ==
  LET d == Emit(c, (IF test THEN <<T("TYPE_IMPLEMENTS_IMMEDIATE", 0, "FUNCTION"), N("JMP_32_IF", 1),
                                   T("EXCEPTION", 0, "INVALID_TYPE")>> ELSE << >>)
                   \o <<IF hasThis THEN N("DUPLICATE", 1) ELSE N("DUPLICATE_FRAME", 0)>>)
      e == CompileArguments(d, list.kids)
      n == Len(list.kids) + 1
  IN IF n > MaxCallArguments THEN Failed(e)
     ELSE Emit(e, <<N("PUSH_FRAME", n), N("INVOKE", n), I("POP_FRAME"), Rem(1, n + 1)>>)

\* The function is a constant, member of a constant if it has children.
CompileConstantCall(c, func, list) ==
  IF func.kids = << >> THEN CompileCall(CompileConstant(c, func), list, FALSE, FALSE)
  ELSE Emit(CompileCall(CompileConstant(CompileConstant(c, func.kids[1]), func), list, TRUE, FALSE), <<Rem(1, 1)>>)

\* The instance and the key are on the stack.
CompileMemberCall(c, list, Call(_)) ==
  Emit(CompileArguments(Emit(c, <<N("DUPLICATE", 1)>>), list.kids), Call(Len(list.kids) + 1))

CompileFunctionCall(c, n, silent) ==
  LET func == n.kids[1]
      list == n.kids[2]
      d == CompileLValue(c, func, TRUE)
      Called ==
        CASE func.t = "CONSTANT"          -> CompileConstantCall(c, func, list)
          [] LValue(func) = "STACK"       ->
               CompileCall(Emit(d, <<N("DUPLICATE_FRAME", The(func).pos)>>), list, FALSE, TRUE)
          [] LValue(func) = "VALUE"       ->
               CompileCall(Emit(d, <<N("PUSH_VALUE", The(func).pos)>>), list, FALSE, TRUE)
          [] LValue(func) = "ELEMENT"     ->
               CompileCall(Emit(d, <<I("LOAD_ARRAY_ELEMENT"), Rem(1, 1)>>), list, FALSE, TRUE)
          [] LValue(func) = "PROPERTY"    -> CompileMemberCall(d, list, CallPropertyFunction)
          [] LValue(func) = "ATTRIBUTE"   -> CompileMemberCall(d, list, CallAttributeFunction)
          [] OTHER                        -> d
  IN Emit(Called, IF silent THEN <<N("POP", 1)>> ELSE << >>)

CompileNew(c, n) ==
  LET class == Emit(Attempt(c, CompileExpression(c, n.kids[1])),
                    <<T("TYPE_EQUALS_IMMEDIATE", 0, "class"), N("JMP_32_IF_NOT", 0)>>)
      args == CompileArguments(PushText(class, "new"), n.kids[2].kids)
      size == Len(n.kids[2].kids)
      called == Emit(args, <<N("GET_STATIC_FUNCTION", size), IsNone, N("JMP_32_IF", 0)>>)
      done == Emit(called, <<N("EXCHANGE", size + 1), N("POP", 1)>> \o CallInstanceFunction(size) \o <<N("JMP_32", 1)>>)
  IN IF size > MaxCallArguments THEN Failed(args)
     ELSE Emit(UpdateJump(UpdateJump(done, Len(class.code)), Len(called.code)), <<T("EXCEPTION", 0, "INVALID_TYPE")>>)

\* Where the frame around a lambda has the variable that the lambda captures.
Capture(var) ==
  IF var.source.kind = "PARENT" THEN N("PUSH_VALUE", var.source.pos) ELSE N("DUPLICATE_FRAME", var.source.pos)

ClosingLocals(caps) ==  \* mutant
  LET locals == SelectSeq(caps, LAMBDA var : var.source.kind # "PARENT")
  IN [i \in DOMAIN locals |-> Capture(locals[i])] \o <<N("CLOSURE", Len(locals))>>

\* The values captured, and what binds them to the program below.
Closing(caps) == [i \in DOMAIN caps |-> Capture(caps[i])] \o <<N("CLOSURE", Len(caps))>>

Program(c, args) ==
  [code |-> c.code, args |-> args, captures |-> c.captures, constants |-> c.data]

\* Only a block can be the body of a lambda.
CompileFunction(c, n) ==
  LET frame == The(n)
      body == n.kids[3]
      name == c.name \o "." \o ToString(Cardinality(DOMAIN c.subs) + 1)
      inner == CompileSentence(Writer(name, Len(frame.caps)), body)
      d == [c EXCEPT !.subs = (name :> Program(inner, frame.args)) @@ inner.subs @@ @]
  IN IF c.failed \/ body.t # "BLOCK" \/ inner.failed THEN Failed(c)
     ELSE Emit(PushConstant(d, Of("program", name)), Closing(frame.caps))

CompileArrayLiteral(c, n) ==
  LET Index(i) == Imm(Of("uint32", IF i = 0 THEN "zero" ELSE "pos"))
      Item(d, i) == Emit(Attempt(d, CompileExpression(Emit(d, <<Index(i - 1)>>), n.kids[i])), <<I("WRITE_ARRAY_ELEMENT")>>)
  IN FoldLeft(Item, Emit(c, <<Index(Len(n.kids)), I("NEW_ARRAY")>>), [i \in DOMAIN n.kids |-> i])

CompileTest(c, n) ==
  Emit(CompileEach(c, n.kids),
       <<N("TYPE_OF_CLASS", 0), N(IF n.s = "IS" THEN "TYPE_IS" ELSE "TYPE_IMPLEMENTS", 2), Rem(1, 2)>>)

CompileCast(c, n) ==
  IF n.s = "CONVERT" THEN Emit(CompileExpression(c, n.kids[2]), <<T("CONVERT_TYPE", 0, n.kids[1].s)>>)
  ELSE Failed(c)

StepOperation == "INCREMENT" :> "ADD" @@ "DECREMENT" :> "SUBTRACT"

\* The lvalue below the value that is one more or one less.
CompileStep(c, n) ==
  LET target == n.kids[1]
  IN IF n.s \notin DOMAIN StepOperation THEN Failed(CompileLValue(c, target, FALSE))
     ELSE Emit(CompileExpression(CompileLValue(c, target, FALSE), target), StepByOne(StepOperation[n.s]))

\* ++x: in an expression, the new value takes the place of a null below the
\* lvalue.
CompilePrefixArithmetic(c, n, silent) ==
  LET target == n.kids[1]
      size == LValueSize(target)
      pushed == CompileStep(Emit(c, <<Imm(Null)>>), n)
  IN IF silent THEN AssignToLValue(CompileStep(c, n), target)
     ELSE AssignToLValue(Emit(pushed, <<N("EXCHANGE", size + 1), N("DUPLICATE", size + 1)>>), target)

CompilePrefix(c, n) ==
  LET operand == CompileExpression(c, n.kids[1])
  IN CASE n.s = "PLUS"                    -> operand
       [] n.s = "MINUS"                   -> Emit(operand, <<I("NEGATE")>>)
       [] n.s = "NOT"                     -> Emit(operand, <<I("LOGICAL_NOT")>>)
       [] n.s = "TILDE"                   -> Emit(operand, Tilde)
       [] n.s \in DOMAIN StepOperation    -> CompilePrefixArithmetic(c, n, FALSE)
       [] OTHER                           -> Failed(c)

\* x++: in an expression, the value before is left below.
CompileSuffix(c, n, silent) ==
  LET target == n.kids[1]
  IN AssignToLValue(CompileStep(IF silent THEN c ELSE CompileExpression(c, target), n), target)

CompileBinary(c, n) ==
  Emit(CompileEach(c, n.kids),
       IF n.s \in {"ANDAND", "OROR"} THEN ArithmeticBoolean(n.s) ELSE ArithmeticAny(n.s))

\* The immediate for a pointer or block is not its value but what lies there:
\* its address is given as the address of the value to write.
Behind(v) == Imm(Of(v.type, Memory[v.content]))

\* A comparison with a constant, which goes second.  The jump of a comparison
\* with null for other types is never updated.
CompileEqualConstant(c, n, constant, s) ==
  LET type == ConstantValue(constant).type
      d == CompileExpression(c, n)
      Arithmetic == InRange(1, "complex") \o EqualArithmetic(s) \o <<ToEnd>> \o Invalid
      Pointer == <<T("TYPE_EQUALS_IMMEDIATE", 0, "pointer"), To("JMP_32_IF_NOT", "invalid"),
                   Behind(ConstantValue(constant)), T("EQUAL_TYPED", 0, "pointer")>> \o Negated(s) \o <<ToEnd>> \o Invalid
      Block == <<T("TYPE_IS_IMMEDIATE", 0, "block"), To("JMP_32_IF", "related"),
                 T("TYPE_IS_SUPER_IMMEDIATE", 0, "block"), To("JMP_32_IF_NOT", "invalid"), Label("related"),
                 Behind(ConstantValue(constant)), T("EQUAL_TYPED", 0, "block")>> \o Negated(s) \o <<ToEnd>> \o Invalid
  IN CASE type = "none"    -> Emit(d, EqualNone(s, "START"))
       [] type = "pointer" -> Emit(d, Pointer)
       [] type = "block"   -> Emit(d, Block)
       [] type \in Numeric -> Emit(CompileExpression(d, constant), Arithmetic)
       [] OTHER            -> Failed(c)

CompileComparison(c, n) ==
  LET lhs == n.kids[1]
      rhs == n.kids[2]
      both == CompileEach(c, n.kids)
  IN CASE n.s \in {"E", "NE"} /\ rhs.t = "CONSTANT"                      -> CompileEqualConstant(c, lhs, rhs, n.s)
       [] n.s \in {"E", "NE"} /\ rhs.t # "CONSTANT" /\ lhs.t = "CONSTANT" -> CompileEqualConstant(c, rhs, lhs, n.s)
       [] n.s \in {"E", "NE"} /\ "CONSTANT" \notin {lhs.t, rhs.t}         -> Emit(both, EqualAny(n.s))
       [] n.s \in DOMAIN Ordering                                       -> Emit(both, CompareOrdered(n.s))
       [] OTHER                                                         -> Failed(c)

\* What a member or an element belongs to may fail unnoticed.
CompileReference(c, n) ==
  LET owner == Attempt(c, CompileExpression(c, n.kids[1]))
  IN IF n.s = "PROPERTY" THEN ReferenceLookup(owner, The(n.kids[2]))
     ELSE Emit(PushText(owner, The(n.kids[2])), <<I("GET_ATTRIBUTE")>>)

CompileVariable(c, n) ==
  Emit(c, <<N(IF n.s = "LOCAL" THEN "DUPLICATE_FRAME" ELSE "PUSH_VALUE", The(n).pos)>>)

CompileExpression(c, n) ==
  CASE c.failed                       -> c
    [] n.t = "REFERENCE"              -> CompileReference(c, n)
    [] n.t = "ARRAY_ELEMENT"          ->
         Emit(CompileArguments(c, n.kids), <<I("LOAD_ARRAY_ELEMENT"), Rem(1, 1)>>)
    [] n.t = "VARIABLE"               -> CompileVariable(c, n)
    [] n.t = "CONSTANT"               -> CompileConstant(c, n)
    [] Is(n, "KEYWORD", {"this"})     -> Emit(c, <<N("DUPLICATE_FRAME", 0)>>)
    [] Is(n, "KEYWORD", {"new"})      -> CompileNew(c, n)
    [] n.t = "FUNCTION"               -> CompileFunction(c, n)
    [] n.t = "FUNCTION_CALL"          -> CompileFunctionCall(c, n, FALSE)
    [] n.t = "LITERAL_ARRAY"          -> CompileArrayLiteral(c, n)
    [] n.t = "PREFIX"                 -> CompilePrefix(c, n)
    [] n.t = "SUFFIX"                 -> CompileSuffix(c, n, FALSE)
    [] n.t = "COMPARISON"             -> CompileComparison(c, n)
    [] n.t = "BINARY"                 -> CompileBinary(c, n)
    [] n.t = "TEST"                   -> CompileTest(c, n)
    [] n.t = "CAST"                   -> CompileCast(c, n)
    [] OTHER                          -> Failed(c)
-----------------------------------------------------------------------------
(***************************************************************************)
(* Statements.                                                             *)
(***************************************************************************)
CompileSentences(c, kids) == FoldLeft(CompileSentence, c, kids)

CompileAssign(c, n) ==
  AssignToLValue(CompileExpression(CompileLValue(c, n.kids[1], FALSE), n.kids[2]), n.kids[1])

CompileSilentStatement(c, n) ==
  CASE n.t = "EMPTY"            -> c
    [] n.t = "STATEMENT_GROUP"  -> CompileSentences(c, n.kids)
    [] n.t = "ASSIGN"           -> CompileAssign(c, n)
    [] n.t = "FUNCTION_CALL"    -> CompileFunctionCall(c, n, TRUE)
    [] n.t = "SUFFIX"           -> CompileSuffix(c, n, TRUE)
    [] n.t = "PREFIX"           -> CompilePrefixArithmetic(c, n, TRUE)
    [] OTHER                    -> Failed(c)

\* An initial value that fails goes unnoticed.
CompileSingleDeclaration(c, n) ==
  IF Len(n.kids) = 1 THEN Emit(c, <<T("PUSH_EMPTY", 0, "none")>>) ELSE Attempt(c, CompileExpression(c, n.kids[2]))

CompileStepStatement(c, n) ==
  IF n.t = "DECLARATION_LIST" THEN FoldLeft(CompileSingleDeclaration, c, Tail(n.kids)) ELSE CompileSilentStatement(c, n)

CompileStatement(c, n) ==
  CASE Is(n, "KEYWORD", {"return"}) /\ n.kids # << >> -> Emit(CompileExpression(c, n.kids[1]), <<I("RETURN_VALUE")>>)
    [] Is(n, "KEYWORD", {"return"}) /\ n.kids = << >> -> Emit(c, <<I("RETURN")>>)
    [] Is(n, "KEYWORD", {"debug"})                    -> c
    [] OTHER                                          -> CompileStepStatement(c, n)

\* The variables of a node with a scope.
ClearScopeOneLess(n) ==  \* mutant
  <<N("POP", IF n.v = {} \/ The(n) = 0 THEN 0 ELSE The(n) - 1)>>

ClearScope(n) == <<N("POP", IF n.v = {} THEN 0 ELSE The(n))>>

CompileBlock(c, n) == Always(c, CompileSentences(c, n.kids), ClearScope(n))

CompileExpressionBoolean(c, n) ==
  Attempt(c, Emit(CompileExpression(c, n), <<T("EXCEPTION_IF_TYPE_IS_NOT", 0, "bool")>>))

\* init, test and step are << >> or the node; whatever fails goes unnoticed.
CompileCycle(c, n, init, testAtBegin, testAtEnd, step, content) ==
  LET start == Attempt(c, FoldLeft(CompileStepStatement, c, init))
      begin == Here(start)
      tested == Emit(FoldLeft(CompileExpressionBoolean, start, testAtBegin),
                     IF testAtBegin = << >> THEN << >> ELSE <<N("JMP_32_IF_NOT", 0)>>)
      stepped == LET d == Attempt(tested, CompileSentence(tested, content))
                 IN Attempt(d, FoldLeft(CompileSilentStatement, d, step))
      back == JumpTo(FoldLeft(CompileExpressionBoolean, stepped, testAtEnd),
                     IF testAtEnd = << >> THEN "JMP_32" ELSE "JMP_32_IF", begin)
  IN Emit(IF testAtBegin = << >> THEN back ELSE UpdateJump(back, Len(tested.code)), ClearScope(n))

CompileFor(c, n) == CompileCycle(c, n, <<n.kids[1]>>, <<n.kids[2]>>, << >>, <<n.kids[3]>>, n.kids[4])
CompileWhile(c, n) == CompileCycle(c, n, << >>, <<n.kids[1]>>, << >>, << >>, n.kids[2])
CompileDo(c, n) == CompileCycle(c, n, << >>, << >>, <<n.kids[2]>>, << >>, n.kids[1])

\* Whatever fails goes unnoticed.
CompileIf(c, n) ==
  LET tested == Emit(CompileExpressionBoolean(c, n.kids[1]), <<N("JMP_32_IF_NOT", 0)>>)
      yes == Attempt(tested, CompileSentence(tested, n.kids[2]))
      over == Emit(yes, <<N("JMP_32", 0)>>)
      otherwise == UpdateJump(over, Len(tested.code))
      no == Attempt(otherwise, CompileSentence(otherwise, n.kids[3]))
  IN IF Len(n.kids) = 2 THEN UpdateJump(yes, Len(tested.code)) ELSE UpdateJump(no, Len(over.code))

CompileSentence(c, n) ==
  CASE c.failed                       -> c
    [] n.t = "BLOCK"                  -> CompileBlock(c, n)
    [] Is(n, "KEYWORD", {"for"})      -> CompileFor(c, n)
    [] Is(n, "KEYWORD", {"while"})    -> CompileWhile(c, n)
    [] Is(n, "KEYWORD", {"do"})       -> CompileDo(c, n)
    [] Is(n, "KEYWORD", {"if"})       -> CompileIf(c, n)
    [] OTHER                          -> CompileStatement(c, n)

\* A program ends at the sentence that fails.
CompileProgram(c, n) == Attempt(c, CompileSentences(c, n.kids))

\* The programs a resolved tree becomes, by name.
Programs(name, tree, args) ==
  LET c == CompileProgram(Writer(name, 0), tree)
  IN (name :> Program(c, args)) @@ c.subs
=============================================================================
