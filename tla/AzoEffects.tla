----------------------------- MODULE AzoEffects -----------------------------
(***************************************************************************)
(* What an instruction asks of the stack and leaves on it, as far as the   *)
(* instruction alone tells: what a verifier of bytecode would know of the  *)
(* handlers of interpreter.c.  That the handlers of AzoMachine do so is    *)
(* proved in AzoEffectProofs.                                              *)
(***************************************************************************)
EXTENDS AzoMachine

\* Pushes that test for the stack limit, and those that do not.
Tested == {"PUSH_EMPTY", "PUSH_IMMEDIATE", "DUPLICATE", "DUPLICATE_FRAME", "PUSH_VALUE", "PUSH_CAPTURE"}
Untested ==
  {"TYPE_EQUALS_IMMEDIATE", "TYPE_IS_IMMEDIATE", "TYPE_IS_SUPER_IMMEDIATE", "TYPE_IMPLEMENTS_IMMEDIATE",
   "TYPE_OF", "TYPE_OF_CLASS", "GET_INTERFACE_IMMEDIATE", "GET_FUNCTION", "GET_STATIC_FUNCTION", "INVOKE"}

\* Two values give one.
Combine ==
  Binary \cup BinaryTyped \cup
  {"EQUAL", "EQUAL_TYPED", "COMPARE", "COMPARE_TYPED", "LOGICAL_AND", "LOGICAL_OR", "MIN_TYPED", "MAX_TYPED",
   "GET_PROPERTY", "GET_STATIC_PROPERTY", "GET_ATTRIBUTE"}

\* One value is used up.
Drop ==
  {"JMP_32_IF", "JMP_32_IF_NOT", "JMP_32_IF_ZERO", "JMP_32_IF_POSITIVE", "JMP_32_IF_NEGATIVE",
   "EXCEPTION_IF", "EXCEPTION_IF_NOT", "STORE_VALUE", "STORE_CAPTURE"}

\* By how much the length of the stack may change when the instruction goes on.
Balance(ins) ==
  IF ins.op \in {"POP", "CLOSURE"} THEN {0 - ins.a}
  ELSE IF ins.op = "REMOVE" THEN {0 - ins.b}
  ELSE IF ins.op \in Tested \cup Untested THEN {1}
  ELSE IF ins.op \in Combine \cup Drop \cup {"PROMOTE"} THEN {0 - 1}
  ELSE IF ins.op = "WRITE_ARRAY_ELEMENT" THEN {0 - 2}
  ELSE IF ins.op = "SET_ATTRIBUTE" THEN {0 - 3}
  ELSE IF ins.op = "SET_PROPERTY" THEN {0 - 2, 1}
  ELSE IF ins.op = "LOOKUP_PROPERTY" THEN {0, 2}
  ELSE {0}

\* The value Ins.a below the top is used, or Ins.a values and one below them.
Indexed ==
  {"PUSH_FRAME", "DUPLICATE", "DUPLICATE_FRAME", "EXCHANGE", "EXCHANGE_FRAME", "PROMOTE", "CLOSURE",
   "TYPE_EQUALS", "TYPE_IS", "TYPE_IS_SUPER", "TYPE_IMPLEMENTS", "TYPE_OF", "TYPE_OF_CLASS",
   "TYPE_EQUALS_IMMEDIATE", "TYPE_IS_IMMEDIATE", "TYPE_IS_SUPER_IMMEDIATE", "TYPE_IMPLEMENTS_IMMEDIATE",
   "EXCEPTION_IF_TYPE_IS_NOT"}

\* How many values there must be, tested for or not; in a frame for the two
\* instructions that count from its start.  The function INVOKE calls is below.
Asks(ins) ==
  IF ins.op = "POP" THEN ins.a
  ELSE IF ins.op = "REMOVE" THEN ins.a + ins.b
  ELSE IF ins.op \in Indexed THEN ins.a + 1
  ELSE IF ins.op \in {"GET_FUNCTION", "GET_STATIC_FUNCTION"} THEN ins.a + 2
  ELSE IF ins.op \in Drop \cup {"CONVERT_TYPE", "LOGICAL_NOT", "NEGATE", "CONJUGATE", "BITWISE_NOT", "NEW_ARRAY",
                                "GET_INTERFACE_IMMEDIATE", "GET_GLOBAL", "INVOKE", "RETURN_VALUE"} THEN 1
  ELSE IF ins.op \in Combine \cup {"LOAD_ARRAY_ELEMENT", "LOOKUP_PROPERTY"} THEN 2
  ELSE IF ins.op \in {"WRITE_ARRAY_ELEMENT", "SET_PROPERTY", "SET_ATTRIBUTE"} THEN 3
  ELSE 0

\* Where instruction ins at position i goes on.
Follow(ins, i) ==
  IF ins.op \in {"RETURN", "UNKNOWN", "RETURN_VALUE", "EXCEPTION"} THEN {}
  ELSE IF ins.op = "JMP_32" THEN {i + 1 + ins.a}
  ELSE IF ins.op \in JumpCodes THEN {i + 1, i + 1 + ins.a}
  ELSE {i + 1}

\* The frames after an instruction that changes the topmost one by d.
After(ins, fs, d) ==
  LET n == Len(fs)
  IN IF ins.op = "PUSH_FRAME" THEN Append([fs EXCEPT ![n] = @ - ins.a], ins.a)
     ELSE IF ins.op = "POP_FRAME" THEN [SubSeq(fs, 1, n - 1) EXCEPT ![n - 1] = @ + fs[n]]
     ELSE [fs EXCEPT ![n] = @ + d]

\* SET_PROPERTY takes three values more when it leaves `true'; JMP_32_IF goes on
\* without jumping when there was no `true'.
Spared(ins) == IF ins.op = "SET_PROPERTY" THEN 3 ELSE 0
Unspared(ins, i, to, spare) == IF ins.op = "JMP_32_IF" /\ to # i + 1 + ins.a THEN spare ELSE 0

\* By how much the stack may be above its limit afterwards.
OverAfter(ins, over, d) == IF ins.op \in Tested THEN 0 ELSE over + d
-----------------------------------------------------------------------------
(* Every value an instruction uses, whether its handler tests for it or     *)
(* not, is in the frame the instruction runs in: nothing is read that       *)
(* belongs to the caller or is not there.                                   *)
OperandsInFrame ==
  calls # << >> /\ Act.pc \in DOMAIN Code[Act.prog] => Asks(Ins) <= Len(stack) - Frame

(* A function is called with as many values in the frame as its signature   *)
(* has.  Which function is called only the run shows.                       *)
CallsFit == At({"INVOKE"}) => Reach <= Len(stack) - Frame
=============================================================================
