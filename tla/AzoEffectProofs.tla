--------------------------- MODULE AzoEffectProofs ---------------------------
(***************************************************************************)
(* Proofs that the handlers do what AzoEffects says of them: where the     *)
(* frame holds what an instruction asks for, no test for it fails, and the *)
(* instruction stops its run or goes on where Follow says with a stack     *)
(* that is longer by what Balance says.                                    *)
(***************************************************************************)
EXTENDS AzoFrameProofs, AzoEffects

\* Instructions that throw what they are told to.
Raise == {"EXCEPTION", "EXCEPTION_IF", "EXCEPTION_IF_NOT"}

\* What a verifier of the code finds out before the instruction runs.
Fitting ==
  /\ AtWork /\ Asks(Ins) <= Len(stack) - Frame
  /\ Ins.op \in Raise => Ins.t # "SYSTEM"

\* The run stops, by an exception that is not the one for missing values.
Stops ==
  \/ \E type \in Exceptions : Throw(type) /\ (type = "SYSTEM" => Ins.op = "LOAD_ARRAY_ELEMENT")
  \/ Goto(0) /\ UNCHANGED <<stack, frameVars, exc>>

\* The run goes on at `to' with d values more.
Goes(to, d) ==
  /\ to \in Follow(Ins, Act.pc) /\ to \in Nat /\ Goto(to)
  /\ d \in Balance(Ins) /\ Len(stack') = Len(stack) + d
  /\ Ins.op \in Tested => Len(stack') <= MaxStack
  /\ Ins.op = "JMP_32_IF" /\ to # Act.pc + 1 + Ins.a => Bw(stack, 0) # Truth(TRUE)
  /\ Ins.op = "SET_PROPERTY" => d = 1 \/ Bw(stack', 0) = Truth(TRUE)
  /\ UNCHANGED <<exc, frameVars>>

Obeys == Stops \/ \E to \in Nat : \E d \in Int : Goes(to, d)
-----------------------------------------------------------------------------
(***************************************************************************)
(* The tables.                                                             *)
(***************************************************************************)
\* The instruction asks for n values, changes the stack by d and goes on.
Costs(n, d) ==
  /\ Asks(Ins) = n /\ d \in Balance(Ins) /\ Follow(Ins, Act.pc) = {Act.pc + 1}
  /\ Ins.op \notin {"JMP_32_IF", "SET_PROPERTY"}

LEMMA MoveCosts ==
  /\ Ins.op = "POP" => Costs(Ins.a, 0 - Ins.a)
  /\ Ins.op = "REMOVE" => Costs(Ins.a + Ins.b, 0 - Ins.b)
  /\ Ins.op \in {"NOP", "DEBUG", "DEBUG_STR", "EXCEPTION"} => Asks(Ins) = 0
  /\ Ins.op \in {"NOP", "DEBUG", "DEBUG_STR"} => Costs(0, 0)
  /\ Ins.op \in {"EXCHANGE", "EXCHANGE_FRAME"} => Costs(Ins.a + 1, 0)
  /\ Ins.op \in {"PUSH_FRAME", "EXCEPTION_IF_TYPE_IS_NOT"} => Costs(Ins.a + 1, 0)
  /\ Ins.op \in {"DUPLICATE", "DUPLICATE_FRAME"} => Costs(Ins.a + 1, 1)
  /\ Ins.op \in {"PUSH_EMPTY", "PUSH_IMMEDIATE", "PUSH_VALUE", "PUSH_CAPTURE"} => Costs(0, 1)
BY DEF Costs, Asks, Balance, Follow, Tested, Untested, Combine, Drop, Indexed, Binary, BinaryTyped, JumpCodes

LEMMA DropCosts ==
  /\ Ins.op \in {"EXCEPTION_IF", "EXCEPTION_IF_NOT", "STORE_VALUE", "STORE_CAPTURE"} => Costs(1, 0 - 1)
  /\ Ins.op = "CLOSURE" => Costs(Ins.a + 1, 0 - Ins.a)
  /\ Ins.op = "PROMOTE" => Costs(Ins.a + 1, 0 - 1)
  /\ Ins.op = "WRITE_ARRAY_ELEMENT" => Costs(3, 0 - 2)
  /\ Ins.op = "SET_ATTRIBUTE" => Costs(3, 0 - 3)
  /\ Ins.op \in Combine => Costs(2, 0 - 1)
  /\ Ins.op = "LOAD_ARRAY_ELEMENT" => Costs(2, 0)
  /\ Ins.op = "LOOKUP_PROPERTY" => Costs(2, 0) /\ Costs(2, 2)
BY DEF Costs, Asks, Balance, Follow, Tested, Untested, Combine, Drop, Indexed, Binary, BinaryTyped, JumpCodes

LEMMA OtherCosts ==
  /\ Ins.op \in {"TYPE_EQUALS", "TYPE_IS", "TYPE_IS_SUPER", "TYPE_IMPLEMENTS"} => Costs(Ins.a + 1, 0)
  /\ Ins.op \in {"TYPE_EQUALS_IMMEDIATE", "TYPE_IS_IMMEDIATE", "TYPE_IS_SUPER_IMMEDIATE", "TYPE_IMPLEMENTS_IMMEDIATE",
                 "TYPE_OF", "TYPE_OF_CLASS"} => Costs(Ins.a + 1, 1)
  /\ Ins.op \in {"GET_FUNCTION", "GET_STATIC_FUNCTION"} => Costs(Ins.a + 2, 1)
  /\ Ins.op \in {"GET_INTERFACE_IMMEDIATE", "INVOKE"} => Costs(1, 1)
  /\ Ins.op \in {"CONVERT_TYPE", "LOGICAL_NOT", "NEGATE", "CONJUGATE", "BITWISE_NOT", "NEW_ARRAY", "GET_GLOBAL"} => Costs(1, 0)
  /\ Ins.op = "POP_FRAME" => Costs(0, 0)
  /\ Ins.op = "RETURN_VALUE" => Asks(Ins) = 1
BY DEF Costs, Asks, Balance, Follow, Tested, Untested, Combine, Drop, Indexed, Binary, BinaryTyped, JumpCodes

LEMMA TestedAre ==
  Ins.op \notin {"PUSH_EMPTY", "PUSH_IMMEDIATE", "DUPLICATE", "DUPLICATE_FRAME", "PUSH_VALUE", "PUSH_CAPTURE"} =>
    Ins.op \notin Tested
BY DEF Tested
-----------------------------------------------------------------------------
(***************************************************************************)
(* The ways handlers end.                                                  *)
(***************************************************************************)
\* What the frame holds, the stack holds.
LEMMA Fits ==
  ASSUME FInv, Fitting
  PROVE  /\ IInv /\ AtWork /\ Len(stack) \in Nat /\ Frame \in Nat /\ Frame <= Len(stack) /\ frames # << >>
         /\ Ins.a \in Int /\ Ins.b \in Nat /\ (Ins.op \notin JumpCodes => Ins.a \in Nat)
         /\ Act.pc + 1 \in Nat
         /\ \A n \in Int, d \in Int : Costs(n, d) => n <= Len(stack) /\ n <= Len(stack) - Frame
<1>1. IInv /\ AtWork
  BY DEF FInv, Fitting
<1>2. Len(stack) \in Nat /\ Frame \in Nat /\ Frame <= Len(stack) /\ frames # << >>
  BY Levels DEF FInv, StackedFrames
<1>3. \A n \in Int, d \in Int : Costs(n, d) => n <= Len(stack) /\ n <= Len(stack) - Frame
  BY <1>2 DEF Costs, Fitting
<1> QED BY <1>1, <1>2, <1>3, Operand, Located

LEMMA Stopping ==
  /\ \A type \in Exceptions : Throw(type) /\ type # "SYSTEM" => Stops
  /\ Throw("STACK_OVERFLOW") => Stops
  /\ Throw("INVALID_TYPE") => Stops
  /\ Throw("INVALID_CONVERSION") => Stops
  /\ Throw("NULL_DEREFERENCE") => Stops
  /\ Throw("OUT_OF_BOUNDS") => Stops
  /\ Throw("INVALID_VALUE") => Stops
BY DEF Stops, Exceptions

LEMMA FaultStops ==
  ASSUME NEW x, NEW Handler, \E fault \in ToU32(x) : Check(fault = "NONE", fault, Handler)
  PROVE  Stops \/ Handler
<1>1. \A fault \in ToU32(x) : fault \in Exceptions /\ fault # "SYSTEM"
  BY DEF ToU32, Exceptions
<1> QED BY <1>1, Stopping DEF Check

\* n values give way to one.
Puts(n) == \E v : Put(n, <<v>>)

LEMMA PutsAny == \A n, v : Put(n, <<v>>) => Puts(n)
BY DEF Puts

\* Going on with d values more.
Becomes(d) == Len(stack') = Len(stack) + d /\ Advance /\ UNCHANGED frameVars

LEMMA BecomesObeys ==
  ASSUME FInv, Fitting, NEW n \in Int, NEW d \in Int, Costs(n, d), Becomes(d), Ins.op \in Tested => Room(1) /\ d <= 1
  PROVE  Obeys
<1>1. Len(stack') = Len(stack) + d /\ Goto(Act.pc + 1) /\ UNCHANGED <<exc, frameVars>>
  BY DEF Becomes, Advance
<1>2. Ins.op \in Tested => Len(stack') <= MaxStack
  BY <1>1, Fits, MachineAssumption DEF Room
<1>3. Act.pc + 1 \in Nat /\ Act.pc + 1 \in {Act.pc + 1}
  BY Fits
<1>4. Goes(Act.pc + 1, d)
  BY <1>1, <1>2, <1>3 DEF Goes, Costs
<1> QED BY <1>3, <1>4 DEF Obeys

LEMMA PutsNothing == ASSUME IInv, NEW n \in Nat, n <= Len(stack), Put(n, << >>) PROVE Becomes(0 - n)
<1>1. stack \in Seq(Sound) /\ << >> \in Seq(Sound) /\ Len(stack) \in Nat
  BY Depth
<1>2. Len(Popped(stack, n) \o << >>) = Len(stack) - n + 0
  BY <1>1, PopThenPush
<1> QED BY <1>1, <1>2 DEF Put, Becomes

LEMMA PutsOne == ASSUME IInv, NEW n \in Nat, n <= Len(stack), NEW v, Put(n, <<v>>) PROVE Becomes(1 - n)
<1> DEFINE S == Sound \cup {v}
<1>1. stack \in Seq(S) /\ <<v>> \in Seq(S) /\ Len(stack) \in Nat /\ Len(<<v>>) = 1
  <2>1. stack \in Seq(Sound) /\ Sound \subseteq S /\ Len(stack) \in Nat
    BY Depth
  <2> HIDE DEF S
  <2>2. stack \in Seq(S)
    BY <2>1
  <2>3. v \in S
    BY DEF S
  <2> QED BY <2>1, <2>2, <2>3
<1> HIDE DEF S
<1>2. Len(Popped(stack, n) \o <<v>>) = Len(stack) - n + 1
  BY <1>1, PopThenPush
<1> QED BY <1>1, <1>2 DEF Put, Becomes

LEMMA Pushes == ASSUME IInv, Puts(0) PROVE Becomes(1)
<1>1. PICK v : Put(0, <<v>>)
  BY DEF Puts
<1>2. 0 \in Nat /\ 0 <= Len(stack) /\ 1 - 0 = 1
  BY Depth
<1>3. Becomes(1 - 0)
  BY <1>1, <1>2, PutsOne
<1> QED BY <1>2, <1>3

LEMMA Replaces == ASSUME IInv, 1 <= Len(stack), Puts(1) PROVE Becomes(0)
<1>1. PICK v : Put(1, <<v>>)
  BY DEF Puts
<1>2. 1 - 1 = 0 /\ 1 \in Nat
  OBVIOUS
<1>3. Becomes(1 - 1)
  BY <1>1, <1>2, PutsOne
<1> QED BY <1>2, <1>3

LEMMA Combines == ASSUME IInv, 2 <= Len(stack), Puts(2) PROVE Becomes(0 - 1)
<1>1. PICK v : Put(2, <<v>>)
  BY DEF Puts
<1>2. 1 - 2 = 0 - 1 /\ 2 \in Nat
  OBVIOUS
<1>3. Becomes(1 - 2)
  BY <1>1, <1>2, PutsOne
<1> QED BY <1>2, <1>3

LEMMA Appends ==
  ASSUME IInv, NEW n \in Nat, n <= Len(stack), NEW v,
         stack' = Append(Popped(stack, n), v), Advance, UNCHANGED frameVars
  PROVE  Becomes(1 - n)
<1>1. Popped(stack, n) \in Seq(Sound) /\ Len(Popped(stack, n)) = Len(stack) - n /\ Len(stack) \in Nat
  BY Depth, Pops
<1>2. Len(Append(Popped(stack, n), v)) = Len(stack) - n + 1
  BY <1>1
<1> QED BY <1>1, <1>2 DEF Becomes

LEMMA Delivers == ASSUME IInv, NEW n \in Nat, n <= Len(stack), NEW v, Deliver(n, v) PROVE Becomes(1 - n)
BY Appends DEF Deliver, frameVars

LEMMA Rearranges ==
  ASSUME IInv, NEW s, NEW d \in Int, Len(s) = Len(stack) + d, Rearrange(s)
  PROVE  Becomes(d)
BY DEF Rearrange, Becomes
-----------------------------------------------------------------------------
(***************************************************************************)
(* The handlers one by one.                                                *)
(***************************************************************************)
LEMMA ExceptionObeys == ASSUME FInv, Fitting, Exception PROVE Obeys
<1> DEFINE ok == (Bw(stack, 0) = Truth(TRUE)) = (Ins.op = "EXCEPTION_IF_NOT")
<1>1. IInv /\ AtWork /\ Len(stack) \in Nat
  BY Fits
<1>2. Ins.op \in Raise /\ Ins.t \in Exceptions /\ Ins.t # "SYSTEM"
  BY <1>1, Operand DEF Exception, At, Fitting, Raise
<1>3. Throw(Ins.t) => Stops
  BY <1>2, Stopping
<1>4. IF Ins.op = "EXCEPTION" THEN Throw(Ins.t) ELSE Exact(0, "bool", Check(ok, Ins.t, Put(1, << >>)))
  BY DEF Exception
<1> HIDE DEF ok
<1>5. CASE Ins.op = "EXCEPTION"
  BY <1>3, <1>4, <1>5 DEF Obeys
<1>6. CASE Ins.op # "EXCEPTION"
  <2>1. Costs(1, 0 - 1)
    BY <1>2, <1>6, DropCosts DEF Raise
  <2>2. 1 <= Len(stack)
    BY <2>1, Fits
  <2>3. Stops \/ Put(1, << >>)
    BY <1>1, <1>3, <1>4, <1>6, <2>2, Stopping DEF Exact, Underflow, Check
  <2>4. Stops \/ Becomes(0 - 1)
    BY <1>1, <2>2, <2>3, PutsNothing
  <2>5. Ins.op \notin Tested
    BY <1>2, TestedAre DEF Raise
  <2> QED BY <2>1, <2>4, <2>5, BecomesObeys DEF Obeys
<1> QED BY <1>5, <1>6

LEMMA ExceptionIfTypeIsNotObeys == ASSUME FInv, Fitting, ExceptionIfTypeIsNot PROVE Obeys
<1>1. IInv /\ Ins.op = "EXCEPTION_IF_TYPE_IS_NOT" /\ Ins.a \in Nat /\ Len(stack) \in Nat
  BY Fits DEF ExceptionIfTypeIsNot, At, JumpCodes
<1>2. Costs(Ins.a + 1, 0) /\ Ins.op \notin Tested
  BY <1>1, MoveCosts, TestedAre
<1>3. Stops \/ Put(0, << >>)
  BY Stopping DEF ExceptionIfTypeIsNot, Check
<1>4. Stops \/ Becomes(0)
  BY <1>1, <1>3, PutsNothing
<1> QED BY <1>1, <1>2, <1>4, BecomesObeys DEF Obeys

LEMMA NopObeys == ASSUME FInv, Fitting, Nop PROVE Obeys
<1>1. IInv /\ Ins.op \in {"NOP", "DEBUG", "DEBUG_STR"} /\ Len(stack) \in Nat
  BY Fits DEF Nop, At
<1>2. Costs(0, 0) /\ Ins.op \notin Tested
  BY <1>1, MoveCosts, TestedAre
<1>3. Becomes(0)
  BY <1>1, PutsNothing DEF Nop
<1> QED BY <1>1, <1>2, <1>3, BecomesObeys

LEMMA ReturnObeys == ASSUME Return PROVE Obeys
BY DEF Return, Obeys, Stops

LEMMA PopObeys == ASSUME FInv, Fitting, Pop PROVE Obeys
<1>1. IInv /\ Ins.op = "POP" /\ Ins.a \in Nat /\ Len(stack) \in Nat
  BY Fits DEF Pop, At, JumpCodes
<1>2. Costs(Ins.a, 0 - Ins.a) /\ Ins.op \notin Tested
  BY <1>1, MoveCosts, TestedAre
<1>3. Ins.a <= Len(stack)
  BY <1>1, <1>2, Fits
<1>4. Put(Ins.a, << >>)
  BY <1>3 DEF Pop, Underflow, Check
<1>5. Becomes(0 - Ins.a)
  BY <1>1, <1>3, <1>4, PutsNothing
<1> QED BY <1>1, <1>2, <1>5, BecomesObeys

LEMMA RemoveObeys == ASSUME FInv, Fitting, Remove PROVE Obeys
<1> DEFINE first == Len(stack) - (Ins.a + Ins.b)
           s == Removed(stack, first, Ins.b)
<1>1. IInv /\ Ins.op = "REMOVE" /\ Ins.a \in Nat /\ Ins.b \in Nat /\ Len(stack) \in Nat
  BY Fits DEF Remove, At, JumpCodes
<1>2. Costs(Ins.a + Ins.b, 0 - Ins.b) /\ Ins.op \notin Tested
  BY <1>1, MoveCosts, TestedAre
<1>3. Ins.a + Ins.b <= Len(stack)
  BY <1>1, <1>2, Fits
<1>4. Rearrange(s)
  BY <1>3 DEF Remove, Underflow, Check
<1>5. first \in Nat /\ first + Ins.b <= Len(stack) /\ stack \in Seq(Sound)
  BY <1>1, <1>3, Depth
<1> HIDE DEF first
<1>6. RemovedWell(stack, first, Ins.b)
  BY <1>1, <1>5, RemovedKeeps
<1>7. Len(s) = Len(stack) + (0 - Ins.b)
  BY <1>1, <1>6 DEF RemovedWell
<1> HIDE DEF s
<1>8. Becomes(0 - Ins.b)
  BY <1>1, <1>4, <1>7, Rearranges
<1> QED BY <1>1, <1>2, <1>8, BecomesObeys

\* Pushes of one value that test for room.
LEMMA PushesObey ==
  ASSUME FInv, Fitting, PushEmpty \/ PushImmediate \/ PushValue \/ PushCapture
  PROVE  Obeys
<1>1. IInv /\ Ins.op \in {"PUSH_EMPTY", "PUSH_IMMEDIATE", "PUSH_VALUE", "PUSH_CAPTURE"} /\ Len(stack) \in Nat
  BY Fits DEF PushEmpty, PushImmediate, PushValue, PushCapture, At
<1>2. Costs(0, 1)
  BY <1>1, MoveCosts
<1>3. Stops \/ (Room(1) /\ Puts(0))
  BY Stopping, PutsAny DEF PushEmpty, PushImmediate, PushValue, PushCapture, Overflow, Check
<1>4. Stops \/ (Room(1) /\ Becomes(1))
  BY <1>1, <1>3, Pushes
<1> QED BY <1>1, <1>2, <1>4, BecomesObeys DEF Obeys

LEMMA DuplicateObeys == ASSUME FInv, Fitting, Duplicate PROVE Obeys
<1>1. IInv /\ Ins.op = "DUPLICATE" /\ Ins.a \in Nat /\ Len(stack) \in Nat
  BY Fits DEF Duplicate, At, JumpCodes
<1>2. Costs(Ins.a + 1, 1)
  BY <1>1, MoveCosts
<1>3. Ins.a + 1 <= Len(stack)
  BY <1>1, <1>2, Fits
<1>4. Stops \/ (Room(1) /\ Puts(0))
  BY <1>3, Stopping, PutsAny DEF Duplicate, Underflow, Overflow, Check
<1>5. Stops \/ (Room(1) /\ Becomes(1))
  BY <1>1, <1>4, Pushes
<1> QED BY <1>1, <1>2, <1>5, BecomesObeys DEF Obeys

\* Positions in the frame that are there.
LEMMA FitsInFrame ==
  ASSUME FInv, Fitting, Ins.op \in {"DUPLICATE_FRAME", "EXCHANGE_FRAME"}
  PROVE  /\ IInv /\ Ins.a \in Nat /\ Frame + Ins.a \in Nat /\ Frame + Ins.a < Len(stack)
         /\ stack \in Seq(Sound) /\ Len(stack) \in Nat
<1>1. IInv /\ Ins.a \in Nat /\ Len(stack) \in Nat /\ Frame \in Nat
  BY Fits DEF JumpCodes
<1>2. Costs(Ins.a + 1, 1) \/ Costs(Ins.a + 1, 0)
  BY MoveCosts
<1>3. Ins.a + 1 \in Int /\ 1 \in Int /\ 0 \in Int
  BY <1>1
<1>4. Ins.a + 1 <= Len(stack) - Frame
  BY <1>2, <1>3, Fits
<1> QED BY <1>1, <1>4, Depth

LEMMA DuplicateFrameObeys == ASSUME FInv, Fitting, DuplicateFrame PROVE Obeys
<1> DEFINE s == Duplicated(stack, Frame + Ins.a)
<1>1. Ins.op = "DUPLICATE_FRAME"
  BY DEF DuplicateFrame, At
<1>2. /\ IInv /\ Ins.a \in Nat /\ Frame + Ins.a \in Nat /\ Frame + Ins.a < Len(stack)
      /\ stack \in Seq(Sound) /\ Len(stack) \in Nat
  BY <1>1, FitsInFrame
<1>3. Costs(Ins.a + 1, 1)
  BY <1>1, MoveCosts
<1>4. Len(s) = Len(stack) + 1
  BY <1>2, DuplicatedKeeps
<1>5. Stops \/ (Room(1) /\ Rearrange(s))
  <2> HIDE DEF s
  <2>1. DuplicateFrame => InFrame(Overflow(1, Rearrange(s)))
    BY DEF DuplicateFrame, s
  <2> QED BY <1>2, <2>1, Stopping DEF InFrame, Overflow, Check
<1> HIDE DEF s
<1>6. Stops \/ (Room(1) /\ Becomes(1))
  BY <1>2, <1>4, <1>5, Rearranges
<1> QED BY <1>2, <1>3, <1>6, BecomesObeys DEF Obeys

LEMMA ExchangesObey == ASSUME FInv, Fitting, Exchange \/ ExchangeFrame PROVE Obeys
<1>1. IInv /\ Ins.op \in {"EXCHANGE", "EXCHANGE_FRAME"} /\ Ins.a \in Nat /\ Len(stack) \in Nat /\ stack \in Seq(Sound)
  BY Fits, Depth DEF Exchange, ExchangeFrame, At, JumpCodes
<1>2. Costs(Ins.a + 1, 0) /\ Ins.op \notin Tested
  BY <1>1, MoveCosts, TestedAre
<1>3. \E pos \in Nat : pos < Len(stack) /\ Rearrange(Exchanged(stack, pos))
  <2>1. CASE Exchange
    <3>1. Ins.a + 1 <= Len(stack)
      BY <1>1, <1>2, Fits
    <3>2. Rearrange(Exchanged(stack, Len(stack) - 1 - Ins.a))
      BY <2>1, <3>1 DEF Exchange, Underflow, Check
    <3> QED BY <1>1, <3>1, <3>2
  <2>2. CASE ExchangeFrame
    <3>1. Frame + Ins.a \in Nat /\ Frame + Ins.a < Len(stack)
      BY <2>2, FitsInFrame DEF ExchangeFrame, At
    <3>2. Rearrange(Exchanged(stack, Frame + Ins.a))
      BY <2>2, <3>1 DEF ExchangeFrame, InFrame, Check
    <3> QED BY <3>1, <3>2
  <2> QED BY <2>1, <2>2
<1>4. Becomes(0)
  <2>1. PICK pos \in Nat : pos < Len(stack) /\ Rearrange(Exchanged(stack, pos))
    BY <1>3
  <2>2. Len(Exchanged(stack, pos)) = Len(stack) + 0
    BY <1>1, <2>1, ExchangedKeeps
  <2> QED BY <1>1, <2>1, <2>2, Rearranges
<1> QED BY <1>1, <1>2, <1>4, BecomesObeys
-----------------------------------------------------------------------------
\* Storing: the value goes, whatever block it goes to.
LEMMA StoresObey == ASSUME FInv, Fitting, StoreValue \/ StoreCapture PROVE Obeys
<1>1. IInv /\ Ins.op \in {"STORE_VALUE", "STORE_CAPTURE"} /\ Len(stack) \in Nat /\ stack \in Seq(Sound)
  BY Fits, Depth DEF StoreValue, StoreCapture, At
<1>2. Costs(1, 0 - 1) /\ Ins.op \notin Tested
  BY <1>1, DropCosts, TestedAre
<1>3. 1 <= Len(stack)
  BY <1>2, Fits
<1>4. stack' = Popped(stack, 1) /\ Advance /\ UNCHANGED frameVars
  BY <1>3 DEF StoreValue, StoreCapture, Underflow, Check, frameVars
<1>5. Len(Popped(stack, 1)) = Len(stack) - 1
  BY <1>1, <1>3, Pops
<1>6. Becomes(0 - 1)
  BY <1>1, <1>4, <1>5 DEF Becomes
<1> QED BY <1>2, <1>6, BecomesObeys

LEMMA ClosureObeys == ASSUME FInv, Fitting, Closure PROVE Obeys
<1> DEFINE n == Ins.a + 1
           v == FunctionOf(Len(closures) + 1)
<1>1. IInv /\ Ins.op = "CLOSURE" /\ Ins.a \in Nat /\ Len(stack) \in Nat /\ n \in Nat
  BY Fits DEF Closure, At, JumpCodes
<1>2. Costs(n, 0 - Ins.a) /\ Ins.op \notin Tested
  BY <1>1, DropCosts, TestedAre
<1>3. n <= Len(stack)
  BY <1>1, <1>2, Fits
<1>4. Stops \/ (stack' = Append(Popped(stack, n), v) /\ Advance /\ UNCHANGED frameVars)
  BY <1>3, Stopping DEF Closure, Exact, Underflow, Check, frameVars
<1> HIDE DEF v
<1>5. Stops \/ Becomes(1 - n)
  BY <1>1, <1>3, <1>4, Appends
<1>6. 1 - n = 0 - Ins.a
  BY <1>1
<1> HIDE DEF n
<1>7. Stops \/ Becomes(0 - Ins.a)
  BY <1>5, <1>6
<1> QED BY <1>1, <1>2, <1>7, BecomesObeys DEF Obeys

\* The type on top gives way to a truth value.
LEMMA TypeObeys == ASSUME FInv, Fitting, Type PROVE Obeys
<1>1. IInv /\ Ins.op \in {"TYPE_EQUALS", "TYPE_IS", "TYPE_IS_SUPER", "TYPE_IMPLEMENTS"} /\ Ins.a \in Nat /\ Len(stack) \in Nat
  BY Fits DEF Type, At, JumpCodes
<1>2. Costs(Ins.a + 1, 0) /\ Ins.op \notin Tested
  BY <1>1, OtherCosts, TestedAre
<1>3. Ins.a + 1 <= Len(stack) /\ 0 + 1 <= Len(stack) /\ 1 <= Len(stack)
  BY <1>1, <1>2, Fits
<1>4. Stops \/ Puts(1)
  BY <1>3, Stopping, PutsAny DEF Type, Exact, Underflow, Check
<1>5. Stops \/ Becomes(0)
  BY <1>1, <1>3, <1>4, Replaces
<1> QED BY <1>1, <1>2, <1>5, BecomesObeys DEF Obeys

LEMMA TypeImmediateObeys == ASSUME FInv, Fitting, TypeImmediate PROVE Obeys
<1>1. /\ IInv /\ Ins.a \in Nat /\ Len(stack) \in Nat
      /\ Ins.op \in {"TYPE_EQUALS_IMMEDIATE", "TYPE_IS_IMMEDIATE", "TYPE_IS_SUPER_IMMEDIATE", "TYPE_IMPLEMENTS_IMMEDIATE"}
  BY Fits DEF TypeImmediate, At, JumpCodes
<1>2. Costs(Ins.a + 1, 1) /\ Ins.op \notin Tested
  BY <1>1, OtherCosts, TestedAre
<1>3. Becomes(1)
  BY <1>1, Pushes, PutsAny DEF TypeImmediate
<1> QED BY <1>1, <1>2, <1>3, BecomesObeys

LEMMA TypeOfObeys == ASSUME FInv, Fitting, TypeOf PROVE Obeys
<1>1. IInv /\ Ins.op \in {"TYPE_OF", "TYPE_OF_CLASS"} /\ Ins.a \in Nat /\ Len(stack) \in Nat
  BY Fits DEF TypeOf, At, JumpCodes
<1>2. Costs(Ins.a + 1, 1) /\ Ins.op \notin Tested
  BY <1>1, OtherCosts, TestedAre
<1>3. Ins.a + 1 <= Len(stack) /\ 0 + 1 <= Len(stack)
  BY <1>1, <1>2, Fits
<1>4. Stops \/ Puts(0)
  BY <1>3, Stopping, PutsAny DEF TypeOf, Exact, Underflow, Check
<1>5. Stops \/ Becomes(1)
  BY <1>1, <1>4, Pushes
<1> QED BY <1>1, <1>2, <1>5, BecomesObeys DEF Obeys

LEMMA PromoteObeys == ASSUME FInv, Fitting, Promote PROVE Obeys
<1> DEFINE pos == Len(stack) - Ins.a
           v == Converted(stack[pos], Bw(stack, 0).content)
           s == Popped([stack EXCEPT ![pos] = v], 1)
<1>1. IInv /\ Ins.op = "PROMOTE" /\ Ins.a \in Nat /\ Len(stack) \in Nat /\ stack \in Seq(Sound)
  BY Fits, Depth DEF Promote, At, JumpCodes
<1>2. Costs(Ins.a + 1, 0 - 1) /\ Ins.op \notin Tested
  BY <1>1, DropCosts, TestedAre
<1>3. Ins.a + 1 <= Len(stack)
  BY <1>1, <1>2, Fits
<1>4. Stops \/ Rearrange(s)
  BY <1>3, Stopping DEF Promote, Underflow, Check
<1>5. Len(s) = Len(stack) + (0 - 1)
  <2> DEFINE S == Sound \cup {v}
             r == [stack EXCEPT ![pos] = v]
  <2>0. pos \in 1 .. Len(stack)
    BY <1>1, <1>3
  <2> HIDE DEF S, v, pos
  <2>1. stack \in Seq(S)
    BY <1>1 DEF S
  <2>2. v \in S
    BY DEF S
  <2>3. r \in Seq(S) /\ Len(r) = Len(stack) /\ 1 <= Len(r)
    BY <1>1, <1>3, <2>0, <2>1, <2>2
  <2> HIDE DEF r
  <2>4. Len(Popped(r, 1)) = Len(r) - 1
    BY <2>3, Pops
  <2>5. s = Popped(r, 1)
    BY DEF r
  <2> HIDE DEF s
  <2> QED BY <1>1, <2>3, <2>4, <2>5
<1> HIDE DEF s
<1>6. Stops \/ Becomes(0 - 1)
  BY <1>1, <1>4, <1>5, Rearranges
<1> QED BY <1>1, <1>2, <1>6, BecomesObeys DEF Obeys

\* One value gives another.
LEMMA UnaryObeys ==
  ASSUME FInv, Fitting, ConvertType \/ LogicalNot \/ Unary \/ NewArray
  PROVE  Obeys
<1>1. /\ IInv /\ Len(stack) \in Nat
      /\ Ins.op \in {"CONVERT_TYPE", "LOGICAL_NOT", "NEGATE", "CONJUGATE", "BITWISE_NOT", "NEW_ARRAY"}
  BY Fits DEF ConvertType, LogicalNot, Unary, NewArray, At
<1>2. Costs(1, 0) /\ Ins.op \notin Tested
  BY <1>1, OtherCosts, TestedAre
<1>3. 1 <= Len(stack) /\ 0 + 1 <= Len(stack)
  BY <1>1, <1>2, Fits
<1>4. ConvertType => Stops \/ Puts(1)
  BY Stopping, PutsAny DEF ConvertType, Check
<1>5. LogicalNot => Stops \/ Puts(1)
  BY <1>1, <1>3, Stopping, PutsAny DEF LogicalNot, Exact, Underflow, Check
<1>6. Unary => Stops \/ Puts(1)
  BY <1>3, Stopping, PutsAny DEF Unary, Underflow, Check
<1>7. NewArray => Stops \/ Puts(1)
  <2> DEFINE Result == Put(1, <<Of("array", "nil")>>)
  <2>1. NewArray => \E fault \in ToU32(Bw(stack, 0)) : Check(fault = "NONE", fault, Result)
    BY <1>3 DEF NewArray, Underflow, Check
  <2> HIDE DEF Result
  <2>2. NewArray => Stops \/ Result
    BY <2>1, FaultStops
  <2> QED BY <2>2, PutsAny DEF Result
<1>8. Stops \/ Becomes(0)
  BY <1>1, <1>3, <1>4, <1>5, <1>6, <1>7, Replaces
<1> QED BY <1>1, <1>2, <1>8, BecomesObeys DEF Obeys

LEMMA GetGlobalObeys == ASSUME FInv, Fitting, GetGlobal PROVE Obeys
<1>1. IInv /\ Ins.op = "GET_GLOBAL" /\ Len(stack) \in Nat
  BY Fits DEF GetGlobal, At
<1>2. Costs(1, 0) /\ Ins.op \notin Tested
  BY <1>1, OtherCosts, TestedAre
<1>3. 1 <= Len(stack)
  BY <1>2, Fits
<1>4. Stops \/ \E v : Deliver(1, v)
  BY <1>1, <1>3, Stopping DEF GetGlobal, Exact, Underflow, Check
<1>5. Stops \/ Becomes(1 - 1)
  BY <1>1, <1>3, <1>4, Delivers
<1>6. 1 - 1 = 0
  OBVIOUS
<1>7. Stops \/ Becomes(0)
  BY <1>5, <1>6
<1> QED BY <1>1, <1>2, <1>7, BecomesObeys DEF Obeys
-----------------------------------------------------------------------------
\* Two values give one.
LEMMA FitsTwo ==
  ASSUME FInv, Fitting, Ins.op \in Combine
  PROVE  /\ IInv /\ Len(stack) \in Nat /\ Costs(2, 0 - 1) /\ Ins.op \notin Tested
         /\ 2 <= Len(stack) /\ 0 + 1 <= Len(stack) /\ 1 + 1 <= Len(stack) /\ 0 <= Len(stack)
<1>1. IInv /\ Len(stack) \in Nat
  BY Fits
<1>2. Costs(2, 0 - 1) /\ Ins.op \notin Tested
  BY DropCosts DEF Tested, Combine, Binary, BinaryTyped
<1>3. 2 <= Len(stack)
  BY <1>2, Fits
<1> QED BY <1>1, <1>2, <1>3

LEMMA CombinesObeys ==
  ASSUME FInv, Fitting, Ins.op \in Combine, Stops \/ Puts(2)
  PROVE  Obeys
<1>1. IInv /\ Costs(2, 0 - 1) /\ Ins.op \notin Tested /\ 2 <= Len(stack)
  BY FitsTwo
<1>2. Stops \/ Becomes(0 - 1)
  BY <1>1, Combines
<1> QED BY <1>1, <1>2, BecomesObeys DEF Obeys

LEMMA EqualObeys == ASSUME FInv, Fitting, Equal PROVE Obeys
<1> DEFINE type == IF Ins.op = "EQUAL" THEN Bw(stack, 0).type ELSE Ins.t
           Result == \E equal \in SameValue(Bw(stack, 1), Bw(stack, 0)) : Put(2, <<Truth(equal)>>)
<1>1. Ins.op \in Combine
  BY DEF Equal, At, Combine
<1>2. Underflow(IF Ins.op = "EQUAL" THEN 2 ELSE 0,
        Check(type \in Primitive \cup {"block"}, "INVALID_TYPE",
          IF type = "block" THEN Blocks(Result) ELSE Operands(type, Result)))
  BY DEF Equal
<1>3. Result => Puts(2)
  BY PutsAny
<1> HIDE DEF type, Result
<1>4. 2 <= Len(stack) /\ 0 <= Len(stack)
  BY <1>1, FitsTwo
<1>5. Stops \/ Result
  BY <1>2, <1>4, Stopping DEF Blocks, Operands, Underflow, Check
<1> QED BY <1>1, <1>3, <1>5, CombinesObeys

LEMMA CompareObeys == ASSUME FInv, Fitting, Compare PROVE Obeys
<1> DEFINE type == IF Ins.op = "COMPARE" THEN Bw(stack, 0).type ELSE Ins.t
           Outcome == \E s \in Compared(Bw(stack, 1), Bw(stack, 0)) : Put(2, <<Of("int32", s)>>)
           Result == Check(type \in Ordered, "INVALID_TYPE", Outcome)
<1>1. Ins.op \in Combine
  BY DEF Compare, At, Combine
<1>2. IF Ins.op = "COMPARE" THEN Underflow(2, Result) ELSE Operands(type, Result)
  BY DEF Compare
<1>3. Outcome => Puts(2)
  BY PutsAny
<1> HIDE DEF type, Outcome
<1>4. 2 <= Len(stack)
  BY <1>1, FitsTwo
<1>5. Stops \/ Outcome
  BY <1>2, <1>4, Stopping DEF Operands, Underflow, Check
<1> QED BY <1>1, <1>3, <1>5, CombinesObeys

LEMMA LogicalBinaryObeys == ASSUME FInv, Fitting, LogicalBinary PROVE Obeys
<1>1. Ins.op \in Combine
  BY DEF LogicalBinary, At, Combine
<1>2. 0 + 1 <= Len(stack) /\ 1 + 1 <= Len(stack)
  BY <1>1, FitsTwo
<1>3. Stops \/ Puts(2)
  BY <1>2, Stopping, PutsAny DEF LogicalBinary, Exact, Underflow, Check
<1> QED BY <1>1, <1>3, CombinesObeys

LEMMA ArithmeticObeys == ASSUME FInv, Fitting, Arithmetic PROVE Obeys
<1> DEFINE type == IF Ins.op \in BinaryTyped THEN Ins.t ELSE Bw(stack, 0).type
           Defined == Numeric \ (Small \cup IF Ins.op \in {"MODULO", "MODULO_TYPED"} THEN Complex ELSE {})
           Result == \E s \in Signs : Put(2, <<Of(type, s)>>)
<1>1. Ins.op \in Combine
  BY DEF Arithmetic, At, Combine
<1>2. Underflow(IF Ins.op \in BinaryTyped THEN 0 ELSE 2, Exact(0, type, Exact(1, type,
        Check(type \in Defined, "INVALID_TYPE", Result))))
  BY DEF Arithmetic
<1>3. Result => Puts(2)
  BY PutsAny
<1> HIDE DEF type, Defined, Result
<1>4. 2 <= Len(stack) /\ 0 <= Len(stack) /\ 0 + 1 <= Len(stack) /\ 1 + 1 <= Len(stack)
  BY <1>1, FitsTwo
<1>5. Stops \/ Result
  BY <1>2, <1>4, Stopping DEF Exact, Underflow, Check
<1> QED BY <1>1, <1>3, <1>5, CombinesObeys

LEMMA MinMaxObeys == ASSUME FInv, Fitting, MinMax PROVE Obeys
<1> DEFINE Result == \E s \in Compared(Bw(stack, 1), Bw(stack, 0)) :
                       Rearrange(Removed(stack, Len(stack) - 1 - IF s = "pos" THEN 1 ELSE 0, 1))
<1>1. Ins.op \in Combine
  BY DEF MinMax, At, Combine
<1>2. IInv /\ Len(stack) \in Nat /\ Costs(2, 0 - 1) /\ Ins.op \notin Tested /\ 2 <= Len(stack) /\ stack \in Seq(Sound)
  BY <1>1, FitsTwo, Depth
<1>3. Operands(Ins.t, Check(Ins.t \in Ordered, "INVALID_TYPE", Result))
  BY DEF MinMax
<1>4. Result => \E first \in {Len(stack) - 1, Len(stack) - 2} : Rearrange(Removed(stack, first, 1))
  BY <1>2
<1> HIDE DEF Result
<1>5. Stops \/ Result
  BY <1>2, <1>3, Stopping DEF Operands, Underflow, Check
<1>6. ASSUME NEW first \in {Len(stack) - 1, Len(stack) - 2}, Rearrange(Removed(stack, first, 1))
      PROVE  Becomes(0 - 1)
  <2>1. first \in Nat /\ first + 1 <= Len(stack)
    BY <1>2
  <2>2. RemovedWell(stack, first, 1)
    BY <1>2, <2>1, RemovedKeeps
  <2>3. Len(Removed(stack, first, 1)) = Len(stack) + (0 - 1)
    BY <1>2, <2>2 DEF RemovedWell
  <2> QED BY <1>2, <1>6, <2>3, Rearranges
<1> QED BY <1>2, <1>4, <1>5, <1>6, BecomesObeys DEF Obeys
-----------------------------------------------------------------------------
LEMMA LoadArrayElementObeys == ASSUME FInv, Fitting, LoadArrayElement PROVE Obeys
<1> DEFINE Lookup == \E v \in Found : Check(v # Null, "SYSTEM", Put(1, <<v>>))
           Result == \E inside \in BOOLEAN : Check(inside, "OUT_OF_BOUNDS", Lookup)
<1>1. IInv /\ Ins.op = "LOAD_ARRAY_ELEMENT" /\ Len(stack) \in Nat
  BY Fits DEF LoadArrayElement, At
<1>2. Costs(2, 0) /\ Ins.op \notin Tested
  BY <1>1, DropCosts, TestedAre
<1>3. 1 <= Len(stack)
  BY <1>1, <1>2, Fits
<1>4. Throw("SYSTEM") => Stops
  BY <1>1 DEF Stops, Exceptions
<1>5. Lookup => Stops \/ Puts(1)
  BY <1>4, PutsAny DEF Check
<1> HIDE DEF Lookup
<1>6. Result => Stops \/ Lookup
  BY Stopping DEF Check
<1>7. Stops \/ Result
  BY Stopping DEF LoadArrayElement, Check, Lookup
<1> HIDE DEF Result
<1>8. Stops \/ Becomes(0)
  BY <1>1, <1>3, <1>5, <1>6, <1>7, Replaces
<1> QED BY <1>1, <1>2, <1>8, BecomesObeys DEF Obeys

LEMMA WriteArrayElementObeys == ASSUME FInv, Fitting, WriteArrayElement PROVE Obeys
<1> DEFINE Result == \E inside \in BOOLEAN : Check(inside, "OUT_OF_BOUNDS", Put(2, << >>))
<1>1. IInv /\ Ins.op = "WRITE_ARRAY_ELEMENT" /\ Len(stack) \in Nat
  BY Fits DEF WriteArrayElement, At
<1>2. Costs(3, 0 - 2) /\ Ins.op \notin Tested
  BY <1>1, DropCosts, TestedAre
<1>3. 2 <= Len(stack)
  BY <1>1, <1>2, Fits
<1>4. Check(IsA(Bw(stack, 2).type, "array"), "INVALID_TYPE",
        \E fault \in ToU32(Bw(stack, 1)) : Check(fault = "NONE", fault, Result))
  BY DEF WriteArrayElement
<1>5. Result => Stops \/ Put(2, << >>)
  BY Stopping DEF Check
<1> HIDE DEF Result
<1>6. Stops \/ Result
  <2>1. (\E fault \in ToU32(Bw(stack, 1)) : Check(fault = "NONE", fault, Result)) => Stops \/ Result
    BY FaultStops
  <2> QED BY <1>4, <2>1, Stopping DEF Check
<1>7. Stops \/ Becomes(0 - 2)
  BY <1>1, <1>3, <1>5, <1>6, PutsNothing
<1> QED BY <1>1, <1>2, <1>7, BecomesObeys DEF Obeys

LEMMA GetInterfaceObeys == ASSUME FInv, Fitting, GetInterface PROVE Obeys
<1>1. IInv /\ Ins.op = "GET_INTERFACE_IMMEDIATE" /\ Len(stack) \in Nat
  BY Fits DEF GetInterface, At
<1>2. Costs(1, 1) /\ Ins.op \notin Tested
  BY <1>1, OtherCosts, TestedAre
<1>3. 1 <= Len(stack)
  BY <1>1, <1>2, Fits
<1>4. Stops \/ Puts(0)
  BY <1>3, Stopping, PutsAny DEF GetInterface, Underflow, Check
<1>5. Stops \/ Becomes(1)
  BY <1>1, <1>4, Pushes
<1> QED BY <1>1, <1>2, <1>5, BecomesObeys DEF Obeys

\* Lookups that leave what they found in place of two values.
LEMMA LookupsObey ==
  ASSUME FInv, Fitting, GetProperty \/ GetStaticProperty \/ GetAttribute
  PROVE  Obeys
<1> DEFINE Ends == Puts(2) \/ \E v : stack' = Append(Popped(stack, 2), v) /\ Advance /\ UNCHANGED frameVars
<1>1. Ins.op \in Combine
  BY DEF GetProperty, GetStaticProperty, GetAttribute, At, Combine
<1>2. /\ IInv /\ Len(stack) \in Nat /\ Costs(2, 0 - 1) /\ Ins.op \notin Tested
      /\ 2 <= Len(stack) /\ 0 + 1 <= Len(stack) /\ 1 + 1 <= Len(stack)
  BY <1>1, FitsTwo
<1>3. \A v : Deliver(2, v) => Ends
  BY DEF Deliver, frameVars
<1>4. \A v : Put(2, <<v>>) => Ends
  BY PutsAny
<1>5. \A v : stack' = Append(Popped(stack, 2), v) /\ Advance /\ UNCHANGED <<frameVars, dataVars>> => Ends
  BY DEF frameVars
<1>6. Ends => Becomes(0 - 1)
  <2>1. ASSUME NEW v, stack' = Append(Popped(stack, 2), v), Advance, UNCHANGED frameVars
        PROVE  Becomes(0 - 1)
    <3>1. Becomes(1 - 2)
      BY <1>2, <2>1, Appends
    <3>2. 1 - 2 = 0 - 1
      OBVIOUS
    <3> QED BY <3>1, <3>2
  <2> QED BY <1>2, <2>1, Combines
<1> HIDE DEF Ends
<1>7. GetProperty => Stops \/ Ends
  BY <1>2, <1>3, <1>5, Stopping DEF GetProperty, Exact, Underflow, Check
<1>8. GetStaticProperty => Stops \/ Ends
  BY <1>2, <1>3, <1>4, Stopping DEF GetStaticProperty, Exact, Underflow, Check
<1>9. GetAttribute => Stops \/ Ends
  BY <1>2, <1>3, Stopping DEF GetAttribute, Dict, Exact, Underflow, Check
<1> QED BY <1>2, <1>6, <1>7, <1>8, <1>9, BecomesObeys DEF Obeys

LEMMA FunctionLookupsObey == ASSUME FInv, Fitting, GetFunction \/ GetStaticFunction PROVE Obeys
<1>1. IInv /\ Ins.op \in {"GET_FUNCTION", "GET_STATIC_FUNCTION"} /\ Ins.a \in Nat /\ Len(stack) \in Nat
  BY Fits DEF GetFunction, GetStaticFunction, At, JumpCodes
<1>2. Costs(Ins.a + 2, 1) /\ Ins.op \notin Tested
  BY <1>1, OtherCosts, TestedAre
<1>3. Ins.a + 2 <= Len(stack)
  BY <1>1, <1>2, Fits
<1>4. Ins.a + 1 <= Len(stack) /\ Ins.a + 1 + 1 <= Len(stack)
  BY <1>1, <1>3
<1>5. FoundFunction => Puts(0)
  BY PutsAny DEF FoundFunction
<1>6. Stops \/ FoundFunction
  BY <1>4, Stopping DEF GetFunction, GetStaticFunction, Exact, Underflow, Check
<1>7. Stops \/ Becomes(1)
  BY <1>1, <1>5, <1>6, Pushes
<1> QED BY <1>1, <1>2, <1>7, BecomesObeys DEF Obeys

LEMMA LookupPropertyObeys == ASSUME FInv, Fitting, LookupProperty PROVE Obeys
<1> DEFINE vs == <<Bw(stack, 1), Of("uint32", "pos"), Of("field", "nil")>>
<1>1. IInv /\ Ins.op = "LOOKUP_PROPERTY" /\ Len(stack) \in Nat /\ stack \in Seq(Sound)
  BY Fits, Depth DEF LookupProperty, At
<1>2. Costs(2, 0) /\ Costs(2, 2) /\ Ins.op \notin Tested
  BY <1>1, DropCosts, TestedAre
<1>3. 2 <= Len(stack) /\ 1 <= Len(stack) /\ 0 + 1 <= Len(stack)
  BY <1>1, <1>2, Fits
<1>4. Stops \/ Put(1, vs) \/ Puts(1)
  BY <1>3, Stopping, PutsAny DEF LookupProperty, Exact, Underflow, Check
<1>5. ASSUME Put(1, vs) PROVE Becomes(2)
  <2> DEFINE S == Sound \cup {vs[1], vs[2], vs[3]}
             rest == Popped(stack, 1)
  <2>1. rest \in Seq(Sound) /\ Len(rest) = Len(stack) - 1
    BY <1>1, <1>3, Pops
  <2>2. vs \in Seq(S) /\ Len(vs) = 3
    OBVIOUS
  <2>3. Sound \subseteq S
    OBVIOUS
  <2> HIDE DEF vs, S, rest
  <2>4. rest \in Seq(S)
    BY <2>1, <2>3
  <2>5. Len(rest \o vs) = Len(rest) + Len(vs)
    BY <2>2, <2>4, Joined
  <2>6. Len(rest \o vs) = Len(stack) + 2
    BY <1>1, <2>1, <2>2, <2>5
  <2> QED BY <1>5, <2>6 DEF Put, Becomes, rest
<1> HIDE DEF vs
<1>6. Stops \/ Becomes(2) \/ Becomes(0)
  BY <1>1, <1>3, <1>4, <1>5, Replaces
<1> QED BY <1>1, <1>2, <1>6, BecomesObeys DEF Obeys

LEMMA SetAttributeObeys == ASSUME FInv, Fitting, SetAttribute PROVE Obeys
<1>1. IInv /\ Ins.op = "SET_ATTRIBUTE" /\ Len(stack) \in Nat
  BY Fits DEF SetAttribute, At
<1>2. Costs(3, 0 - 3) /\ Ins.op \notin Tested
  BY <1>1, DropCosts, TestedAre
<1>3. 3 <= Len(stack) /\ 1 + 1 <= Len(stack) /\ 2 + 1 <= Len(stack)
  BY <1>1, <1>2, Fits
<1>4. Stops \/ Put(3, << >>)
  BY <1>3, Stopping DEF SetAttribute, Dict, Exact, Underflow, Check
<1>5. Stops \/ Becomes(0 - 3)
  BY <1>1, <1>3, <1>4, PutsNothing
<1> QED BY <1>1, <1>2, <1>5, BecomesObeys DEF Obeys
-----------------------------------------------------------------------------
LEMMA JumpObeys == ASSUME FInv, Fitting, Jump PROVE Obeys
<1> DEFINE to == Act.pc + 1 + Ins.a
<1>1. AtWork /\ Ins.op = "JMP_32" /\ Len(stack) \in Nat
  BY Fits DEF Jump, At
<1>2. to \in Nat
  BY <1>1, Fits, Operand DEF JumpCodes
<1>3. Goto(to) /\ Len(stack') = Len(stack) + 0 /\ UNCHANGED <<exc, frameVars>>
  BY <1>1 DEF Jump
<1>4. to \in Follow(Ins, Act.pc) /\ 0 \in Balance(Ins) /\ Ins.op \notin Tested
  BY <1>1 DEF Follow, Balance, Tested, Untested, Combine, Drop, Binary, BinaryTyped
<1> HIDE DEF to
<1>5. Goes(to, 0)
  BY <1>1, <1>2, <1>3, <1>4 DEF Goes
<1> QED BY <1>2, <1>5 DEF Obeys

LEMMA JumpCondObeys == ASSUME FInv, Fitting, JumpCond PROVE Obeys
<1> DEFINE far == Act.pc + 1 + Ins.a
           to == Act.pc + 1 + IF Bw(stack, 0).content = JumpsOn(Ins.op) THEN Ins.a ELSE 0
           Result == /\ Goto(to)
                     /\ stack' = Popped(stack, 1)
                     /\ UNCHANGED <<frameVars, vals0, exc, dataVars>>
<1>1. /\ AtWork /\ IInv /\ Len(stack) \in Nat /\ stack \in Seq(Sound) /\ Act.pc + 1 \in Nat
      /\ Ins.op \in {"JMP_32_IF", "JMP_32_IF_NOT", "JMP_32_IF_ZERO", "JMP_32_IF_POSITIVE", "JMP_32_IF_NEGATIVE"}
  BY Fits, Depth DEF JumpCond, At
<1>2. Exact(0, JumpType(Ins.op), Result)
  BY DEF JumpCond
<1>3. /\ Asks(Ins) = 1 /\ 0 - 1 \in Balance(Ins) /\ Follow(Ins, Act.pc) = {Act.pc + 1, far}
      /\ Ins.op \notin Tested /\ Ins.op # "SET_PROPERTY"
  BY <1>1 DEF Asks, Follow, Balance, Tested, Untested, Combine, Drop, Indexed, Binary, BinaryTyped, JumpCodes
<1>4. 1 <= Len(stack) /\ 0 + 1 <= Len(stack)
  BY <1>1, <1>3, Fits DEF Fitting
<1>5. far \in Nat
  BY <1>1, Operand DEF JumpCodes
<1>6. to \in {Act.pc + 1, far}
  <2>1. Act.pc + 1 + 0 = Act.pc + 1
    BY <1>1
  <2> QED BY <2>1
<1>7. Ins.op = "JMP_32_IF" /\ to # far => Bw(stack, 0) # Truth(TRUE)
  BY DEF JumpsOn, Truth, Of
<1> HIDE DEF Result
<1>8. Stops \/ Result
  BY <1>2, <1>4, Stopping DEF Exact, Underflow, Check
<1>9. ASSUME Result PROVE Goes(to, 0 - 1)
  <2>1. Len(stack') = Len(stack) + (0 - 1)
    BY <1>1, <1>4, <1>9, Pops DEF Result
  <2>2. to \in Nat
    BY <1>1, <1>5, <1>6
  <2> QED BY <1>3, <1>6, <1>7, <1>9, <2>1, <2>2 DEF Goes, Result
<1> HIDE DEF to
<1> QED BY <1>1, <1>5, <1>6, <1>8, <1>9 DEF Obeys

LEMMA SetPropertyObeys == ASSUME FInv, Fitting, SetProperty PROVE Obeys
<1> DEFINE Sets(set) == /\ stack' = Append(Popped(stack, IF set THEN 3 ELSE 0), Truth(set))
                        /\ vals0' \in {vals0, Null}
                        /\ Advance
                        /\ UNCHANGED <<frameVars, dataVars>>
           Result == \E set \in BOOLEAN : Sets(set)
<1>1. /\ AtWork /\ IInv /\ Len(stack) \in Nat /\ Act.pc + 1 \in Nat /\ stack \in Seq(Sound)
      /\ Ins.op = "SET_PROPERTY"
  BY Fits, Depth DEF SetProperty, At
<1>2. Exact(1, "string", Underflow(3, Check(Bw(stack, 2) # Null, "NULL_DEREFERENCE", Result)))
  BY DEF SetProperty
<1>3. /\ Asks(Ins) = 3 /\ Balance(Ins) = {0 - 2, 1} /\ Follow(Ins, Act.pc) = {Act.pc + 1}
      /\ Ins.op \notin Tested
  BY <1>1 DEF Asks, Follow, Balance, Tested, Untested, Combine, Drop, Indexed, Binary, BinaryTyped, JumpCodes
<1>4. 3 <= Len(stack) /\ 1 + 1 <= Len(stack)
  BY <1>1, <1>3, Fits DEF Fitting
<1>5. ASSUME NEW set \in BOOLEAN, Sets(set)
      PROVE  \E d \in Int : Goes(Act.pc + 1, d)
  <2> DEFINE n == IF set THEN 3 ELSE 0
             rest == Popped(stack, n)
             d == 1 - n
  <2>1. n \in Nat /\ n <= Len(stack) /\ d \in {0 - 2, 1} /\ (set \/ d = 1)
    BY <1>4
  <2>2. stack' = Append(rest, Truth(set)) /\ Advance /\ UNCHANGED frameVars
    BY <1>5 DEF frameVars
  <2>3. d = 1 - n /\ set \in BOOLEAN
    OBVIOUS
  <2> HIDE DEF n, d
  <2>4. rest \in Seq(Sound) /\ Len(rest) = Len(stack) - n
    BY <1>1, <2>1, Pops
  <2> HIDE DEF rest
  <2>5. Len(Append(rest, Truth(set))) = Len(rest) + 1 /\ Append(rest, Truth(set))[Len(rest) + 1] = Truth(set)
    BY <2>4
  <2>6. Len(stack') = Len(stack) + d /\ Len(stack') - 0 = Len(rest) + 1
    BY <1>1, <2>1, <2>2, <2>3, <2>4, <2>5
  <2>7. d = 1 \/ Bw(stack', 0) = Truth(TRUE)
    <3>1. stack'[Len(rest) + 1] = Truth(set)
      BY <2>2, <2>5
    <3>2. Bw(stack', 0) = Truth(set)
      BY <2>6, <3>1 DEF Bw
    <3> QED BY <2>1, <2>3, <3>2
  <2>8. Goes(Act.pc + 1, d)
    BY <1>1, <1>3, <2>1, <2>2, <2>6, <2>7 DEF Goes, Advance
  <2> QED BY <2>1, <2>8
<1> HIDE DEF Sets
<1>6. Stops \/ Result
  <2> HIDE DEF Result
  <2> QED BY <1>2, <1>4, Stopping DEF Exact, Underflow, Check
<1> QED BY <1>1, <1>5, <1>6 DEF Obeys
-----------------------------------------------------------------------------
(***************************************************************************)
(* All together.  Four actions have effects of their own: a new frame, the *)
(* end of one, a call and a returned value.                                *)
(***************************************************************************)
Framing == PushFrame \/ PopFrame \/ Invoke \/ ReturnValue \/ EndOfCall \/ EndOfHostRun

LEMMA StepsObey == ASSUME FInv, Fitting, Step PROVE Framing \/ Obeys
<1>1. CASE Runs
  BY <1>1, ReturnObeys DEF Runs, Framing
<1>2. CASE Control
  BY <1>2, ExceptionObeys, ExceptionIfTypeIsNotObeys, NopObeys, JumpObeys, JumpCondObeys DEF Control, Framing
<1>3. CASE Moves
  BY <1>3, PopObeys, RemoveObeys, PushesObey, DuplicateObeys, DuplicateFrameObeys, ExchangesObey DEF Moves
<1>4. CASE Data
  BY <1>4, PushesObey, StoresObey, ClosureObeys DEF Data
<1>5. CASE Typing
  BY <1>5, TypeObeys, TypeImmediateObeys, TypeOfObeys, PromoteObeys, UnaryObeys DEF Typing
<1>6. CASE Operators
  BY <1>6, EqualObeys, CompareObeys, UnaryObeys, LogicalBinaryObeys, ArithmeticObeys, MinMaxObeys DEF Operators
<1>7. CASE Objects
  BY <1>7, UnaryObeys, LoadArrayElementObeys, WriteArrayElementObeys, GetInterfaceObeys, GetGlobalObeys, LookupsObey,
     FunctionLookupsObey, SetPropertyObeys, LookupPropertyObeys, SetAttributeObeys DEF Objects
<1> QED BY <1>1, <1>2, <1>3, <1>4, <1>5, <1>6, <1>7 DEF Step

\* A step of the runs is one of a run at work or the end of one.
LEMMA StepsAreAtWork == ASSUME IInv, Step PROVE AtWork \/ EndOfCall \/ EndOfHostRun
<1>1. Ordinary \/ Special
  BY Steps
<1>2. Special => AtWork \/ EndOfCall \/ EndOfHostRun
  BY DEF Special, AtWork, At, PushFrame, PopFrame, ReturnValue, Invoke, StoreValue, StoreCapture, Closure
<1> QED BY <1>1, <1>2 DEF Ordinary

\* What an instruction reaches, it asks for; what INVOKE reaches is up to the
\* function it calls.
LEMMA AsksEnough ==
  ASSUME FInv, AtWork, CallsFit, Asks(Ins) <= Len(stack) - Frame
  PROVE  Reach <= Len(stack) - Frame
<1>1. /\ IInv /\ Len(stack) \in Nat /\ Frame \in Nat /\ Ins.a \in Int /\ Ins.b \in Nat
      /\ (Ins.op \notin JumpCodes => Ins.a \in Nat)
  BY Levels, Operand DEF FInv, StackedFrames
<1>2. CASE Ins.op = "INVOKE"
  BY <1>2 DEF CallsFit, At, AtWork
<1>3. CASE Ins.op = "EXCHANGE_FRAME"
  BY <1>1, <1>3 DEF Reach, JumpCodes
<1>4. CASE Ins.op \in {"POP", "PUSH_FRAME", "EXCHANGE", "PROMOTE", "CLOSURE", "REMOVE"}
  <2>1. Ins.a \in Nat
    BY <1>1, <1>4 DEF JumpCodes
  <2>2. Reach <= Asks(Ins)
    BY <1>1, <1>4, <2>1 DEF Reach, Asks, Indexed
  <2>3. Reach \in Int /\ Asks(Ins) \in Int
    BY <1>1, <1>4, <2>1 DEF Reach, Asks, Indexed
  <2> QED BY <1>1, <2>2, <2>3
<1>5. CASE Ins.op \in TakeOne \cup TakeTwo \cup {"SET_PROPERTY", "SET_ATTRIBUTE"}
  <2>1. Ins.op \in TakeOne => Reach = 1
    BY DEF Reach, TakeOne
  <2>2. Ins.op \in TakeTwo => Reach = 2
    BY DEF Reach, TakeOne, TakeTwo, Binary, BinaryTyped
  <2>3. Ins.op \in {"SET_PROPERTY", "SET_ATTRIBUTE"} => Reach = 3
    BY DEF Reach, TakeOne, TakeTwo, Binary, BinaryTyped
  <2>4. Ins.op \in {"TYPE_EQUALS", "TYPE_IS", "TYPE_IS_SUPER", "TYPE_IMPLEMENTS"} => Asks(Ins) = Ins.a + 1 /\ Ins.a \in Nat
    BY <1>1 DEF Asks, Indexed, JumpCodes
  <2>5. Ins.op \in TakeOne \ {"TYPE_EQUALS", "TYPE_IS", "TYPE_IS_SUPER", "TYPE_IMPLEMENTS"} => Asks(Ins) \in {1, 2}
    BY DEF Asks, TakeOne, Indexed, Drop, Combine, Binary, BinaryTyped
  <2>6. Ins.op \in TakeTwo => Asks(Ins) \in {2, 3}
    BY DEF Asks, TakeTwo, Indexed, Drop, Combine, Binary, BinaryTyped
  <2>7. Ins.op \in {"SET_PROPERTY", "SET_ATTRIBUTE"} => Asks(Ins) = 3
    BY DEF Asks, Indexed, Drop, Combine, Binary, BinaryTyped
  <2>8. \/ Reach = 1 /\ Asks(Ins) \in Int /\ 1 <= Asks(Ins)
        \/ Reach = 2 /\ Asks(Ins) \in Int /\ 2 <= Asks(Ins)
        \/ Reach = 3 /\ Asks(Ins) = 3
    BY <1>5, <2>1, <2>2, <2>3, <2>4, <2>5, <2>6, <2>7
  <2> QED BY <1>1, <2>8
<1>6. CASE Ins.op \notin {"INVOKE", "EXCHANGE_FRAME", "POP", "PUSH_FRAME", "EXCHANGE", "PROMOTE", "CLOSURE", "REMOVE"}
                         \cup TakeOne \cup TakeTwo \cup {"SET_PROPERTY", "SET_ATTRIBUTE"}
  <2>1. Reach = 0
    BY <1>6 DEF Reach
  <2>2. Asks(Ins) \in Nat
    BY <1>1 DEF Asks, Indexed, Drop, Combine, Binary, BinaryTyped, JumpCodes
  <2> QED BY <1>1, <2>1, <2>2
<1> QED BY <1>2, <1>3, <1>4, <1>5, <1>6
=============================================================================
