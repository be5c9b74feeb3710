--------------------------- MODULE AzoMachineProofs ---------------------------
(***************************************************************************)
(* Proofs about the interpreter, for any programs made of instructions as  *)
(* CodeAssumption says, any limits and any number of runs: what it moves   *)
(* is always typed, and an exception never leaves the run that threw it.   *)
(*                                                                         *)
(* TypeOK is not inductive: a function on the stack must refer to a        *)
(* closure that exists, of a program that exists, and a run must be one of *)
(* the program its closure belongs to, or its operands reach past the data *)
(* block.  IInv says so of every value, wherever it is kept.               *)
(*                                                                         *)
(* Forty-one of the handlers are ordinary: they throw, or go on with a     *)
(* stack changed no deeper than Reach.  One lemma each says that; what     *)
(* ordinary handlers keep is then proved once.                             *)
(***************************************************************************)
EXTENDS AzoMachine, TLAPS

(***************************************************************************)
(* What is sound when there are n closures: a value that refers to what    *)
(* exists, and an entry of a data block that holds one.                    *)
(***************************************************************************)
Valid(n) == {v \in Values : Known(v, n)}
Sound == Valid(Len(closures))
SoundEntries == [val : Sound, set : BOOLEAN]

SharedSize(p) == NCaptures[p] + Len(Constants[p])
StaticBlocks == UNION {[1 .. NStatic[p] -> Entries] : p \in Progs}
Closures == [prog : Progs, snapshot : Seq(Values), static : StaticBlocks]

StacksInv ==
  /\ stack \in Seq(Sound) /\ vals0 \in Sound
  /\ frames \in Seq(Nat) /\ size_frames \in Nat \ {0}
  /\ exc \in [type : Exceptions, ipc : Nat] /\ runs \in 0 .. MaxRuns

CallsInv ==
  /\ calls \in Seq(Activations)
  /\ \A k \in 1 .. Len(calls) :
       calls[k].closure > 0 => closures[calls[k].closure].prog = calls[k].prog

DataInv ==
  /\ closures \in Seq(Closures)
  /\ \A c \in 1 .. Len(closures) : closures[c].static \in [1 .. NStatic[closures[c].prog] -> SoundEntries]
  /\ DOMAIN shared = Progs
  /\ \A p \in Progs : shared[p] \in [1 .. SharedSize(p) -> SoundEntries]

\* The inductive invariant.
IInv == StacksInv /\ CallsInv /\ DataInv /\ ExceptionConfined
-----------------------------------------------------------------------------
(***************************************************************************)
(* Values.                                                                 *)
(***************************************************************************)
LEMMA ValidGrows ==
  ASSUME NEW m \in Nat, NEW n \in Nat, m <= n
  PROVE  Valid(m) \subseteq Valid(n) /\ Seq(Valid(m)) \subseteq Seq(Valid(n))
<1>1. Valid(m) \subseteq Valid(n)
  BY DEF Valid, Known
<1> QED BY <1>1

\* Values that refer to nothing are sound whatever exists.
PlainTypes == ValueTypes \ {"function", "program", "native"}

LEMMA PlainValues == \A t \in PlainTypes, c \in Contents, n \in Nat : Of(t, c) \in Valid(n)
BY DEF PlainTypes, Of, Valid, Values, Known

LEMMA PlainTypesAre ==
  Primitive \cup {"none", "string", "class", "array", "dict", "thing", "boxed", "field", "block"} \subseteq PlainTypes
BY DEF PlainTypes, ValueTypes, Primitive, Numeric, Ordered, Integral, Small, Complex, Functions

LEMMA NumericTypesAre == Numeric \cup {"bool", "int32", "uint32"} \subseteq PlainTypes
BY PlainTypesAre DEF Primitive, Numeric, Ordered, Integral

LEMMA NullAndTruth ==
  \A n \in Nat : Null \in Valid(n) /\ Truth(TRUE) \in Valid(n) /\ Truth(FALSE) \in Valid(n)
<1>1. "none" \in PlainTypes /\ "bool" \in PlainTypes
  BY PlainTypesAre, NumericTypesAre
<1> SUFFICES ASSUME NEW n \in Nat
             PROVE  Of("none", "nil") \in Valid(n) /\ Of("bool", "true") \in Valid(n) /\ Of("bool", "false") \in Valid(n)
  BY DEF Null, Truth
<1>2. {"nil", "true", "false"} \subseteq Contents
  BY DEF Contents
<1> QED BY <1>1, <1>2, PlainValues

LEMMA TruthIsSound ==
  ASSUME NEW n \in Nat, NEW b
  PROVE  Truth(b) \in Valid(n)
<1>1. Truth(b) = Truth(TRUE) \/ Truth(b) = Truth(FALSE)
  BY DEF Truth
<1> QED BY <1>1, NullAndTruth

LEMMA Conversion ==
  ASSUME NEW n \in Nat, NEW x \in Valid(n), NEW t, Convertible(x, t)
  PROVE  Converted(x, t) \in Valid(n)
<1>1. CASE IsA(x.type, t) \/ t = "any"
  BY <1>1 DEF Converted
<1>2. CASE ~(IsA(x.type, t) \/ t = "any")
  <2>1. t \in Numeric
    BY <1>2 DEF Convertible
  <2>2. t \in PlainTypes
    BY <2>1, NumericTypesAre
  <2>3. \A c \in Contents : Of(t, c) \in Valid(n)
    BY <2>2, PlainValues
  <2>4. (IF x.content \in Signs THEN x.content ELSE "pos") \in Contents
    BY DEF Valid, Values, Contents, Signs
  <2>5. Converted(x, t) = Of(t, IF x.content \in Signs THEN x.content ELSE "pos")
    BY <1>2 DEF Converted
  <2> QED BY <2>3, <2>4, <2>5
<1> QED BY <1>1, <1>2

LEMMA HostHandsOver ==
  ASSUME NEW n \in Nat
  PROVE  Foreign \subseteq Valid(n) /\ \A key : Global(key) \in Valid(n)
<1>1. HostValues \subseteq Valid(n)
  BY DEF HostValues, Valid, Known
<1>2. Null \in Valid(n)
  BY NullAndTruth
<1> QED BY <1>1, <1>2, HostAssumption DEF Global

LEMMA ClosuresAreValues ==
  ASSUME NEW n \in Nat, NEW c \in 1 .. n
  PROVE  FunctionOf(c) \in Valid(n)
<1>1. FunctionOf(c) \in Values
  BY DEF FunctionOf, Values, ValueTypes, Functions, Contents
<1>2. Known(FunctionOf(c), n)
  BY DEF FunctionOf, Known
<1> QED BY <1>1, <1>2 DEF Valid
-----------------------------------------------------------------------------
(***************************************************************************)
(* What follows from being at an instruction.                              *)
(***************************************************************************)
AtWork == calls # << >> /\ Act.pc \in DOMAIN Code[Act.prog]

LEMMA Located ==
  ASSUME IInv, AtWork
  PROVE  /\ Len(calls) \in Nat /\ Len(calls) >= 1 /\ Act \in Activations
         /\ Act.prog \in Progs /\ Act.pc \in Nat /\ Act.pc \in DOMAIN Code[Act.prog] /\ Act.pc + 1 \in Nat
         /\ Ins \in Instructions
<1>1. calls \in Seq(Activations) /\ calls # << >>
  BY DEF IInv, CallsInv, AtWork
<1>2. Len(calls) \in Nat /\ Len(calls) >= 1 /\ Act \in Activations
  BY <1>1 DEF Act
<1>3. Act.prog \in Progs /\ Act.pc \in Nat
  BY <1>2 DEF Activations
<1>4. Act.pc \in DOMAIN Code[Act.prog]
  BY DEF AtWork
<1>5. Code[Act.prog] \in Seq(Instructions)
  BY <1>3, CodeAssumption
<1>6. Ins \in Instructions
  BY <1>4, <1>5 DEF Ins
<1> QED BY <1>1, <1>2, <1>3, <1>4, <1>6

LEMMA Operand ==
  ASSUME IInv, AtWork
  PROVE  /\ Ins.a \in Int /\ Ins.b \in Nat /\  Ins.v \in Values
         /\ Ins.op \notin JumpCodes => Ins.a \in Nat
         /\ Ins.op \in JumpCodes => Act.pc + 1 + Ins.a \in Nat
         /\ Ins.op \in {"PUSH_VALUE", "STORE_VALUE"} => Ins.a < SharedSize(Act.prog)
         /\ Ins.op \in {"PUSH_CAPTURE", "STORE_CAPTURE"} => Ins.a < NStatic[Act.prog]
         /\ Ins.op \in {"EXCEPTION", "EXCEPTION_IF", "EXCEPTION_IF_NOT"} => Ins.t \in Exceptions
         /\ Ins.op = "PUSH_EMPTY" => Ins.t \in Types \ {"function", "program", "native"}
<1>1. Act.prog \in Progs /\ Act.pc \in DOMAIN Code[Act.prog] /\ Ins \in Instructions
  BY Located
<1> QED BY <1>1, CodeAssumption DEF Ins, Instructions, SharedSize

LEMMA Depth ==
  ASSUME IInv
  PROVE  /\ Len(stack) \in Nat /\ Len(frames) \in Nat /\ Len(calls) \in Nat /\ Len(closures) \in Nat
         /\ stack \in Seq(Sound) /\ vals0 \in Sound
BY DEF IInv, StacksInv, CallsInv, DataInv
-----------------------------------------------------------------------------
(***************************************************************************)
(* What an ordinary instruction does: it throws, or it changes the reach   *)
(* of the stack and goes on.                                               *)
(***************************************************************************)
Throws == \E type \in Exceptions : Throw(type)

Kept(s, n) == Len(s) >= n /\ \A i \in 1 .. n : s[i] = stack[i]

Proceeds ==
  /\ stack' \in Seq(Sound) /\ vals0' \in Sound /\ Kept(stack', Len(stack) - Reach)
  /\ \E pc \in Nat : Goto(pc)
  /\ UNCHANGED <<exc, frameVars, dataVars>>

LEMMA Throwing ==
  /\ \A type \in Exceptions : Throw(type) => Throws
  /\ Throw("SYSTEM") => Throws
  /\ Throw("STACK_OVERFLOW") => Throws
  /\ Throw("INVALID_TYPE") => Throws
  /\ Throw("INVALID_CONVERSION") => Throws
  /\ Throw("NULL_DEREFERENCE") => Throws
  /\ Throw("OUT_OF_BOUNDS") => Throws
  /\ Throw("INVALID_VALUE") => Throws
BY DEF Throws, Exceptions

LEMMA ReachOf ==
  /\ Ins.op \in {"POP", "PUSH_FRAME"} => Reach = Ins.a
  /\ Ins.op \in {"EXCHANGE", "PROMOTE", "CLOSURE"} => Reach = Ins.a + 1
  /\ Ins.op = "REMOVE" => Reach = Ins.a + Ins.b
  /\ Ins.op = "EXCHANGE_FRAME" => Reach = Len(stack) - Frame - Ins.a
  /\ Ins.op \in TakeOne => Reach = 1
  /\ Ins.op \in TakeTwo => Reach = 2
  /\ Ins.op \in {"SET_PROPERTY", "SET_ATTRIBUTE"} => Reach = 3
BY DEF Reach, TakeOne, TakeTwo, Binary, BinaryTyped

LEMMA FrameIsNat == ASSUME IInv, frames # << >> PROVE Frame \in Nat
BY DEF IInv, StacksInv, Frame

LEMMA OnStack ==
  ASSUME IInv, NEW pos \in Nat, pos < Len(stack)
  PROVE  Bw(stack, pos) \in Sound /\ Bw(stack, pos) \in Values
BY DEF IInv, StacksInv, Bw, Sound, Valid

\* Instructions that only push, or leave the stack alone.
LEMMA ReachesNothing ==
  ASSUME Ins.op \in {"EXCEPTION", "EXCEPTION_IF_TYPE_IS_NOT", "NOP", "DEBUG", "DEBUG_STR", "PUSH_EMPTY", "PUSH_IMMEDIATE",
                     "DUPLICATE", "DUPLICATE_FRAME", "PUSH_VALUE", "PUSH_CAPTURE", "TYPE_EQUALS_IMMEDIATE",
                     "TYPE_IS_IMMEDIATE", "TYPE_IS_SUPER_IMMEDIATE", "TYPE_IMPLEMENTS_IMMEDIATE", "TYPE_OF",
                     "TYPE_OF_CLASS", "GET_INTERFACE_IMMEDIATE", "GET_FUNCTION", "GET_STATIC_FUNCTION"}
  PROVE  Reach = 0
BY DEF Reach, TakeOne, TakeTwo, Binary, BinaryTyped

LEMMA PopThenPush ==
  ASSUME NEW S, NEW s \in Seq(S), NEW t \in Seq(S), NEW n \in Nat, n <= Len(s)
  PROVE  /\ Popped(s, n) \o t \in Seq(S) /\ Len(Popped(s, n) \o t) = Len(s) - n + Len(t)
         /\ \A i \in 1 .. Len(s) - n : (Popped(s, n) \o t)[i] = s[i]
         /\ Popped(s, n) \in Seq(S) /\ Len(Popped(s, n)) = Len(s) - n
         /\ \A i \in 1 .. Len(s) - n : Popped(s, n)[i] = s[i]
BY DEF Popped

LEMMA Pops ==
  ASSUME NEW S, NEW s \in Seq(S), NEW n \in Nat, n <= Len(s)
  PROVE  /\ Popped(s, n) \in Seq(S) /\ Len(Popped(s, n)) = Len(s) - n
         /\ \A i \in 1 .. Len(s) - n : Popped(s, n)[i] = s[i]
BY DEF Popped

LEMMA Topmost ==
  ASSUME NEW S, NEW s \in Seq(S), NEW n \in Nat, n <= Len(s)
  PROVE  SubSeq(s, Len(s) - n + 1, Len(s)) \in Seq(S)
<1>1. \A i \in Len(s) - n + 1 .. Len(s) : i \in 1 .. Len(s)
  OBVIOUS
<1>2. \A i \in Len(s) - n + 1 .. Len(s) : s[i] \in S
  BY <1>1
<1> QED BY <1>1, <1>2

LEMMA Joined ==
  ASSUME NEW S, NEW s \in Seq(S), NEW t \in Seq(S)
  PROVE  /\ s \o t \in Seq(S) /\ Len(s \o t) = Len(s) + Len(t)
         /\ \A i \in 1 .. Len(s) : (s \o t)[i] = s[i]
OBVIOUS

RemovedWell(s, first, n) ==
  /\ Removed(s, first, n) \in Seq(Sound) /\ Len(Removed(s, first, n)) = Len(s) - n
  /\ \A i \in 1 .. first : Removed(s, first, n)[i] = s[i]

LEMMA RemovedKeeps ==
  ASSUME NEW s \in Seq(Sound), NEW first \in Nat, NEW n \in Nat, first + n <= Len(s)
  PROVE  RemovedWell(s, first, n)
<1> DEFINE below == SubSeq(s, 1, first)
           above == SubSeq(s, first + n + 1, Len(s))
<1>1. below \in Seq(Sound) /\ Len(below) = first /\ \A i \in 1 .. first : below[i] = s[i]
  OBVIOUS
<1>2. above \in Seq(Sound) /\ Len(above) = Len(s) - (first + n)
  OBVIOUS
<1>3. Removed(s, first, n) = below \o above
  BY DEF Removed
<1> HIDE DEF below, above
<1>4. /\ Removed(s, first, n) \in Seq(Sound) /\ Len(Removed(s, first, n)) = first + Len(above)
      /\ \A i \in 1 .. first : Removed(s, first, n)[i] = below[i]
  BY <1>1, <1>2, <1>3, Joined
<1> QED BY <1>1, <1>2, <1>4 DEF RemovedWell

LEMMA ExchangedKeeps ==
  ASSUME NEW S, NEW s \in Seq(S), NEW pos \in Nat, pos < Len(s)
  PROVE  /\ Exchanged(s, pos) \in Seq(S) /\ Len(Exchanged(s, pos)) = Len(s)
         /\ pos <= Len(s) /\ \A i \in 1 .. pos : Exchanged(s, pos)[i] = s[i]
BY DEF Exchanged

LEMMA DuplicatedKeeps ==
  ASSUME NEW S, NEW s \in Seq(S), NEW pos \in Nat, pos < Len(s)
  PROVE  /\ Duplicated(s, pos) \in Seq(S) /\ Len(Duplicated(s, pos)) = Len(s) + 1
         /\ \A i \in 1 .. Len(s) : Duplicated(s, pos)[i] = s[i]
BY DEF Duplicated

LEMMA PutProceeds ==
  ASSUME IInv, AtWork, NEW n \in Nat, NEW vs \in Seq(Sound), n <= Len(stack), n <= Reach, Reach \in Nat,
         Put(n, vs)
  PROVE  Proceeds
<1>1. stack \in Seq(Sound) /\ Len(stack) \in Nat /\ vals0 \in Sound
  BY DEF IInv, StacksInv
<1>2. stack' = Popped(stack, n) \o vs /\ Goto(Act.pc + 1) /\ UNCHANGED <<exc, frameVars, vals0, dataVars>>
  BY DEF Put, Advance
<1>3. stack' \in Seq(Sound) /\ Kept(stack', Len(stack) - Reach)
  BY <1>1, <1>2, PopThenPush DEF Kept
<1> QED BY <1>1, <1>2, <1>3, Located DEF Proceeds

LEMMA PutOneProceeds ==
  ASSUME IInv, AtWork, NEW n \in Nat, NEW v \in Sound, n <= Len(stack), n <= Reach, Reach \in Nat,
         Put(n, <<v>>)
  PROVE  Proceeds
<1>1. <<v>> \in Seq(Sound)
  OBVIOUS
<1> QED BY <1>1, PutProceeds

LEMMA PutNothingProceeds ==
  ASSUME IInv, AtWork, NEW n \in Nat, n <= Len(stack), n <= Reach, Reach \in Nat, Put(n, << >>)
  PROVE  Proceeds
<1>1. << >> \in Seq(Sound)
  OBVIOUS
<1> QED BY <1>1, PutProceeds

\* The ways most instructions end: n values go, and one comes or none.
Takes(n) == n <= Len(stack) /\ Put(n, << >>)
Gives(n) == n <= Len(stack) /\ \E v \in Sound : Put(n, <<v>>)
Leave(n, v, w) ==
  /\ stack' = Append(Popped(stack, n), v) /\ vals0' = w
  /\ Advance /\ UNCHANGED <<frameVars, dataVars>>
Leaves(n) == n <= Len(stack) /\ \E v, w \in Sound : Leave(n, v, w)

LEMMA TakesProceeds ==
  ASSUME IInv, AtWork, NEW n \in Nat, n <= Reach, Reach \in Nat, Takes(n)
  PROVE  Proceeds
BY PutNothingProceeds DEF Takes

LEMMA GivesProceeds ==
  ASSUME IInv, AtWork, NEW n \in Nat, n <= Reach, Reach \in Nat, Gives(n)
  PROVE  Proceeds
BY PutOneProceeds DEF Gives

LEMMA LeavesProceeds ==
  ASSUME IInv, AtWork, NEW n \in Nat, n <= Reach, Reach \in Nat, Leaves(n)
  PROVE  Proceeds
<1>1. stack \in Seq(Sound) /\ Len(stack) \in Nat /\ n <= Len(stack)
  BY DEF IInv, StacksInv, Leaves
<1>2. PICK v \in Sound, w \in Sound : Leave(n, v, w)
  BY DEF Leaves
<1>3. stack' = Append(Popped(stack, n), v) /\ vals0' = w /\ Goto(Act.pc + 1) /\ UNCHANGED <<exc, frameVars, dataVars>>
  BY <1>2 DEF Leave, Advance
<1>4. stack' \in Seq(Sound) /\ Kept(stack', Len(stack) - Reach)
  BY <1>1, <1>3, PopThenPush, SMTT(20) DEF Kept
<1> QED BY <1>3, <1>4, Located DEF Proceeds

LEMMA RearrangeProceeds ==
  ASSUME IInv, AtWork, NEW s \in Seq(Sound), Kept(s, Len(stack) - Reach), Rearrange(s)
  PROVE  Proceeds
<1>1. vals0 \in Sound
  BY DEF IInv, StacksInv
<1>2. stack' = s /\ Goto(Act.pc + 1) /\ UNCHANGED <<exc, frameVars, vals0, dataVars>>
  BY DEF Rearrange, Advance
<1> QED BY <1>1, <1>2, Located DEF Proceeds
-----------------------------------------------------------------------------
(***************************************************************************)
(* The instructions one by one.                                            *)
(***************************************************************************)
LEMMA PopOrdinary == ASSUME IInv, Pop PROVE Throws \/ Proceeds
<1>1. AtWork /\ Ins.op = "POP"
  BY DEF Pop, At, AtWork
<1>2. Ins.a \in Nat /\ Reach = Ins.a
  BY <1>1, Operand, ReachOf DEF JumpCodes
<1>3. Throws \/ Takes(Ins.a)
  BY Throwing DEF Pop, Underflow, Check, Takes
<1> QED BY <1>1, <1>2, <1>3, TakesProceeds

LEMMA ExceptionOrdinary == ASSUME IInv, Exception PROVE Throws \/ Proceeds
<1> DEFINE ok == (Bw(stack, 0) = Truth(TRUE)) = (Ins.op = "EXCEPTION_IF_NOT")
<1>1. AtWork /\ Ins.op \in {"EXCEPTION", "EXCEPTION_IF", "EXCEPTION_IF_NOT"} /\ Ins.t \in Exceptions
  BY Operand DEF Exception, At, AtWork
<1>2. Throw(Ins.t) => Throws
  BY <1>1, Throwing
<1>3. IF Ins.op = "EXCEPTION" THEN Throw(Ins.t) ELSE Exact(0, "bool", Check(ok, Ins.t, Put(1, << >>)))
  BY DEF Exception
<1> HIDE DEF ok
<1>4. Throws \/ (Ins.op # "EXCEPTION" /\ Takes(1))
  BY <1>2, <1>3, Throwing, Depth DEF Exact, Underflow, Check, Takes
<1>5. Ins.op # "EXCEPTION" => Reach = 1
  BY <1>1, ReachOf DEF TakeOne
<1> QED BY <1>1, <1>4, <1>5, TakesProceeds

LEMMA ExceptionIfTypeIsNotOrdinary == ASSUME IInv, ExceptionIfTypeIsNot PROVE Throws \/ Proceeds
<1>1. AtWork /\ Reach = 0
  BY ReachesNothing DEF ExceptionIfTypeIsNot, At, AtWork
<1>2. Throws \/ Takes(0)
  BY Depth, Throwing DEF ExceptionIfTypeIsNot, Check, Takes
<1> QED BY <1>1, <1>2, TakesProceeds

LEMMA NopOrdinary == ASSUME IInv, Nop PROVE Throws \/ Proceeds
<1>1. AtWork /\ Reach = 0 /\ Takes(0)
  BY ReachesNothing, Depth DEF Nop, At, AtWork, Takes
<1> QED BY <1>1, TakesProceeds

LEMMA PushImmediateOrdinary == ASSUME IInv, PushImmediate PROVE Throws \/ Proceeds
<1>1. AtWork /\ Reach = 0
  BY ReachesNothing DEF PushImmediate, At, AtWork
<1>2. Throws \/ (Ins.v.type \in Primitive \cup {"none"} /\ Put(0, <<Ins.v>>))
  BY Throwing DEF PushImmediate, Overflow, Check
<1>3. Ins.v.type \in Primitive \cup {"none"} => Ins.v \in Sound
  BY <1>1, Operand, PlainTypesAre DEF Sound, Valid, Known, PlainTypes
<1>4. Throws \/ Gives(0)
  BY <1>2, <1>3, Depth DEF Gives
<1> QED BY <1>1, <1>4, GivesProceeds

LEMMA PushEmptyOrdinary == ASSUME IInv, PushEmpty PROVE Throws \/ Proceeds
<1>1. AtWork /\ Reach = 0 /\ Ins.t \in Types \ {"function", "program", "native"}
  BY ReachesNothing, Operand DEF PushEmpty, At, AtWork
<1>2. Throws \/ (Ins.t \notin AbstractTypes /\ Put(0, <<Default(Ins.t)>>))
  BY Throwing DEF PushEmpty, Overflow, Check
<1>3. Ins.t \notin AbstractTypes => Default(Ins.t) \in Sound
  <2>1. SUFFICES ASSUME Ins.t \in PlainTypes PROVE Default(Ins.t) \in Sound
    BY <1>1 DEF Types, PlainTypes
  <2>2. Of(Ins.t, "zero") \in Sound /\ Of(Ins.t, "nil") \in Sound
    BY <2>1, Depth, PlainValues DEF Sound, Contents, Signs
  <2> QED BY <2>2, Depth, NullAndTruth DEF Default, Sound
<1>4. Throws \/ Gives(0)
  BY <1>2, <1>3, Depth DEF Gives
<1> QED BY <1>1, <1>4, GivesProceeds

LEMMA DuplicateOrdinary == ASSUME IInv, Duplicate PROVE Throws \/ Proceeds
<1>1. AtWork /\ Reach = 0 /\ Ins.a \in Nat
  BY ReachesNothing, Operand DEF Duplicate, At, AtWork, JumpCodes
<1>2. Throws \/ (Ins.a + 1 <= Len(stack) /\ Put(0, <<Bw(stack, Ins.a)>>))
  BY Throwing DEF Duplicate, Underflow, Overflow, Check
<1>3. Ins.a + 1 <= Len(stack) => Bw(stack, Ins.a) \in Sound
  BY <1>1, OnStack
<1>4. Throws \/ Gives(0)
  BY <1>2, <1>3, Depth DEF Gives
<1> QED BY <1>1, <1>4, GivesProceeds

LEMMA DuplicateFrameOrdinary == ASSUME IInv, DuplicateFrame PROVE Throws \/ Proceeds
<1>1. AtWork /\ Reach = 0 /\ Ins.a \in Nat
  BY ReachesNothing, Operand DEF DuplicateFrame, At, AtWork, JumpCodes
<1>2. Throws \/ (Frame + Ins.a < Len(stack) /\ Rearrange(Duplicated(stack, Frame + Ins.a)))
  BY Throwing DEF DuplicateFrame, InFrame, Overflow, Check
<1>3. stack \in Seq(Sound) /\ Len(stack) \in Nat /\ Frame + Ins.a \in Nat
  BY <1>1, Depth, FrameIsNat DEF DuplicateFrame, InFrame
<1>4. ASSUME Frame + Ins.a < Len(stack)
      PROVE  Duplicated(stack, Frame + Ins.a) \in Seq(Sound) /\ Kept(Duplicated(stack, Frame + Ins.a), Len(stack) - Reach)
  BY <1>1, <1>3, <1>4, DuplicatedKeeps DEF Kept
<1> QED BY <1>1, <1>2, <1>4, RearrangeProceeds

LEMMA ExchangeOrdinary == ASSUME IInv, Exchange PROVE Throws \/ Proceeds
<1> DEFINE pos == Len(stack) - 1 - Ins.a
<1>1. AtWork /\ Ins.a \in Nat /\ Reach = Ins.a + 1
  BY Operand, ReachOf DEF Exchange, At, AtWork, JumpCodes
<1>2. Throws \/ (Ins.a + 1 <= Len(stack) /\ Rearrange(Exchanged(stack, pos)))
  BY Throwing DEF Exchange, Underflow, Check
<1>3. ASSUME Ins.a + 1 <= Len(stack)
      PROVE  Exchanged(stack, pos) \in Seq(Sound) /\ Kept(Exchanged(stack, pos), Len(stack) - Reach)
  <2>1. stack \in Seq(Sound) /\ pos \in Nat /\ pos < Len(stack) /\ Len(stack) - Reach = pos
    BY <1>1, <1>3, Depth
  <2> HIDE DEF pos
  <2> QED BY <2>1, ExchangedKeeps DEF Kept
<1> HIDE DEF pos
<1> QED BY <1>1, <1>2, <1>3, RearrangeProceeds

LEMMA ExchangeFrameOrdinary == ASSUME IInv, ExchangeFrame PROVE Throws \/ Proceeds
<1> DEFINE pos == Frame + Ins.a
<1>1. AtWork /\ Ins.a \in Nat /\ Reach = Len(stack) - Frame - Ins.a
  BY Operand, ReachOf DEF ExchangeFrame, At, AtWork, JumpCodes
<1>2. Throws \/ (pos < Len(stack) /\ Rearrange(Exchanged(stack, pos)))
  BY Throwing DEF ExchangeFrame, InFrame, Check
<1>3. stack \in Seq(Sound) /\ Len(stack) \in Nat /\ pos \in Nat /\ Len(stack) - Reach = pos
  <2>1. stack \in Seq(Sound) /\ Len(stack) \in Nat /\ Frame \in Nat
    <3>1. frames # << >>
      BY DEF ExchangeFrame, InFrame
    <3> QED BY <3>1, Depth, FrameIsNat
  <2> QED BY <1>1, <2>1
<1> HIDE DEF pos
<1>4. ASSUME pos < Len(stack)
      PROVE  Exchanged(stack, pos) \in Seq(Sound) /\ Kept(Exchanged(stack, pos), Len(stack) - Reach)
  BY <1>3, <1>4, ExchangedKeeps DEF Kept
<1> QED BY <1>1, <1>2, <1>4, RearrangeProceeds

LEMMA LogicalBinaryOrdinary == ASSUME IInv, LogicalBinary PROVE Throws \/ Proceeds
<1> DEFINE v == Truth(Junction(Ins.op, Bw(stack, 1), Bw(stack, 0)))
<1>1. AtWork /\ Reach = 2
  BY ReachOf DEF LogicalBinary, At, AtWork, TakeTwo
<1>2. Throws \/ (2 <= Len(stack) /\ Put(2, <<v>>))
  BY Depth, Throwing DEF LogicalBinary, Exact, Underflow, Check
<1>3. v \in Sound
  BY Depth, TruthIsSound DEF Sound
<1> HIDE DEF v
<1> QED BY <1>1, <1>2, <1>3, PutOneProceeds

LEMMA RemoveOrdinary == ASSUME IInv, Remove PROVE Throws \/ Proceeds
<1> DEFINE first == Len(stack) - Reach
<1>1. AtWork /\ Ins.op = "REMOVE"
  BY DEF Remove, At, AtWork
<1>2. Ins.a \in Nat /\ Ins.b \in Nat /\ Reach = Ins.a + Ins.b
  BY <1>1, Operand, ReachOf DEF JumpCodes
<1>3. Throws \/ (Reach <= Len(stack) /\ Rearrange(Removed(stack, first, Ins.b)))
  BY <1>2, Throwing DEF Remove, Underflow, Check
<1>4. Reach <= Len(stack) => first \in Nat /\ first + Ins.b <= Len(stack)
  BY <1>2, Depth, SMTT(20)
<1> HIDE DEF first
<1>5. ASSUME Reach <= Len(stack)
      PROVE  Removed(stack, first, Ins.b) \in Seq(Sound) /\ Kept(Removed(stack, first, Ins.b), first)
  <2>1. stack \in Seq(Sound) /\ Len(stack) \in Nat /\ Ins.b \in Nat /\ first \in Nat /\ first + Ins.b <= Len(stack)
    BY <1>2, <1>4, <1>5, Depth
  <2>2. RemovedWell(stack, first, Ins.b)
    BY <2>1, RemovedKeeps
  <2> QED BY <2>1, <2>2 DEF Kept, RemovedWell
<1> QED BY <1>1, <1>3, <1>5, RearrangeProceeds DEF first

LEMMA Sizes == \A p \in Progs : SharedSize(p) \in Nat /\ NStatic[p] \in Nat
BY MachineAssumption, CodeAssumption DEF SharedSize

LEMMA SharedSound ==
  ASSUME IInv, NEW p \in Progs, NEW i \in Nat, i < SharedSize(p)
  PROVE  shared[p][i + 1] \in SoundEntries
<1>1. shared[p] \in [1 .. SharedSize(p) -> SoundEntries] /\ SharedSize(p) \in Nat
  BY Sizes DEF IInv, DataInv
<1> QED BY <1>1

LEMMA ClosuresHavePrograms == ASSUME IInv PROVE \A c \in 1 .. Len(closures) : closures[c].prog \in Progs
<1>1. closures \in Seq(Closures)
  BY DEF IInv, DataInv
<1>2. \A x \in Closures : x.prog \in Progs
  BY DEF Closures
<1> QED BY <1>1, <1>2

LEMMA StaticSound ==
  ASSUME IInv, NEW c \in 1 .. Len(closures), NEW i \in Nat, i < NStatic[closures[c].prog]
  PROVE  closures[c].static[i + 1] \in SoundEntries
<1>1. closures[c].prog \in Progs /\ closures[c].static \in [1 .. NStatic[closures[c].prog] -> SoundEntries]
  BY ClosuresHavePrograms DEF IInv, DataInv
<1> QED BY <1>1, Sizes

\* The closure of the executing run is one of its program.
LEMMA OwnClosure ==
  ASSUME IInv, AtWork, Act.closure > 0
  PROVE  Act.closure \in 1 .. Len(closures) /\ closures[Act.closure].prog = Act.prog
<1>1. Act.closure \in 0 .. Len(closures) /\ Len(calls) \in 1 .. Len(calls)
  BY Located DEF Activations
<1> QED BY <1>1, Depth DEF Act, IInv, CallsInv

LEMMA TypeCodeSound == ASSUME IInv, NEW c \in Contents PROVE TypeCode(c) \in Sound
BY Depth, NumericTypesAre, PlainValues DEF TypeCode, Sound

LEMMA PushValueOrdinary == ASSUME IInv, PushValue PROVE Throws \/ Proceeds
<1>1. AtWork /\ Reach = 0 /\ Ins.a \in Nat /\ Ins.a < SharedSize(Act.prog)
  BY ReachesNothing, Operand DEF PushValue, At, AtWork, JumpCodes
<1>2. Throws \/ Put(0, <<shared[Act.prog][Ins.a + 1].val>>)
  BY Throwing DEF PushValue, Overflow, Check
<1>3. shared[Act.prog][Ins.a + 1].val \in Sound
  BY <1>1, Located, SharedSound DEF SoundEntries
<1>4. Throws \/ Gives(0)
  BY <1>2, <1>3, Depth DEF Gives
<1> QED BY <1>1, <1>4, GivesProceeds

LEMMA PushCaptureOrdinary == ASSUME IInv, PushCapture PROVE Throws \/ Proceeds
<1>1. AtWork /\ Reach = 0 /\ Ins.a \in Nat /\ Ins.a < NStatic[Act.prog] /\ Act.closure > 0
  BY ReachesNothing, Operand DEF PushCapture, At, AtWork, JumpCodes
<1>2. Throws \/ Put(0, <<closures[Act.closure].static[Ins.a + 1].val>>)
  BY Throwing DEF PushCapture, Overflow, Check
<1>3. closures[Act.closure].static[Ins.a + 1].val \in Sound
  BY <1>1, OwnClosure, StaticSound DEF SoundEntries
<1>4. Throws \/ Gives(0)
  BY <1>2, <1>3, Depth, SMTT(20) DEF Gives
<1> QED BY <1>1, <1>4, GivesProceeds

LEMMA TypeOrdinary == ASSUME IInv, Type PROVE Throws \/ Proceeds
<1> DEFINE v == Truth(TypeHolds(Ins.op, Bw(stack, Ins.a).type, Bw(stack, 0).content))
<1>1. AtWork /\ Reach = 1
  BY ReachOf DEF Type, At, AtWork, TakeOne
<1>2. v \in Sound
  BY Depth, TruthIsSound DEF Sound
<1>3. Throws \/ (1 <= Len(stack) /\ Put(1, <<v>>))
  BY Throwing, Depth DEF Type, Exact, Underflow, Check
<1> HIDE DEF v
<1>4. Throws \/ Gives(1)
  BY <1>2, <1>3 DEF Gives
<1> QED BY <1>1, <1>4, GivesProceeds

LEMMA TypeImmediateOrdinary == ASSUME IInv, TypeImmediate PROVE Throws \/ Proceeds
<1> DEFINE v == Truth(TypeHolds(Ins.op, Bw(stack, Ins.a).type, Ins.t))
<1>1. AtWork /\ Reach = 0
  BY ReachesNothing DEF TypeImmediate, At, AtWork
<1>2. v \in Sound
  BY Depth, TruthIsSound DEF Sound
<1>3. Put(0, <<v>>)
  BY DEF TypeImmediate
<1> HIDE DEF v
<1>4. Gives(0)
  BY <1>2, <1>3, Depth DEF Gives
<1> QED BY <1>1, <1>4, GivesProceeds

LEMMA TypeOfOrdinary == ASSUME IInv, TypeOf PROVE Throws \/ Proceeds
<1>1. AtWork /\ Reach = 0 /\ Ins.a \in Nat
  BY ReachesNothing, Operand DEF TypeOf, At, AtWork, JumpCodes
<1>2. \/ Throws
      \/ Ins.a + 1 <= Len(stack) /\ Put(0, <<TypeCode(Bw(stack, Ins.a).type)>>)
      \/ 1 <= Len(stack) /\ Put(0, <<TypeCode(Bw(stack, 0).content)>>)
  BY Throwing, Depth DEF TypeOf, Exact, Underflow, Check
<1>3. \A pos \in Nat : pos + 1 <= Len(stack) => TypeCode(Bw(stack, pos).type) \in Sound /\ TypeCode(Bw(stack, pos).content) \in Sound
  <2> SUFFICES ASSUME NEW pos \in Nat, pos + 1 <= Len(stack)
               PROVE  TypeCode(Bw(stack, pos).type) \in Sound /\ TypeCode(Bw(stack, pos).content) \in Sound
    OBVIOUS
  <2>1. Bw(stack, pos) \in Values
    BY OnStack, Depth
  <2>2. Bw(stack, pos).type \in Contents /\ Bw(stack, pos).content \in Contents
    BY <2>1 DEF Values, Contents, Types
  <2> QED BY <2>2, TypeCodeSound
<1>4. Throws \/ Gives(0)
  BY <1>1, <1>2, <1>3, Depth DEF Gives
<1> QED BY <1>1, <1>4, GivesProceeds

LEMMA PromotedKeeps ==
  ASSUME NEW s \in Seq(Sound), NEW pos \in 1 .. Len(s), NEW v \in Sound
  PROVE  LET t == Popped([s EXCEPT ![pos] = v], 1)
         IN  t \in Seq(Sound) /\ Len(t) = Len(s) - 1 /\ \A i \in 1 .. pos - 1 : t[i] = s[i]
<1> DEFINE r == [s EXCEPT ![pos] = v]
<1>1. r \in Seq(Sound) /\ Len(r) = Len(s) /\ \A i \in 1 .. pos - 1 : r[i] = s[i]
  OBVIOUS
<1> HIDE DEF r
<1>2. Popped(r, 1) \in Seq(Sound) /\ Len(Popped(r, 1)) = Len(s) - 1 /\ \A i \in 1 .. pos - 1 : Popped(r, 1)[i] = s[i]
  BY <1>1 DEF Popped
<1> QED BY <1>2 DEF r

LEMMA PromoteOrdinary == ASSUME IInv, Promote PROVE Throws \/ Proceeds
<1> DEFINE pos == Len(stack) - Ins.a
           to == Bw(stack, 0).content
           v == Converted(stack[pos], to)
           s == Popped([stack EXCEPT ![pos] = v], 1)
<1>1. AtWork /\ Ins.a \in Nat /\ Reach = Ins.a + 1
  BY ReachOf, Operand DEF Promote, At, AtWork, JumpCodes
<1>2. Throws \/ (Ins.a + 1 <= Len(stack) /\ Convertible(stack[pos], to) /\ Rearrange(s))
  BY Throwing DEF Promote, Underflow, Check
<1>3. ASSUME Ins.a + 1 <= Len(stack), Convertible(stack[pos], to)
      PROVE  s \in Seq(Sound) /\ Kept(s, Len(stack) - Reach)
  <2>1. pos \in 1 .. Len(stack) /\ Len(stack) - Reach = pos - 1 /\ Len(stack) \in Nat /\ stack \in Seq(Sound)
    BY <1>1, <1>3, Depth, SMTT(20)
  <2>2. stack[pos] \in Sound
    BY <2>1
  <2>3. v \in Sound
    BY <2>2, <1>3, Depth, Conversion DEF Sound
  <2> HIDE DEF pos, v
  <2>4. s \in Seq(Sound) /\ Len(s) = Len(stack) - 1 /\ \A i \in 1 .. pos - 1 : s[i] = stack[i]
    BY <2>1, <2>3, PromotedKeeps
  <2> HIDE DEF s
  <2> QED BY <2>1, <2>4 DEF Kept
<1> HIDE DEF s
<1> QED BY <1>1, <1>2, <1>3, RearrangeProceeds

LEMMA ConvertTypeOrdinary == ASSUME IInv, ConvertType PROVE Throws \/ Proceeds
<1> DEFINE v == Converted(Bw(stack, 0), Ins.t)
<1>1. AtWork /\ Reach = 1
  BY ReachOf DEF ConvertType, At, AtWork, TakeOne
<1>2. 1 <= Len(stack)
  BY Depth DEF ConvertType
<1>3. Throws \/ (Convertible(Bw(stack, 0), Ins.t) /\ Put(1, <<v>>))
  BY Throwing DEF ConvertType, Check
<1>4. Convertible(Bw(stack, 0), Ins.t) => v \in Sound
  BY <1>2, OnStack, Depth, Conversion DEF Sound
<1> HIDE DEF v
<1>5. Throws \/ Gives(1)
  BY <1>2, <1>3, <1>4 DEF Gives
<1> QED BY <1>1, <1>5, GivesProceeds

\* Instructions that give a truth value.
LEMMA GivesTruth ==
  ASSUME IInv, NEW n \in Nat, NEW b, n <= Len(stack), Put(n, <<Truth(b)>>)
  PROVE  Gives(n)
BY Depth, TruthIsSound DEF Gives, Sound

LEMMA EqualOrdinary == ASSUME IInv, Equal PROVE Throws \/ Proceeds
<1> DEFINE type == IF Ins.op = "EQUAL" THEN Bw(stack, 0).type ELSE Ins.t
           Result == \E equal \in SameValue(Bw(stack, 1), Bw(stack, 0)) : Put(2, <<Truth(equal)>>)
<1>1. AtWork /\ Reach = 2
  BY ReachOf DEF Equal, At, AtWork, TakeTwo
<1>2. Result /\ 2 <= Len(stack) => Gives(2)
  BY GivesTruth
<1> HIDE DEF Result
<1>3. Throws \/ (Result /\ 2 <= Len(stack))
  <2>1. Underflow(IF Ins.op = "EQUAL" THEN 2 ELSE 0,
          Check(type \in Primitive \cup {"block"}, "INVALID_TYPE",
            IF type = "block" THEN Blocks(Result) ELSE Operands(type, Result)))
    BY DEF Equal, Result
  <2> HIDE DEF type
  <2> QED BY <2>1, Throwing, Depth DEF Blocks, Operands, Underflow, Check
<1> QED BY <1>1, <1>2, <1>3, GivesProceeds

LEMMA SignsSound == \A s \in Signs, n \in Nat : \A t \in Numeric : Of(t, s) \in Valid(n)
BY NumericTypesAre, PlainValues DEF Contents

LEMMA ComparedAre == \A x, y : Compared(x, y) \subseteq Signs
BY DEF Compared, Order, Signs

LEMMA CompareOrdinary == ASSUME IInv, Compare PROVE Throws \/ Proceeds
<1> DEFINE type == IF Ins.op = "COMPARE" THEN Bw(stack, 0).type ELSE Ins.t
           Outcome == \E s \in Compared(Bw(stack, 1), Bw(stack, 0)) : Put(2, <<Of("int32", s)>>)
           Result == Check(type \in Ordered, "INVALID_TYPE", Outcome)
<1>1. AtWork /\ Reach = 2
  BY ReachOf DEF Compare, At, AtWork, TakeTwo
<1>2. Outcome /\ 2 <= Len(stack) => Gives(2)
  BY Depth, SignsSound, ComparedAre DEF Gives, Sound, Numeric, Ordered, Integral
<1> HIDE DEF Outcome
<1>3. Result => Throws \/ Outcome
  BY Throwing DEF Check
<1> HIDE DEF Result
<1>4. Throws \/ (Result /\ 2 <= Len(stack))
  <2>1. IF Ins.op = "COMPARE" THEN Underflow(2, Result) ELSE Operands(type, Result)
    BY DEF Compare, Result, Outcome
  <2> HIDE DEF type
  <2> QED BY <2>1, Throwing, Depth DEF Operands, Underflow, Check
<1> QED BY <1>1, <1>2, <1>3, <1>4, GivesProceeds

LEMMA LogicalNotOrdinary == ASSUME IInv, LogicalNot PROVE Throws \/ Proceeds
<1> DEFINE b == Bw(stack, 0).content = "false"
<1>1. AtWork /\ Reach = 1
  BY ReachOf DEF LogicalNot, At, AtWork, TakeOne
<1>2. Throws \/ (1 <= Len(stack) /\ Put(1, <<Truth(b)>>))
  BY Throwing, Depth DEF LogicalNot, Exact, Underflow, Check
<1> HIDE DEF b
<1>3. Throws \/ Gives(1)
  BY <1>2, GivesTruth
<1> QED BY <1>1, <1>3, GivesProceeds

LEMMA UnaryTypesAre == \A op \in {"NEGATE", "CONJUGATE", "BITWISE_NOT"} : UnaryTypes(op) \subseteq Numeric
BY DEF UnaryTypes, Numeric, Ordered, Integral, Small, Signed, Complex

LEMMA UnaryOrdinary == ASSUME IInv, Unary PROVE Throws \/ Proceeds
<1> DEFINE type == Bw(stack, 0).type
<1>1. AtWork /\ Reach = 1
  BY ReachOf DEF Unary, At, AtWork, TakeOne
<1>2. Throws \/ (1 <= Len(stack) /\ type \in UnaryTypes(Ins.op) /\ \E s \in Signs : Put(1, <<Of(type, s)>>))
  BY Throwing DEF Unary, Underflow, Check
<1>3. type \in UnaryTypes(Ins.op) => type \in Numeric
  BY <1>1, UnaryTypesAre DEF Unary, At
<1>4. Throws \/ Gives(1)
  BY <1>2, <1>3, Depth, SignsSound DEF Gives, Sound
<1> QED BY <1>1, <1>4, GivesProceeds

LEMMA ArithmeticOrdinary == ASSUME IInv, Arithmetic PROVE Throws \/ Proceeds
<1> DEFINE type == IF Ins.op \in BinaryTyped THEN Ins.t ELSE Bw(stack, 0).type
           Defined == Numeric \ (Small \cup IF Ins.op \in {"MODULO", "MODULO_TYPED"} THEN Complex ELSE {})
           Result == \E s \in Signs : Put(2, <<Of(type, s)>>)
<1>1. AtWork /\ Reach = 2
  BY ReachOf DEF Arithmetic, At, AtWork, TakeTwo
<1>2. Underflow(IF Ins.op \in BinaryTyped THEN 0 ELSE 2, Exact(0, type, Exact(1, type,
        Check(type \in Defined, "INVALID_TYPE", Result))))
  BY DEF Arithmetic
<1>3. type \in Defined /\ Result /\ 2 <= Len(stack) => Gives(2)
  BY Depth, SignsSound DEF Gives, Sound
<1> HIDE DEF type, Defined, Result
<1>4. Throws \/ (type \in Defined /\ Result /\ 2 <= Len(stack))
  BY <1>2, Throwing, Depth DEF Exact, Underflow, Check
<1> QED BY <1>1, <1>3, <1>4, GivesProceeds

LEMMA MinMaxOrdinary == ASSUME IInv, MinMax PROVE Throws \/ Proceeds
<1> DEFINE Result == \E s \in Compared(Bw(stack, 1), Bw(stack, 0)) :
                       Rearrange(Removed(stack, Len(stack) - 1 - IF s = "pos" THEN 1 ELSE 0, 1))
<1>1. AtWork /\ Reach = 2
  BY ReachOf DEF MinMax, At, AtWork, TakeTwo
<1>2. Operands(Ins.t, Check(Ins.t \in Ordered, "INVALID_TYPE", Result))
  BY DEF MinMax
<1>3. Result => \E first \in {Len(stack) - 1, Len(stack) - 2} : Rearrange(Removed(stack, first, 1))
  BY Depth
<1> HIDE DEF Result
<1>4. Throws \/ (Result /\ 2 <= Len(stack))
  BY <1>2, Throwing, Depth DEF Operands, Underflow, Check
<1>5. ASSUME 2 <= Len(stack), NEW first \in {Len(stack) - 1, Len(stack) - 2}
      PROVE  Removed(stack, first, 1) \in Seq(Sound) /\ Kept(Removed(stack, first, 1), Len(stack) - Reach)
  <2>1. first \in Nat /\ first + 1 <= Len(stack) /\ Len(stack) - Reach <= first /\ Len(stack) - Reach \in Nat
        /\ Len(stack) - Reach <= Len(stack) - 1
    BY <1>1, <1>5, Depth
  <2>2. RemovedWell(stack, first, 1)
    BY <2>1, RemovedKeeps, Depth
  <2> QED BY <2>1, <2>2 DEF Kept, RemovedWell
<1> QED BY <1>1, <1>3, <1>4, <1>5, RearrangeProceeds

LEMMA FaultsAre == \A x : ToU32(x) \subseteq Exceptions
BY DEF ToU32, Exceptions

\* A fault of a conversion is thrown; without one the handler goes on.
LEMMA FaultThrown ==
  ASSUME NEW x, NEW Handler, \E fault \in ToU32(x) : Check(fault = "NONE", fault, Handler)
  PROVE  Throws \/ Handler
BY FaultsAre, Throwing DEF Check

LEMMA NullSound == ASSUME IInv PROVE Null \in Sound
BY Depth, NullAndTruth DEF Sound

LEMMA FoundSound == ASSUME IInv PROVE Found \subseteq Sound /\ \A key : Global(key) \in Sound
<1>1. closures \in Seq(Closures) /\ Len(closures) \in Nat
  BY Depth DEF IInv, DataInv
<1>2. \A c \in DOMAIN closures : FunctionOf(c) \in Sound
  BY <1>1, ClosuresAreValues DEF Sound
<1>3. Foreign \subseteq Sound /\ \A key : Global(key) \in Sound
  BY <1>1, HostHandsOver DEF Sound
<1> QED BY <1>2, <1>3, NullSound DEF Found

\* Instructions that push what a lookup finds.
LEMMA GivesFound ==
  ASSUME IInv, NEW n \in Nat, n <= Len(stack), \E v \in Found : Put(n, <<v>>)
  PROVE  Gives(n)
BY FoundSound DEF Gives

LEMMA LeavesDelivered ==
  ASSUME IInv, NEW n \in Nat, n <= Len(stack), NEW v \in Sound, Deliver(n, v)
  PROVE  Leaves(n)
BY DEF Leaves, Leave, Deliver

LEMMA NewArrayOrdinary == ASSUME IInv, NewArray PROVE Throws \/ Proceeds
<1> DEFINE Result == Put(1, <<Of("array", "nil")>>)
<1>1. AtWork /\ Reach = 1
  BY ReachOf DEF NewArray, At, AtWork, TakeOne
<1>2. Of("array", "nil") \in Sound
  BY Depth, PlainTypesAre, PlainValues DEF Sound, Contents
<1>3. 1 <= Len(stack) /\ Result => Gives(1)
  BY <1>2 DEF Gives
<1>4. Underflow(1, \E fault \in ToU32(Bw(stack, 0)) : Check(fault = "NONE", fault, Result))
  BY DEF NewArray
<1> HIDE DEF Result
<1>5. Throws \/ (1 <= Len(stack) /\ Result)
  BY <1>4, FaultsAre, Throwing DEF Underflow, Check
<1> QED BY <1>1, <1>3, <1>5, GivesProceeds

LEMMA LoadArrayElementOrdinary == ASSUME IInv, LoadArrayElement PROVE Throws \/ Proceeds
<1> DEFINE Result == \E inside \in BOOLEAN : Check(inside, "OUT_OF_BOUNDS",
                       \E v \in Found : Check(v # Null, "SYSTEM", Put(1, <<v>>)))
<1>1. AtWork /\ Reach = 1 /\ 1 <= Len(stack)
  BY ReachOf, Depth DEF LoadArrayElement, At, AtWork, TakeOne
<1>2. Throws \/ Result
  BY Throwing DEF LoadArrayElement, Check
<1>3. Result => Throws \/ \E v \in Found : Put(1, <<v>>)
  BY Throwing DEF Check
<1> HIDE DEF Result
<1>4. Throws \/ Gives(1)
  BY <1>1, <1>2, <1>3, GivesFound
<1> QED BY <1>1, <1>4, GivesProceeds

LEMMA WriteArrayElementOrdinary == ASSUME IInv, WriteArrayElement PROVE Throws \/ Proceeds
<1> DEFINE Result == \E inside \in BOOLEAN : Check(inside, "OUT_OF_BOUNDS", Put(2, << >>))
<1>1. AtWork /\ Reach = 2 /\ 2 <= Len(stack)
  BY ReachOf, Depth DEF WriteArrayElement, At, AtWork, TakeTwo
<1>2. Check(IsA(Bw(stack, 2).type, "array"), "INVALID_TYPE",
        \E fault \in ToU32(Bw(stack, 1)) : Check(fault = "NONE", fault, Result))
  BY DEF WriteArrayElement
<1>3. Result => Throws \/ Put(2, << >>)
  BY Throwing DEF Check
<1> HIDE DEF Result
<1>4. Throws \/ Result
  BY <1>2, FaultsAre, Throwing DEF Check
<1>5. Throws \/ Takes(2)
  BY <1>1, <1>3, <1>4 DEF Takes
<1> QED BY <1>1, <1>5, TakesProceeds

LEMMA GetInterfaceOrdinary == ASSUME IInv, GetInterface PROVE Throws \/ Proceeds
<1> DEFINE v == IF Implements(Bw(stack, 0).type, Ins.t) THEN Bw(stack, 0) ELSE Null
<1>1. AtWork /\ Reach = 0
  BY ReachesNothing DEF GetInterface, At, AtWork
<1>2. Throws \/ (1 <= Len(stack) /\ Put(0, <<v>>))
  BY Throwing DEF GetInterface, Underflow, Check
<1>3. 1 <= Len(stack) => v \in Sound
  BY OnStack, Depth, NullSound
<1> HIDE DEF v
<1>4. Throws \/ Gives(0)
  BY <1>2, <1>3, Depth DEF Gives
<1> QED BY <1>1, <1>4, GivesProceeds

LEMMA GetGlobalOrdinary == ASSUME IInv, GetGlobal PROVE Throws \/ Proceeds
<1>1. AtWork /\ Reach = 1
  BY ReachOf DEF GetGlobal, At, AtWork, TakeOne
<1>2. Throws \/ (1 <= Len(stack) /\ Deliver(1, Global(Bw(stack, 0).content)))
  BY Throwing, Depth DEF GetGlobal, Exact, Underflow, Check
<1>3. Throws \/ Leaves(1)
  BY <1>2, FoundSound, LeavesDelivered
<1> QED BY <1>1, <1>3, LeavesProceeds

LEMMA GetPropertyOrdinary == ASSUME IInv, GetProperty PROVE Throws \/ Proceeds
<1> DEFINE key == Bw(stack, 0).content
           inst == Bw(stack, 1)
           Result == \/ \E v \in Found : Deliver(2, v)
                     \/ Leave(2, Of("boxed", key), Global(key))
                     \/ Leave(2, Null, Global(key))
<1>1. AtWork /\ Reach = 2
  BY ReachOf DEF GetProperty, At, AtWork, TakeTwo
<1>2. Throws \/ (2 <= Len(stack) /\ Result)
  BY Throwing, Depth DEF GetProperty, Exact, Underflow, Check, Leave
<1>3. ASSUME 2 <= Len(stack), Result PROVE Leaves(2)
  <2>1. CASE \E v \in Found : Deliver(2, v)
    BY <1>3, <2>1, FoundSound, LeavesDelivered
  <2>2. CASE Leave(2, Of("boxed", key), Global(key))
    <3>1. key \in Contents
      BY <1>3, OnStack, Depth DEF Values
    <3>2. Of("boxed", key) \in Sound
      BY <3>1, Depth, PlainTypesAre, PlainValues DEF Sound
    <3> QED BY <1>3, <2>2, <3>2, FoundSound DEF Leaves
  <2>3. CASE Leave(2, Null, Global(key))
    BY <1>3, <2>3, NullSound, FoundSound DEF Leaves
  <2> QED BY <1>3, <2>1, <2>2, <2>3
<1> HIDE DEF Result
<1> QED BY <1>1, <1>2, <1>3, LeavesProceeds

LEMMA FunctionGiven == ASSUME IInv, FoundFunction PROVE Gives(0)
BY FoundSound, Depth DEF FoundFunction, Gives

LEMMA GetFunctionOrdinary == ASSUME IInv, GetFunction PROVE Throws \/ Proceeds
<1>1. AtWork /\ Reach = 0
  BY ReachesNothing DEF GetFunction, At, AtWork
<1>2. Throws \/ FoundFunction
  BY Throwing DEF GetFunction, Exact, Underflow, Check
<1> QED BY <1>1, <1>2, FunctionGiven, GivesProceeds

LEMMA GetStaticFunctionOrdinary == ASSUME IInv, GetStaticFunction PROVE Throws \/ Proceeds
<1>1. AtWork /\ Reach = 0
  BY ReachesNothing DEF GetStaticFunction, At, AtWork
<1>2. Throws \/ FoundFunction
  BY Throwing DEF GetStaticFunction, Exact, Underflow, Check
<1> QED BY <1>1, <1>2, FunctionGiven, GivesProceeds

LEMMA SetPropertyOrdinary == ASSUME IInv, SetProperty PROVE Throws \/ Proceeds
<1> DEFINE n(set) == IF set THEN 3 ELSE 0
           Result == \E set \in BOOLEAN : vals0' \in {vals0, Null} /\ Leave(n(set), Truth(set), vals0')
<1>1. AtWork /\ Reach = 3
  BY ReachOf DEF SetProperty, At, AtWork
<1>2. Throws \/ (3 <= Len(stack) /\ Result)
  BY Throwing, Depth DEF SetProperty, Exact, Underflow, Check, Leave
<1>3. ASSUME 3 <= Len(stack), Result PROVE Leaves(3) \/ Leaves(0)
  <2>1. PICK set \in BOOLEAN : vals0' \in {vals0, Null} /\ Leave(n(set), Truth(set), vals0')
    BY <1>3
  <2>2. vals0' \in Sound /\ Truth(set) \in Sound
    BY <2>1, Depth, NullAndTruth DEF Sound
  <2>3. Leave(3, Truth(set), vals0') \/ Leave(0, Truth(set), vals0')
    BY <2>1
  <2>4. 3 <= Len(stack) /\ 0 <= Len(stack)
    BY <1>3
  <2> QED BY <2>2, <2>3, <2>4 DEF Leaves
<1> HIDE DEF Result
<1>4. Throws \/ Leaves(3) \/ Leaves(0)
  BY <1>2, <1>3
<1> QED BY <1>1, <1>4, LeavesProceeds

LEMMA GetStaticPropertyOrdinary == ASSUME IInv, GetStaticProperty PROVE Throws \/ Proceeds
<1>1. AtWork /\ Reach = 2
  BY ReachOf DEF GetStaticProperty, At, AtWork, TakeTwo
<1>2. Throws \/ (2 <= Len(stack) /\ (Put(2, <<Null>>) \/ \E v \in Found : Deliver(2, v)))
  BY Throwing, Depth DEF GetStaticProperty, Exact, Underflow, Check
<1>3. Throws \/ Gives(2) \/ Leaves(2)
  BY <1>2, NullSound, FoundSound, LeavesDelivered DEF Gives
<1> QED BY <1>1, <1>3, GivesProceeds, LeavesProceeds

LEMMA LookupPropertyOrdinary == ASSUME IInv, LookupProperty PROVE Throws \/ Proceeds
<1> DEFINE vs == <<Bw(stack, 1), Of("uint32", "pos"), Of("field", "nil")>>
<1>1. AtWork /\ Reach = 1
  BY ReachOf DEF LookupProperty, At, AtWork, TakeOne
<1>2. Throws \/ (2 <= Len(stack) /\ (Put(1, vs) \/ Put(1, <<Null>>)))
  BY Throwing, Depth DEF LookupProperty, Exact, Underflow, Check
<1>3. 2 <= Len(stack) => vs \in Seq(Sound)
  <2>1. Of("uint32", "pos") \in Sound /\ Of("field", "nil") \in Sound
    BY Depth, PlainTypesAre, NumericTypesAre, PlainValues DEF Sound, Contents, Signs
  <2>2. 2 <= Len(stack) => Bw(stack, 1) \in Sound
    BY OnStack, Depth
  <2> QED BY <2>1, <2>2
<1> HIDE DEF vs
<1>4. Throws \/ Gives(1) \/ (2 <= Len(stack) /\ Put(1, vs))
  BY <1>2, NullSound, Depth DEF Gives
<1> QED BY <1>1, <1>3, <1>4, Depth, GivesProceeds, PutProceeds

LEMMA GetAttributeOrdinary == ASSUME IInv, GetAttribute PROVE Throws \/ Proceeds
<1>1. AtWork /\ Reach = 2
  BY ReachOf DEF GetAttribute, At, AtWork, TakeTwo
<1>2. Throws \/ (2 <= Len(stack) /\ \E v \in Found : Deliver(2, v))
  BY Throwing, Depth DEF GetAttribute, Dict, Exact, Underflow, Check
<1>3. Throws \/ Leaves(2)
  BY <1>2, FoundSound, LeavesDelivered
<1> QED BY <1>1, <1>3, LeavesProceeds

LEMMA SetAttributeOrdinary == ASSUME IInv, SetAttribute PROVE Throws \/ Proceeds
<1>1. AtWork /\ Reach = 3
  BY ReachOf DEF SetAttribute, At, AtWork
<1>2. Throws \/ Takes(3)
  BY Throwing, Depth DEF SetAttribute, Dict, Exact, Underflow, Check, Takes
<1> QED BY <1>1, <1>2, TakesProceeds

LEMMA ReturnOrdinary == ASSUME IInv, Return PROVE Throws \/ Proceeds
<1>1. AtWork /\ Reach = 0
  BY DEF Return, At, AtWork, Reach, TakeOne, TakeTwo, Binary, BinaryTyped
<1>2. Goto(0) /\ UNCHANGED <<stack, frameVars, vals0, exc, dataVars>>
  BY DEF Return
<1> QED BY <1>1, <1>2, Depth DEF Proceeds, Kept

LEMMA JumpOrdinary == ASSUME IInv, Jump PROVE Throws \/ Proceeds
<1>1. AtWork /\ Reach = 0 /\ Ins.op \in JumpCodes
  BY DEF Jump, At, AtWork, Reach, TakeOne, TakeTwo, Binary, BinaryTyped, JumpCodes
<1>2. Goto(Act.pc + 1 + Ins.a) /\ UNCHANGED <<stack, frameVars, vals0, exc, dataVars>>
  BY DEF Jump
<1>3. Act.pc + 1 + Ins.a \in Nat
  BY <1>1, Operand
<1> QED BY <1>1, <1>2, <1>3, Depth DEF Proceeds, Kept

LEMMA JumpCondOrdinary == ASSUME IInv, JumpCond PROVE Throws \/ Proceeds
<1> DEFINE to == Act.pc + 1 + IF Bw(stack, 0).content = JumpsOn(Ins.op) THEN Ins.a ELSE 0
<1>1. AtWork /\ Reach = 1 /\ Ins.op \in JumpCodes
  BY ReachOf DEF JumpCond, At, AtWork, TakeOne, JumpCodes
<1>2. to \in Nat
  BY <1>1, Operand, Located
<1>3. JumpCond => Exact(0, JumpType(Ins.op), Goto(to) /\ stack' = Popped(stack, 1) /\ UNCHANGED <<frameVars, vals0, exc, dataVars>>)
  BY DEF JumpCond
<1> HIDE DEF to
<1>4. \/ Throws
      \/ 1 <= Len(stack) /\ Goto(to) /\ stack' = Popped(stack, 1) /\ UNCHANGED <<frameVars, vals0, exc, dataVars>>
  BY <1>3, Throwing, Depth DEF Exact, Underflow, Check
<1>5. ASSUME 1 <= Len(stack), stack' = Popped(stack, 1)
      PROVE  stack' \in Seq(Sound) /\ Kept(stack', Len(stack) - Reach)
  <2>1. stack \in Seq(Sound) /\ Len(stack) \in Nat
    BY Depth
  <2>2. stack' \in Seq(Sound) /\ Len(stack') = Len(stack) - 1 /\ \A i \in 1 .. Len(stack) - 1 : stack'[i] = stack[i]
    BY <1>5, <2>1, Pops
  <2>3. Kept(stack', Len(stack) - Reach)
    BY <1>1, <2>1, <2>2 DEF Kept
  <2> QED BY <2>2, <2>3
<1> QED BY <1>2, <1>4, <1>5, Depth DEF Proceeds

-----------------------------------------------------------------------------
(***************************************************************************)
(* Ordinary instructions keep the invariant.                               *)
(***************************************************************************)
LEMMA Undisturbed == ASSUME IInv, AtWork PROVE exc = NoException /\ Act.pc # 0
<1>1. Code[Act.prog] \in Seq(Instructions) /\ Act.pc \in DOMAIN Code[Act.prog]
  BY Located, CodeAssumption
<1>2. Act.pc # 0
  BY <1>1
<1> QED BY <1>2 DEF IInv, ExceptionConfined

\* Closures are added, and those there are stay of their programs.
Grown ==
  /\ Len(closures') \in Nat /\ Len(closures) <= Len(closures')
  /\ \A c \in 1 .. Len(closures) : closures'[c].prog = closures[c].prog

LEMMA Same == ASSUME IInv, closures' = closures PROVE Grown
BY Depth DEF Grown

LEMMA ActivationsGrow ==
  ASSUME IInv, Grown
  PROVE  /\ calls \in Seq(Activations')
         /\ \A k \in 1 .. Len(calls) :
              calls[k].closure > 0 => closures'[calls[k].closure].prog = calls[k].prog
<1>1. calls \in Seq(Activations) /\ Len(closures) \in Nat
  BY Depth DEF IInv, CallsInv
<1>2. Activations \subseteq Activations'
  BY <1>1 DEF Activations, Grown
<1>3. calls \in Seq(Activations')
  BY <1>1, <1>2
<1>4. \A k \in 1 .. Len(calls) : calls[k].closure \in 0 .. Len(closures)
  <2>1. \A k \in 1 .. Len(calls) : calls[k] \in Activations
    BY <1>1
  <2>2. \A x \in Activations : x.closure \in 0 .. Len(closures)
    BY DEF Activations
  <2> QED BY <2>1, <2>2
<1>5. \A k \in 1 .. Len(calls) : calls[k].closure > 0 => closures[calls[k].closure].prog = calls[k].prog
  BY DEF IInv, CallsInv
<1>6. \A k \in 1 .. Len(calls) : calls[k].closure > 0 => closures'[calls[k].closure].prog = calls[k].prog
  <2>1. \A k \in 1 .. Len(calls) : calls[k].closure > 0 => calls[k].closure \in 1 .. Len(closures)
    BY <1>1, <1>4
  <2>2. \A c \in 1 .. Len(closures) : closures'[c].prog = closures[c].prog
    BY DEF Grown
  <2> QED BY <1>5, <2>1, <2>2, Zenon
<1> QED BY <1>3, <1>6

LEMMA GotoKeepsCalls ==
  ASSUME IInv, AtWork, Grown, NEW pc \in Nat, Goto(pc)
  PROVE  CallsInv' /\ Len(calls') = Len(calls) /\ calls' # << >> /\ Act'.pc = pc /\ Act'.prog = Act.prog
<1> DEFINE n == Len(calls)
<1>1. n \in Nat /\ n >= 1 /\ calls' = [calls EXCEPT ![n].pc = pc]
  BY Located DEF Goto
<1>2. calls \in Seq(Activations')
  BY ActivationsGrow
<1>3. \A k \in 1 .. n : calls[k].closure > 0 => closures'[calls[k].closure].prog = calls[k].prog
  BY ActivationsGrow
<1>4. calls[n] \in Activations'
  BY <1>1, <1>2
<1>5. [calls[n] EXCEPT !.pc = pc] \in Activations'
  BY <1>4 DEF Activations
<1>6. calls' = [calls EXCEPT ![n] = [calls[n] EXCEPT !.pc = pc]]
  BY <1>1
<1> HIDE DEF n
<1>7. calls' \in Seq(Activations') /\ Len(calls') = n
  BY <1>1, <1>2, <1>5, <1>6 DEF n
<1>8. /\ calls'[n] = [calls[n] EXCEPT !.pc = pc]
      /\ \A k \in 1 .. n : k # n => calls'[k] = calls[k]
  BY <1>1, <1>6 DEF n
<1>9. \A k \in 1 .. n : calls'[k].closure = calls[k].closure /\ calls'[k].prog = calls[k].prog
  BY <1>1, <1>4, <1>8 DEF Activations
<1>10. \A k \in 1 .. n : calls'[k].closure > 0 => closures'[calls'[k].closure].prog = calls'[k].prog
  BY <1>3, <1>9
<1>11. calls'[n].pc = pc
  BY <1>4, <1>8 DEF Activations
<1>12. Act' = calls'[n] /\ Act = calls[n]
  BY <1>7 DEF Act, n
<1>13. CallsInv'
  BY <1>7, <1>10 DEF CallsInv
<1>14. calls' # << >>
  BY <1>1, <1>7
<1> QED BY <1>1, <1>7, <1>9, <1>11, <1>12, <1>13, <1>14 DEF n

\* A step that goes on, as all that follow do, keeps exc as it was: none.
LEMMA OnwardKeeps ==
  ASSUME IInv, AtWork, Grown, NEW pc \in Nat, Goto(pc), exc' = exc,
         stack' \in Seq(Sound'), vals0' \in Sound', frames' \in Seq(Nat), size_frames' \in Nat \ {0}, DataInv'
  PROVE  IInv'
<1>1. exc' = NoException
  BY Undisturbed
<1>2. ExceptionConfined'
  BY <1>1 DEF ExceptionConfined
<1>3. CallsInv'
  BY GotoKeepsCalls
<1>4. runs' \in 0 .. MaxRuns /\ exc' \in [type : Exceptions, ipc : Nat]
  BY DEF IInv, StacksInv, Goto
<1>5. StacksInv'
  BY <1>4 DEF StacksInv
<1> QED BY <1>2, <1>3, <1>5 DEF IInv

LEMMA DataStays == ASSUME IInv, UNCHANGED dataVars PROVE DataInv' /\ Grown /\ Sound' = Sound
<1>1. shared' = shared /\ closures' = closures
  BY DEF dataVars
<1>2. Sound' = Sound
  BY <1>1 DEF Sound
<1>3. SoundEntries' = SoundEntries
  BY <1>2 DEF SoundEntries
<1>4. DataInv
  BY DEF IInv
<1>5. DataInv'
  BY <1>1, <1>3, <1>4 DEF DataInv
<1> QED BY <1>1, <1>2, <1>5, Same

LEMMA ProceedsKeeps == ASSUME IInv, AtWork, Proceeds PROVE IInv'
<1>1. PICK pc \in Nat : Goto(pc)
  BY DEF Proceeds
<1>2. UNCHANGED dataVars /\ exc' = exc /\ frames' = frames /\ size_frames' = size_frames
  BY DEF Proceeds, frameVars
<1>3. DataInv' /\ Grown /\ Sound' = Sound
  BY <1>2, DataStays
<1>4. frames' \in Seq(Nat) /\ size_frames' \in Nat \ {0}
  BY <1>2 DEF IInv, StacksInv
<1>5. stack' \in Seq(Sound') /\ vals0' \in Sound'
  BY <1>3 DEF Proceeds
<1> QED BY <1>1, <1>2, <1>3, <1>4, <1>5, OnwardKeeps

\* A handler that stops its run with an exception, whatever it did to the stack.
LEMMA StopKeeps ==
  ASSUME IInv, AtWork, NEW type \in Exceptions, exc' = [type |-> type, ipc |-> Act.pc], Goto(0),
         stack' \in Seq(Sound), UNCHANGED <<frameVars, vals0, dataVars>>
  PROVE  IInv'
<1>1. DataInv' /\ Grown /\ Sound' = Sound
  BY DataStays
<1>2. CallsInv' /\ calls' # << >> /\ Act'.pc = 0 /\ Act'.prog = Act.prog
  BY <1>1, GotoKeepsCalls
<1>3. exc'.ipc = Act.pc /\ Act.pc \in DOMAIN Code[Act.prog] /\ Act.pc \in Nat
  BY Located
<1>4. ExceptionConfined'
  BY <1>2, <1>3 DEF ExceptionConfined
<1>5. exc' \in [type : Exceptions, ipc : Nat] /\ runs' \in 0 .. MaxRuns
  BY <1>3 DEF IInv, StacksInv, Goto
<1>6. frames' = frames /\ size_frames' = size_frames /\ vals0' = vals0
  BY DEF frameVars
<1>7. StacksInv'
  BY <1>1, <1>5, <1>6 DEF IInv, StacksInv
<1> QED BY <1>1, <1>2, <1>4, <1>7 DEF IInv

LEMMA ThrowsKeeps == ASSUME IInv, AtWork, Throws PROVE IInv'
<1>1. PICK type \in Exceptions : Throw(type)
  BY DEF Throws
<1>2. stack' \in Seq(Sound)
  BY <1>1, Depth DEF Throw
<1> QED BY <1>1, <1>2, StopKeeps DEF Throw

-----------------------------------------------------------------------------
(***************************************************************************)
(* Frames, runs and data blocks keep the invariant.                        *)
(***************************************************************************)
LEMMA PushFrameKeeps == ASSUME IInv, PushFrame PROVE IInv'
<1>1. AtWork /\ Ins.a \in Nat
  BY Operand DEF PushFrame, At, AtWork, JumpCodes
<1>2. Throws \/ (Ins.a + 1 <= Len(stack) /\ PushFrameOn(stack, Ins.a) /\ Advance /\ UNCHANGED <<stack, vals0, dataVars>>)
  BY Throwing DEF PushFrame, Underflow, Check
<1>3. ASSUME Ins.a + 1 <= Len(stack), PushFrameOn(stack, Ins.a), Advance, UNCHANGED <<stack, vals0, dataVars>>
      PROVE  IInv'
  <2>1. DataInv' /\ Grown /\ Sound' = Sound
    BY <1>3, DataStays
  <2>2. Goto(Act.pc + 1) /\ Act.pc + 1 \in Nat /\ exc' = exc
    BY <1>1, <1>3, Located DEF Advance
  <2>3. stack' \in Seq(Sound') /\ vals0' \in Sound'
    BY <1>3, <2>1, Depth
  <2>4. frames \in Seq(Nat) /\ size_frames \in Nat \ {0} /\ Len(stack) - Ins.a \in Nat
    BY <1>1, <1>3, Depth DEF IInv, StacksInv
  <2>5. frames' \in Seq(Nat) /\ size_frames' \in Nat \ {0}
    BY <1>3, <2>4 DEF PushFrameOn, GrownFrames
  <2> QED BY <1>1, <2>1, <2>2, <2>3, <2>5, OnwardKeeps
<1> QED BY <1>1, <1>2, <1>3, ThrowsKeeps

LEMMA PopFrameKeeps == ASSUME IInv, PopFrame PROVE IInv'
<1>1. AtWork
  BY DEF PopFrame, At, AtWork
<1>2. \/ Throws
      \/ /\ frames # << >> /\ frames' = SubSeq(frames, 1, Len(frames) - 1)
         /\ Advance /\ UNCHANGED <<stack, size_frames, vals0, dataVars>>
  BY Throwing DEF PopFrame, Check
<1>3. ASSUME frames # << >>, frames' = SubSeq(frames, 1, Len(frames) - 1), Advance,
             UNCHANGED <<stack, size_frames, vals0, dataVars>>
      PROVE  IInv'
  <2>1. DataInv' /\ Grown /\ Sound' = Sound
    BY <1>3, DataStays
  <2>2. Goto(Act.pc + 1) /\ Act.pc + 1 \in Nat /\ exc' = exc
    BY <1>1, <1>3, Located DEF Advance
  <2>3. stack' \in Seq(Sound') /\ vals0' \in Sound'
    BY <1>3, <2>1, Depth
  <2>4. frames \in Seq(Nat) /\ size_frames \in Nat \ {0}
    BY DEF IInv, StacksInv
  <2>5. frames' \in Seq(Nat) /\ size_frames' \in Nat \ {0}
    BY <1>3, <2>4
  <2> QED BY <1>1, <2>1, <2>2, <2>3, <2>5, OnwardKeeps
<1> QED BY <1>1, <1>2, <1>3, ThrowsKeeps

LEMMA ReturnValueKeeps == ASSUME IInv, ReturnValue PROVE IInv'
<1> DEFINE n == Len(calls)
           act == [calls[n] EXCEPT !.pc = 0, !.returned = TRUE, !.value = Bw(stack, 0)]
<1>1. AtWork
  BY DEF ReturnValue, At, AtWork
<1>2. \/ Throws
      \/ /\ 1 <= Len(stack) /\ vals0' = Bw(stack, 0)
         /\ calls' = [calls EXCEPT ![n].pc = 0, ![n].returned = TRUE, ![n].value = Bw(stack, 0)]
         /\ UNCHANGED <<stack, frameVars, exc, dataVars, runs, last>>
  BY Throwing DEF ReturnValue, Underflow, Check
<1>3. ASSUME 1 <= Len(stack), vals0' = Bw(stack, 0),
             calls' = [calls EXCEPT ![n].pc = 0, ![n].returned = TRUE, ![n].value = Bw(stack, 0)],
             UNCHANGED <<stack, frameVars, exc, dataVars, runs, last>>
      PROVE  IInv'
  <2>1. Bw(stack, 0) \in Sound /\ Bw(stack, 0) \in Values
    BY <1>3, OnStack, Depth
  <2>2. DataInv' /\ Grown /\ Sound' = Sound
    BY <1>3, DataStays
  <2>3. /\ calls \in Seq(Activations')
        /\ \A k \in 1 .. n : calls[k].closure > 0 => closures'[calls[k].closure].prog = calls[k].prog
    BY <2>2, ActivationsGrow
  <2>4. n \in Nat /\ n >= 1
    BY <1>1, Located
  <2>5. calls' = [calls EXCEPT ![n] = act]
    BY <1>3, <2>3, <2>4
  <2>6. calls[n] \in Activations'
    BY <2>3, <2>4
  <2>7. act \in Activations' /\ act.closure = calls[n].closure /\ act.prog = calls[n].prog
    BY <2>1, <2>6 DEF Activations
  <2> HIDE DEF act
  <2>8. calls' \in Seq(Activations') /\ Len(calls') = n /\ calls'[n] = act
        /\ \A k \in 1 .. n : k # n => calls'[k] = calls[k]
    BY <2>3, <2>4, <2>5, <2>7
  <2>9. \A k \in 1 .. Len(calls') : calls'[k].closure > 0 => closures'[calls'[k].closure].prog = calls'[k].prog
    BY <2>3, <2>4, <2>7, <2>8
  <2>10. CallsInv'
    BY <2>8, <2>9 DEF CallsInv
  <2>11. exc' = NoException
    BY <1>1, <1>3, Undisturbed
  <2>12. ExceptionConfined'
    BY <2>11 DEF ExceptionConfined
  <2>13. StacksInv'
    BY <1>3, <2>1, <2>2 DEF IInv, StacksInv, frameVars
  <2> QED BY <2>2, <2>10, <2>12, <2>13 DEF IInv
<1> QED BY <1>1, <1>2, <1>3, ThrowsKeeps

LEMMA EnterKeeps ==
  ASSUME IInv, exc = NoException, NEW p \in Progs, NEW c \in 0 .. Len(closures), c > 0 => closures[c].prog = p,
         NEW s \in Seq(Sound), NEW args \in Seq(Sound), Enter(p, c, s, args),
         vals0' \in Sound, UNCHANGED <<exc, dataVars>>, runs' \in 0 .. MaxRuns
  PROVE  IInv'
<1> DEFINE act == [prog |-> p, pc |-> 1, closure |-> c, prev_frame |-> Len(frames),
                   base |-> Len(s), returned |-> FALSE, value |-> Null]
<1>1. DataInv' /\ Grown /\ Sound' = Sound
  BY DataStays
<1>2. PushFrameOn(s, 0) /\ stack' = s \o args /\ calls' = Append(calls, act)
  BY DEF Enter
<1>3. frames \in Seq(Nat) /\ size_frames \in Nat \ {0} /\ Len(s) - 0 \in Nat
  BY DEF IInv, StacksInv
<1>4. frames' \in Seq(Nat) /\ size_frames' \in Nat \ {0}
  BY <1>2, <1>3 DEF PushFrameOn, GrownFrames
<1>5. stack' \in Seq(Sound)
  BY <1>2
<1>6. Null \in Values
  BY NullAndTruth, Depth DEF Valid
<1>7. /\ calls \in Seq(Activations')
      /\ \A k \in 1 .. Len(calls) : calls[k].closure > 0 => closures'[calls[k].closure].prog = calls[k].prog
  BY <1>1, ActivationsGrow
<1>8. closures' = closures
  BY DEF dataVars
<1>9. act \in Activations' /\ act.closure = c /\ act.prog = p
  <2>1. Len(frames) \in Nat /\ Len(s) \in Nat
    BY <1>3
  <2> QED BY <2>1, <1>6, <1>8 DEF Activations
<1> HIDE DEF act
<1>10. /\ calls' \in Seq(Activations') /\ Len(calls') = Len(calls) + 1 /\ calls'[Len(calls) + 1] = act
       /\ Len(calls) \in Nat /\ \A k \in 1 .. Len(calls) : calls'[k] = calls[k]
  BY <1>2, <1>7, <1>9
<1>11. \A k \in 1 .. Len(calls') : calls'[k].closure > 0 => closures'[calls'[k].closure].prog = calls'[k].prog
  BY <1>7, <1>8, <1>9, <1>10, SMTT(20)
<1>12. CallsInv'
  BY <1>10, <1>11 DEF CallsInv
<1>13. ExceptionConfined'
  BY DEF ExceptionConfined
<1>14. exc' \in [type : Exceptions, ipc : Nat]
  BY DEF IInv, StacksInv
<1>15. StacksInv'
  BY <1>1, <1>4, <1>5, <1>14 DEF StacksInv
<1> QED BY <1>1, <1>12, <1>13, <1>15 DEF IInv

LEMMA HostRunKeeps == ASSUME IInv, NEW p \in Entry, HostRun(p) PROVE IInv'
<1>1. PICK args \in [1 .. NArgs[p] -> Foreign] : Enter(p, 0, stack, args)
  BY DEF HostRun
<1>2. p \in Progs /\ NArgs[p] \in Nat
  BY MachineAssumption
<1>3. args \in Seq(Sound) /\ stack \in Seq(Sound) /\ 0 \in 0 .. Len(closures)
  BY <1>2, HostHandsOver, Depth DEF Sound
<1>4. exc = NoException
  BY DEF HostRun, IInv, ExceptionConfined
<1>5. vals0' \in Sound /\ UNCHANGED <<exc, dataVars>>
  BY Depth DEF HostRun
<1>6. runs' \in 0 .. MaxRuns
  BY MachineAssumption DEF HostRun, IInv, StacksInv
<1> QED BY <1>1, <1>2, <1>3, <1>4, <1>5, <1>6, EnterKeeps

LEMMA Running ==
  ASSUME IInv, calls # << >>
  PROVE  /\ calls \in Seq(Activations) /\ Len(calls) \in Nat /\ Len(calls) >= 1 /\ Act \in Activations
         /\ Act.prev_frame \in Nat /\ Act.prog \in Progs
<1>1. calls \in Seq(Activations)
  BY DEF IInv, CallsInv
<1>2. Len(calls) \in Nat /\ Len(calls) >= 1 /\ Act \in Activations
  BY <1>1 DEF Act
<1> QED BY <1>1, <1>2 DEF Activations

LEMMA RestoredIsTyped ==
  ASSUME IInv, calls # << >>, Restorable
  PROVE  Restored \in Seq(Sound) /\ RestoredFrames \in Seq(Nat)
<1> DEFINE b == Act.prev_frame
<1>1. b \in Nat /\ frames \in Seq(Nat) /\ stack \in Seq(Sound) /\ Len(frames) \in Nat /\ Len(stack) \in Nat
  BY Running, Depth DEF IInv, StacksInv
<1>2. ASSUME Len(frames) > b
      PROVE  frames[b + 1] \in Nat /\ frames[b + 1] <= Len(stack)
  BY <1>1, <1>2 DEF Restorable
<1>3. Restored = IF Len(frames) > b THEN SubSeq(stack, 1, frames[b + 1]) ELSE stack
  BY DEF Restored
<1>4. RestoredFrames = IF Len(frames) > b THEN SubSeq(frames, 1, b) ELSE frames
  BY DEF RestoredFrames
<1> HIDE DEF b
<1>5. Restored \in Seq(Sound)
  BY <1>1, <1>2, <1>3
<1>6. RestoredFrames \in Seq(Nat)
  BY <1>1, <1>4
<1> QED BY <1>5, <1>6

\* Both ends of a run: no exception is left, and the runs below are as they were.
LEMMA EndKeeps ==
  ASSUME IInv, calls # << >>, End, stack' \in Seq(Sound), vals0' \in Sound, CallsInv'
  PROVE  IInv'
<1>1. UNCHANGED dataVars /\ exc' = NoException /\ Restorable /\ frames' = RestoredFrames
      /\ size_frames' = size_frames /\ runs' = runs
  BY DEF End
<1>2. DataInv' /\ Sound' = Sound
  BY <1>1, DataStays
<1>3. frames' \in Seq(Nat)
  BY <1>1, RestoredIsTyped
<1>4. ExceptionConfined'
  BY <1>1 DEF ExceptionConfined
<1>5. exc' \in [type : Exceptions, ipc : Nat]
  BY <1>1 DEF NoException, Exceptions
<1>6. StacksInv'
  BY <1>1, <1>2, <1>3, <1>5 DEF IInv, StacksInv
<1> QED BY <1>2, <1>4, <1>6 DEF IInv

LEMMA EndOfHostRunKeeps == ASSUME IInv, EndOfHostRun PROVE IInv'
<1>1. calls # << >> /\ End /\ stack' = Restored /\ calls' = << >> /\ vals0' = vals0
  BY DEF EndOfHostRun, Ended
<1>2. stack' \in Seq(Sound) /\ vals0' \in Sound
  BY <1>1, RestoredIsTyped, Depth DEF End
<1>3. CallsInv'
  BY <1>1 DEF CallsInv
<1> QED BY <1>1, <1>2, <1>3, EndKeeps

LEMMA EndOfCallKeeps == ASSUME IInv, EndOfCall PROVE IInv'
<1> DEFINE n == Len(calls) - 1
           below == SubSeq(calls, 1, n)
           act == [calls[n] EXCEPT !.pc = @ + 1]
<1>1. calls # << >> /\ End /\ stack' = Append(Restored, vals0) /\ vals0' = Null
      /\ calls' = [below EXCEPT ![n].pc = @ + 1]
  BY DEF EndOfCall, Ended
<1>2. n \in Nat /\ n >= 1 /\ n < Len(calls) /\ calls \in Seq(Activations)
  BY <1>1, Running DEF EndOfCall
<1>3. stack' \in Seq(Sound)
  <2>1. Restored \in Seq(Sound) /\ vals0 \in Sound
    BY <1>1, RestoredIsTyped, Depth DEF End
  <2> QED BY <1>1, <2>1
<1>4. vals0' \in Sound
  BY <1>1, NullSound
<1>5. closures' = closures
  BY <1>1 DEF End, dataVars
<1>6. Grown
  BY <1>5, Same
<1>7. /\ calls \in Seq(Activations')
      /\ \A k \in 1 .. Len(calls) : calls[k].closure > 0 => closures'[calls[k].closure].prog = calls[k].prog
  BY <1>6, ActivationsGrow
<1> HIDE DEF n
<1>8. /\ below \in Seq(Activations') /\ Len(below) = n
      /\ \A k \in 1 .. n : below[k] = calls[k]
  BY <1>2, <1>7
<1>9. calls[n] \in Activations'
  BY <1>2, <1>7
<1>10. act \in Activations' /\ act.closure = calls[n].closure /\ act.prog = calls[n].prog
  BY <1>9 DEF Activations
<1> HIDE DEF below
<1>11. calls' = [below EXCEPT ![n] = act]
  <2>1. below[n] = calls[n]
    BY <1>2, <1>8
  <2>2. calls' = [below EXCEPT ![n] = [below[n] EXCEPT !.pc = @ + 1]]
    BY <1>1
  <2> QED BY <2>1, <2>2
<1> HIDE DEF act
<1>12. /\ calls' \in Seq(Activations') /\ Len(calls') = n /\ calls'[n] = act
       /\ \A k \in 1 .. n : k # n => calls'[k] = calls[k]
  BY <1>2, <1>8, <1>10, <1>11
<1>13. \A k \in 1 .. Len(calls') : calls'[k].closure > 0 => closures'[calls'[k].closure].prog = calls'[k].prog
  BY <1>2, <1>7, <1>10, <1>12
<1>14. CallsInv'
  BY <1>12, <1>13 DEF CallsInv
<1> QED BY <1>1, <1>3, <1>4, <1>14, EndKeeps

LEMMA SignatureIsSequence ==
  ASSUME IInv, NEW f \in Sound, f.type \in Functions
  PROVE  Len(Signature(f)) \in Nat
<1>1. Known(f, Len(closures))
  BY DEF Sound, Valid
<1>2. CASE f.type = "function"
  <2>1. closures[f.ref].prog \in Progs
    BY <1>1, <1>2, ClosuresHavePrograms DEF Known
  <2>2. Signature(f) = [i \in 1 .. NArgs[closures[f.ref].prog] |-> "any"]
    BY <1>2 DEF Signature
  <2>3. NArgs[closures[f.ref].prog] \in Nat
    BY <2>1, MachineAssumption
  <2>4. \A m \in Nat : Len([i \in 1 .. m |-> "any"]) \in Nat
    OBVIOUS
  <2> QED BY <2>2, <2>3, <2>4
<1>3. CASE f.type = "native"
  <2>1. Signature(f) = NativeArgs[f.content] /\ f.content \in DOMAIN NativeArgs
    BY <1>1, <1>3 DEF Signature, Known
  <2>2. NativeArgs[f.content] \in Seq(Types)
    BY <2>1, HostAssumption
  <2> QED BY <2>1, <2>2
<1> QED BY <1>2, <1>3 DEF Functions

(***************************************************************************)
(* What INVOKE comes to: on a stack whose arguments are converted as far   *)
(* as they can be, it is refused, starts a run or is answered by the host. *)
(***************************************************************************)
Prepared(s) ==
  /\ Len(s) = Len(stack) /\ Reach \in Nat
  /\ \A i \in 1 .. Len(stack) - Reach : s[i] = stack[i]
Refused(s) ==
  /\ stack' = s
  /\ exc' = [type |-> "INVALID_TYPE", ipc |-> Act.pc] /\ Goto(0)
  /\ UNCHANGED <<frameVars, vals0, dataVars>>
Passed(args) ==
  /\ Len(args) = Reach /\ Reach <= Len(stack)
  /\ args = SubSeq(stack, Len(stack) - Reach + 1, Len(stack))
Entered(s) ==
  /\ \E c \in 1 .. Len(closures), args \in Seq(Sound) :
       /\ Len(args) = NArgs[closures[c].prog] /\ Enter(closures[c].prog, c, s, args)
       /\ s = stack /\ Passed(args)
  /\ vals0' = Null /\ UNCHANGED <<exc, dataVars, runs, last>>
Answered(s) ==
  /\ \E result \in Sound : stack' = Append(s, result)
  /\ vals0' = Null /\ Advance /\ UNCHANGED <<frameVars, dataVars>>
Calls == \E s \in Seq(Sound) : Prepared(s) /\ (Refused(s) \/ Entered(s) \/ Answered(s))

LEMMA InvokeCases == ASSUME IInv, Invoke PROVE AtWork /\ Ins.op = "INVOKE" /\ (Throws \/ Calls)
<1> DEFINE f == Bw(stack, Ins.a)
           sig == Signature(f)
           args == Len(stack) - Len(sig)
           Fits(i) == Convertible(stack[args + i], sig[i])
           fits == \A i \in 1 .. Len(sig) : Fits(i)
           s == [p \in 1 .. Len(stack) |->
                   IF p > args /\ \A i \in 1 .. p - args : Fits(i)
                   THEN Converted(stack[p], sig[p - args]) ELSE stack[p]]
           Compiled ==
             /\ f.type = "function"
             /\ Enter(closures[f.ref].prog, f.ref, s, SubSeq(s, args + 1, Len(s)))
             /\ vals0' = Null
             /\ UNCHANGED <<exc, dataVars, runs, last>>
           OfHost ==
             /\ f.type = "native"
             /\ \E result \in Found : stack' = Append(s, result)
             /\ vals0' = Null
             /\ Advance
             /\ UNCHANGED <<frameVars, dataVars>>
<1>1. AtWork /\ Ins.a \in Nat /\ Ins.op = "INVOKE"
  BY Operand DEF Invoke, At, AtWork, JumpCodes
<1>2. stack \in Seq(Sound) /\ Len(stack) \in Nat /\ Len(closures) \in Nat
  BY Depth
<1>3. \/ Throws
      \/ /\ Ins.a < Len(stack) /\ Implements(f.type, "FUNCTION") /\ args >= 0
         /\ Refused(s) \/ Compiled \/ OfHost
  <2>1. /\ stack # << >> => Ins.a < Len(stack)
        /\ Underflow(1, Check(Implements(f.type, "FUNCTION"), "INVALID_TYPE",
             args >= 0 /\ IF fits THEN Compiled \/ OfHost ELSE Refused(s)))
    BY DEF Invoke, Refused
  <2> HIDE DEF f, args, fits, s, Compiled, OfHost
  <2>2. 1 <= Len(stack) => stack # << >>
    BY <1>2
  <2> QED BY <2>1, <2>2, Throwing DEF Underflow, Check
<1>4. ASSUME Ins.a < Len(stack), Implements(f.type, "FUNCTION"), args >= 0
      PROVE  f \in Sound /\ s \in Seq(Sound) /\ Prepared(s) /\ args \in Nat
  <2>1. f \in Sound /\ f.type \in Functions
    BY <1>1, <1>4, OnStack DEF Implements
  <2>2. Len(sig) \in Nat
    BY <2>1, SignatureIsSequence
  <2>3. args \in Nat
    BY <1>2, <1>4, <2>2
  <2>4. ASSUME NEW p \in 1 .. Len(stack), p > args, \A i \in 1 .. p - args : Fits(i)
        PROVE  Converted(stack[p], sig[p - args]) \in Sound
    <3> HIDE DEF sig
    <3>1. p - args \in 1 .. p - args /\ args + (p - args) = p
      BY <1>2, <2>3, <2>4
    <3>2. Convertible(stack[p], sig[p - args])
      BY <2>4, <3>1
    <3>3. stack[p] \in Sound
      BY <1>2
    <3> QED BY <1>2, <3>2, <3>3, Conversion DEF Sound
  <2>5. Reach = Len(sig)
    BY <1>1, <1>4 DEF Reach
  <2>6. Len(stack) - Len(sig) = args
    OBVIOUS
  <2> HIDE DEF sig, args, Fits
  <2>7. \A p \in 1 .. Len(stack) : s[p] \in Sound
    <3>1. \A p \in 1 .. Len(stack) : stack[p] \in Sound
      BY <1>2
    <3> QED BY <2>4, <3>1
  <2>8. \A i \in 1 .. args : i \in 1 .. Len(stack) => s[i] = stack[i]
    BY <1>2, <2>3
  <2>9. s = [p \in 1 .. Len(stack) |-> s[p]]
    OBVIOUS
  <2> HIDE DEF s
  <2>10. s \in Seq(Sound) /\ Len(s) = Len(stack)
    BY <1>2, <2>7, <2>9
  <2>11. \A i \in 1 .. args : s[i] = stack[i]
    <3>1. \A i \in 1 .. args : i \in 1 .. Len(stack)
      BY <1>2, <2>2, <2>3, <2>6
    <3> QED BY <2>8, <3>1
  <2>12. Prepared(s)
    BY <2>2, <2>5, <2>6, <2>10, <2>11 DEF Prepared
  <2> QED BY <2>1, <2>3, <2>10, <2>12
<1> HIDE DEF s, args, sig, f
<1>5. ASSUME f \in Sound, args \in Nat, s \in Seq(Sound), Prepared(s), Ins.a < Len(stack), Compiled
      PROVE  Entered(s)
  <2>1. f.ref \in 1 .. Len(closures)
    BY <1>5 DEF Sound, Valid, Known
  <2> DEFINE given == SubSeq(s, args + 1, Len(s))
             n == NArgs[closures[f.ref].prog]
  <2>2. given \in Seq(Sound)
    BY <1>5
  <2>3. n \in Nat
    BY <2>1, ClosuresHavePrograms, MachineAssumption
  <2>4. sig = [i \in 1 .. n |-> "any"]
    BY <1>5 DEF Signature, sig
  <2> HIDE DEF n
  <2>5. Len(sig) = n
    BY <2>3, <2>4
  <2>6. args + n = Len(s) /\ Len(s) \in Nat /\ Len(s) = Len(stack)
    BY <1>2, <1>5, <2>3, <2>5 DEF args, Prepared
  <2>7. Len(given) = n
    BY <1>5, <2>3, <2>6
  <2>8. s = stack
    <3>1. \A x : Converted(x, "any") = x
      BY DEF Converted
    <3>2. \A p \in 1 .. Len(stack) : p > args => p - args \in 1 .. n
      BY <1>2, <1>5, <2>3, <2>6
    <3>3. \A p \in 1 .. Len(stack) : p > args => sig[p - args] = "any"
      BY <2>4, <3>2
    <3>4. \A p \in 1 .. Len(stack) : s[p] = stack[p]
      BY <3>1, <3>3 DEF s
    <3> QED BY <1>2, <1>5, <2>6, <3>4
  <2>9. Reach = n
    BY <1>1, <1>5, <2>5 DEF Reach, sig, f
  <2> DEFINE m == args + 1
  <2>10. Len(stack) - n + 1 = m /\ n <= Len(stack)
    BY <1>5, <2>3, <2>6
  <2> HIDE DEF given, m
  <2>11. given = SubSeq(stack, Len(stack) - n + 1, Len(stack))
    BY <2>8, <2>10, Zenon DEF given, m
  <2>12. Passed(given)
    BY <2>7, <2>9, <2>10, <2>11, Zenon DEF Passed
  <2> QED BY <1>5, <2>1, <2>2, <2>7, <2>8, <2>12, Zenon DEF Entered, given, n
<1>6. ASSUME OfHost
      PROVE  Answered(s)
  <2>1. Found \subseteq Sound
    BY FoundSound
  <2> QED BY <1>6, <2>1 DEF Answered
<1> HIDE DEF Compiled, OfHost
<1>7. Throws \/ (s \in Seq(Sound) /\ Prepared(s) /\ (Refused(s) \/ Entered(s) \/ Answered(s)))
  BY <1>3, <1>4, <1>5, <1>6
<1> QED BY <1>1, <1>7 DEF Calls

LEMMA InvokeKeeps == ASSUME IInv, Invoke PROVE IInv'
<1>1. AtWork /\ (Throws \/ Calls)
  BY InvokeCases
<1>2. ASSUME NEW s \in Seq(Sound), Refused(s)
      PROVE  IInv'
  <2>1. "INVALID_TYPE" \in Exceptions
    BY DEF Exceptions
  <2> QED BY <1>1, <1>2, <2>1, StopKeeps DEF Refused
<1>3. ASSUME NEW s \in Seq(Sound), Entered(s)
      PROVE  IInv'
  <2>1. PICK c \in 1 .. Len(closures), args \in Seq(Sound) : Enter(closures[c].prog, c, s, args)
    BY <1>3 DEF Entered
  <2>2. c \in 0 .. Len(closures) /\ closures[c].prog \in Progs
    BY Depth, ClosuresHavePrograms
  <2>3. vals0' \in Sound /\ exc = NoException /\ UNCHANGED <<exc, dataVars>>
    BY <1>1, <1>3, NullSound, Undisturbed DEF Entered
  <2>4. runs' \in 0 .. MaxRuns
    BY <1>3 DEF Entered, IInv, StacksInv
  <2> QED BY <2>1, <2>2, <2>3, <2>4, EnterKeeps
<1>4. ASSUME NEW s \in Seq(Sound), Answered(s)
      PROVE  IInv'
  <2>1. DataInv' /\ Grown /\ Sound' = Sound
    BY <1>4, DataStays DEF Answered
  <2>2. Goto(Act.pc + 1) /\ Act.pc + 1 \in Nat /\ exc' = exc
    BY <1>1, <1>4, Located DEF Answered, Advance
  <2>3. stack' \in Seq(Sound') /\ vals0' \in Sound'
    BY <1>4, <2>1, NullSound DEF Answered
  <2>4. frames' \in Seq(Nat) /\ size_frames' \in Nat \ {0}
    BY <1>4 DEF Answered, IInv, StacksInv, frameVars
  <2> QED BY <1>1, <2>1, <2>2, <2>3, <2>4, OnwardKeeps
<1> QED BY <1>1, <1>2, <1>3, <1>4, ThrowsKeeps DEF Calls

\* Storing into a block of entries, and binding captures in one.
LEMMA StoredIsTyped ==
  ASSUME NEW S, NEW m \in Nat, NEW block \in [1 .. m -> [val : S, set : BOOLEAN]],
         NEW i \in Nat, i < m, NEW v \in S, NEW n \in Nat
  PROVE  Stored(block, i, v, n) \in [1 .. m -> [val : S, set : BOOLEAN]]
<1>1. SetTo(v) \in [val : S, set : BOOLEAN]
  BY DEF SetTo
<1> QED BY <1>1 DEF Stored

LEMMA BoundIsTyped ==
  ASSUME NEW S, NEW m \in Nat, NEW block \in [1 .. m -> [val : S, set : BOOLEAN]], NEW vs \in Seq(S)
  PROVE  Bound(block, vs) \in [1 .. m -> [val : S, set : BOOLEAN]]
<1>1. ASSUME NEW i \in 1 .. m, i <= Len(vs)
      PROVE  SetTo(vs[i]) \in [val : S, set : BOOLEAN]
  <2>1. vs[i] \in S
    BY <1>1
  <2> QED BY <2>1 DEF SetTo
<1> QED BY <1>1 DEF Bound

LEMMA StoreValueKeeps == ASSUME IInv, StoreValue PROVE IInv'
<1> DEFINE p == Act.prog
           block == Stored(shared[p], Ins.a, Bw(stack, 0), NCaptures[p])
<1>1. AtWork /\ Ins.a \in Nat /\ Ins.a < SharedSize(p)
  BY Operand DEF StoreValue, At, AtWork, JumpCodes
<1>2. \/ Throws
      \/ /\ 1 <= Len(stack) /\ shared' = [shared EXCEPT ![p] = block] /\ stack' = Popped(stack, 1)
         /\ Advance /\ UNCHANGED <<frameVars, vals0, closures>>
  BY Throwing DEF StoreValue, Underflow, Check
<1>3. ASSUME 1 <= Len(stack), shared' = [shared EXCEPT ![p] = block], stack' = Popped(stack, 1),
             Advance, UNCHANGED <<frameVars, vals0, closures>>
      PROVE  IInv'
  <2>1. Grown /\ Sound' = Sound
    BY <1>3, Same DEF Sound
  <2>2. SoundEntries' = SoundEntries
    BY <2>1 DEF SoundEntries
  <2>3. p \in Progs /\ SharedSize(p) \in Nat /\ NCaptures[p] \in Nat
    BY <1>1, Located, MachineAssumption, CodeAssumption DEF SharedSize
  <2>4. /\ DOMAIN shared = Progs
        /\ \A q \in Progs : shared[q] \in [1 .. SharedSize(q) -> SoundEntries]
    BY DEF IInv, DataInv
  <2>5. Bw(stack, 0) \in Sound
    BY <1>3, OnStack, Depth
  <2>6. block \in [1 .. SharedSize(p) -> SoundEntries]
    BY <1>1, <2>3, <2>4, <2>5, StoredIsTyped DEF SoundEntries
  <2> HIDE DEF block
  <2>7. /\ DOMAIN shared' = Progs
        /\ \A q \in Progs : shared'[q] \in [1 .. SharedSize(q) -> SoundEntries]
    BY <1>3, <2>4, <2>6
  <2>8. DataInv'
    BY <1>3, <2>2, <2>7 DEF IInv, DataInv
  <2>9. stack' \in Seq(Sound')
    BY <1>3, <2>1, Depth, Pops
  <2>10. vals0' \in Sound'
    BY <1>3, <2>1, Depth
  <2>11. frames' \in Seq(Nat) /\ size_frames' \in Nat \ {0}
    BY <1>3 DEF IInv, StacksInv, frameVars
  <2>12. Goto(Act.pc + 1) /\ Act.pc + 1 \in Nat /\ exc' = exc
    BY <1>1, <1>3, Located DEF Advance
  <2> QED BY <1>1, <2>1, <2>8, <2>9, <2>10, <2>11, <2>12, OnwardKeeps
<1> QED BY <1>1, <1>2, <1>3, ThrowsKeeps

LEMMA StoreCaptureKeeps == ASSUME IInv, StoreCapture PROVE IInv'
<1> DEFINE p == Act.prog
           c == Act.closure
           block == Stored(closures[c].static, Ins.a, Bw(stack, 0), Len(Constants[p]))
           new == [closures[c] EXCEPT !.static = block]
<1>1. AtWork /\ Ins.a \in Nat /\ Ins.a < NStatic[p] /\ c > 0
  BY Operand DEF StoreCapture, At, AtWork, JumpCodes
<1>2. \/ Throws
      \/ /\ 1 <= Len(stack)
         /\ closures' = [closures EXCEPT ![c].static = Stored(@, Ins.a, Bw(stack, 0), Len(Constants[p]))]
         /\ stack' = Popped(stack, 1)
         /\ Advance /\ UNCHANGED <<frameVars, vals0, shared>>
  BY Throwing DEF StoreCapture, Underflow, Check
<1>3. ASSUME 1 <= Len(stack),
             closures' = [closures EXCEPT ![c].static = Stored(@, Ins.a, Bw(stack, 0), Len(Constants[p]))],
             stack' = Popped(stack, 1), Advance, UNCHANGED <<frameVars, vals0, shared>>
      PROVE  IInv'
  <2>1. c \in 1 .. Len(closures) /\ p \in Progs /\ Len(closures) \in Nat /\ closures[c].prog = p
    <3>1. Act \in Activations /\ Len(closures) \in Nat /\ Act = calls[Len(calls)] /\ Len(calls) >= 1 /\ Len(calls) \in Nat
      BY <1>1, Located, Depth DEF Act
    <3>2. c \in 0 .. Len(closures) /\ p \in Progs
      BY <3>1 DEF Activations
    <3>3. closures[c].prog = p
      BY <1>1, <3>1 DEF IInv, CallsInv
    <3> QED BY <1>1, <3>1, <3>2, <3>3
  <2>2. closures \in Seq(Closures) /\ closures[c] \in Closures
        /\ \A d \in 1 .. Len(closures) : closures[d].static \in [1 .. NStatic[closures[d].prog] -> SoundEntries]
    BY <2>1 DEF IInv, DataInv
  <2>3. NStatic[p] \in Nat /\ Len(Constants[p]) \in Nat /\ closures[c].static \in [1 .. NStatic[p] -> SoundEntries]
    <3>1. NStatic[p] \in Nat
      BY <2>1, MachineAssumption
    <3>2. Len(Constants[p]) \in Nat
      BY <2>1, CodeAssumption
    <3>3. closures[c].static \in [1 .. NStatic[p] -> SoundEntries]
      BY <2>1, <2>2, Zenon
    <3> QED BY <3>1, <3>2, <3>3
  <2>4. Bw(stack, 0) \in Sound
    BY <1>3, OnStack, Depth
  <2>5. block \in [1 .. NStatic[p] -> SoundEntries]
    BY <1>1, <2>3, <2>4, StoredIsTyped DEF SoundEntries
  <2>6. closures' = [closures EXCEPT ![c] = new]
    BY <1>3, <2>1, <2>2
  <2> HIDE DEF block
  <2>7. SoundEntries \subseteq Entries
    BY DEF SoundEntries, Sound, Valid, Entries
  <2>8. block \in StaticBlocks
    BY <2>1, <2>5, <2>7 DEF StaticBlocks
  <2>9. new \in Closures /\ new.prog = p /\ new.static = block
    BY <2>1, <2>2, <2>8 DEF Closures
  <2> HIDE DEF new
  <2>10. /\ closures' \in Seq(Closures) /\ Len(closures') = Len(closures) /\ closures'[c] = new
         /\ \A d \in 1 .. Len(closures) : d # c => closures'[d] = closures[d]
    BY <2>1, <2>2, <2>6, <2>9
  <2>11. Sound' = Sound
    BY <2>10 DEF Sound
  <2>12. SoundEntries' = SoundEntries
    BY <2>11 DEF SoundEntries
  <2>13. Grown
    BY <2>1, <2>9, <2>10 DEF Grown
  <2>14. \A d \in 1 .. Len(closures') : closures'[d].static \in [1 .. NStatic[closures'[d].prog] -> SoundEntries]
    BY <2>1, <2>2, <2>5, <2>9, <2>10
  <2>15. DataInv'
    BY <1>3, <2>10, <2>12, <2>14 DEF IInv, DataInv
  <2>16. stack' \in Seq(Sound')
    BY <1>3, <2>11, Depth, Pops
  <2>17. vals0' \in Sound'
    BY <1>3, <2>11, Depth
  <2>18. frames' \in Seq(Nat) /\ size_frames' \in Nat \ {0}
    BY <1>3 DEF IInv, StacksInv, frameVars
  <2>19. Goto(Act.pc + 1) /\ Act.pc + 1 \in Nat /\ exc' = exc
    BY <1>1, <1>3, Located DEF Advance
  <2> QED BY <1>1, <2>13, <2>15, <2>16, <2>17, <2>18, <2>19, OnwardKeeps
<1> QED BY <1>1, <1>2, <1>3, ThrowsKeeps

LEMMA ClosureKeeps == ASSUME IInv, Closure PROVE IInv'
<1> DEFINE n == Ins.a
           p == Bw(stack, n).content
           m == Len(closures) + 1
           captured == SubSeq(stack, Len(stack) - n + 1, Len(stack))
           static == [i \in 1 .. NStatic[p] |-> Unset]
           new == [prog |-> p, snapshot |-> captured, static |-> static]
           block == Bound(shared[p], captured)
<1>1. AtWork /\ n \in Nat
  BY Operand DEF Closure, At, AtWork, JumpCodes
<1>2. \/ Throws
      \/ /\ n + 1 <= Len(stack) /\ Bw(stack, n).type = "program"
         /\ shared' = [shared EXCEPT ![p] = block] /\ closures' = Append(closures, new)
         /\ stack' = Append(Popped(stack, n + 1), FunctionOf(m))
         /\ Advance /\ UNCHANGED <<frameVars, vals0>>
  BY Throwing DEF Closure, Exact, Underflow, Check
<1>3. ASSUME n + 1 <= Len(stack), Bw(stack, n).type = "program",
             shared' = [shared EXCEPT ![p] = block], closures' = Append(closures, new),
             stack' = Append(Popped(stack, n + 1), FunctionOf(m)), Advance, UNCHANGED <<frameVars, vals0>>
      PROVE  IInv'
  <2>1. stack \in Seq(Sound) /\ Len(stack) \in Nat /\ Len(closures) \in Nat /\ m \in Nat /\ vals0 \in Sound
    BY Depth
  <2>2. p \in Progs
    <3>1. Bw(stack, n) \in Sound
      BY <1>1, <1>3, OnStack
    <3> QED BY <1>3, <3>1 DEF Sound, Valid, Known
  <2>3. captured \in Seq(Sound)
    BY <1>1, <1>3, <2>1, Topmost, SMTT(20)
  <2>4. NStatic[p] \in Nat /\ SharedSize(p) \in Nat
    BY <2>2, MachineAssumption, CodeAssumption DEF SharedSize
  <2> HIDE DEF captured, p, n
  <2>5. closures \in Seq(Closures)
        /\ \A d \in 1 .. Len(closures) : closures[d].static \in [1 .. NStatic[closures[d].prog] -> SoundEntries]
    BY DEF IInv, DataInv
  <2>6. static \in [1 .. NStatic[p] -> SoundEntries]
    BY NullSound DEF Unset, SoundEntries
  <2>7. SoundEntries \subseteq Entries /\ Sound \subseteq Values
    BY DEF SoundEntries, Sound, Valid, Entries
  <2>8. static \in StaticBlocks
    BY <2>2, <2>6, <2>7 DEF StaticBlocks
  <2> HIDE DEF static
  <2>9. new \in Closures /\ new.prog = p /\ new.static = static
    BY <2>2, <2>3, <2>7, <2>8 DEF Closures
  <2> HIDE DEF new
  <2>10. /\ closures' \in Seq(Closures) /\ Len(closures') = m /\ closures'[m] = new
         /\ \A d \in 1 .. Len(closures) : closures'[d] = closures[d]
    BY <1>3, <2>1, <2>5, <2>9
  <2>11. Grown
    BY <2>1, <2>10 DEF Grown
  <2>12. Sound \subseteq Sound' /\ Seq(Sound) \subseteq Seq(Sound')
    BY <2>1, <2>10, ValidGrows DEF Sound
  <2>13. SoundEntries \subseteq SoundEntries'
    BY <2>12 DEF SoundEntries
  <2>14. \A d \in 1 .. m : closures'[d].static \in [1 .. NStatic[closures'[d].prog] -> SoundEntries']
    <3>1. ASSUME NEW d \in 1 .. Len(closures)
          PROVE  closures'[d].static \in [1 .. NStatic[closures'[d].prog] -> SoundEntries']
      <4>1. closures[d].static \in [1 .. NStatic[closures[d].prog] -> SoundEntries] /\ closures'[d] = closures[d]
        BY <2>5, <2>10
      <4> QED BY <2>13, <4>1
    <3>2. closures'[m].static \in [1 .. NStatic[closures'[m].prog] -> SoundEntries']
      BY <2>6, <2>9, <2>10, <2>13
    <3> QED BY <2>1, <3>1, <3>2
  <2>15. /\ DOMAIN shared = Progs
         /\ \A q \in Progs : shared[q] \in [1 .. SharedSize(q) -> SoundEntries]
    BY DEF IInv, DataInv
  <2>16. block \in [1 .. SharedSize(p) -> SoundEntries]
    BY <2>2, <2>3, <2>4, <2>15, BoundIsTyped DEF SoundEntries
  <2> HIDE DEF block
  <2>17. /\ DOMAIN shared' = Progs
         /\ \A q \in Progs : shared'[q] \in [1 .. SharedSize(q) -> SoundEntries]
    BY <1>3, <2>15, <2>16
  <2>18. \A q \in Progs : shared'[q] \in [1 .. SharedSize(q) -> SoundEntries']
    BY <2>13, <2>17
  <2>19. DataInv'
    BY <2>10, <2>14, <2>17, <2>18 DEF DataInv
  <2>20. FunctionOf(m) \in Sound'
    <3>1. m \in Nat /\ m \in 1 .. m
      BY <2>1
    <3> QED BY <2>10, <3>1, ClosuresAreValues DEF Sound
  <2>21. Popped(stack, n + 1) \in Seq(Sound)
    BY <1>1, <1>3, <2>1, Pops
  <2>22. stack' \in Seq(Sound') /\ vals0' \in Sound'
    BY <1>3, <2>1, <2>12, <2>20, <2>21
  <2>23. frames' \in Seq(Nat) /\ size_frames' \in Nat \ {0}
    BY <1>3 DEF IInv, StacksInv, frameVars
  <2>24. Goto(Act.pc + 1) /\ Act.pc + 1 \in Nat /\ exc' = exc
    BY <1>1, <1>3, Located DEF Advance
  <2> QED BY <1>1, <2>11, <2>19, <2>22, <2>23, <2>24, OnwardKeeps
<1> HIDE DEF n, p, m, captured, static, new, block
<1> QED BY <1>1, <1>2, <1>3, ThrowsKeeps

-----------------------------------------------------------------------------
(***************************************************************************)
(* All steps.                                                              *)
(***************************************************************************)
Ordinary == AtWork /\ Ins.op # "INVOKE" /\ (Throws \/ Proceeds)
Special ==
  \/ PushFrame \/ PopFrame \/ ReturnValue \/ Invoke \/ EndOfCall \/ EndOfHostRun
  \/ StoreValue \/ StoreCapture \/ Closure

LEMMA FlowOrdinary ==
  ASSUME IInv, Return \/ Exception \/ ExceptionIfTypeIsNot \/ Nop \/ Jump \/ JumpCond
  PROVE  Ordinary
<1>1. CASE Return
  BY <1>1, ReturnOrdinary DEF Return, At, AtWork, Ordinary
<1>2. CASE Exception
  BY <1>2, ExceptionOrdinary DEF Exception, At, AtWork, Ordinary
<1>3. CASE ExceptionIfTypeIsNot
  BY <1>3, ExceptionIfTypeIsNotOrdinary DEF ExceptionIfTypeIsNot, At, AtWork, Ordinary
<1>4. CASE Nop
  BY <1>4, NopOrdinary DEF Nop, At, AtWork, Ordinary
<1>5. CASE Jump
  BY <1>5, JumpOrdinary DEF Jump, At, AtWork, Ordinary
<1>6. CASE JumpCond
  BY <1>6, JumpCondOrdinary DEF JumpCond, At, AtWork, Ordinary
<1> QED BY <1>1, <1>2, <1>3, <1>4, <1>5, <1>6

LEMMA MovesOrdinary ==
  ASSUME IInv, Pop \/ Remove \/ PushEmpty \/ PushImmediate \/ Duplicate \/ DuplicateFrame \/ Exchange
         \/ ExchangeFrame
  PROVE  Ordinary
<1>1. CASE Pop
  BY <1>1, PopOrdinary DEF Pop, At, AtWork, Ordinary
<1>2. CASE Remove
  BY <1>2, RemoveOrdinary DEF Remove, At, AtWork, Ordinary
<1>3. CASE PushEmpty
  BY <1>3, PushEmptyOrdinary DEF PushEmpty, At, AtWork, Ordinary
<1>4. CASE PushImmediate
  BY <1>4, PushImmediateOrdinary DEF PushImmediate, At, AtWork, Ordinary
<1>5. CASE Duplicate
  BY <1>5, DuplicateOrdinary DEF Duplicate, At, AtWork, Ordinary
<1>6. CASE DuplicateFrame
  BY <1>6, DuplicateFrameOrdinary DEF DuplicateFrame, At, AtWork, Ordinary
<1>7. CASE Exchange
  BY <1>7, ExchangeOrdinary DEF Exchange, At, AtWork, Ordinary
<1>8. CASE ExchangeFrame
  BY <1>8, ExchangeFrameOrdinary DEF ExchangeFrame, At, AtWork, Ordinary
<1> QED BY <1>1, <1>2, <1>3, <1>4, <1>5, <1>6, <1>7, <1>8

LEMMA DataOrdinary ==
  ASSUME IInv, PushValue \/ PushCapture \/ Type \/ TypeImmediate \/ TypeOf \/ Promote \/ ConvertType
  PROVE  Ordinary
<1>1. CASE PushValue
  BY <1>1, PushValueOrdinary DEF PushValue, At, AtWork, Ordinary
<1>2. CASE PushCapture
  BY <1>2, PushCaptureOrdinary DEF PushCapture, At, AtWork, Ordinary
<1>3. CASE Type
  BY <1>3, TypeOrdinary DEF Type, At, AtWork, Ordinary
<1>4. CASE TypeImmediate
  BY <1>4, TypeImmediateOrdinary DEF TypeImmediate, At, AtWork, Ordinary
<1>5. CASE TypeOf
  BY <1>5, TypeOfOrdinary DEF TypeOf, At, AtWork, Ordinary
<1>6. CASE Promote
  BY <1>6, PromoteOrdinary DEF Promote, At, AtWork, Ordinary
<1>7. CASE ConvertType
  BY <1>7, ConvertTypeOrdinary DEF ConvertType, At, AtWork, Ordinary
<1> QED BY <1>1, <1>2, <1>3, <1>4, <1>5, <1>6, <1>7

LEMMA OperatorsOrdinary ==
  ASSUME IInv, Equal \/ Compare \/ LogicalNot \/ LogicalBinary \/ Unary \/ Arithmetic \/ MinMax
  PROVE  Ordinary
<1>1. CASE Equal
  BY <1>1, EqualOrdinary DEF Equal, At, AtWork, Ordinary
<1>2. CASE Compare
  BY <1>2, CompareOrdinary DEF Compare, At, AtWork, Ordinary
<1>3. CASE LogicalNot
  BY <1>3, LogicalNotOrdinary DEF LogicalNot, At, AtWork, Ordinary
<1>4. CASE LogicalBinary
  BY <1>4, LogicalBinaryOrdinary DEF LogicalBinary, At, AtWork, Ordinary
<1>5. CASE Unary
  BY <1>5, UnaryOrdinary DEF Unary, At, AtWork, Ordinary
<1>6. CASE Arithmetic
  BY <1>6, ArithmeticOrdinary DEF Arithmetic, At, AtWork, Ordinary, Binary, BinaryTyped
<1>7. CASE MinMax
  BY <1>7, MinMaxOrdinary DEF MinMax, At, AtWork, Ordinary
<1> QED BY <1>1, <1>2, <1>3, <1>4, <1>5, <1>6, <1>7

LEMMA ObjectsOrdinary ==
  ASSUME IInv, NewArray \/ LoadArrayElement \/ WriteArrayElement \/ GetInterface \/ GetGlobal \/ GetProperty \/ GetFunction
         \/ GetStaticFunction \/ SetProperty \/ GetStaticProperty \/ LookupProperty \/ GetAttribute \/ SetAttribute
  PROVE  Ordinary
<1>1. CASE NewArray
  BY <1>1, NewArrayOrdinary DEF NewArray, At, AtWork, Ordinary
<1>2. CASE LoadArrayElement
  BY <1>2, LoadArrayElementOrdinary DEF LoadArrayElement, At, AtWork, Ordinary
<1>3. CASE WriteArrayElement
  BY <1>3, WriteArrayElementOrdinary DEF WriteArrayElement, At, AtWork, Ordinary
<1>4. CASE GetInterface
  BY <1>4, GetInterfaceOrdinary DEF GetInterface, At, AtWork, Ordinary
<1>5. CASE GetGlobal
  BY <1>5, GetGlobalOrdinary DEF GetGlobal, At, AtWork, Ordinary
<1>6. CASE GetProperty
  BY <1>6, GetPropertyOrdinary DEF GetProperty, At, AtWork, Ordinary
<1>7. CASE GetFunction
  BY <1>7, GetFunctionOrdinary DEF GetFunction, At, AtWork, Ordinary
<1>8. CASE GetStaticFunction
  BY <1>8, GetStaticFunctionOrdinary DEF GetStaticFunction, At, AtWork, Ordinary
<1>9. CASE SetProperty
  BY <1>9, SetPropertyOrdinary DEF SetProperty, At, AtWork, Ordinary
<1>10. CASE GetStaticProperty
  BY <1>10, GetStaticPropertyOrdinary DEF GetStaticProperty, At, AtWork, Ordinary
<1>11. CASE LookupProperty
  BY <1>11, LookupPropertyOrdinary DEF LookupProperty, At, AtWork, Ordinary
<1>12. CASE GetAttribute
  BY <1>12, GetAttributeOrdinary DEF GetAttribute, At, AtWork, Ordinary
<1>13. CASE SetAttribute
  BY <1>13, SetAttributeOrdinary DEF SetAttribute, At, AtWork, Ordinary
<1> QED BY <1>1, <1>2, <1>3, <1>4, <1>5, <1>6, <1>7, <1>8, <1>9, <1>10, <1>11, <1>12, <1>13

LEMMA Steps == ASSUME IInv, Step PROVE Ordinary \/ Special
<1>1. CASE Runs
  BY <1>1, FlowOrdinary DEF Runs, Special
<1>2. CASE Control
  BY <1>2, FlowOrdinary DEF Control, Special
<1>3. CASE Moves
  BY <1>3, MovesOrdinary DEF Moves
<1>4. CASE Data
  BY <1>4, DataOrdinary DEF Data, Special
<1>5. CASE Typing
  BY <1>5, DataOrdinary DEF Typing
<1>6. CASE Operators
  BY <1>6, OperatorsOrdinary DEF Operators
<1>7. CASE Objects
  BY <1>7, ObjectsOrdinary DEF Objects
<1> QED BY <1>1, <1>2, <1>3, <1>4, <1>5, <1>6, <1>7 DEF Step

LEMMA StutteringKeeps == ASSUME IInv, UNCHANGED vars PROVE IInv'
<1>1. /\ stack' = stack /\ frames' = frames /\ size_frames' = size_frames /\ vals0' = vals0 /\ exc' = exc
      /\ calls' = calls /\ runs' = runs /\ UNCHANGED dataVars
  BY DEF vars, dataVars
<1>2. DataInv' /\ Grown /\ Sound' = Sound
  BY <1>1, DataStays
<1>3. StacksInv'
  BY <1>1, <1>2 DEF IInv, StacksInv
<1>4. CallsInv'
  BY <1>1, <1>2, ActivationsGrow DEF CallsInv
<1>5. ExceptionConfined'
  BY <1>1 DEF IInv, ExceptionConfined, Act
<1> QED BY <1>2, <1>3, <1>4, <1>5 DEF IInv

LEMMA InitHolds == ASSUME Init PROVE IInv
<1>1. closures = << >> /\ Len(closures) = 0
  BY DEF Init
<1>2. Null \in Sound
  BY <1>1, NullAndTruth DEF Sound
<1>3. StacksInv
  BY <1>2, MachineAssumption DEF Init, StacksInv, NoException, Exceptions
<1>4. CallsInv
  BY DEF Init, CallsInv
<1>5. ASSUME NEW p \in Progs
      PROVE  shared[p] \in [1 .. SharedSize(p) -> SoundEntries]
  <2> DEFINE captures == [i \in 1 .. NCaptures[p] |-> Unset]
             constants == [i \in 1 .. Len(Constants[p]) |-> SetTo(Constants[p][i])]
  <2>1. NCaptures[p] \in Nat /\ Constants[p] \in Seq(Values) /\ Len(Constants[p]) \in Nat
    BY MachineAssumption, CodeAssumption
  <2>2. captures \in Seq(SoundEntries) /\ Len(captures) = NCaptures[p]
    <3>1. Unset \in SoundEntries
      BY <1>2 DEF Unset, SoundEntries
    <3> QED BY <2>1, <3>1
  <2>3. constants \in Seq(SoundEntries) /\ Len(constants) = Len(Constants[p])
    <3>1. \A i \in 1 .. Len(Constants[p]) : Constants[p][i] \in Values /\ Known(Constants[p][i], 0)
      BY <2>1, CodeAssumption
    <3>2. \A i \in 1 .. Len(Constants[p]) : Constants[p][i] \in Sound
      BY <1>1, <3>1 DEF Sound, Valid
    <3>3. \A i \in 1 .. Len(Constants[p]) : SetTo(Constants[p][i]) \in SoundEntries
      BY <3>2 DEF SetTo, SoundEntries
    <3> QED BY <2>1, <3>3
  <2>4. shared[p] = captures \o constants
    BY DEF Init
  <2> HIDE DEF captures, constants
  <2>5. shared[p] \in Seq(SoundEntries) /\ Len(shared[p]) = SharedSize(p)
    BY <2>2, <2>3, <2>4, Joined, SMTT(20) DEF SharedSize
  <2> QED BY <2>5
<1>6. DataInv
  <2>1. DOMAIN shared = Progs
    BY DEF Init
  <2>2. closures \in Seq(Closures) /\ 1 .. Len(closures) = {}
    BY <1>1
  <2> QED BY <1>5, <2>1, <2>2 DEF DataInv
<1>7. ExceptionConfined
  BY DEF Init, ExceptionConfined
<1> QED BY <1>3, <1>4, <1>6, <1>7 DEF IInv

LEMMA NextKeeps == ASSUME IInv, [Next]_vars PROVE IInv'
<1>1. CASE Step
  <2>1. CASE Ordinary
    BY <2>1, ThrowsKeeps, ProceedsKeeps DEF Ordinary
  <2>2. CASE Special
    BY <2>2, PushFrameKeeps, PopFrameKeeps, ReturnValueKeeps, InvokeKeeps, EndOfCallKeeps, EndOfHostRunKeeps,
       StoreValueKeeps, StoreCaptureKeeps, ClosureKeeps DEF Special
  <2> QED BY <1>1, <2>1, <2>2, Steps
<1>2. CASE \E p \in Entry : HostRun(p)
  BY <1>2, HostRunKeeps
<1>3. CASE Done
  BY <1>3, StutteringKeeps DEF Done
<1>4. CASE UNCHANGED vars
  BY <1>4, StutteringKeeps
<1> QED BY <1>1, <1>2, <1>3, <1>4 DEF Next

LEMMA TypesFollow == ASSUME IInv PROVE TypeOK
<1>1. Sound \subseteq Values /\ SoundEntries \subseteq Entries
  BY DEF SoundEntries, Sound, Valid, Entries
<1>2. /\ stack \in Seq(Values) /\ frames \in Seq(Nat) /\ size_frames \in Nat
      /\ vals0 \in Values /\ exc \in [type : Exceptions, ipc : Nat] /\ runs \in 0 .. MaxRuns
  BY <1>1 DEF IInv, StacksInv
<1>3. calls \in Seq(Activations)
  BY DEF IInv, CallsInv
<1>4. \A p \in Progs : shared[p] \in [1 .. NCaptures[p] + Len(Constants[p]) -> Entries]
  <2>1. \A p \in Progs : shared[p] \in [1 .. SharedSize(p) -> SoundEntries]
    BY DEF IInv, DataInv
  <2> QED BY <1>1, <2>1 DEF SharedSize
<1>5. ASSUME NEW c \in 1 .. Len(closures)
      PROVE  closures[c].prog \in Progs /\ closures[c].static \in [1 .. NStatic[closures[c].prog] -> Entries]
  <2>1. closures[c].static \in [1 .. NStatic[closures[c].prog] -> SoundEntries]
    BY DEF IInv, DataInv
  <2> QED BY <1>1, <2>1, ClosuresHavePrograms
<1> QED BY <1>2, <1>3, <1>4, <1>5 DEF TypeOK

\* IInv holds at first and every step of the interpreter keeps it.
LEMMA InvariantHolds == Spec => []IInv
BY InitHolds, NextKeeps, PTL DEF Spec

(***************************************************************************)
(* Everything the handlers keep is typed: values on the stack, entries of  *)
(* data blocks, frames, the pending exception and the runs in progress.    *)
(***************************************************************************)
THEOREM TypeCorrect == Spec => []TypeOK
BY InvariantHolds, TypesFollow, PTL

(***************************************************************************)
(* An exception that is pending belongs to the topmost run, which has      *)
(* stopped at it: azo_program_interpret clears it before any other run     *)
(* goes on, so no caller and no later run of the host sees it.             *)
(***************************************************************************)
THEOREM ExceptionsConfined == Spec => []ExceptionConfined
<1>1. IInv => ExceptionConfined
  BY DEF IInv
<1> QED BY InvariantHolds, <1>1, PTL
===============================================================================
