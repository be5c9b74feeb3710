----------------------------- MODULE AzoMachine ------------------------------
(***************************************************************************)
(* The interpreter (interpreter.c) running programs (program.c) and        *)
(* closures (compiled-function.c) over one value stack, one frame stack    *)
(* and the data blocks (datablock.c) of the programs.                      *)
(*                                                                         *)
(* The C call chain INVOKE -> compiled_function_invoke ->                  *)
(* azo_program_interpret -> azo_interpreter_run is the sequence `calls':   *)
(* one activation per run in progress, the topmost one executing.  A step  *)
(* is one instruction, the start of a run by the host, or the end of a     *)
(* run.                                                                    *)
(*                                                                         *)
(* A handler makes its tests when the interpreter has its flag, which      *)
(* azo_interpreter_new sets, or, some of them, only when the instruction   *)
(* has AZO_TC_CHECK_ARGS.  The compiler sets that on every instruction but *)
(* EXCEPTION_IF_TYPE_IS_NOT, TYPE_..._IMMEDIATE, CONVERT_TYPE and          *)
(* GET_FUNCTION.  Where a handler would read below the stack untested, it  *)
(* has no step: TLC's deadlock check reports it.                           *)
(***************************************************************************)
EXTENDS AzoTypes, AzoStackOps, FiniteSets

CONSTANTS
  Progs,        \* the programs
  Code,         \* Code[p]: the instructions of p; jumps count instructions
  NArgs,        \* NArgs[p]: values p is given: its arguments, and `this' if the host runs it with one
  NCaptures,    \* NCaptures[p]: variables of enclosing functions p uses
  Constants,    \* Constants[p]: the constants of p
  NStatic,      \* NStatic[p]: size of the static data of closures of p
  Entry,        \* the programs the host runs
  Foreign,      \* values the host's objects and functions hand over
  Globals,      \* the global values, by name
  NativeArgs,   \* NativeArgs[f]: argument types of the host's function f
  Names,        \* what strings say and classes and functions of the host are called
  MaxStack,     \* stack limit (65536 in the code)
  Overshoot,    \* what pushes that do not test it may add: above all the arguments of one function
  InitFrames,   \* size of the frame buffer at first (64 in the code)
  MaxRuns       \* bound on the number of runs the host starts

ASSUME MachineAssumption ==
  /\ Entry \subseteq Progs
  /\ NArgs \in [Progs -> Nat] /\ NCaptures \in [Progs -> Nat] /\ NStatic \in [Progs -> Nat]
  /\ MaxStack \in Nat /\ Overshoot \in Nat /\ InitFrames \in Nat \ {0} /\ MaxRuns \in Nat

Contents == Signs \cup {"true", "false", "null", "nil"} \cup Types \cup Progs \cup Names
Values == [type : ValueTypes, content : Contents, ref : Nat]

\* What values refer to exists, where there are n closures.
Known(v, n) ==
  /\ v.type = "function" => v.ref \in 1 .. n
  /\ v.type = "program" => v.content \in Progs
  /\ v.type = "native" => v.content \in DOMAIN NativeArgs

\* What is the host's own is no function or program of a script.
HostValues == {v \in Values : Known(v, 0) /\ v.type # "program"}
ASSUME HostAssumption ==
  /\ Foreign \subseteq HostValues
  /\ NativeArgs \in [DOMAIN NativeArgs -> Seq(Types)]
  /\ \A key \in DOMAIN Globals : Globals[key] \in HostValues

Exceptions ==
  {"NONE", "SYSTEM", "STACK_OVERFLOW", "INVALID_TYPE", "INVALID_CONVERSION", "CHANGE_OF_MAGNITUDE",
   "CHANGE_OF_PRECISION", "NULL_DEREFERENCE", "OUT_OF_BOUNDS", "INVALID_PROPERTY", "INVALID_VALUE"}

\* The code is made of instructions with operands within the bounds their
\* handlers take for granted.
Instructions == [op : STRING, a : Int, b : Nat, t : STRING, v : Values]
JumpCodes == {"JMP_32", "JMP_32_IF", "JMP_32_IF_NOT", "JMP_32_IF_ZERO", "JMP_32_IF_POSITIVE", "JMP_32_IF_NEGATIVE"}
ASSUME CodeAssumption ==
  /\ Code \in [Progs -> Seq(Instructions)] /\ Constants \in [Progs -> Seq(Values)]
  /\ \A p \in Progs : \A i \in DOMAIN Constants[p] : Known(Constants[p][i], 0)
  /\ \A p \in Progs : \A i \in DOMAIN Code[p] :
       LET ins == Code[p][i]
       IN /\ ins.op \in JumpCodes => i + 1 + ins.a \in Nat
          /\ ins.op \notin JumpCodes => ins.a \in Nat
          /\ ins.op \in {"PUSH_VALUE", "STORE_VALUE"} => ins.a < NCaptures[p] + Len(Constants[p])
          /\ ins.op \in {"PUSH_CAPTURE", "STORE_CAPTURE"} => ins.a < NStatic[p]
          /\ ins.op \in {"EXCEPTION", "EXCEPTION_IF", "EXCEPTION_IF_NOT"} => ins.t \in Exceptions
          /\ ins.op = "PUSH_EMPTY" => ins.t \in Types \ {"function", "program", "native"}

VARIABLES
  stack,        \* the value stack
  frames,       \* the frame stack: stack lengths
  size_frames,  \* entries the frame buffer has room for
  vals0,        \* intr->vals[0]: return value and scratch
  exc,          \* the pending exception
  calls,        \* the runs in progress
  shared,       \* shared data of the programs: captures, then constants
  closures,     \* the closures created so far
  runs,         \* number of runs the host has started
  last          \* the run that ended last, and what it delivered

frameVars == <<frames, size_frames>>
dataVars == <<shared, closures>>
vars == <<stack, frames, size_frames, vals0, exc, calls, shared, closures, runs, last>>

NoException == [type |-> "NONE", ipc |-> 0]
-----------------------------------------------------------------------------
(***************************************************************************)
(* The executing activation.  pc is 0 once a handler returned NULL.        *)
(* `base', `returned' and `value' record what the properties speak about:  *)
(* the stack length the run started from, and what RETURN_VALUE gave.      *)
(***************************************************************************)
Act == calls[Len(calls)]
Ins == Code[Act.prog][Act.pc]
Frame == frames[Len(frames)]

At(ops) == calls # << >> /\ Act.pc \in DOMAIN Code[Act.prog] /\ Ins.op \in ops

Goto(pc) == calls' = [calls EXCEPT ![Len(calls)].pc = pc] /\ UNCHANGED <<runs, last>>
Advance == Goto(Act.pc + 1) /\ UNCHANGED exc

ThrowGoesOn(type) ==  \* mutant
  /\ exc' = [type |-> type, ipc |-> Act.pc]
  /\ UNCHANGED <<calls, runs, last, stack, frameVars, vals0, dataVars>>

\* azo_exception_set, and the handler returns NULL.
Throw(type) ==
  /\ exc' = [type |-> type, ipc |-> Act.pc]
  /\ Goto(0)
  /\ UNCHANGED <<stack, frameVars, vals0, dataVars>>

\* Throw unless ok; CHECK, TEST and the test_stack functions.
Check(ok, type, Handler) == IF ok THEN Handler ELSE Throw(type)

Room(n) == Len(stack) + n <= MaxStack
Underflow(n, Handler) == Check(n <= Len(stack), "SYSTEM", Handler)
Overflow(n, Handler) == Check(Room(n), "STACK_OVERFLOW", Handler)
Exact(pos, type, Handler) ==
  Underflow(pos + 1, Check(Bw(stack, pos).type = type, "INVALID_TYPE", Handler))

\* Pop n values, push vs and go on; Deliver leaves in vals[0] the value it
\* hands to the stack.
Put(n, vs) ==
  /\ stack' = Popped(stack, n) \o vs
  /\ Advance
  /\ UNCHANGED <<frameVars, vals0, dataVars>>

Deliver(n, v) ==
  /\ stack' = Append(Popped(stack, n), v)
  /\ vals0' = v
  /\ Advance
  /\ UNCHANGED <<frameVars, dataVars>>

\* Replace the stack as a whole.
Rearrange(s) == stack' = s /\ Advance /\ UNCHANGED <<frameVars, vals0, dataVars>>
-----------------------------------------------------------------------------
(***************************************************************************)
(* Runs: azo_program_interpret around azo_interpreter_run.                 *)
(***************************************************************************)
GrownFramesLate == IF Len(frames) > size_frames THEN 2 * size_frames ELSE size_frames  \* mutant

GrownFrames == IF Len(frames) >= size_frames THEN 2 * size_frames ELSE size_frames

\* azo_interpreter_push_frame over a stack s of which n values belong to the frame.
PushFrameOn(s, n) == frames' = Append(frames, Len(s) - n) /\ size_frames' = GrownFrames

EnterArgumentsFirst(p, c, s, args) ==  \* mutant
  /\ PushFrameOn(s \o args, 0)
  /\ stack' = s \o args
  /\ calls' = Append(calls, [prog |-> p, pc |-> 1, closure |-> c, prev_frame |-> Len(frames),
                             base |-> Len(s \o args), returned |-> FALSE, value |-> Null])

\* Start program p, as closure c if c > 0, on stack s with these arguments.
Enter(p, c, s, args) ==
  /\ PushFrameOn(s, 0)
  /\ stack' = s \o args
  /\ calls' = Append(calls, [prog |-> p, pc |-> 1, closure |-> c, prev_frame |-> Len(frames),
                             base |-> Len(s), returned |-> FALSE, value |-> Null])

\* A run of p by the host.  vals[0] is as the last run left it.
HostRun(p) ==
  /\ calls = << >> /\ runs < MaxRuns
  /\ \E args \in [1 .. NArgs[p] -> Foreign] : Enter(p, 0, stack, args)
  /\ runs' = runs + 1
  /\ UNCHANGED <<vals0, exc, dataVars, last>>

\* The topmost run is over: a handler returned NULL, or the code ended.
Ended == calls # << >> /\ Act.pc \notin DOMAIN Code[Act.prog]

RestoredTopFrameOnly == SubSeq(stack, 1, Frame)  \* mutant

\* The stack after azo_interpreter_restore_frame.
Restored == IF Len(frames) > Act.prev_frame THEN SubSeq(stack, 1, frames[Act.prev_frame + 1]) ELSE stack

\* The frames pushed since the run started are dropped from the top, each with
\* the values above its start, which the code asserts is within the stack.
Restorable ==
  \A i \in Act.prev_frame + 1 .. Len(frames) :
    frames[i] <= Len(stack) /\ \A j \in i .. Len(frames) : frames[i] <= frames[j]
RestoredFrames == IF Len(frames) > Act.prev_frame THEN SubSeq(frames, 1, Act.prev_frame) ELSE frames

EndKeepingException ==  \* mutant
  /\ Restorable /\ frames' = RestoredFrames
  /\ last' = [prog |-> Act.prog, result |-> vals0, returned |-> Act.returned]
  /\ UNCHANGED <<exc, size_frames, dataVars, runs>>

\* The exception is printed and cleared, the frames of the run are dropped and
\* vals[0] becomes its result.
End ==
  /\ exc' = NoException
  /\ Restorable /\ frames' = RestoredFrames
  /\ last' = [prog |-> Act.prog, result |-> vals0, returned |-> Act.returned]
  /\ UNCHANGED <<size_frames, dataVars, runs>>

EndOfCallReturnsOnly ==  \* mutant
  /\ Ended /\ Len(calls) > 1
  /\ End
  /\ stack' = IF Act.returned THEN Append(Restored, vals0) ELSE Restored
  /\ vals0' = Null
  /\ calls' = [SubSeq(calls, 1, Len(calls) - 1) EXCEPT ![Len(calls) - 1].pc = @ + 1]

\* Back in the INVOKE of the run below: its result is pushed, vals[0] cleared.
EndOfCall ==
  /\ Ended /\ Len(calls) > 1
  /\ End
  /\ stack' = Append(Restored, vals0)
  /\ vals0' = Null
  /\ calls' = [SubSeq(calls, 1, Len(calls) - 1) EXCEPT ![Len(calls) - 1].pc = @ + 1]

\* Back in the host.
EndOfHostRun ==
  /\ Ended /\ Len(calls) = 1
  /\ End
  /\ stack' = Restored
  /\ calls' = << >>
  /\ UNCHANGED vals0

(***************************************************************************)
(* INVOKE: the function lies Ins.a below the top; the arguments are as     *)
(* many as its signature has, wherever the frame was set.  Each is         *)
(* converted in place to its type until one cannot be.  The signature of a *)
(* compiled function takes any types.  A null function is not modelled:    *)
(* the compiler tests for a function first.  A function of the host is one *)
(* step: one that calls the interpreter back is not modelled, nor is the   *)
(* stack of the process, on which each call of a script lies.              *)
(***************************************************************************)
Signature(f) ==
  IF f.type = "function" THEN [i \in 1 .. NArgs[closures[f.ref].prog] |-> "any"] ELSE NativeArgs[f.content]

\* What the host may hand over besides a value of its own: any closure made so
\* far, since scripts store them in its objects and give them to its functions.
Found == Foreign \cup {FunctionOf(c) : c \in DOMAIN closures} \cup {Null}

Invoke ==
  LET f    == Bw(stack, Ins.a)
      sig  == Signature(f)
      args == Len(stack) - Len(sig)     \* arguments are the stack elements after args
      Fits(i) == Convertible(stack[args + i], sig[i])
      fits == \A i \in 1 .. Len(sig) : Fits(i)
      s == [p \in 1 .. Len(stack) |->
              IF p > args /\ \A i \in 1 .. p - args : Fits(i)
              THEN Converted(stack[p], sig[p - args]) ELSE stack[p]]
      Mismatch ==
        /\ stack' = s
        /\ exc' = [type |-> "INVALID_TYPE", ipc |-> Act.pc] /\ Goto(0)
        /\ UNCHANGED <<frameVars, vals0, dataVars>>
      Compiled ==
        /\ f.type = "function"
        /\ Enter(closures[f.ref].prog, f.ref, s, SubSeq(s, args + 1, Len(s)))
        /\ vals0' = Null
        /\ UNCHANGED <<exc, dataVars, runs, last>>
      OfHost ==
        /\ f.type = "native"
        /\ \E result \in Found : stack' = Append(s, result)
        /\ vals0' = Null
        /\ Advance
        /\ UNCHANGED <<frameVars, dataVars>>
  IN  /\ At({"INVOKE"})
      /\ stack # << >> => Ins.a < Len(stack) /\ f # Null
      /\ Underflow(1, Check(Implements(f.type, "FUNCTION"), "INVALID_TYPE",
           args >= 0 /\ IF fits THEN Compiled \/ OfHost ELSE Mismatch))

\* RETURN, and an opcode that has no handler.
Return == At({"RETURN", "UNKNOWN"}) /\ Goto(0) /\ UNCHANGED <<stack, frameVars, vals0, exc, dataVars>>

ReturnValue ==
  /\ At({"RETURN_VALUE"})
  /\ Underflow(1, /\ vals0' = Bw(stack, 0)
                  /\ calls' = [calls EXCEPT ![Len(calls)].pc = 0, ![Len(calls)].returned = TRUE,
                                            ![Len(calls)].value = Bw(stack, 0)]
                  /\ UNCHANGED <<stack, frameVars, exc, dataVars, runs, last>>)
-----------------------------------------------------------------------------
(***************************************************************************)
(* Exceptions, jumps and frames.                                           *)
(***************************************************************************)
\* EXCEPTION_IF and _IF_NOT take the condition away only when they go on.
Exception ==
  /\ At({"EXCEPTION", "EXCEPTION_IF", "EXCEPTION_IF_NOT"})
  /\ IF Ins.op = "EXCEPTION" THEN Throw(Ins.t)
     ELSE Exact(0, "bool", Check((Bw(stack, 0) = Truth(TRUE)) = (Ins.op = "EXCEPTION_IF_NOT"),
                                 Ins.t, Put(1, << >>)))

ExceptionIfTypeIsNot ==
  /\ At({"EXCEPTION_IF_TYPE_IS_NOT"}) /\ Ins.a < Len(stack)
  /\ Check(IsA(Bw(stack, Ins.a).type, Ins.t), "INVALID_TYPE", Put(0, << >>))

Nop == At({"NOP", "DEBUG", "DEBUG_STR"}) /\ Put(0, << >>)

Jump ==
  /\ At({"JMP_32"})
  /\ Goto(Act.pc + 1 + Ins.a)
  /\ UNCHANGED <<stack, frameVars, vals0, exc, dataVars>>

\* What each conditional jump tests: a type and the contents that jump.
JumpType(op) == IF op \in {"JMP_32_IF", "JMP_32_IF_NOT"} THEN "bool" ELSE "int32"

JumpsOn(op) == CASE op = "JMP_32_IF"          -> "true"
                 [] op = "JMP_32_IF_NOT"      -> "false"
                 [] op = "JMP_32_IF_ZERO"     -> "zero"
                 [] op = "JMP_32_IF_POSITIVE" -> "pos"
                 [] op = "JMP_32_IF_NEGATIVE" -> "neg"

JumpCond ==
  /\ At({"JMP_32_IF", "JMP_32_IF_NOT", "JMP_32_IF_ZERO", "JMP_32_IF_POSITIVE", "JMP_32_IF_NEGATIVE"})
  /\ Exact(0, JumpType(Ins.op),
       /\ Goto(Act.pc + 1 + IF Bw(stack, 0).content = JumpsOn(Ins.op) THEN Ins.a ELSE 0)
       /\ stack' = Popped(stack, 1)
       /\ UNCHANGED <<frameVars, vals0, exc, dataVars>>)

PushFrameEmpty ==  \* mutant
  /\ At({"PUSH_FRAME"})
  /\ Underflow(Ins.a + 1, /\ PushFrameOn(stack, 0)
                          /\ Advance
                          /\ UNCHANGED <<stack, vals0, dataVars>>)

PushFrame ==
  /\ At({"PUSH_FRAME"})
  /\ Underflow(Ins.a + 1, /\ PushFrameOn(stack, Ins.a)
                          /\ Advance
                          /\ UNCHANGED <<stack, vals0, dataVars>>)

PopFrameNot ==  \* mutant
  At({"POP_FRAME"}) /\ Check(frames # << >>, "SYSTEM", Put(0, << >>))

PopFrame ==
  /\ At({"POP_FRAME"})
  /\ Check(frames # << >>, "SYSTEM",
       Check(Frame <= Len(stack), "SYSTEM",
         /\ frames' = SubSeq(frames, 1, Len(frames) - 1)
         /\ Advance
         /\ UNCHANGED <<stack, size_frames, vals0, dataVars>>))
-----------------------------------------------------------------------------
(***************************************************************************)
(* Moving values on the stack.                                             *)
(***************************************************************************)
Pop == At({"POP"}) /\ Underflow(Ins.a, Put(Ins.a, << >>))

\* Ins.a values stay on top, Ins.b below them go.
Remove ==
  /\ At({"REMOVE"})
  /\ Underflow(Ins.a + Ins.b, Rearrange(Removed(stack, Len(stack) - (Ins.a + Ins.b), Ins.b)))

PushEmpty ==
  /\ At({"PUSH_EMPTY"})
  /\ Overflow(1, Check(Ins.t \notin AbstractTypes, "INVALID_TYPE", Put(0, <<Default(Ins.t)>>)))

PushImmediate ==
  /\ At({"PUSH_IMMEDIATE"})
  /\ Overflow(1, Check(Ins.v.type \in Primitive \cup {"none"}, "INVALID_TYPE", Put(0, <<Ins.v>>)))

Duplicate ==
  /\ At({"DUPLICATE"})
  /\ Underflow(Ins.a + 1, Overflow(1, Put(0, <<Bw(stack, Ins.a)>>)))

InFrameOffByOne(Handler) == frames # << >> /\ Check(Frame + Ins.a + 1 < Len(stack), "SYSTEM", Handler)  \* mutant

\* Positions in the frame count up from its start; that there is a frame is not
\* tested.
InFrame(Handler) == frames # << >> /\ Check(Frame + Ins.a < Len(stack), "SYSTEM", Handler)

DuplicateFrameUntested ==  \* mutant
  At({"DUPLICATE_FRAME"}) /\ InFrame(Rearrange(Duplicated(stack, Frame + Ins.a)))

DuplicateFrame ==
  /\ At({"DUPLICATE_FRAME"})
  /\ InFrame(Overflow(1, Rearrange(Duplicated(stack, Frame + Ins.a))))

Exchange ==
  /\ At({"EXCHANGE"})
  /\ Underflow(Ins.a + 1, Rearrange(Exchanged(stack, Len(stack) - 1 - Ins.a)))

ExchangeWithoutFrame ==  \* mutant
  At({"EXCHANGE_FRAME"}) /\ InFrame(Rearrange(Exchanged(stack, Ins.a)))

ExchangeFrame ==
  /\ At({"EXCHANGE_FRAME"})
  /\ InFrame(Rearrange(Exchanged(stack, Frame + Ins.a)))
-----------------------------------------------------------------------------
(***************************************************************************)
(* Data blocks.  The shared data of a program holds its captures, which    *)
(* are constant once set, and its constants; the static data of a closure  *)
(* has Len(Constants) constant entries at most.                            *)
(***************************************************************************)
Entries == [val : Values, set : BOOLEAN]
Unset == [val |-> Null, set |-> FALSE]
SetTo(v) == [val |-> v, set |-> TRUE]

\* azo_datablock_set_from_val on a block whose first n entries are constant.
Stored(block, i, v, n) ==
  IF i < n /\ block[i + 1].set THEN block ELSE [block EXCEPT ![i + 1] = SetTo(v)]

PushValue ==
  /\ At({"PUSH_VALUE"})
  /\ Overflow(1, Put(0, <<shared[Act.prog][Ins.a + 1].val>>))

StoreValue ==
  /\ At({"STORE_VALUE"})
  /\ Underflow(1, /\ shared' = [shared EXCEPT ![Act.prog] = Stored(@, Ins.a, Bw(stack, 0), NCaptures[Act.prog])]
                  /\ stack' = Popped(stack, 1)
                  /\ Advance
                  /\ UNCHANGED <<frameVars, vals0, closures>>)

\* A run by the host has no static data.
PushCapture ==
  /\ At({"PUSH_CAPTURE"}) /\ Act.closure > 0
  /\ Overflow(1, Put(0, <<closures[Act.closure].static[Ins.a + 1].val>>))

StoreCapture ==
  /\ At({"STORE_CAPTURE"}) /\ Act.closure > 0
  /\ Underflow(1, /\ closures' = [closures EXCEPT ![Act.closure].static =
                                    Stored(@, Ins.a, Bw(stack, 0), Len(Constants[Act.prog]))]
                  /\ stack' = Popped(stack, 1)
                  /\ Advance
                  /\ UNCHANGED <<frameVars, vals0, shared>>)

BoundAppended(block, vs) ==  \* mutant
  block \o [i \in DOMAIN vs |-> SetTo(vs[i])]

BoundButLast(block, vs) ==  \* mutant
  [i \in DOMAIN block |-> IF i < Len(vs) THEN SetTo(vs[i]) ELSE block[i]]

\* Bind captured values in shared data (azo_compiled_function_bind): entries
\* already set are overwritten.
Bound(block, vs) ==
  [i \in DOMAIN block |-> IF i <= Len(vs) THEN SetTo(vs[i]) ELSE block[i]]

\* Ins.a captured values lie above the program.  `snapshot' is what the
\* closure captured.
Closure ==
  LET n == Ins.a
      p == Bw(stack, n).content
      captured == SubSeq(stack, Len(stack) - n + 1, Len(stack))
  IN  /\ At({"CLOSURE"})
      /\ Exact(n, "program",
           /\ shared' = [shared EXCEPT ![p] = Bound(@, captured)]
           /\ closures' = Append(closures, [prog |-> p, snapshot |-> captured,
                                            static |-> [i \in 1 .. NStatic[p] |-> Unset]])
           /\ stack' = Append(Popped(stack, n + 1), FunctionOf(Len(closures) + 1))
           /\ Advance
           /\ UNCHANGED <<frameVars, vals0>>)
-----------------------------------------------------------------------------
(***************************************************************************)
(* Types and conversions.                                                  *)
(***************************************************************************)
TypeHolds(op, t, u) ==
  CASE op \in {"TYPE_EQUALS", "TYPE_EQUALS_IMMEDIATE"}         -> t = u
    [] op \in {"TYPE_IS", "TYPE_IS_IMMEDIATE"}                 -> IsA(t, u)
    [] op \in {"TYPE_IS_SUPER", "TYPE_IS_SUPER_IMMEDIATE"}     -> IsA(u, t)
    [] op \in {"TYPE_IMPLEMENTS", "TYPE_IMPLEMENTS_IMMEDIATE"} -> Implements(t, u)

\* The type is on top and counts in the position.
Type ==
  /\ At({"TYPE_EQUALS", "TYPE_IS", "TYPE_IS_SUPER", "TYPE_IMPLEMENTS"})
  /\ Exact(0, "uint32", Underflow(Ins.a + 1,
       Put(1, <<Truth(TypeHolds(Ins.op, Bw(stack, Ins.a).type, Bw(stack, 0).content))>>)))

TypeImmediate ==
  /\ At({"TYPE_EQUALS_IMMEDIATE", "TYPE_IS_IMMEDIATE", "TYPE_IS_SUPER_IMMEDIATE", "TYPE_IMPLEMENTS_IMMEDIATE"})
  /\ Ins.a < Len(stack)
  /\ Put(0, <<Truth(TypeHolds(Ins.op, Bw(stack, Ins.a).type, Ins.t))>>)

TypeOf ==
  /\ At({"TYPE_OF", "TYPE_OF_CLASS"})
  /\ Underflow(Ins.a + 1,
       IF Ins.op = "TYPE_OF" THEN Put(0, <<TypeCode(Bw(stack, Ins.a).type)>>)
       ELSE Exact(0, "class", Put(0, <<TypeCode(Bw(stack, 0).content)>>)))

\* The position counts the type on top; the type itself is not tested.
Promote ==
  LET pos == Len(stack) - Ins.a
      to  == Bw(stack, 0).content
  IN  /\ At({"PROMOTE"})
      /\ Underflow(Ins.a + 1, Check(Convertible(stack[pos], to), "INVALID_CONVERSION",
           Rearrange(Popped([stack EXCEPT ![pos] = Converted(@, to)], 1))))

ConvertType ==
  /\ At({"CONVERT_TYPE"}) /\ stack # << >>
  /\ Check(Convertible(Bw(stack, 0), Ins.t), "INVALID_CONVERSION", Put(1, <<Converted(Bw(stack, 0), Ins.t)>>))
-----------------------------------------------------------------------------
(***************************************************************************)
(* Comparison and arithmetic.  A _TYPED instruction names the type, the    *)
(* others take that of the topmost operand; results are known by sign.     *)
(***************************************************************************)
Operands(type, Handler) ==
  Underflow(2, Check(Bw(stack, 0).type = type /\ Bw(stack, 1).type = type, "INVALID_TYPE", Handler))

Blocks(Handler) ==
  Underflow(2, Check(IsA(Bw(stack, 0).type, "block") /\ IsA(Bw(stack, 1).type, "block"), "INVALID_TYPE", Handler))

Equal ==
  LET type == IF Ins.op = "EQUAL" THEN Bw(stack, 0).type ELSE Ins.t
      Result == \E equal \in SameValue(Bw(stack, 1), Bw(stack, 0)) : Put(2, <<Truth(equal)>>)
  IN  /\ At({"EQUAL", "EQUAL_TYPED"})
      /\ Underflow(IF Ins.op = "EQUAL" THEN 2 ELSE 0,
           Check(type \in Primitive \cup {"block"}, "INVALID_TYPE",
             IF type = "block" THEN Blocks(Result) ELSE Operands(type, Result)))

\* COMPARE looks at the type of the topmost operand only.
Compare ==
  LET type == IF Ins.op = "COMPARE" THEN Bw(stack, 0).type ELSE Ins.t
      Result == Check(type \in Ordered, "INVALID_TYPE",
                  \E s \in Compared(Bw(stack, 1), Bw(stack, 0)) : Put(2, <<Of("int32", s)>>))
  IN  /\ At({"COMPARE", "COMPARE_TYPED"})
      /\ IF Ins.op = "COMPARE" THEN Underflow(2, Result) ELSE Operands(type, Result)

LogicalNot ==
  /\ At({"LOGICAL_NOT"})
  /\ Exact(0, "bool", Put(1, <<Truth(Bw(stack, 0).content = "false")>>))

Junction(op, x, y) ==
  IF op = "LOGICAL_AND" THEN x = Truth(TRUE) /\ y = Truth(TRUE) ELSE Truth(TRUE) \in {x, y}

LogicalBinary ==
  /\ At({"LOGICAL_AND", "LOGICAL_OR"})
  /\ Exact(0, "bool", Exact(1, "bool", Put(2, <<Truth(Junction(Ins.op, Bw(stack, 1), Bw(stack, 0)))>>)))

UnaryTypes(op) == CASE op = "NEGATE"      -> Signed \cup Complex
                    [] op = "CONJUGATE"   -> Complex
                    [] op = "BITWISE_NOT" -> Integral

Unary ==
  /\ At({"NEGATE", "CONJUGATE", "BITWISE_NOT"})
  /\ Underflow(1, Check(Bw(stack, 0).type \in UnaryTypes(Ins.op), "INVALID_TYPE",
       \E s \in Signs : Put(1, <<Of(Bw(stack, 0).type, s)>>)))

Binary == {"ADD", "SUBTRACT", "MULTIPLY", "DIVIDE", "MODULO"}
BinaryTyped == {"ADD_TYPED", "SUBTRACT_TYPED", "MULTIPLY_TYPED", "DIVIDE_TYPED", "MODULO_TYPED"}

\* An integer division by zero stops the process: it is not modelled.
Arithmetic ==
  LET typed == Ins.op \in BinaryTyped
      type == IF typed THEN Ins.t ELSE Bw(stack, 0).type
      divides == Ins.op \in {"DIVIDE", "DIVIDE_TYPED", "MODULO", "MODULO_TYPED"}
      Defined == Numeric \ (Small \cup IF Ins.op \in {"MODULO", "MODULO_TYPED"} THEN Complex ELSE {})
  IN  /\ At(Binary \cup BinaryTyped)
      /\ divides /\ stack # << >> => ~(Bw(stack, 0).type \in Integral /\ Bw(stack, 0).content = "zero")
      /\ Underflow(IF typed THEN 0 ELSE 2, Exact(0, type, Exact(1, type,
           Check(type \in Defined, "INVALID_TYPE", \E s \in Signs : Put(2, <<Of(type, s)>>)))))

\* One of the two operands goes, and the other is the new top: the lesser one
\* for both instructions, since MAX_TYPED is not recognised with the flag that
\* the compiler sets.
MinMax ==
  /\ At({"MIN_TYPED", "MAX_TYPED"})
  /\ Operands(Ins.t, Check(Ins.t \in Ordered, "INVALID_TYPE",
       \E s \in Compared(Bw(stack, 1), Bw(stack, 0)) :
         Rearrange(Removed(stack, Len(stack) - 1 - IF s = "pos" THEN 1 ELSE 0, 1))))
-----------------------------------------------------------------------------
(***************************************************************************)
(* Arrays, interfaces, globals, properties and attributes.  Which object   *)
(* of the host holds what is not modelled: a lookup finds any value of     *)
(* Found.                                                                  *)
(***************************************************************************)

\* How convert_to_u32 may end for x: "NONE" when it succeeds.  A null value
\* stops the process.
ToU32(x) ==
  IF x = Null THEN {}
  ELSE IF x.type \in Signed /\ x.content = "neg" THEN {"CHANGE_OF_MAGNITUDE"}
  ELSE IF x.type \in {"int8", "uint16", "int32", "uint32"} THEN {"NONE"}
  ELSE IF x.type = "int64" THEN {"NONE", "CHANGE_OF_MAGNITUDE"}
  ELSE IF x.type = "double" THEN {"NONE", "CHANGE_OF_MAGNITUDE", "CHANGE_OF_PRECISION"}
  ELSE {"INVALID_CONVERSION"}

\* The size is not tested for null before it is converted.
NewArray ==
  /\ At({"NEW_ARRAY"})
  /\ Underflow(1, \E fault \in ToU32(Bw(stack, 0)) :
       Check(fault = "NONE", fault, Put(1, <<Of("array", "nil")>>)))

\* The array stays below its element.
LoadArrayElement ==
  /\ At({"LOAD_ARRAY_ELEMENT"}) /\ Len(stack) >= 2
  /\ Check(Null \notin {Bw(stack, 0), Bw(stack, 1)}, "NULL_DEREFERENCE",
       Check(Implements(Bw(stack, 1).type, "LIST"), "INVALID_TYPE",
         \E fault \in ToU32(Bw(stack, 0)) : Check(fault = "NONE", "INVALID_CONVERSION",
           \E inside \in BOOLEAN : Check(inside, "OUT_OF_BOUNDS",
             \E v \in Found : Check(v # Null, "SYSTEM", Put(1, <<v>>))))))

\* Nor is the index.
WriteArrayElement ==
  /\ At({"WRITE_ARRAY_ELEMENT"}) /\ Len(stack) >= 3
  /\ Check(IsA(Bw(stack, 2).type, "array"), "INVALID_TYPE",
       \E fault \in ToU32(Bw(stack, 1)) : Check(fault = "NONE", fault,
         \E inside \in BOOLEAN : Check(inside, "OUT_OF_BOUNDS", Put(2, << >>))))

\* The instance stays below its interface; a null instance is not tested for.
GetInterface ==
  /\ At({"GET_INTERFACE_IMMEDIATE"})
  /\ Underflow(1, /\ Bw(stack, 0) # Null
                  /\ Check(Bw(stack, 0).type \notin Primitive /\ Ins.t \in {"FUNCTION", "ATTRIBUTE_DICT", "LIST"},
                       "INVALID_TYPE",
                       Put(0, <<IF Implements(Bw(stack, 0).type, Ins.t) THEN Bw(stack, 0) ELSE Null>>)))

Global(key) == IF key \in DOMAIN Globals THEN Globals[key] ELSE Null

GetGlobal == At({"GET_GLOBAL"}) /\ Exact(0, "string", Deliver(1, Global(Bw(stack, 0).content)))

(***************************************************************************)
(* GET_PROPERTY tries a property of the instance, then an interface the    *)
(* instance implements, by its global name, then a static property of a    *)
(* class.  vals[0] is the scratch of all three, and keeps the global when  *)
(* the last two fail.                                                      *)
(***************************************************************************)
GetProperty ==
  LET key  == Bw(stack, 0).content
      inst == Bw(stack, 1)
  IN  /\ At({"GET_PROPERTY"})
      /\ Exact(0, "string", Underflow(2, Check(inst # Null, "NULL_DEREFERENCE",
           \/ \E v \in Found : Deliver(2, v)
           \/ /\ Global(key).type = "class"
              /\ stack' = Append(Popped(stack, 2), Of("boxed", key))
              /\ vals0' = Global(key) /\ Advance /\ UNCHANGED <<frameVars, dataVars>>
           \/ inst.type = "class" /\ \E v \in Found : Deliver(2, v)
           \/ /\ stack' = Append(Popped(stack, 2), Null)
              /\ vals0' = Global(key) /\ Advance /\ UNCHANGED <<frameVars, dataVars>>)))

\* Member functions and static functions are looked up by arguments Ins.a high,
\* and take as many.
FoundFunction ==
  \E v \in {w \in Found : w = Null \/ (w.type \in Functions /\ Len(Signature(w)) = Ins.a)} : Put(0, <<v>>)

GetFunction ==
  /\ At({"GET_FUNCTION"}) /\ Ins.a + 2 <= Len(stack)
  /\ Exact(Ins.a, "string", Check(Bw(stack, Ins.a + 1) # Null, "NULL_DEREFERENCE", FoundFunction))

GetStaticFunction ==
  /\ At({"GET_STATIC_FUNCTION"})
  /\ Exact(Ins.a + 1, "class", Exact(Ins.a, "string", FoundFunction))

\* The property is set from the value, or from its conversion to the type of
\* the property, which goes through vals[0].  [inst, key, value] give way to
\* true, or stay below false.
SetProperty ==
  /\ At({"SET_PROPERTY"})
  /\ Exact(1, "string", Underflow(3, Check(Bw(stack, 2) # Null, "NULL_DEREFERENCE",
       \E set \in BOOLEAN :
         /\ stack' = Append(Popped(stack, IF set THEN 3 ELSE 0), Truth(set))
         /\ vals0' \in {vals0, Null}
         /\ Advance
         /\ UNCHANGED <<frameVars, dataVars>>)))

\* The property is read when the lookup has failed: what that reads, if it
\* does not stop the process, is any value.
GetStaticProperty ==
  /\ At({"GET_STATIC_PROPERTY"})
  /\ Exact(1, "class", Exact(0, "string",
       Put(2, <<Null>>) \/ \E v \in Found : Deliver(2, v)))

\* [inst, key] become [inst, holder, index, field] or [inst, null].
LookupProperty ==
  /\ At({"LOOKUP_PROPERTY"})
  /\ Exact(0, "string", Underflow(2, Check(Bw(stack, 1) # Null, "NULL_DEREFERENCE",
       \/ Put(1, <<Bw(stack, 1), Of("uint32", "pos"), Of("field", "nil")>>)
       \/ Put(1, <<Null>>))))

Dict(pos, Handler) ==
  Underflow(pos + 1, Check(Implements(Bw(stack, pos).type, "ATTRIBUTE_DICT"), "INVALID_TYPE", Handler))

GetAttribute ==
  /\ At({"GET_ATTRIBUTE"})
  /\ Exact(0, "string", Dict(1, \E v \in Found : Deliver(2, v)))

SetAttribute ==
  /\ At({"SET_ATTRIBUTE"})
  /\ Exact(1, "string", Dict(2, \E set \in BOOLEAN : Check(set, "INVALID_VALUE", Put(3, << >>))))
-----------------------------------------------------------------------------
Init ==
  /\ stack = << >> /\ frames = <<0>> /\ size_frames = InitFrames
  /\ vals0 = Null /\ exc = NoException
  /\ calls = << >> /\ runs = 0
  /\ shared = [p \in Progs |-> [i \in 1 .. NCaptures[p] |-> Unset]
                                \o [i \in 1 .. Len(Constants[p]) |-> SetTo(Constants[p][i])]]
  /\ closures = << >>
  /\ last = [prog |-> "none", result |-> Null, returned |-> FALSE]

Control == Exception \/ ExceptionIfTypeIsNot \/ Nop \/ Jump \/ JumpCond \/ PushFrame \/ PopFrame
Moves == \/ Pop \/ Remove \/ PushEmpty \/ PushImmediate
         \/ Duplicate \/ DuplicateFrame \/ Exchange \/ ExchangeFrame
Data == PushValue \/ StoreValue \/ PushCapture \/ StoreCapture \/ Closure
Typing == Type \/ TypeImmediate \/ TypeOf \/ Promote \/ ConvertType
Operators == Equal \/ Compare \/ LogicalNot \/ LogicalBinary \/ Unary \/ Arithmetic \/ MinMax
Objects == \/ NewArray \/ LoadArrayElement \/ WriteArrayElement \/ GetInterface \/ GetGlobal
           \/ GetProperty \/ GetFunction \/ GetStaticFunction \/ SetProperty \/ GetStaticProperty
           \/ LookupProperty \/ GetAttribute \/ SetAttribute
Runs == EndOfCall \/ EndOfHostRun \/ Invoke \/ Return \/ ReturnValue

\* The host has made all its runs.
Done == calls = << >> /\ runs = MaxRuns /\ UNCHANGED vars

Step == Runs \/ Control \/ Moves \/ Data \/ Typing \/ Operators \/ Objects

Next == (\E p \in Entry : HostRun(p)) \/ Step \/ Done

\* A run is a loop in the thread of its caller: it goes on while it can.
Spec == Init /\ [][Next]_vars /\ WF_vars(Step)
-----------------------------------------------------------------------------
(***************************************************************************)
(* Correctness.                                                            *)
(***************************************************************************)
Activations ==
  [prog : Progs, pc : Nat, closure : 0 .. Len(closures), prev_frame : Nat, base : Nat,
   returned : BOOLEAN, value : Values]

TypeOK ==
  /\ stack \in Seq(Values) /\ frames \in Seq(Nat) /\ size_frames \in Nat
  /\ vals0 \in Values /\ exc \in [type : Exceptions, ipc : Nat]
  /\ calls \in Seq(Activations) /\ runs \in 0 .. MaxRuns
  /\ \A p \in Progs : shared[p] \in [1 .. NCaptures[p] + Len(Constants[p]) -> Entries]
  /\ \A c \in 1 .. Len(closures) :
       /\ closures[c].prog \in Progs
       /\ closures[c].static \in [1 .. NStatic[closures[c].prog] -> Entries]

(* The frame stack is in order and ends within the value stack, so the      *)
(* assertion of azo_interpreter_restore_frame holds whenever a run ends;    *)
(* it fits its buffer; and the frame of every run in progress is still the  *)
(* one azo_program_interpret pushed for it.                                 *)
FramesOrdered ==
  /\ frames # << >> /\ Len(frames) <= size_frames
  /\ \A i \in 1 .. Len(frames) - 1 : frames[i] <= frames[i + 1]
  /\ Frame <= Len(stack)
  /\ \A k \in 1 .. Len(calls) :
       calls[k].prev_frame < Len(frames) /\ frames[calls[k].prev_frame + 1] = calls[k].base

(* How many of the topmost values an instruction changes or takes away.     *)
TakeOne ==
  {"JMP_32_IF", "JMP_32_IF_NOT", "JMP_32_IF_ZERO", "JMP_32_IF_POSITIVE", "JMP_32_IF_NEGATIVE",
   "EXCEPTION_IF", "EXCEPTION_IF_NOT", "STORE_VALUE", "STORE_CAPTURE", "TYPE_EQUALS", "TYPE_IS", "TYPE_IS_SUPER",
   "TYPE_IMPLEMENTS", "CONVERT_TYPE", "LOGICAL_NOT", "NEGATE", "CONJUGATE", "BITWISE_NOT", "NEW_ARRAY",
   "LOAD_ARRAY_ELEMENT", "GET_GLOBAL", "LOOKUP_PROPERTY"}
TakeTwo ==
  Binary \cup BinaryTyped \cup
  {"EQUAL", "EQUAL_TYPED", "COMPARE", "COMPARE_TYPED", "LOGICAL_AND", "LOGICAL_OR", "MIN_TYPED", "MAX_TYPED",
   "WRITE_ARRAY_ELEMENT", "GET_PROPERTY", "GET_STATIC_PROPERTY", "GET_ATTRIBUTE"}

Reach ==
  IF Ins.op = "INVOKE" THEN IF Ins.a < Len(stack) THEN Len(Signature(Bw(stack, Ins.a))) ELSE 0
  ELSE IF Ins.op \in {"POP", "PUSH_FRAME"} THEN Ins.a
  ELSE IF Ins.op \in {"EXCHANGE", "PROMOTE", "CLOSURE"} THEN Ins.a + 1
  ELSE IF Ins.op = "REMOVE" THEN Ins.a + Ins.b
  ELSE IF Ins.op = "EXCHANGE_FRAME" THEN Len(stack) - Frame - Ins.a
  ELSE IF Ins.op \in TakeOne THEN 1
  ELSE IF Ins.op \in TakeTwo THEN 2
  ELSE IF Ins.op \in {"SET_PROPERTY", "SET_ATTRIBUTE"} THEN 3
  ELSE 0

(* No instruction reaches below the frame it runs in, or pops the frame of  *)
(* its run.  The interpreter tests neither: the generated code has to keep  *)
(* the stack at the heights the positions of variables were given for.      *)
KeepsFrame ==
  calls # << >> /\ Act.pc \in DOMAIN Code[Act.prog] =>
    /\ Reach <= Len(stack) - Frame
    /\ Ins.op = "POP_FRAME" => Act.prev_frame + 1 < Len(frames)

(* A pending exception belongs to the topmost run, which has stopped: no    *)
(* run below it and no later run of the host ever sees it.                  *)
ExceptionConfined ==
  exc # NoException => calls # << >> /\ Act.pc = 0 /\ exc.ipc \in DOMAIN Code[Act.prog]

(* Compiled code never asks for more values than the stack has, and never   *)
(* for one outside its frame: the tests for it fail only in an array load,  *)
(* whose missing element has the same exception number.                     *)
NoUnderflow == exc.type = "SYSTEM" => Code[Act.prog][exc.ipc].op = "LOAD_ARRAY_ELEMENT"

(* Only some pushes test for the stack limit, but no chain of the others    *)
(* goes far beyond it: recursion without end is stopped.                    *)
StackBounded == Len(stack) <= MaxStack + Overshoot

(* Whatever a run does, also when it stops by an exception in the middle of *)
(* a call, the values and frames below its own are as they were.            *)
CallerUntouched ==
  [][calls # << >> => /\ SubSeq(stack', 1, Act.base) = SubSeq(stack, 1, Act.base)
                      /\ SubSeq(frames', 1, Act.prev_frame) = SubSeq(frames, 1, Act.prev_frame)]_vars

(* When a run ends, its caller finds the stack as it left it with exactly   *)
(* one value more: the one the run returned, if it returned one.            *)
ReturnsToCaller ==
  [][Len(calls') < Len(calls) =>
       /\ stack' = SubSeq(stack, 1, Act.base) \o IF calls' = << >> THEN << >> ELSE <<last'.result>>
       /\ frames' = SubSeq(frames, 1, Act.prev_frame)
       /\ Act.returned => last'.result = Act.value]_vars

(* A run of a program that jumps forward only, as do those it calls,        *)
(* returns to the host, however deep the calls go and whatever they throw.  *)
Loops(p) == \E i \in DOMAIN Code[p] : Code[p][i].a < 0
HostCallReturns ==
  \A p \in {q \in Entry : ~Loops(q)} : (calls # << >> /\ calls[1].prog = p) ~> (calls = << >>)

(* interpreter.h: "vals[0] is used to store return value": what a run       *)
(* delivers without having returned a value is nothing.                     *)
NothingReturned == last.returned \/ last.result = Null

(* doc/language.txt: "Evaluating a lambda expression creates a new closure  *)
(* every time; captures are read-only snapshots": what a run of a closure   *)
(* reads of its captures is what that closure captured.                     *)
CapturesAreSnapshots ==
  At({"PUSH_VALUE"}) /\ Act.closure > 0 /\ Ins.a < NCaptures[Act.prog]
    => shared[Act.prog][Ins.a + 1].val = closures[Act.closure].snapshot[Ins.a + 1]

(* azo_datablock_set of constant entries, "This should, but atm bound does  *)
(* not honour it": whatever closures bind and programs store, the constants *)
(* of a program are as the compiler wrote them, and its captures are those  *)
(* of the closure created last.                                             *)
ConstantsKept == \A p \in Progs : \A i \in DOMAIN Constants[p] : shared[p][NCaptures[p] + i] = SetTo(Constants[p][i])

Latest(c) == \A d \in DOMAIN closures : d > c => closures[d].prog # closures[c].prog
CapturesKept ==
  \A c \in DOMAIN closures :
    Latest(c) => \A i \in 1 .. NCaptures[closures[c].prog] :
                   shared[closures[c].prog][i] = SetTo(closures[c].snapshot[i])

BlocksIntact == ConstantsKept /\ CapturesKept

(* azo_datablock_set refuses no entry: it is the compiler that has to bind  *)
(* as many values as the program has captures, and to store nothing else.   *)
CapturesFit ==
  /\ At({"CLOSURE"}) /\ Ins.a < Len(stack) /\ Bw(stack, Ins.a).type = "program"
       => Ins.a = NCaptures[Bw(stack, Ins.a).content]
  /\ At({"STORE_VALUE"}) => Ins.a < NCaptures[Act.prog]

(* The comment of interpret_INVOKE, "[func : this, arg1...]": the arguments *)
(* a function is given are the values of the frame set for the call, of     *)
(* which `this' is the first and not one of its signature.                  *)
ArgumentsAreTheFrame ==
  [][calls # << >> /\ Len(calls') > Len(calls) => Len(stack') - Len(stack) = Len(stack) - Frame - 1]_vars
=============================================================================
