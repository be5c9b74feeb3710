----------------------------- MODULE AzoHeights -----------------------------
(***************************************************************************)
(* Programs whose code keeps to its frames for a reason that can be seen   *)
(* in the code: for each instruction there is a note of how many values    *)
(* each frame of the run has at least when it is reached, and the notes    *)
(* agree with what each instruction does (AzoEffects).  The compiler makes *)
(* no such notes, but keeps the stack at these heights when it gives       *)
(* variables their positions; the model checker computes them from the     *)
(* code it has compiled.                                                   *)
(***************************************************************************)
EXTENDS AzoEffects

CONSTANT Heights   \* Heights[p][i]: what is known of the stack at instruction i of p

\* frames: the values each frame of the run has at least, none where the
\* instruction is never reached; spare: how many more the topmost one has if
\* `true' is not on top; over: by how much the stack may exceed its limit.
Notes == [frames : Seq(Nat), spare : Nat, over : Nat]

\* At least what is noted is there.
Covers(noted, fs) == Len(noted) = Len(fs) /\ \A i \in DOMAIN noted : noted[i] <= fs[i]

\* How far above its limit the stack may be at instruction i.
Allowed(p, i) == IF i \in DOMAIN Code[p] THEN Heights[p][i].over ELSE Overshoot

Agrees(p, i) ==
  LET ins == Code[p][i]
      note == Heights[p][i]
      n == Len(note.frames)
  IN n > 0 =>
       /\ Asks(ins) <= note.frames[n]
       /\ ins.op = "POP_FRAME" => n > 1
       /\ ins.op \in {"EXCEPTION", "EXCEPTION_IF", "EXCEPTION_IF_NOT"} => ins.t # "SYSTEM"
       /\ note.over <= Overshoot
       /\ ins.op = "INVOKE" => note.over = 0
       /\ \A to \in Follow(ins, i), d \in Balance(ins) :
            /\ to \in DOMAIN Code[p] =>
                 /\ Covers(Heights[p][to].frames, After(ins, note.frames, d + Unspared(ins, i, to, note.spare)))
                 /\ Heights[p][to].spare <= Spared(ins)
            /\ OverAfter(ins, note.over, d) <= Allowed(p, to)

\* A program starts with its arguments in its frame, pushed without a test; so
\* what a call adds to the limit does not add up over the calls.
Starts(p) ==
  /\ 1 \in DOMAIN Code[p] => Covers(Heights[p][1].frames, <<NArgs[p]>>) /\ Heights[p][1].spare = 0
  /\ NArgs[p] <= Allowed(p, 1)

\* The notes of p are those of its code.
NotedWell(p) == Len(Heights[p]) = Len(Code[p]) /\ Starts(p) /\ \A i \in DOMAIN Code[p] : Agrees(p, i)
-----------------------------------------------------------------------------
\* The start of each frame, and the end of the last.
Marks == Append(frames, Len(stack))

\* The frames from b + 1 on have at least fs values.
Laid(fs, marks, b) == \A i \in DOMAIN fs : marks[b + i] + fs[i] <= marks[b + i + 1]

\* The last frame of run k.
LastFrame(k) == IF k = Len(calls) THEN Len(frames) ELSE calls[k + 1].prev_frame

\* What is noted holds of a run that is at instruction i of p and whose frames
\* are those from b + 1 to m.
Sits(p, i, b, m, marks) ==
  i \in DOMAIN Code[p] =>
    /\ Len(Heights[p][i].frames) = m - b
    /\ Laid(Heights[p][i].frames, marks, b)
    /\ marks[m + 1] <= MaxStack + Heights[p][i].over

Noted(k) == Sits(calls[k].prog, calls[k].pc, calls[k].prev_frame, LastFrame(k), Marks)

\* There is more where `true' is not on top.
Extra ==
  LET note == Heights[Act.prog][Act.pc]
  IN calls # << >> /\ Act.pc \in DOMAIN Code[Act.prog] /\ ~(stack # << >> /\ Bw(stack, 0) = Truth(TRUE)) =>
       Frame + note.frames[Len(note.frames)] + note.spare <= Len(stack)

\* The runs below the topmost wait for the one above.
Waiting ==
  \A k \in 1 .. Len(calls) - 1 :
    calls[k].pc \in DOMAIN Code[calls[k].prog] /\ Code[calls[k].prog][calls[k].pc].op = "INVOKE"

\* The host leaves nothing on the stack.
Grounded == IF calls = << >> THEN Len(stack) = 0 ELSE calls[1].base = 0

\* The inductive invariant, with that of the frames.
HInv == (\A k \in 1 .. Len(calls) : Noted(k)) /\ Extra /\ Waiting /\ Grounded /\ StackBounded /\ NoUnderflow
=============================================================================
