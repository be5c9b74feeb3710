---------------------------- MODULE AzoFrameProofs ----------------------------
(***************************************************************************)
(* Proofs about frames: what the interpreter owes the callers of a run.    *)
(* It tests neither that an instruction stays within its frame nor that    *)
(* POP_FRAME leaves the frame of the run, so the hypothesis is that the    *)
(* programs keep to it: KeepsFrame, which the runs check of compiled code. *)
(*                                                                         *)
(* FramesOrdered is not inductive.  That the frame a run ends with is its  *)
(* own needs each pair of frames in order, the runs in the order of their  *)
(* frames, a frame below the first run's, and, for the result, that a run  *)
(* that returned has stopped and left vals[0] alone.                       *)
(***************************************************************************)
EXTENDS AzoMachineProofs

\* The stack lengths of any two frames are in order.
Rising(fs) == \A i, j \in 1 .. Len(fs) : i <= j => fs[i] <= fs[j]

StackedFrames ==
  /\ frames # << >> /\ Len(frames) <= size_frames
  /\ Rising(frames) /\ Frame <= Len(stack)

\* Each run has a frame of its own, which starts where the run did.
OwnFrames ==
  /\ \A k \in 1 .. Len(calls) :
       /\ 1 <= calls[k].prev_frame /\ calls[k].prev_frame < Len(frames)
       /\ frames[calls[k].prev_frame + 1] = calls[k].base
  /\ \A j, k \in 1 .. Len(calls) : j < k => calls[j].prev_frame < calls[k].prev_frame

\* Only the topmost run may have returned, and then it has stopped.
Delivered ==
  \A k \in 1 .. Len(calls) :
    calls[k].returned => k = Len(calls) /\ calls[k].pc = 0 /\ vals0 = calls[k].value

\* The inductive invariant.
FInv == IInv /\ StackedFrames /\ OwnFrames /\ Delivered
-----------------------------------------------------------------------------
\* The numbers behind a state.
LEMMA Levels ==
  ASSUME FInv
  PROVE  /\ frames \in Seq(Nat) /\ Len(frames) \in Nat /\ Len(frames) >= 1 /\ Frame \in Nat
         /\ Frame <= Len(stack) /\ Len(stack) \in Nat /\ size_frames \in Nat \ {0}
<1>1. frames \in Seq(Nat) /\ size_frames \in Nat \ {0} /\ Len(stack) \in Nat
  BY Depth DEF FInv, IInv, StacksInv
<1>2. frames # << >> /\ Frame <= Len(stack)
  BY DEF FInv, StackedFrames
<1> QED BY <1>1, <1>2 DEF Frame

\* What is below the executing run.
LEMMA Floor ==
  ASSUME FInv, calls # << >>
  PROVE  /\ Act.prev_frame \in Nat /\ 1 <= Act.prev_frame /\ Act.prev_frame < Len(frames)
         /\ frames[Act.prev_frame + 1] = Act.base /\ Act.base \in Nat
         /\ frames[Act.prev_frame] <= Act.base /\ Act.base <= Frame
<1> DEFINE b == Act.prev_frame
<1>1. Len(calls) \in Nat /\ Len(calls) >= 1 /\ Act = calls[Len(calls)] /\ b \in Nat
  BY Running DEF FInv, Act
<1>2. 1 <= b /\ b < Len(frames) /\ frames[b + 1] = Act.base
  BY <1>1 DEF FInv, OwnFrames
<1>3. frames \in Seq(Nat) /\ Len(frames) \in Nat /\ Frame = frames[Len(frames)]
  BY Levels DEF Frame
<1>4. Rising(frames)
  BY DEF FInv, StackedFrames
<1> HIDE DEF b
<1>5. frames[b] <= frames[b + 1] /\ frames[b + 1] <= frames[Len(frames)] /\ frames[b + 1] \in Nat
  <2>1. b \in 1 .. Len(frames) /\ b + 1 \in 1 .. Len(frames) /\ Len(frames) \in 1 .. Len(frames)
        /\ b <= b + 1 /\ b + 1 <= Len(frames)
    BY <1>1, <1>2, <1>3
  <2>2. frames[b] <= frames[b + 1]
    BY <1>4, <2>1 DEF Rising
  <2>3. frames[b + 1] <= frames[Len(frames)]
    BY <1>4, <2>1 DEF Rising
  <2>4. frames[b + 1] \in Nat
    BY <1>3, <2>1
  <2> QED BY <2>2, <2>3, <2>4
<1> QED BY <1>1, <1>2, <1>3, <1>5 DEF b

\* A step of the topmost run that neither starts nor ends one.
Within ==
  /\ calls # << >> /\ Len(calls') = Len(calls)
  /\ \A k \in 1 .. Len(calls) :
       calls'[k].prev_frame = calls[k].prev_frame /\ calls'[k].base = calls[k].base
  /\ Len(frames') <= size_frames' /\ Rising(frames')
  /\ Act.prev_frame < Len(frames') /\ \A i \in 1 .. Act.prev_frame + 1 : frames'[i] = frames[i]
  /\ frames'[Len(frames')] <= Len(stack')
  /\ Kept(stack', Act.base)
  /\ Delivered'

LEMMA WithinKeeps == ASSUME FInv, IInv', Within PROVE FInv'
<1> DEFINE b == Act.prev_frame
<1>1. frames' \in Seq(Nat) /\ Len(frames') \in Nat
  BY DEF IInv, StacksInv
<1>2. b \in Nat /\ 1 <= b /\ b < Len(frames')
  BY Floor DEF Within
<1>3. frames' # << >>
  BY <1>1, <1>2
<1>4. StackedFrames'
  BY <1>3 DEF StackedFrames, Frame, Within
<1>5. Len(calls) \in Nat /\ Len(calls) >= 1 /\ Act = calls[Len(calls)] /\ calls \in Seq(Activations)
  BY Running DEF FInv, Act, Within
<1>6. \A k \in 1 .. Len(calls) : calls[k].prev_frame \in Nat
  <2>1. \A k \in 1 .. Len(calls) : calls[k] \in Activations
    BY <1>5
  <2> QED BY <2>1 DEF Activations
<1>7. \A k \in 1 .. Len(calls) : calls[k].prev_frame <= b
  BY <1>5, <1>6 DEF FInv, OwnFrames
<1>8. OwnFrames'
  <2>1. Len(calls') = Len(calls)
        /\ \A k \in 1 .. Len(calls) : calls'[k].prev_frame = calls[k].prev_frame /\ calls'[k].base = calls[k].base
    BY DEF Within
  <2>2. \A j, k \in 1 .. Len(calls') : j < k => calls'[j].prev_frame < calls'[k].prev_frame
    BY <2>1 DEF FInv, OwnFrames
  <2>3. ASSUME NEW k \in 1 .. Len(calls)
        PROVE  /\ 1 <= calls'[k].prev_frame /\ calls'[k].prev_frame < Len(frames')
               /\ frames'[calls'[k].prev_frame + 1] = calls'[k].base
    <3> DEFINE c == calls[k].prev_frame
    <3>1. c \in Nat /\ 1 <= c /\ c <= b /\ frames[c + 1] = calls[k].base
      BY <1>6, <1>7 DEF FInv, OwnFrames
    <3>2. \A i \in 1 .. b + 1 : frames'[i] = frames[i]
      BY DEF Within
    <3>3. calls'[k].prev_frame = c /\ calls'[k].base = calls[k].base
      BY <2>1
    <3> HIDE DEF b, c
    <3>4. c < Len(frames') /\ frames'[c + 1] = frames[c + 1]
      BY <1>1, <1>2, <3>1, <3>2
    <3> QED BY <3>1, <3>3, <3>4
  <2> QED BY <2>1, <2>2, <2>3 DEF OwnFrames
<1> QED BY <1>4, <1>8 DEF FInv, Within

\* The action of CallerUntouched.
Untouched ==
  calls # << >> => /\ SubSeq(stack', 1, Act.base) = SubSeq(stack, 1, Act.base)
                   /\ SubSeq(frames', 1, Act.prev_frame) = SubSeq(frames, 1, Act.prev_frame)

\* Two sequences that agree up to n have the same beginning.
LEMMA SameBeginning ==
  ASSUME NEW S, NEW T, NEW s \in Seq(S), NEW t \in Seq(T), NEW n \in Nat, n <= Len(s), n <= Len(t),
         \A i \in 1 .. n : t[i] = s[i]
  PROVE  SubSeq(t, 1, n) = SubSeq(s, 1, n)
OBVIOUS

LEMMA WithinUntouched == ASSUME FInv, IInv', Within PROVE Untouched
<1>1. /\ stack \in Seq(Sound) /\ stack' \in Seq(Sound') /\ frames \in Seq(Nat) /\ frames' \in Seq(Nat)
      /\ Len(stack) \in Nat /\ Len(stack') \in Nat /\ Len(frames) \in Nat /\ Len(frames') \in Nat
  BY Depth, Levels DEF FInv, IInv, StacksInv
<1>2. Act.base \in Nat /\ Act.base <= Len(stack) /\ Act.prev_frame \in Nat /\ Act.prev_frame < Len(frames)
  BY Floor, Levels DEF Within
<1>3. Act.base <= Len(stack') /\ \A i \in 1 .. Act.base : stack'[i] = stack[i]
  BY <1>1, <1>2 DEF Within, Kept
<1>4. Act.prev_frame <= Len(frames') /\ \A i \in 1 .. Act.prev_frame : frames'[i] = frames[i]
  BY <1>1, <1>2 DEF Within
<1>5. SubSeq(stack', 1, Act.base) = SubSeq(stack, 1, Act.base)
  BY <1>1, <1>2, <1>3, SameBeginning
<1>6. SubSeq(frames', 1, Act.prev_frame) = SubSeq(frames, 1, Act.prev_frame)
  BY <1>1, <1>2, <1>4, SameBeginning
<1> QED BY <1>5, <1>6 DEF Untouched

LEMMA NothingReturnedYet == ASSUME FInv, AtWork PROVE \A k \in 1 .. Len(calls) : ~calls[k].returned
<1>1. Act.pc # 0 /\ Act = calls[Len(calls)]
  BY Undisturbed DEF FInv, Act
<1> QED BY <1>1 DEF FInv, Delivered

LEMMA GotoChangesPc ==
  ASSUME FInv, AtWork, NEW pc \in Nat, Goto(pc)
  PROVE  /\ Len(calls') = Len(calls)
         /\ \A k \in 1 .. Len(calls) :
              /\ calls'[k].prev_frame = calls[k].prev_frame /\ calls'[k].base = calls[k].base
              /\ calls'[k].returned = calls[k].returned
         /\ Delivered'
<1> DEFINE n == Len(calls)
<1>1. n \in Nat /\ n >= 1 /\ calls' = [calls EXCEPT ![n].pc = pc] /\ calls \in Seq(Activations)
  BY Located DEF Goto, FInv, IInv, CallsInv
<1>2. calls[n] \in Activations
  BY <1>1
<1>3. [calls[n] EXCEPT !.pc = pc] \in Activations
  BY <1>2 DEF Activations
<1> HIDE DEF n
<1>4. /\ Len(calls') = n /\ calls'[n] = [calls[n] EXCEPT !.pc = pc]
      /\ \A k \in 1 .. n : k # n => calls'[k] = calls[k]
  BY <1>1 DEF n
<1>5. /\ calls'[n].prev_frame = calls[n].prev_frame /\ calls'[n].base = calls[n].base
      /\ calls'[n].returned = calls[n].returned
  BY <1>2, <1>4 DEF Activations
<1>6. \A k \in 1 .. n :
        /\ calls'[k].prev_frame = calls[k].prev_frame /\ calls'[k].base = calls[k].base
        /\ calls'[k].returned = calls[k].returned
  BY <1>4, <1>5
<1>7. Delivered'
  BY <1>4, <1>6, NothingReturnedYet DEF Delivered, n
<1> QED BY <1>4, <1>6, <1>7 DEF n

\* Most instructions leave the frames alone and change the stack above the
\* topmost frame.
LEMMA SteadyIsWithin ==
  ASSUME FInv, AtWork, NEW pc \in Nat, Goto(pc), UNCHANGED frameVars,
         NEW n \in Nat, Frame <= n, Kept(stack', n), Len(stack') \in Nat
  PROVE  Within
<1>1. calls # << >>
  BY DEF AtWork
<1>2. frames' = frames /\ size_frames' = size_frames
  BY DEF frameVars
<1>3. Frame \in Nat /\ Act.base \in Nat /\ Act.base <= Frame /\ Act.prev_frame < Len(frames)
  BY <1>1, Levels, Floor
<1>4. Len(frames) <= size_frames /\ Rising(frames)
  BY DEF FInv, StackedFrames
<1>5. frames'[Len(frames')] <= Len(stack')
  BY <1>2, <1>3 DEF Kept, Frame
<1>6. Kept(stack', Act.base)
  BY <1>3 DEF Kept
<1> QED BY <1>1, <1>2, <1>3, <1>4, <1>5, <1>6, GotoChangesPc DEF Within

LEMMA WithinReach ==
  ASSUME FInv, AtWork, KeepsFrame, Ins.op # "INVOKE"
  PROVE  Reach \in Int /\ Reach <= Len(stack) - Frame /\ Frame \in Nat /\ Len(stack) \in Nat
<1>1. Ins.a \in Int /\ Ins.b \in Nat /\ Frame \in Nat /\ Len(stack) \in Nat
  BY Operand, Levels DEF FInv
<1>2. Reach \in Int
  BY <1>1 DEF Reach
<1> QED BY <1>1, <1>2 DEF KeepsFrame, AtWork

LEMMA TypedSteps == ASSUME FInv, [Next]_vars PROVE IInv' /\ Len(stack') \in Nat
<1>1. IInv'
  BY NextKeeps DEF FInv
<1> QED BY <1>1 DEF IInv, StacksInv

LEMMA KeptBelow ==
  ASSUME NEW m \in Int, NEW n \in Nat, n <= m, Len(stack') \in Nat, Kept(stack', m)
  PROVE  Kept(stack', n)
BY DEF Kept

LEMMA OrdinaryIsWithin == ASSUME FInv, KeepsFrame, IInv', Ordinary PROVE Within
<1>1. AtWork /\ Len(stack') \in Nat
  BY DEF Ordinary, IInv, StacksInv
<1>2. ASSUME Throws PROVE Within
  <2>1. stack' = stack /\ UNCHANGED frameVars /\ Goto(0)
    BY <1>2 DEF Throws, Throw
  <2>2. Kept(stack', Frame) /\ Frame \in Nat
    BY <2>1, Levels DEF Kept
  <2> QED BY <1>1, <2>1, <2>2, SteadyIsWithin
<1>3. ASSUME Proceeds PROVE Within
  <2>1. Kept(stack', Len(stack) - Reach) /\ UNCHANGED frameVars
    BY <1>3 DEF Proceeds
  <2>2. PICK pc \in Nat : Goto(pc)
    BY <1>3 DEF Proceeds
  <2>3. Reach \in Int /\ Reach <= Len(stack) - Frame /\ Frame \in Nat /\ Len(stack) \in Nat
    BY WithinReach DEF Ordinary
  <2>4. Kept(stack', Frame)
    BY <1>1, <2>1, <2>3 DEF Kept
  <2> QED BY <1>1, <2>1, <2>2, <2>3, <2>4, SteadyIsWithin
<1> QED BY <1>2, <1>3 DEF Ordinary

LEMMA PopFrameIsWithin == ASSUME FInv, KeepsFrame, IInv', PopFrame PROVE Within
<1>1. AtWork /\ Ins.op = "POP_FRAME"
  BY DEF PopFrame, At, AtWork
<1>2. \/ Throws
      \/ frames' = SubSeq(frames, 1, Len(frames) - 1) /\ Advance /\ UNCHANGED <<stack, size_frames, vals0, dataVars>>
  BY Throwing DEF PopFrame, Check
<1>3. CASE Throws
  BY <1>1, <1>3, OrdinaryIsWithin DEF Ordinary
<1>4. ASSUME frames' = SubSeq(frames, 1, Len(frames) - 1), Advance, UNCHANGED <<stack, size_frames, vals0, dataVars>>
      PROVE  Within
  <2> DEFINE b == Act.prev_frame
             m == Len(frames) - 1
  <2>1. calls # << >> /\ b + 1 < Len(frames)
    BY <1>1 DEF AtWork, KeepsFrame
  <2>2. /\ b \in Nat /\ 1 <= b /\ Act.base \in Nat /\ Act.base <= Frame
        /\ frames \in Seq(Nat) /\ Len(frames) \in Nat /\ Frame <= Len(stack) /\ Len(stack) \in Nat /\ Frame \in Nat
        /\ Frame = frames[Len(frames)]
    BY <2>1, Floor, Levels DEF Frame
  <2>3. Rising(frames) /\ Len(frames) <= size_frames /\ size_frames \in Nat
    BY Levels DEF FInv, StackedFrames
  <2>4. Goto(Act.pc + 1) /\ Act.pc + 1 \in Nat
    BY <1>1, <1>4, Located DEF Advance, FInv
  <2>5. m \in Nat /\ m >= 1 /\ m < Len(frames) /\ b < m
    BY <2>1, <2>2
  <2> HIDE DEF b
  <2>6. Len(frames') = m /\ \A i \in 1 .. m : frames'[i] = frames[i]
    BY <1>4, <2>2, <2>5
  <2>7. Rising(frames')
    <3>1. \A i \in 1 .. m : i \in 1 .. Len(frames)
      BY <2>2, <2>5
    <3> HIDE DEF m
    <3>2. \A i, j \in 1 .. m : i <= j => frames[i] <= frames[j]
      BY <2>3, <3>1 DEF Rising
    <3> QED BY <2>6, <3>2 DEF Rising
  <2>8. \A i \in 1 .. b + 1 : frames'[i] = frames[i]
    BY <2>2, <2>5, <2>6
  <2>9. frames'[Len(frames')] <= Len(stack')
    <3>1. frames[m] <= frames[Len(frames)]
      BY <2>2, <2>3, <2>5, SMTT(20) DEF Rising
    <3>2. frames'[Len(frames')] = frames[m] /\ frames[m] \in Nat /\ Len(stack') = Len(stack)
      BY <1>4, <2>2, <2>5, <2>6
    <3> QED BY <2>2, <3>1, <3>2
  <2>10. Kept(stack', Act.base)
    BY <1>4, <2>2 DEF Kept
  <2>11. Len(frames') <= size_frames' /\ b < Len(frames')
    BY <1>4, <2>2, <2>3, <2>5, <2>6
  <2> QED BY <1>1, <2>1, <2>4, <2>7, <2>8, <2>9, <2>10, <2>11, GotoChangesPc DEF Within, b
<1> QED BY <1>2, <1>3, <1>4

\* Pushing the start of a frame that is no lower than the topmost one.
LEMMA FramePushed ==
  ASSUME FInv, NEW s \in Seq(Sound), NEW n \in Nat, Frame <= Len(s) - n, PushFrameOn(s, n)
  PROVE  /\ Len(frames') = Len(frames) + 1 /\ frames'[Len(frames')] = Len(s) - n
         /\ \A i \in 1 .. Len(frames) : frames'[i] = frames[i]
         /\ Rising(frames') /\ Len(frames') <= size_frames'
<1> DEFINE x == Len(s) - n
<1>1. /\ frames \in Seq(Nat) /\ Len(frames) \in Nat /\ Len(frames) >= 1 /\ size_frames \in Nat \ {0}
      /\ Frame \in Nat /\ Frame = frames[Len(frames)] /\ Len(s) \in Nat
  BY Levels DEF Frame
<1>2. Rising(frames) /\ Len(frames) <= size_frames
  BY DEF FInv, StackedFrames
<1>3. frames' = Append(frames, x) /\ size_frames' = GrownFrames
  BY DEF PushFrameOn
<1>4. x \in Nat /\ Frame <= x
  BY <1>1
<1> HIDE DEF x
<1>5. /\ Len(frames') = Len(frames) + 1 /\ frames'[Len(frames) + 1] = x
      /\ \A i \in 1 .. Len(frames) : frames'[i] = frames[i]
  BY <1>1, <1>3, <1>4
<1>6. \A i \in 1 .. Len(frames) : frames[i] \in Nat /\ frames[i] <= x
  <2>1. \A i \in 1 .. Len(frames) : frames[i] <= Frame /\ frames[i] \in Nat
    BY <1>1, <1>2 DEF Rising
  <2> QED BY <1>1, <1>4, <2>1
<1>7. Rising(frames')
  <2> SUFFICES ASSUME NEW i \in 1 .. Len(frames) + 1, NEW j \in 1 .. Len(frames) + 1, i <= j
               PROVE  frames'[i] <= frames'[j]
    BY <1>5 DEF Rising
  <2>1. CASE j \in 1 .. Len(frames)
    <3>1. i \in 1 .. Len(frames)
      BY <1>1, <2>1
    <3> QED BY <1>2, <1>5, <2>1, <3>1 DEF Rising
  <2>2. CASE j = Len(frames) + 1 /\ i \in 1 .. Len(frames)
    BY <1>5, <1>6, <2>2
  <2>3. CASE j = Len(frames) + 1 /\ i = j
    BY <1>4, <1>5, <2>3
  <2> QED BY <1>1, <2>1, <2>2, <2>3
<1>8. Len(frames') <= size_frames'
  BY <1>1, <1>2, <1>3, <1>5 DEF GrownFrames
<1> QED BY <1>5, <1>7, <1>8 DEF x

LEMMA PushFrameIsWithin == ASSUME FInv, KeepsFrame, IInv', PushFrame PROVE Within
<1>1. AtWork /\ Ins.op = "PUSH_FRAME" /\ calls # << >>
  BY DEF PushFrame, At, AtWork
<1>2. \/ Throws
      \/ PushFrameOn(stack, Ins.a) /\ Advance /\ UNCHANGED <<stack, vals0, dataVars>>
  BY Throwing DEF PushFrame, Underflow, Check
<1>3. CASE Throws
  BY <1>1, <1>3, OrdinaryIsWithin DEF Ordinary
<1>4. ASSUME PushFrameOn(stack, Ins.a), Advance, UNCHANGED <<stack, vals0, dataVars>>
      PROVE  Within
  <2>1. Ins.a \in Nat /\ Ins.a <= Len(stack) - Frame
    BY <1>1, ReachOf, WithinReach, Operand DEF FInv, JumpCodes
  <2>2. /\ Frame \in Nat /\ Frame <= Len(stack) /\ Len(stack) \in Nat /\ stack \in Seq(Sound)
        /\ Len(frames) \in Nat /\ frames \in Seq(Nat)
    BY Levels, Depth DEF FInv
  <2>3. Frame <= Len(stack) - Ins.a
    BY <2>1, <2>2
  <2>4. /\ Len(frames') = Len(frames) + 1 /\ frames'[Len(frames')] = Len(stack) - Ins.a
        /\ \A i \in 1 .. Len(frames) : frames'[i] = frames[i]
        /\ Rising(frames') /\ Len(frames') <= size_frames'
    BY <1>4, <2>1, <2>2, <2>3, FramePushed
  <2>5. Goto(Act.pc + 1) /\ Act.pc + 1 \in Nat
    BY <1>1, <1>4, Located DEF Advance, FInv
  <2>6. /\ Act.prev_frame \in Nat /\ Act.prev_frame < Len(frames)
        /\ Act.base \in Nat /\ Act.base <= Frame
    BY <1>1, Floor
  <2>7. Act.prev_frame < Len(frames') /\ \A i \in 1 .. Act.prev_frame + 1 : frames'[i] = frames[i]
    BY <2>2, <2>4, <2>6
  <2>8. frames'[Len(frames')] <= Len(stack') /\ Kept(stack', Act.base)
    BY <1>4, <2>1, <2>2, <2>4, <2>6 DEF Kept
  <2> QED BY <1>1, <2>4, <2>5, <2>7, <2>8, GotoChangesPc DEF Within
<1> QED BY <1>2, <1>3, <1>4

\* A step that takes n values of its frame and pushes others.
LEMMA ReplacedIsWithin ==
  ASSUME FInv, KeepsFrame, IInv', AtWork, Advance, UNCHANGED frameVars, NEW n \in Nat, n <= Len(stack) - Frame,
         \/ stack' = Popped(stack, n)
         \/ \E v \in Sound' : stack' = Append(Popped(stack, n), v)
  PROVE  Within
<1>1. /\ Frame \in Nat /\ Frame <= Len(stack) /\ Len(stack) \in Nat /\ stack \in Seq(Sound)
      /\ Len(stack') \in Nat
  BY Levels, Depth DEF FInv, IInv, StacksInv
<1>2. Goto(Act.pc + 1) /\ Act.pc + 1 \in Nat
  BY Located DEF Advance, FInv
<1> DEFINE rest == Popped(stack, n)
           m == Len(stack) - n
<1>3. m \in Nat /\ Frame <= m /\ n <= Len(stack)
  BY <1>1
<1>4. rest \in Seq(Sound) /\ Len(rest) = m /\ \A i \in 1 .. m : rest[i] = stack[i]
  BY <1>1, <1>3, Pops
<1> HIDE DEF rest, m
<1>5. Kept(stack', m)
  <2>1. CASE stack' = rest
    BY <1>3, <1>4, <2>1 DEF Kept
  <2>2. ASSUME NEW v \in Sound', stack' = Append(rest, v)
        PROVE  Kept(stack', m)
    BY <1>3, <1>4, <2>2 DEF Kept
  <2> QED BY <2>1, <2>2 DEF rest
<1> QED BY <1>1, <1>2, <1>3, <1>5, SteadyIsWithin

LEMMA DataIsWithin ==
  ASSUME FInv, KeepsFrame, IInv', StoreValue \/ StoreCapture \/ Closure
  PROVE  Within
<1>1. ASSUME StoreValue PROVE Within
  <2>1. AtWork /\ Ins.op = "STORE_VALUE" /\ Reach = 1
    BY <1>1, ReachOf DEF StoreValue, At, AtWork, TakeOne
  <2>2. Throws \/ (stack' = Popped(stack, 1) /\ Advance /\ UNCHANGED frameVars)
    BY <1>1, Throwing DEF StoreValue, Underflow, Check
  <2>3. 1 <= Len(stack) - Frame
    BY <2>1, WithinReach
  <2> QED BY <2>1, <2>2, <2>3, ReplacedIsWithin, OrdinaryIsWithin DEF Ordinary
<1>2. ASSUME StoreCapture PROVE Within
  <2>1. AtWork /\ Ins.op = "STORE_CAPTURE" /\ Reach = 1
    BY <1>2, ReachOf DEF StoreCapture, At, AtWork, TakeOne
  <2>2. Throws \/ (stack' = Popped(stack, 1) /\ Advance /\ UNCHANGED frameVars)
    BY <1>2, Throwing DEF StoreCapture, Underflow, Check
  <2>3. 1 <= Len(stack) - Frame
    BY <2>1, WithinReach
  <2> QED BY <2>1, <2>2, <2>3, ReplacedIsWithin, OrdinaryIsWithin DEF Ordinary
<1>3. ASSUME Closure PROVE Within
  <2> DEFINE v == FunctionOf(Len(closures) + 1)
             n == Ins.a + 1
  <2>1. AtWork /\ Ins.op = "CLOSURE" /\ Reach = n /\ n \in Nat
    BY <1>3, ReachOf, Operand, SMTT(20) DEF Closure, At, AtWork, JumpCodes, FInv
  <2>2. Throws \/ (stack' = Append(Popped(stack, n), v) /\ Advance /\ UNCHANGED frameVars)
    BY <1>3, Throwing DEF Closure, Exact, Underflow, Check
  <2>3. n <= Len(stack) - Frame
    BY <2>1, WithinReach
  <2>4. ASSUME stack' = Append(Popped(stack, n), v) PROVE v \in Sound'
    <3>1. stack' \in Seq(Sound') /\ stack \in Seq(Sound)
      BY Depth DEF IInv, StacksInv, FInv
    <3> HIDE DEF n
    <3>2. Popped(stack, n) \in Seq(Sound)
      <4>1. n <= Len(stack)
        BY <2>1, <2>3, Levels
      <4> QED BY <2>1, <3>1, <4>1, Pops
    <3> HIDE DEF v
    <3>3. stack'[Len(stack')] = v /\ Len(stack') \in 1 .. Len(stack')
      BY <2>4, <3>2
    <3> QED BY <3>1, <3>3
  <2> HIDE DEF v, n
  <2> QED BY <2>1, <2>2, <2>3, <2>4, ReplacedIsWithin, OrdinaryIsWithin DEF Ordinary
<1> QED BY <1>1, <1>2, <1>3

LEMMA ReturnValueIsWithin == ASSUME FInv, KeepsFrame, IInv', ReturnValue PROVE Within
<1> DEFINE n == Len(calls)
           v == Bw(stack, 0)
           act == [calls[n] EXCEPT !.pc = 0, !.returned = TRUE, !.value = v]
<1>1. AtWork /\ Ins.op = "RETURN_VALUE" /\ calls # << >>
  BY DEF ReturnValue, At, AtWork
<1>2. \/ Throws
      \/ /\ 1 <= Len(stack) /\ vals0' = v
         /\ calls' = [calls EXCEPT ![n].pc = 0, ![n].returned = TRUE, ![n].value = v]
         /\ UNCHANGED <<stack, frameVars, exc, dataVars, runs, last>>
  BY Throwing DEF ReturnValue, Underflow, Check
<1>3. CASE Throws
  BY <1>1, <1>3, OrdinaryIsWithin DEF Ordinary
<1>4. ASSUME 1 <= Len(stack), vals0' = v,
             calls' = [calls EXCEPT ![n].pc = 0, ![n].returned = TRUE, ![n].value = v],
             UNCHANGED <<stack, frameVars, exc, dataVars, runs, last>>
      PROVE  Within
  <2>1. n \in Nat /\ n >= 1 /\ calls \in Seq(Activations) /\ calls[n] \in Activations
    BY <1>1, Located DEF FInv, IInv, CallsInv
  <2>2. v \in Values
    BY <1>4, OnStack, Depth DEF FInv
  <2>3. calls' = [calls EXCEPT ![n] = act]
    BY <1>4, <2>1
  <2>4. /\ act.prev_frame = calls[n].prev_frame /\ act.base = calls[n].base
        /\ act.pc = 0 /\ act.value = v
    BY <2>1 DEF Activations
  <2>5. /\ \A k \in 1 .. n : ~calls[k].returned
        /\ frames' = frames /\ size_frames' = size_frames /\ stack' = stack
    BY <1>1, <1>4, NothingReturnedYet DEF frameVars
  <2> HIDE DEF act, n, v
  <2>6. Len(calls') = n /\ calls'[n] = act /\ \A k \in 1 .. n : k # n => calls'[k] = calls[k]
    BY <2>1, <2>3 DEF n
  <2>7. \A k \in 1 .. n : calls'[k].prev_frame = calls[k].prev_frame /\ calls'[k].base = calls[k].base
    BY <2>4, <2>6
  <2>8. Delivered'
    BY <1>4, <2>4, <2>5, <2>6 DEF Delivered
  <2>9. Len(frames) <= size_frames /\ Rising(frames) /\ Act.prev_frame < Len(frames)
        /\ frames[Len(frames)] <= Len(stack)
    BY <1>1, Floor, Levels DEF FInv, StackedFrames, Frame
  <2>10. Kept(stack', Act.base)
    BY <1>1, <2>5, Floor, Levels DEF Kept
  <2> QED BY <1>1, <2>5, <2>6, <2>7, <2>8, <2>9, <2>10 DEF Within, n
<1> HIDE DEF n, v
<1> QED BY <1>2, <1>3, <1>4
-----------------------------------------------------------------------------
(***************************************************************************)
(* The start of a run.                                                     *)
(***************************************************************************)
LEMMA EnterFrames ==
  ASSUME FInv, IInv', NEW p \in Progs, NEW c, NEW s \in Seq(Sound), Len(s) = Len(stack), NEW args,
         Enter(p, c, s, args), Len(stack') >= Len(s), \A k \in 1 .. Len(calls) : ~calls[k].returned
  PROVE  FInv' /\ \A i \in 1 .. Len(frames) : frames'[i] = frames[i]
<1> DEFINE n == Len(calls)
           act == [prog |-> p, pc |-> 1, closure |-> c, prev_frame |-> Len(frames),
                   base |-> Len(s), returned |-> FALSE, value |-> Null]
<1>1. /\ frames \in Seq(Nat) /\ Len(frames) \in Nat /\ Len(frames) >= 1 /\ Frame \in Nat
      /\ Frame <= Len(stack) /\ Len(stack) \in Nat /\ n \in Nat /\ calls \in Seq(Activations)
  BY Levels, Depth DEF FInv, IInv, CallsInv
<1>2. PushFrameOn(s, 0) /\ calls' = Append(calls, act)
  BY DEF Enter
<1>3. Frame <= Len(s) - 0 /\ Len(s) - 0 = Len(s)
  BY <1>1
<1>4. /\ Len(frames') = Len(frames) + 1 /\ frames'[Len(frames')] = Len(s)
      /\ \A i \in 1 .. Len(frames) : frames'[i] = frames[i]
      /\ Rising(frames') /\ Len(frames') <= size_frames'
  BY <1>2, <1>3, FramePushed
<1>5. act.prev_frame = Len(frames) /\ act.base = Len(s) /\ act.returned = FALSE
  OBVIOUS
<1> HIDE DEF act
<1>6. Len(calls') = n + 1 /\ calls'[n + 1] = act /\ \A k \in 1 .. n : calls'[k] = calls[k]
  BY <1>1, <1>2
<1>7. frames' # << >> /\ frames'[Len(frames')] <= Len(stack')
  BY <1>1, <1>4
<1>8. StackedFrames'
  BY <1>4, <1>7 DEF StackedFrames, Frame
<1> HIDE DEF n
<1>9. \A k \in 1 .. n :
        calls[k].prev_frame \in Nat /\ 1 <= calls[k].prev_frame /\ calls[k].prev_frame < Len(frames)
        /\ frames[calls[k].prev_frame + 1] = calls[k].base
  <2>1. \A k \in 1 .. n : calls[k] \in Activations
    BY <1>1 DEF n
  <2> QED BY <2>1 DEF FInv, OwnFrames, n, Activations
<1>10. OwnFrames'
  <2>0. n \in Nat
    BY <1>1 DEF n
  <2>1. ASSUME NEW k \in 1 .. n + 1
        PROVE  /\ 1 <= calls'[k].prev_frame /\ calls'[k].prev_frame < Len(frames')
               /\ frames'[calls'[k].prev_frame + 1] = calls'[k].base
    <3>1. CASE k = n + 1
      BY <1>1, <1>4, <1>5, <1>6, <3>1, SMTT(20)
    <3>2. CASE k \in 1 .. n
      <4> DEFINE b == calls[k].prev_frame
      <4>1. b \in Nat /\ 1 <= b /\ b < Len(frames) /\ frames[b + 1] = calls[k].base /\ calls'[k] = calls[k]
        BY <1>6, <1>9, <3>2
      <4> HIDE DEF b
      <4>2. b < Len(frames') /\ frames'[b + 1] = frames[b + 1]
        <5>1. b + 1 \in 1 .. Len(frames)
          BY <1>1, <4>1
        <5>2. Len(frames') = Len(frames) + 1 /\ \A i \in 1 .. Len(frames) : frames'[i] = frames[i]
          BY <1>4
        <5>3. frames'[b + 1] = frames[b + 1]
          BY <5>1, <5>2
        <5>4. b < Len(frames')
          BY <1>1, <4>1, <5>2
        <5> QED BY <5>3, <5>4
      <4> QED BY <4>1, <4>2 DEF b
    <3>3. k \in 1 .. n \/ k = n + 1
      BY <2>0
    <3> QED BY <3>1, <3>2, <3>3
  <2>2. ASSUME NEW j \in 1 .. n + 1, NEW k \in 1 .. n + 1, j < k
        PROVE  calls'[j].prev_frame < calls'[k].prev_frame
    <3>1. j \in 1 .. n /\ calls'[j] = calls[j]
      BY <1>1, <1>6, <2>2 DEF n
    <3>2. CASE k = n + 1
      BY <1>5, <1>6, <1>9, <3>1, <3>2
    <3>3. CASE k \in 1 .. n
      BY <1>6, <2>2, <3>1, <3>3 DEF FInv, OwnFrames, n
    <3>4. k \in 1 .. n \/ k = n + 1
      BY <2>0
    <3> QED BY <3>2, <3>3, <3>4
  <2> QED BY <1>6, <2>1, <2>2 DEF OwnFrames
<1>11. \A k \in 1 .. n + 1 : ~calls'[k].returned
  <2>1. \A k \in 1 .. n : ~calls'[k].returned
    BY <1>6 DEF n
  <2> QED BY <1>1, <1>5, <1>6, <2>1 DEF n
<1>12. Delivered'
  BY <1>6, <1>11 DEF Delivered
<1> QED BY <1>4, <1>8, <1>10, <1>12 DEF FInv

LEMMA HostRunFrames == ASSUME FInv, IInv', NEW p \in Entry, HostRun(p) PROVE FInv'
<1>1. PICK args \in [1 .. NArgs[p] -> Foreign] : Enter(p, 0, stack, args)
  BY DEF HostRun
<1>2. p \in Progs /\ NArgs[p] \in Nat /\ stack \in Seq(Sound) /\ Len(stack) \in Nat
  BY MachineAssumption, Depth DEF FInv
<1>3. args \in Seq(Foreign) /\ Foreign \subseteq Sound
  BY <1>2, HostHandsOver, Depth DEF Sound, FInv
<1>4. Len(stack') >= Len(stack)
  BY <1>1, <1>2, <1>3, Joined DEF Enter
<1>5. \A k \in 1 .. Len(calls) : ~calls[k].returned
  BY DEF HostRun
<1> QED BY <1>1, <1>2, <1>4, <1>5, EnterFrames

LEMMA InvokeFrames == ASSUME FInv, KeepsFrame, IInv', Invoke PROVE FInv' /\ Untouched
<1>1. AtWork /\ Ins.op = "INVOKE" /\ (Throws \/ Calls) /\ calls # << >>
  BY InvokeCases DEF FInv, AtWork
<1>2. /\ Frame \in Nat /\ Frame <= Len(stack) /\ Len(stack) \in Nat /\ Len(stack') \in Nat
      /\ stack' \in Seq(Sound') /\ stack \in Seq(Sound)
  BY Levels, Depth DEF IInv, StacksInv, FInv
<1>3. CASE Throws
  <2>1. stack' = stack /\ UNCHANGED frameVars /\ Goto(0)
    BY <1>3 DEF Throws, Throw
  <2>2. Kept(stack', Frame)
    BY <1>2, <2>1 DEF Kept
  <2> QED BY <1>1, <1>2, <2>1, <2>2, SteadyIsWithin, WithinKeeps, WithinUntouched
<1>4. ASSUME NEW s \in Seq(Sound), Prepared(s), Refused(s) \/ Entered(s) \/ Answered(s)
      PROVE  FInv' /\ Untouched
  <2>1. Len(s) = Len(stack) /\ \A i \in 1 .. Frame : s[i] = stack[i]
    <3>1. Reach \in Nat /\ Frame <= Len(stack) - Reach
      BY <1>1, <1>2, <1>4 DEF Prepared, KeepsFrame, AtWork
    <3>2. \A i \in 1 .. Frame : i \in 1 .. Len(stack) - Reach
      BY <1>2, <3>1
    <3> QED BY <1>4, <3>2 DEF Prepared
  <2>2. CASE Refused(s)
    <3>1. Kept(stack', Frame)
      BY <1>2, <2>1, <2>2 DEF Refused, Kept
    <3> QED BY <1>1, <1>2, <2>2, <3>1, SteadyIsWithin, WithinKeeps, WithinUntouched DEF Refused
  <2>3. CASE Answered(s)
    <3>1. PICK result \in Sound : stack' = Append(s, result)
      BY <2>3 DEF Answered
    <3>2. Kept(stack', Frame)
      BY <1>2, <2>1, <3>1 DEF Kept
    <3>3. Goto(Act.pc + 1) /\ Act.pc + 1 \in Nat /\ UNCHANGED frameVars
      BY <1>1, <2>3, Located DEF Answered, Advance, FInv
    <3> QED BY <1>1, <1>2, <3>2, <3>3, SteadyIsWithin, WithinKeeps, WithinUntouched
  <2>4. CASE Entered(s)
    <3>1. PICK c \in 1 .. Len(closures), args \in Seq(Sound) : Enter(closures[c].prog, c, s, args)
      BY <2>4 DEF Entered
    <3>2. closures[c].prog \in Progs
      BY ClosuresHavePrograms DEF FInv
    <3>3. stack' = s \o args
      BY <3>1 DEF Enter
    <3>4. Len(stack') >= Len(s) /\ \A i \in 1 .. Frame : stack'[i] = stack[i]
      <4>1. Len(stack') = Len(s) + Len(args) /\ \A i \in 1 .. Len(s) : stack'[i] = s[i]
        BY <3>3, Joined
      <4>2. Len(s) \in Nat /\ Len(args) \in Nat
        OBVIOUS
      <4> QED BY <1>2, <2>1, <4>1, <4>2
    <3>5. FInv' /\ \A i \in 1 .. Len(frames) : frames'[i] = frames[i]
      BY <1>1, <2>1, <3>1, <3>2, <3>4, NothingReturnedYet, EnterFrames
    <3>6. /\ frames \in Seq(Nat) /\ frames' \in Seq(Nat) /\ Len(frames) \in Nat /\ Len(frames') \in Nat
          /\ Len(frames') = Len(frames) + 1
      BY <3>1, Levels DEF IInv, StacksInv, Enter, PushFrameOn
    <3>7. /\ Act.base \in Nat /\ Act.base <= Frame
          /\ Act.prev_frame \in Nat /\ Act.prev_frame < Len(frames)
      BY <1>1, Floor
    <3>8. SubSeq(stack', 1, Act.base) = SubSeq(stack, 1, Act.base)
      <4>1. Act.base <= Len(stack) /\ Act.base <= Len(stack') /\ \A i \in 1 .. Act.base : stack'[i] = stack[i]
        BY <1>2, <2>1, <3>4, <3>7
      <4> QED BY <1>2, <3>7, <4>1, SameBeginning
    <3>9. SubSeq(frames', 1, Act.prev_frame) = SubSeq(frames, 1, Act.prev_frame)
      <4>1. Act.prev_frame <= Len(frames) /\ Act.prev_frame <= Len(frames')
            /\ \A i \in 1 .. Act.prev_frame : frames'[i] = frames[i]
        BY <3>5, <3>6, <3>7, SMTT(20)
      <4> QED BY <3>6, <3>7, <4>1, SameBeginning
    <3> QED BY <3>5, <3>8, <3>9 DEF Untouched
  <2> QED BY <1>4, <2>2, <2>3, <2>4
<1> QED BY <1>1, <1>3, <1>4 DEF Calls

(***************************************************************************)
(* The end of a run.                                                       *)
(***************************************************************************)
\* What the run found is there, without what was put above it.
LEMMA Restoring ==
  ASSUME FInv, calls # << >>
  PROVE  /\ Restored = SubSeq(stack, 1, Act.base) /\ RestoredFrames = SubSeq(frames, 1, Act.prev_frame)
         /\ Restored \in Seq(Sound) /\ Len(Restored) = Act.base
         /\ RestoredFrames \in Seq(Nat) /\ Len(RestoredFrames) = Act.prev_frame
         /\ \A i \in 1 .. Act.base : Restored[i] = stack[i]
         /\ \A i \in 1 .. Act.prev_frame : RestoredFrames[i] = frames[i]
<1> DEFINE b == Act.prev_frame
           h == Act.base
<1>1. /\ b \in Nat /\ 1 <= b /\ b < Len(frames) /\ frames[b + 1] = h /\ h \in Nat /\ h <= Frame
      /\ Frame \in Nat /\ Frame <= Len(stack) /\ Len(stack) \in Nat /\ frames \in Seq(Nat) /\ Len(frames) \in Nat
      /\ stack \in Seq(Sound)
  BY Floor, Levels, Depth DEF FInv
<1>2. Restored = SubSeq(stack, 1, h) /\ RestoredFrames = SubSeq(frames, 1, b)
  BY <1>1 DEF Restored, RestoredFrames
<1> HIDE DEF b, h
<1>3. h <= Len(stack)
  BY <1>1
<1>4. /\ SubSeq(stack, 1, h) \in Seq(Sound) /\ Len(SubSeq(stack, 1, h)) = h
      /\ \A i \in 1 .. h : SubSeq(stack, 1, h)[i] = stack[i]
  BY <1>1, <1>3
<1>5. /\ SubSeq(frames, 1, b) \in Seq(Nat) /\ Len(SubSeq(frames, 1, b)) = b
      /\ \A i \in 1 .. b : SubSeq(frames, 1, b)[i] = frames[i]
  BY <1>1
<1> QED BY <1>2, <1>4, <1>5 DEF b, h

\* The frames that are left are in order, and end below the stack.
LEMMA FramesLeft ==
  ASSUME FInv, IInv', calls # << >>, End, Len(stack') \in Nat, Act.base <= Len(stack')
  PROVE  StackedFrames' /\ Len(frames') = Act.prev_frame /\ \A i \in 1 .. Act.prev_frame : frames'[i] = frames[i]
<1> DEFINE b == Act.prev_frame
<1>1. /\ b \in Nat /\ 1 <= b /\ b < Len(frames) /\ frames[b] <= Act.base /\ Act.base \in Nat
      /\ frames \in Seq(Nat) /\ Len(frames) \in Nat
  BY Floor, Levels
<1>2. frames' = RestoredFrames /\ size_frames' = size_frames
  BY DEF End
<1>3. frames' \in Seq(Nat) /\ Len(frames') = b /\ \A i \in 1 .. b : frames'[i] = frames[i]
  BY <1>2, Restoring
<1>4. Len(frames) <= size_frames /\ Rising(frames) /\ size_frames \in Nat
  BY Levels DEF FInv, StackedFrames
<1> HIDE DEF b
<1>5. Rising(frames')
  <2>1. \A i \in 1 .. b : i \in 1 .. Len(frames)
    BY <1>1
  <2>2. \A i, j \in 1 .. b : i <= j => frames[i] <= frames[j]
    BY <1>4, <2>1 DEF Rising
  <2> QED BY <1>3, <2>2 DEF Rising
<1>6. frames' # << >> /\ Len(frames') <= size_frames'
  BY <1>1, <1>2, <1>3, <1>4
<1>7. frames'[Len(frames')] <= Len(stack')
  <2>1. frames'[Len(frames')] = frames[b] /\ frames[b] \in Nat
    BY <1>1, <1>3
  <2> QED BY <1>1, <2>1
<1>8. StackedFrames'
  BY <1>5, <1>6, <1>7 DEF StackedFrames, Frame
<1> QED BY <1>3, <1>8 DEF b

\* The action of ReturnsToCaller: what a run returned is what its end delivers.
Returned ==
  Len(calls') < Len(calls) =>
    /\ stack' = SubSeq(stack, 1, Act.base) \o IF calls' = << >> THEN << >> ELSE <<last'.result>>
    /\ frames' = SubSeq(frames, 1, Act.prev_frame)
    /\ Act.returned => last'.result = Act.value

LEMMA EndDelivers ==
  ASSUME FInv, calls # << >>, End
  PROVE  last'.result = vals0 /\ (Act.returned => last'.result = Act.value)
<1>1. last' = [prog |-> Act.prog, result |-> vals0, returned |-> Act.returned]
  BY DEF End
<1>2. last'.result = vals0
  BY <1>1
<1>3. Len(calls) \in 1 .. Len(calls) /\ Act = calls[Len(calls)]
  BY Running DEF FInv, Act
<1>4. Act.returned => vals0 = Act.value
  BY <1>3 DEF FInv, Delivered
<1> QED BY <1>2, <1>4

LEMMA EndOfHostRunFrames == ASSUME FInv, IInv', EndOfHostRun PROVE FInv' /\ Untouched /\ Returned
<1>1. calls # << >> /\ End /\ stack' = Restored /\ calls' = << >>
  BY DEF EndOfHostRun, Ended
<1>2. /\ stack' = SubSeq(stack, 1, Act.base) /\ Len(stack') = Act.base /\ Act.base \in Nat
      /\ frames' = SubSeq(frames, 1, Act.prev_frame) /\ stack' \in Seq(Sound) /\ frames' \in Seq(Nat)
      /\ Len(frames') = Act.prev_frame
  BY <1>1, Restoring, Floor DEF End
<1>3. StackedFrames'
  BY <1>1, <1>2, FramesLeft
<1>4. OwnFrames' /\ Delivered'
  BY <1>1 DEF OwnFrames, Delivered
<1>5. FInv'
  BY <1>3, <1>4 DEF FInv
<1>6. SubSeq(stack', 1, Act.base) = stack' /\ SubSeq(frames', 1, Act.prev_frame) = frames'
  BY <1>2
<1>7. Untouched
  BY <1>2, <1>6 DEF Untouched
<1>8. stack' = SubSeq(stack, 1, Act.base) \o << >>
  BY <1>2
<1>9. Returned
  BY <1>1, <1>2, <1>8, EndDelivers DEF Returned
<1> QED BY <1>5, <1>7, <1>9

LEMMA EndOfCallFrames == ASSUME FInv, IInv', EndOfCall PROVE FInv' /\ Untouched /\ Returned
<1> DEFINE n == Len(calls) - 1
           b == Act.prev_frame
           h == Act.base
<1>1. /\ calls # << >> /\ End /\ stack' = Append(Restored, vals0)
      /\ calls' = [SubSeq(calls, 1, n) EXCEPT ![n].pc = @ + 1]
  BY DEF EndOfCall, Ended
<1>2. /\ n \in Nat /\ n >= 1 /\ Len(calls) = n + 1 /\ calls \in Seq(Activations) /\ Act = calls[n + 1]
  BY <1>1, Running DEF EndOfCall, FInv, Act
<1>3. /\ Restored = SubSeq(stack, 1, h) /\ Restored \in Seq(Sound) /\ Len(Restored) = h
      /\ \A i \in 1 .. h : Restored[i] = stack[i]
      /\ frames' = SubSeq(frames, 1, b) /\ vals0 \in Sound /\ h \in Nat /\ b \in Nat /\ 1 <= b /\ b < Len(frames)
  BY <1>1, Restoring, Floor, Depth DEF End, FInv
<1>4. /\ Len(stack') = h + 1 /\ stack' \in Seq(Sound)
      /\ \A i \in 1 .. h : stack'[i] = stack[i]
  BY <1>1, <1>3, SMTT(20)
<1>5. /\ StackedFrames' /\ Len(frames') = b /\ \A i \in 1 .. b : frames'[i] = frames[i]
  BY <1>1, <1>3, <1>4, FramesLeft, SMTT(20)
<1> HIDE DEF n, b, h
<1>6. /\ Len(calls') = n
      /\ \A k \in 1 .. n :
           /\ calls'[k].prev_frame = calls[k].prev_frame /\ calls'[k].base = calls[k].base
           /\ calls'[k].returned = calls[k].returned
  <2> DEFINE below == SubSeq(calls, 1, n)
             act == [below[n] EXCEPT !.pc = @ + 1]
  <2>1. below \in Seq(Activations) /\ Len(below) = n /\ \A k \in 1 .. n : below[k] = calls[k]
    BY <1>2
  <2>2. calls' = [below EXCEPT ![n] = act]
    BY <1>1
  <2> HIDE DEF below
  <2>3. below[n] = calls[n] /\ below[n] \in Activations
    BY <1>2, <2>1
  <2>4. act.prev_frame = calls[n].prev_frame /\ act.base = calls[n].base /\ act.returned = calls[n].returned
    BY <2>3 DEF Activations
  <2> HIDE DEF act
  <2>5. Len(calls') = n /\ calls'[n] = act /\ \A k \in 1 .. n : k # n => calls'[k] = below[k]
    BY <1>2, <2>1, <2>2
  <2> QED BY <2>1, <2>4, <2>5
<1>7. \A k \in 1 .. n : k \in 1 .. Len(calls) /\ k # Len(calls)
  BY <1>2
<1>8. \A k \in 1 .. n :
        /\ calls[k].prev_frame \in Nat /\ 1 <= calls[k].prev_frame /\ calls[k].prev_frame < b
        /\ frames[calls[k].prev_frame + 1] = calls[k].base
        /\ ~calls[k].returned
  <2>1. \A k \in 1 .. n : calls[k] \in Activations
    BY <1>2, <1>7
  <2>2. \A k \in 1 .. n : calls[k].prev_frame \in Nat
    BY <2>1 DEF Activations
  <2>3. \A k \in 1 .. n : 1 <= calls[k].prev_frame /\ frames[calls[k].prev_frame + 1] = calls[k].base
    BY <1>7 DEF FInv, OwnFrames
  <2>4. \A k \in 1 .. n : ~calls[k].returned
    BY <1>7 DEF FInv, Delivered
  <2>5. n + 1 \in 1 .. Len(calls) /\ \A k \in 1 .. n : k < n + 1
    BY <1>2
  <2>6. \A k \in 1 .. n : calls[k].prev_frame < calls[n + 1].prev_frame
    BY <1>7, <2>5 DEF FInv, OwnFrames
  <2> QED BY <1>2, <2>2, <2>3, <2>4, <2>6 DEF b
<1>9. OwnFrames'
  <2>1. ASSUME NEW k \in 1 .. n
        PROVE  /\ 1 <= calls'[k].prev_frame /\ calls'[k].prev_frame < Len(frames')
               /\ frames'[calls'[k].prev_frame + 1] = calls'[k].base
    <3> DEFINE c == calls[k].prev_frame
    <3>1. c \in Nat /\ 1 <= c /\ c < b /\ frames[c + 1] = calls[k].base
          /\ calls'[k].prev_frame = c /\ calls'[k].base = calls[k].base
      BY <1>6, <1>8
    <3> HIDE DEF c
    <3>2. frames'[c + 1] = frames[c + 1]
      BY <1>3, <1>5, <3>1
    <3> QED BY <1>5, <3>1, <3>2
  <2>2. \A j, k \in 1 .. n : j < k => calls'[j].prev_frame < calls'[k].prev_frame
    BY <1>6, <1>7 DEF FInv, OwnFrames
  <2> QED BY <1>6, <2>1, <2>2 DEF OwnFrames
<1>10. Delivered'
  BY <1>6, <1>8 DEF Delivered
<1>11. FInv'
  BY <1>5, <1>9, <1>10 DEF FInv
<1>12. SubSeq(stack', 1, h) = SubSeq(stack, 1, h)
  <2>1. stack \in Seq(Sound) /\ h <= Len(stack)
    BY <1>1, <1>3, Floor, Levels, Depth DEF FInv, h
  <2>2. h <= Len(stack')
    BY <1>3, <1>4
  <2> QED BY <1>3, <1>4, <2>1, <2>2, SameBeginning
<1>13. SubSeq(frames', 1, b) = SubSeq(frames, 1, b)
  BY <1>3, <1>5, Levels, SameBeginning DEF IInv, StacksInv
<1>14. Untouched
  BY <1>12, <1>13 DEF Untouched, b, h
<1>15. calls' # << >> /\ stack' = SubSeq(stack, 1, h) \o <<vals0>>
  <2>1. calls' # << >>
    BY <1>2, <1>6
  <2>2. \A r \in Seq(Sound), v \in Sound : Append(r, v) = r \o <<v>>
    OBVIOUS
  <2>3. stack' = Restored \o <<vals0>>
    BY <1>1, <1>3, <2>2
  <2> QED BY <1>3, <2>1, <2>3
<1>16. last'.result = vals0 /\ (Act.returned => last'.result = Act.value)
  BY <1>1, EndDelivers
<1>17. Returned
  BY <1>3, <1>15, <1>16 DEF Returned, b, h
<1> QED BY <1>11, <1>14, <1>17
-----------------------------------------------------------------------------
(***************************************************************************)
(* All steps.                                                              *)
(***************************************************************************)
LEMMA WithinDoes == ASSUME FInv, IInv', Within PROVE FInv' /\ Untouched /\ Returned
<1>1. ~(Len(calls') < Len(calls))
  BY Running DEF Within, FInv
<1> QED BY <1>1, WithinKeeps, WithinUntouched DEF Returned

LEMMA StepDoes == ASSUME FInv, KeepsFrame, IInv', Step PROVE FInv' /\ Untouched /\ Returned
<1>1. CASE Ordinary
  BY <1>1, OrdinaryIsWithin, WithinDoes
<1>2. CASE PushFrame
  BY <1>2, PushFrameIsWithin, WithinDoes
<1>3. CASE PopFrame
  BY <1>3, PopFrameIsWithin, WithinDoes
<1>4. CASE ReturnValue
  BY <1>4, ReturnValueIsWithin, WithinDoes
<1>5. CASE StoreValue \/ StoreCapture \/ Closure
  BY <1>5, DataIsWithin, WithinDoes
<1>6. CASE EndOfCall
  BY <1>6, EndOfCallFrames
<1>7. CASE EndOfHostRun
  BY <1>7, EndOfHostRunFrames
<1>8. CASE Invoke
  <2>1. ~(Len(calls') < Len(calls))
    <3>1. AtWork /\ (Throws \/ Calls) /\ Len(calls) \in Nat
      BY <1>8, InvokeCases, Depth DEF FInv
    <3>2. CASE Throws
      BY <3>1, <3>2, GotoChangesPc DEF Throws, Throw
    <3>3. CASE \E s : Refused(s)
      BY <3>1, <3>3, GotoChangesPc DEF Refused
    <3>4. CASE \E s : Answered(s)
      <4>1. Goto(Act.pc + 1) /\ Act.pc + 1 \in Nat
        BY <3>1, <3>4, Located DEF Answered, Advance, FInv
      <4> QED BY <3>1, <4>1, GotoChangesPc
    <3>5. CASE \E s : Entered(s)
      <4>1. \E act : calls' = Append(calls, act)
        BY <3>5 DEF Entered, Enter
      <4>2. calls \in Seq(Activations)
        BY DEF FInv, IInv, CallsInv
      <4> QED BY <3>1, <4>1, <4>2
    <3> QED BY <3>1, <3>2, <3>3, <3>4, <3>5 DEF Calls
  <2> QED BY <1>8, <2>1, InvokeFrames DEF Returned
<1> QED BY <1>1, <1>2, <1>3, <1>4, <1>5, <1>6, <1>7, <1>8, Steps DEF Special, FInv

LEMMA StutteringDoes == ASSUME FInv, IInv', UNCHANGED vars PROVE FInv' /\ Untouched /\ Returned
<1>1. stack' = stack /\ frames' = frames /\ size_frames' = size_frames /\ vals0' = vals0 /\ calls' = calls
  BY DEF vars
<1>2. StackedFrames' /\ OwnFrames' /\ Delivered'
  BY <1>1 DEF FInv, StackedFrames, OwnFrames, Delivered, Rising, Frame
<1>3. Len(calls) \in Nat
  BY Depth DEF FInv
<1> QED BY <1>1, <1>2, <1>3 DEF FInv, Untouched, Returned

LEMMA NextDoes == ASSUME FInv, KeepsFrame, [Next]_vars PROVE FInv' /\ Untouched /\ Returned
<1>1. IInv'
  BY NextKeeps DEF FInv
<1>2. CASE Step
  BY <1>1, <1>2, StepDoes
<1>3. ASSUME NEW p \in Entry, HostRun(p)
      PROVE  FInv' /\ Untouched /\ Returned
  <2>1. calls = << >> /\ calls' # << >>
    BY <1>3 DEF HostRun, Enter
  <2>2. Len(calls) = 0 /\ Len(calls') \in Nat
    BY <1>1, <2>1 DEF IInv, CallsInv
  <2> QED BY <1>1, <1>3, <2>1, <2>2, HostRunFrames DEF Untouched, Returned
<1>4. CASE UNCHANGED vars
  BY <1>1, <1>4, StutteringDoes
<1> QED BY <1>2, <1>3, <1>4 DEF Next, Done

LEMMA FramesAtFirst == ASSUME Init PROVE FInv
<1>1. IInv
  BY InitHolds
<1>2. calls = << >> /\ frames = <<0>> /\ size_frames = InitFrames /\ stack = << >>
  BY DEF Init
<1>3. StackedFrames
  BY <1>2, MachineAssumption DEF StackedFrames, Rising, Frame
<1>4. OwnFrames /\ Delivered
  BY <1>2 DEF OwnFrames, Delivered
<1> QED BY <1>1, <1>3, <1>4 DEF FInv

LEMMA FramesHold == Spec /\ []KeepsFrame => []FInv
<1>1. FInv /\ KeepsFrame /\ [Next]_vars => FInv'
  BY NextDoes
<1> QED BY <1>1, FramesAtFirst, PTL DEF Spec

LEMMA OrderFollows == ASSUME FInv PROVE FramesOrdered
<1>1. /\ frames # << >> /\ Len(frames) <= size_frames /\ Frame <= Len(stack)
      /\ frames \in Seq(Nat) /\ Len(frames) \in Nat
  BY Levels DEF FInv, StackedFrames
<1>2. ASSUME NEW i \in 1 .. Len(frames) - 1
      PROVE  frames[i] <= frames[i + 1]
  <2>1. i \in 1 .. Len(frames) /\ i + 1 \in 1 .. Len(frames) /\ i <= i + 1
    BY <1>1
  <2> QED BY <2>1 DEF FInv, StackedFrames, Rising
<1> QED BY <1>1, <1>2 DEF FramesOrdered, FInv, OwnFrames

(***************************************************************************)
(* The frame stack stays in order, within its buffer and within the value  *)
(* stack, so the assertion of azo_interpreter_restore_frame never fails,   *)
(* as long as the programs keep to their frames.                           *)
(***************************************************************************)
THEOREM FramesStayOrdered == Spec /\ []KeepsFrame => []FramesOrdered
BY FramesHold, OrderFollows, PTL

(***************************************************************************)
(* Nothing a run does, conversion of arguments and exceptions in the       *)
(* middle of a call included, changes the values or frames below its own.  *)
(***************************************************************************)
THEOREM CallersStayUntouched == Spec /\ []KeepsFrame => CallerUntouched
<1>1. FInv /\ KeepsFrame /\ [Next]_vars => [Untouched]_vars
  BY NextDoes
<1>2. Spec /\ []KeepsFrame => [][Untouched]_vars
  BY <1>1, FramesHold, PTL DEF Spec
<1> QED BY <1>2, PTL DEF CallerUntouched, Untouched

(***************************************************************************)
(* However a run ends, its caller finds the stack and the frames it left,  *)
(* with one value more, the one that was returned if one was; the host     *)
(* finds the stack as it was.                                              *)
(***************************************************************************)
THEOREM RunsReturnToCaller == Spec /\ []KeepsFrame => ReturnsToCaller
<1>1. FInv /\ KeepsFrame /\ [Next]_vars => [Returned]_vars
  BY NextDoes
<1>2. Spec /\ []KeepsFrame => [][Returned]_vars
  BY <1>1, FramesHold, PTL DEF Spec
<1> QED BY <1>2, PTL DEF ReturnsToCaller, Returned
===============================================================================
