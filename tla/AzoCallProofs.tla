---------------------------- MODULE AzoCallProofs -----------------------------
(***************************************************************************)
(* The interpreter implements calls with a stack for each run: a step of   *)
(* AzoMachine is a step of AzoCalls on the stacks that AzoPrivateStacks    *)
(* cuts from the one there is, or changes none of them.  That a step stays *)
(* above the frame of its run is AzoFrameProofs; that there is a value to  *)
(* return, and that a call has its arguments, is AzoHeightProofs.          *)
(***************************************************************************)
EXTENDS AzoHeightProofs, AzoPrivateStacks

\* The starts of the runs are in the order of the runs, within the stack.
Layered ==
  /\ Len(stack) \in Nat /\ Len(calls) \in Nat
  /\ \A k \in 1 .. Len(calls) :
       calls[k].base \in Nat /\ Limit(k) \in Nat /\ calls[k].base <= Limit(k) /\ Limit(k) <= Len(stack)
  /\ \A j, k \in 1 .. Len(calls) : j <= k => Limit(j) <= Limit(k)

LEMMA BasesAre == FInv => Layered
<1> SUFFICES ASSUME FInv PROVE Layered
  OBVIOUS
<1> DEFINE n == Len(calls)
           Start(j) == calls[j].base
<1>1. n \in Nat /\ frames \in Seq(Nat) /\ Len(frames) \in Nat /\ Frame <= Len(stack) /\ Len(stack) \in Nat
  BY Levels, Depth DEF FInv
<1>2. \A j \in 1 .. n :
        /\ calls[j].prev_frame \in Nat /\ 1 <= calls[j].prev_frame /\ calls[j].prev_frame < Len(frames)
        /\ frames[calls[j].prev_frame + 1] = Start(j)
  <2>1. \A j \in 1 .. n : calls[j].prev_frame \in Nat
    BY RunsAre
  <2> QED BY <2>1 DEF FInv, OwnFrames
<1>3. Rising(frames) /\ Frame = frames[Len(frames)]
  BY DEF FInv, StackedFrames, Frame
<1>4. ASSUME NEW i \in 1 .. n, NEW j \in 1 .. n, i <= j
      PROVE  Start(i) \in Nat /\ Start(i) <= Start(j) /\ Start(j) <= Len(stack)
  <2> DEFINE c == calls[i].prev_frame
             d == calls[j].prev_frame
             x == c + 1
             y == d + 1
             m == Len(frames)
  <2>1. c <= d
    <3>1. c \in Nat /\ d \in Nat
      BY <1>2, Zenon
    <3>2. i < j \/ i = j
      BY <1>1, <1>4
    <3>3. i < j => c < d
      BY Zenon DEF FInv, OwnFrames
    <3> QED BY <3>1, <3>2, <3>3
  <2>2. c \in Nat /\ d \in Nat /\ d < m /\ m \in Nat /\ frames[x] = Start(i) /\ frames[y] = Start(j)
    BY <1>1, <1>2, Zenon
  <2> HIDE DEF c, d, m, Start
  <2>3. x \in 1 .. m /\ y \in 1 .. m /\ m \in 1 .. m /\ x <= y /\ y <= m
    BY <2>1, <2>2
  <2> HIDE DEF x, y
  <2>4. frames[x] <= frames[y] /\ frames[y] <= frames[m]
    BY <1>3, <2>3, Zenon DEF Rising, m
  <2>5. frames[x] \in Nat /\ frames[y] \in Nat /\ frames[m] \in Nat
    BY <1>1, <2>3 DEF m
  <2>6. frames[m] <= Len(stack)
    BY <1>1, <1>3, Zenon DEF m
  <2> QED BY <1>1, <2>2, <2>4, <2>5, <2>6
<1>5. \A j \in 1 .. n : j # n => j + 1 \in 1 .. n /\ j <= j + 1
  BY <1>1
<1>6. \A j \in 1 .. n : Limit(j) = IF j = n THEN Len(stack) ELSE Start(j + 1)
  BY DEF Limit
<1>7. \A j \in 1 .. n : Limit(j) \in Nat /\ Start(j) \in Nat /\ Start(j) <= Limit(j) /\ Limit(j) <= Len(stack)
  <2> HIDE DEF Start
  <2> TAKE j \in 1 .. n
  <2>1. CASE j = n
    BY <1>1, <1>4, <1>6, <2>1
  <2>2. CASE j # n
    BY <1>1, <1>4, <1>5, <1>6, <2>2
  <2> QED BY <2>1, <2>2
<1>8. ASSUME NEW j \in 1 .. n, NEW k \in 1 .. n, j <= k
      PROVE  Limit(j) <= Limit(k)
  <2>1. CASE k = n
    BY <1>1, <1>6, <1>7, <2>1
  <2>2. CASE k # n
    <3>1. j # n /\ j + 1 \in 1 .. n /\ k + 1 \in 1 .. n /\ j + 1 <= k + 1
      BY <1>1, <1>8, <2>2
    <3> HIDE DEF Start
    <3> QED BY <1>4, <1>6, <2>2, <3>1
  <2> QED BY <2>1, <2>2
<1> QED BY <1>1, <1>7, <1>8 DEF Layered

LEMMA BasesNext == FInv' => Layered'
BY BasesAre, PTL

\* A part of a sequence.
LEMMA PartOf ==
  ASSUME NEW S, NEW s \in Seq(S), NEW a \in Nat, NEW b \in Nat, a <= b, b <= Len(s)
  PROVE  /\ SubSeq(s, a + 1, b) \in Seq(S) /\ Len(SubSeq(s, a + 1, b)) = b - a
         /\ \A i \in 1 .. b - a : SubSeq(s, a + 1, b)[i] = s[a + i]
OBVIOUS

\* Sequences that agree up to b have the same parts below.
Agreeing(s, t, b) == b <= Len(s) /\ b <= Len(t) /\ \A i \in 1 .. b : t[i] = s[i]

Part(s, a, b) == SubSeq(s, a + 1, b)

LEMMA SamePart ==
  ASSUME NEW S, NEW T, NEW s \in Seq(S), NEW t \in Seq(T), NEW a \in Nat, NEW b \in Nat, Agreeing(s, t, b)
  PROVE  Part(t, a, b) = Part(s, a, b)
BY DEF Agreeing, Part

LEMMA OwnIs ==
  ASSUME FInv, NEW k \in 1 .. Len(calls)
  PROVE  /\ Own(k) \in Seq(Sound) /\ Own(k) \in Seq(Values) /\ Len(Own(k)) = Limit(k) - calls[k].base
         /\ \A i \in 1 .. Limit(k) - calls[k].base : Own(k)[i] = stack[calls[k].base + i]
<1>1. /\ calls[k].base \in Nat /\ Limit(k) \in Nat /\ calls[k].base <= Limit(k) /\ Limit(k) <= Len(stack)
      /\ stack \in Seq(Sound)
  BY BasesAre, Depth DEF FInv, Layered
<1>2. Sound \subseteq Values
  BY DEF Sound, Valid
<1>3. \A S, T, s : s \in Seq(S) /\ S \subseteq T => s \in Seq(T)
  OBVIOUS
<1> DEFINE a == calls[k].base
           b == Limit(k)
<1>4. Own(k) = SubSeq(stack, a + 1, b)
  BY DEF Own
<1> HIDE DEF a, b
<1>5. Own(k) \in Seq(Sound) /\ Len(Own(k)) = b - a /\ \A i \in 1 .. b - a : Own(k)[i] = stack[a + i]
  <2>1. a \in Nat /\ b \in Nat /\ a <= b /\ b <= Len(stack) /\ stack \in Seq(Sound)
    BY <1>1 DEF a, b
  <2> QED BY <1>4, <2>1, PartOf
<1>6. Own(k) \in Seq(Values)
  BY <1>2, <1>3, <1>5, Zenon
<1> QED BY <1>5, <1>6 DEF a, b

\* What is seen of a run.
Seen(k) ==
  [prog |-> calls[k].prog, own |-> Own(k), ended |-> calls[k].pc \notin DOMAIN Code[calls[k].prog],
   returned |-> calls[k].returned, value |-> calls[k].value]

ActiveFacts ==
  /\ Active \in Seq(Private!Run) /\ Len(Active) = Len(calls) /\ \A k \in 1 .. Len(calls) : Active[k] = Seen(k)
  /\ Active = << >> <=> calls = << >>

LEMMA ActiveIs == FInv => ActiveFacts
<1> SUFFICES ASSUME FInv PROVE ActiveFacts
  OBVIOUS
<1>1. Len(calls) \in Nat /\ calls \in Seq(Activations)
  BY Depth DEF FInv, IInv, CallsInv
<1>2. ASSUME NEW k \in 1 .. Len(calls)
      PROVE  Seen(k) \in Private!Run
  <2>1. calls[k] \in Activations /\ Own(k) \in Seq(Values)
    BY <1>1, OwnIs
  <2> QED BY <2>1 DEF Seen, Private!Run, Activations
<1>3. Active = [k \in 1 .. Len(calls) |-> Seen(k)]
  BY DEF Active, Seen
<1> HIDE DEF Active
<1>4. Active \in Seq(Private!Run) /\ Len(Active) = Len(calls) /\ \A k \in 1 .. Len(calls) : Active[k] = Seen(k)
  BY <1>1, <1>2, <1>3
<1>5. Active = << >> <=> calls = << >>
  BY <1>1, <1>4
<1> QED BY <1>4, <1>5 DEF ActiveFacts

LEMMA ActiveNext == FInv' => ActiveFacts'
BY ActiveIs, PTL
-----------------------------------------------------------------------------
(***************************************************************************)
(* What becomes of the runs below the one that executes.                   *)
(***************************************************************************)
\* Runs that are as they were have the stacks they had, if the stack is as it
\* was up to the last of them.
Stay(n, b) ==
  /\ n <= Len(calls) /\ n <= Len(calls') /\ \A k \in 1 .. n : calls'[k] = calls[k]
  /\ b <= Len(stack) /\ b <= Len(stack') /\ \A i \in 1 .. b : stack'[i] = stack[i]
  /\ n > 0 => Limit(n) = b /\ Limit(n)' = b

LEMMA KeepsRuns == ASSUME FInv, FInv', NEW n \in Nat, NEW b \in Nat, Stay(n, b) PROVE Private!Same(n)
<1>0. /\ n <= Len(calls) /\ n <= Len(calls') /\ \A k \in 1 .. n : calls'[k] = calls[k]
      /\ b <= Len(stack) /\ b <= Len(stack') /\ \A i \in 1 .. b : stack'[i] = stack[i]
      /\ n > 0 => Limit(n) = b /\ Limit(n)' = b
  BY DEF Stay
<1>1. Layered /\ Layered' /\ ActiveFacts /\ ActiveFacts'
  BY BasesAre, BasesNext, ActiveIs, ActiveNext
<1>2. stack \in Seq(Sound) /\ stack' \in Seq(Sound') /\ Len(calls) \in Nat /\ Len(calls') \in Nat
  BY <1>1 DEF FInv, IInv, StacksInv, Layered
<1>3. ASSUME NEW k \in 1 .. n
      PROVE  Active'[k] = Active[k]
  <2>1. k \in 1 .. Len(calls) /\ k \in 1 .. Len(calls') /\ n > 0 /\ n \in 1 .. Len(calls) /\ k <= n
    BY <1>0, <1>2
  <2>2. Active[k] = Seen(k) /\ Active'[k] = Seen(k)'
    BY <1>1, <2>1 DEF ActiveFacts
  <2>3. Limit(k)' = Limit(k)
    <3>1. CASE k = n
      BY <1>0, <2>1, <3>1
    <3>2. CASE k # n
      <4>1. k # Len(calls) /\ k # Len(calls') /\ k + 1 \in 1 .. n
        BY <1>0, <1>2, <3>2
      <4> QED BY <1>0, <4>1 DEF Limit
    <3> QED BY <3>1, <3>2
  <2>4. Limit(k) \in Nat /\ calls[k].base \in Nat /\ Limit(k) <= b
    BY <1>0, <1>1, <2>1 DEF Layered
  <2> DEFINE a == calls[k].base
             c == Limit(k)
  <2>5. Own(k) = SubSeq(stack, a + 1, c) /\ Own(k)' = SubSeq(stack', a + 1, c)
    <3>1. calls'[k] = calls[k]
      BY <1>0
    <3> QED BY <2>3, <3>1, Zenon DEF Own
  <2>6. Len(stack) \in Nat /\ Len(stack') \in Nat
    BY <1>1 DEF Layered
  <2> HIDE DEF a, c
  <2>7. a \in Nat /\ c \in Nat /\ b <= Len(stack) /\ b <= Len(stack') /\ c <= b
    BY <1>0, <2>4 DEF a, c
  <2>8. c <= Len(stack) /\ c <= Len(stack') /\ \A i \in 1 .. c : i \in 1 .. b
    BY <2>6, <2>7
  <2>9. Agreeing(stack, stack', c)
    BY <1>0, <2>8, Zenon DEF Agreeing
  <2>10. SubSeq(stack', a + 1, c) = SubSeq(stack, a + 1, c)
    <3>1. a \in Nat /\ c \in Nat
      BY <2>7
    <3>2. stack \in Seq(Sound) /\ stack' \in Seq(Sound')
      BY <1>2
    <3>3. Part(stack', a, c) = Part(stack, a, c)
      BY <2>9, <3>1, <3>2, SamePart
    <3> QED BY <3>3, Zenon DEF Part
  <2>11. Own(k)' = Own(k) /\ calls'[k] = calls[k]
    BY <1>0, <2>5, <2>10, Zenon
  <2>12. Seen(k)' = Seen(k)
    BY <2>11, Zenon DEF Seen
  <2> QED BY <2>2, <2>12
<1> QED BY <1>3 DEF Private!Same

\* Two sequences with the same beginning agree there.
LEMMA Beginning ==
  ASSUME NEW S, NEW T, NEW s \in Seq(S), NEW t \in Seq(T), NEW n \in Nat, n <= Len(s), n <= Len(t),
         SubSeq(t, 1, n) = SubSeq(s, 1, n)
  PROVE  \A i \in 1 .. n : t[i] = s[i]
<1>1. /\ \A i \in 1 .. n : SubSeq(s, 1, n)[i] = s[i]
      /\ \A i \in 1 .. n : SubSeq(t, 1, n)[i] = t[i]
  OBVIOUS
<1> QED BY <1>1, Zenon

\* Where only the executing run changes, and nothing below its start, so do
\* the stacks.
TopOnly ==
  /\ Len(calls') = Len(calls) /\ \A k \in 1 .. Len(calls) : k # Len(calls) => calls'[k] = calls[k]
  /\ calls'[Len(calls)].base = Act.base /\ calls'[Len(calls)].prog = Act.prog

LEMMA TopChanges ==
  ASSUME FInv, FInv', Untouched, calls # << >>, TopOnly
  PROVE  /\ Len(Active) = Len(calls) /\ Len(Active') = Len(Active) /\ Active # << >>
         /\ Private!Same(Len(Active) - 1)
         /\ Private!Top = Seen(Len(calls)) /\ Private!Top' = Seen(Len(calls))'
         /\ Len(calls) \in 1 .. Len(calls) /\ Act = calls[Len(calls)]
<1>0. PICK b \in Nat : b = Act.base
  BY Floor
<1>1. Layered /\ Layered' /\ ActiveFacts /\ ActiveFacts'
  BY BasesAre, BasesNext, ActiveIs, ActiveNext
<1>2. Len(calls) \in Nat /\ Len(calls) >= 1 /\ Act = calls[Len(calls)] /\ Len(calls') = Len(calls)
  BY Running DEF FInv, Act, TopOnly
<1>20. PICK n \in Nat : n = Len(calls) - 1
  BY <1>2
<1>3. stack \in Seq(Sound) /\ stack' \in Seq(Sound') /\ Len(stack) \in Nat /\ Len(stack') \in Nat
  BY <1>1 DEF FInv, IInv, StacksInv, Layered
<1>4. b \in Nat /\ b <= Len(stack)
  BY <1>0, Floor, Levels
<1>5. b <= Len(stack')
  <2>1. Len(calls) \in 1 .. Len(calls')
    BY <1>2
  <2>2. /\ calls'[Len(calls)].base = b
        /\ calls'[Len(calls)].base <= Limit(Len(calls))' /\ Limit(Len(calls))' <= Len(stack')
        /\ Limit(Len(calls))' \in Nat
    BY <1>0, <1>1, <2>1 DEF TopOnly, Layered
  <2> QED BY <1>3, <1>4, <2>2
<1>6. \A i \in 1 .. b : stack'[i] = stack[i]
  BY <1>0, <1>3, <1>4, <1>5, Beginning DEF Untouched
<1>7. n > 0 => Limit(n) = b /\ Limit(n)' = b
  <2>1. n # Len(calls) /\ n # Len(calls') /\ n + 1 = Len(calls)
    BY <1>2, <1>20
  <2> QED BY <1>0, <1>2, <2>1 DEF Limit, TopOnly
<1>8. n \in Nat /\ n <= Len(calls) /\ n <= Len(calls') /\ \A k \in 1 .. n : k \in 1 .. Len(calls) /\ k # Len(calls)
  BY <1>2, <1>20
<1>9. \A k \in 1 .. n : calls'[k] = calls[k]
  BY <1>8 DEF TopOnly
<1>10. Private!Same(n)
  <2>1. Stay(n, b)
    BY <1>4, <1>5, <1>6, <1>7, <1>8, <1>9, Zenon DEF Stay
  <2> QED BY <2>1, KeepsRuns
<1>11. Len(Active) = Len(calls) /\ Len(Active') = Len(calls) /\ Active # << >> /\ Len(calls) \in 1 .. Len(calls)
  BY <1>1, <1>2 DEF ActiveFacts
<1>12. Private!Top = Seen(Len(calls)) /\ Private!Top' = Seen(Len(calls))'
  BY <1>1, <1>2, <1>11 DEF ActiveFacts, Private!Top
<1> QED BY <1>2, <1>10, <1>11, <1>12, <1>20
-----------------------------------------------------------------------------
(***************************************************************************)
(* Steps of the executing run.                                             *)
(***************************************************************************)
LEMMA GotoTops ==
  ASSUME FInv, AtWork, NEW pc \in Nat, Goto(pc)
  PROVE  TopOnly /\ ~calls'[Len(calls)].returned /\ last' = last
<1> DEFINE n == Len(calls)
<1>1. n \in Nat /\ n >= 1 /\ calls' = [calls EXCEPT ![n].pc = pc] /\ calls \in Seq(Activations) /\ last' = last
  BY Located DEF Goto, FInv, IInv, CallsInv
<1>2. calls[n] \in Activations
  BY <1>1
<1>3. [calls[n] EXCEPT !.pc = pc] \in Activations
  BY <1>2 DEF Activations
<1> HIDE DEF n
<1>4. /\ Len(calls') = n /\ calls'[n] = [calls[n] EXCEPT !.pc = pc]
      /\ \A k \in 1 .. n : k # n => calls'[k] = calls[k]
  BY <1>1 DEF n
<1>5. /\ calls'[n].base = calls[n].base /\ calls'[n].prog = calls[n].prog
      /\ calls'[n].returned = calls[n].returned
  BY <1>2, <1>4 DEF Activations
<1>6. ~calls[n].returned
  BY <1>1, NothingReturnedYet DEF n
<1> QED BY <1>1, <1>4, <1>5, <1>6 DEF TopOnly, n, Act

\* A step within the executing run that returns nothing.
LEMMA GotoWorks == ASSUME FInv, FInv', Untouched, AtWork, NEW pc \in Nat, Goto(pc) PROVE Private!Work
<1>1. calls # << >>
  BY DEF AtWork
<1>2. TopOnly /\ ~calls'[Len(calls)].returned /\ last' = last
  BY GotoTops
<1>3. /\ Len(Active) = Len(calls) /\ Len(Active') = Len(Active) /\ Active # << >>
      /\ Private!Same(Len(Active) - 1)
      /\ Private!Top = Seen(Len(calls)) /\ Private!Top' = Seen(Len(calls))'
      /\ Act = calls[Len(calls)]
  BY <1>1, <1>2, TopChanges
<1>4. ~Private!Top.ended /\ Private!Top.prog = calls[Len(calls)].prog
  BY <1>3 DEF Seen, AtWork
<1>5. Len(calls') = Len(calls)
  BY <1>2 DEF TopOnly
<1>6. Private!Top'.prog = calls'[Len(calls)].prog /\ Private!Top'.returned = calls'[Len(calls)].returned
  BY <1>3, <1>5 DEF Seen
<1>7. Private!Top'.prog = Private!Top.prog /\ ~Private!Top'.returned
  BY <1>2, <1>3, <1>4, <1>6 DEF TopOnly
<1> QED BY <1>2, <1>3, <1>4, <1>7 DEF Private!Work

LEMMA ThrowWorks == ASSUME FInv, FInv', Untouched, AtWork, Throws PROVE Private!Work
BY GotoWorks DEF Throws, Throw

\* RETURN_VALUE gives what is on top of the stack of its run, where there is
\* something.
LEMMA ReturnReturns ==
  ASSUME FInv, FInv', Untouched, OperandsInFrame, ReturnValue
  PROVE  Private!Work \/ Private!Return
<1>0. AtWork /\ Ins.op = "RETURN_VALUE" /\ calls # << >>
  BY DEF ReturnValue, At, AtWork
<1>1. \/ Throws
      \/ /\ vals0' = Bw(stack, 0)
         /\ calls' = [calls EXCEPT ![Len(calls)].pc = 0, ![Len(calls)].returned = TRUE,
                                   ![Len(calls)].value = Bw(stack, 0)]
         /\ UNCHANGED <<stack, frameVars, exc, dataVars, runs, last>>
  BY Throwing DEF ReturnValue, Underflow, Check
<1>2. CASE Throws
  BY <1>0, <1>2, ThrowWorks
<1>3. ASSUME calls' = [calls EXCEPT ![Len(calls)].pc = 0, ![Len(calls)].returned = TRUE,
                                    ![Len(calls)].value = Bw(stack, 0)],
             stack' = stack, last' = last
      PROVE  Private!Return
  <2> DEFINE n == Len(calls)
             v == Bw(stack, 0)
             act == [[[calls[n] EXCEPT !.pc = 0] EXCEPT !.returned = TRUE] EXCEPT !.value = v]
  <2>1. n \in Nat /\ n >= 1 /\ calls \in Seq(Activations) /\ calls[n] \in Activations /\ Act = calls[n]
    BY <1>0, Located DEF FInv, IInv, CallsInv, Act
  <2>2. calls' = [calls EXCEPT ![n] = act]
    BY <1>3, <2>1
  <2>3. /\ act.prog = calls[n].prog /\ act.base = calls[n].base
        /\ act.pc = 0 /\ act.returned = TRUE /\ act.value = v
    BY <2>1 DEF Activations
  <2> HIDE DEF act, n, v
  <2>4. Len(calls') = n /\ calls'[n] = act /\ \A k \in 1 .. n : k # n => calls'[k] = calls[k]
    BY <2>1, <2>2 DEF n
  <2>5. TopOnly
    BY <2>1, <2>3, <2>4 DEF TopOnly, n
  <2>6. /\ Len(Active) = Len(calls) /\ Len(Active') = Len(Active) /\ Active # << >>
        /\ Private!Same(Len(Active) - 1)
        /\ Private!Top = Seen(n) /\ Private!Top' = Seen(n)'
    BY <1>0, <2>5, TopChanges DEF n
  <2>7. n' = n
    BY <2>4 DEF n
  <2>8. Own(n)' = Own(n)
    <3>1. Limit(n) = Len(stack) /\ Limit(n)' = Len(stack)
      BY <1>3, <2>4 DEF Limit, n
    <3> QED BY <1>3, <2>3, <2>4, <2>7, <3>1, Zenon DEF Own
  <2>9. /\ Private!Top.prog = calls[n].prog /\ ~Private!Top.ended /\ Private!Top.own = Own(n)
    BY <1>0, <2>1, <2>6 DEF Seen, AtWork
  <2>10. /\ Private!Top'.prog = act.prog /\ Private!Top'.ended = (act.pc \notin DOMAIN Code[act.prog])
         /\ Private!Top'.returned = act.returned /\ Private!Top'.value = act.value /\ Private!Top'.own = Own(n)'
    BY <2>4, <2>6, <2>7 DEF Seen
  <2>11. 0 \notin DOMAIN Code[act.prog]
    BY <2>1, <2>3, NowhereIsNoCode DEF Activations
  <2>12. Own(n) # << >> /\ Own(n)[Len(Own(n))] = v
    <3> DEFINE b == calls[n].base
               m == Limit(n)
    <3>1. m = Len(stack) /\ m \in Nat /\ b \in Nat
      BY <2>1, Floor, Levels DEF Limit, n, AtWork
    <3>2. b + 1 <= m
      <4>1. Asks(Ins) = 1
        BY <1>0, OtherCosts, Zenon
      <4>2. 1 <= Len(stack) - Frame
        BY <1>0, <4>1 DEF OperandsInFrame, AtWork
      <4>3. Len(stack) \in Nat /\ Frame \in Nat
        BY Levels
      <4>4. b <= Frame
        <5>1. Act.base <= Frame /\ Act = calls[n]
          BY <1>0, <2>1, Floor DEF AtWork
        <5> QED BY <5>1, Zenon
      <4> HIDE DEF b, m
      <4> QED BY <3>1, <4>2, <4>3, <4>4
    <3>3. /\ Len(Own(n)) = m - b /\ Own(n) \in Seq(Values)
          /\ \A i \in 1 .. m - b : Own(n)[i] = stack[b + i]
      <4>1. n \in 1 .. Len(calls)
        BY <2>1 DEF n
      <4> QED BY <4>1, OwnIs
    <3> HIDE DEF b, m
    <3>4. m - b \in 1 .. m - b /\ b + (m - b) = m /\ m - b # 0 /\ m - 0 = m
      BY <3>1, <3>2
    <3>5. Own(n)[Len(Own(n))] = stack[m]
      BY <3>3, <3>4, Zenon
    <3>6. v = stack[m]
      BY <3>1, <3>4, Zenon DEF v, Bw
    <3>7. Own(n) # << >>
      BY <3>3, <3>4
    <3> QED BY <3>5, <3>6, <3>7
  <2> QED BY <1>3, <2>3, <2>6, <2>8, <2>9, <2>10, <2>11, <2>12, Zenon DEF Private!Return
<1> QED BY <1>1, <1>2, <1>3
-----------------------------------------------------------------------------
(***************************************************************************)
(* The start of a run.                                                     *)
(***************************************************************************)
\* What was added to a sequence, and the end of its end.
LEMMA Added ==
  ASSUME NEW S, NEW s \in Seq(S), NEW t \in Seq(S)
  PROVE  /\ s \o t \in Seq(S) /\ Len(s \o t) = Len(s) + Len(t) /\ Part(s \o t, Len(s), Len(s \o t)) = t
         /\ \A i \in 1 .. Len(s) : (s \o t)[i] = s[i]
BY DEF Part

Endings(s, a, r, m) == m = Len(s) /\ a + r <= m

LEMMA EndOfPart ==
  ASSUME NEW S, NEW s \in Seq(S), NEW a \in Nat, NEW r \in Nat, NEW m \in Nat, Endings(s, a, r, m)
  PROVE  /\ Len(Part(s, a, m)) = m - a
         /\ Part(Part(s, a, m), m - a - r, m - a) = Part(s, m - r, m)
BY DEF Part, Endings

LEMMA EntryOpens ==
  ASSUME FInv, FInv', NEW p, NEW c, NEW args \in Seq(Sound), Enter(p, c, stack, args)
  PROVE  /\ Len(Active') = Len(calls) + 1 /\ Len(Active) = Len(calls) /\ Private!Same(Len(calls))
         /\ Private!Opened(Active'[Len(calls) + 1], p, args)
<1> DEFINE act == [prog |-> p, pc |-> 1, closure |-> c, prev_frame |-> Len(frames),
                   base |-> Len(stack), returned |-> FALSE, value |-> Null]
<1>0. PICK n \in Nat : n = Len(calls)
  BY Depth DEF FInv
<1>1. PICK b \in Nat : b = Len(stack)
  BY Levels
<1>2. calls' = Append(calls, act) /\ stack' = stack \o args /\ calls \in Seq(Activations) /\ stack \in Seq(Sound)
  BY Depth DEF Enter, FInv, IInv, CallsInv
<1>3. act.prog = p /\ act.base = b /\ act.returned = FALSE
  BY <1>1
<1> HIDE DEF act
<1>4. Len(calls') = n + 1 /\ calls'[n + 1] = act /\ \A k \in 1 .. n : calls'[k] = calls[k]
  BY <1>0, <1>2
<1>5. /\ Len(stack') = b + Len(args) /\ Len(args) \in Nat /\ Part(stack', b, Len(stack')) = args
      /\ \A i \in 1 .. b : stack'[i] = stack[i]
  BY <1>1, <1>2, Added
<1>6. /\ Active' \in Seq(Private!Run) /\ Len(Active') = n + 1 /\ Len(Active) = n
      /\ Active'[n + 1] = Seen(n + 1)'
  <2>1. ActiveFacts /\ ActiveFacts' /\ n + 1 \in 1 .. Len(calls')
    BY <1>4, ActiveIs, ActiveNext
  <2> QED BY <1>0, <1>4, <2>1 DEF ActiveFacts
<1>7. Private!Same(n)
  <2>1. n > 0 => Limit(n) = b /\ Limit(n)' = b
    BY <1>0, <1>1, <1>3, <1>4 DEF Limit
  <2>2. n <= Len(calls) /\ n <= Len(calls')
    BY <1>0, <1>4
  <2>3. b <= Len(stack) /\ b <= Len(stack')
    BY <1>1, <1>5
  <2>4. Stay(n, b)
    BY <1>4, <1>5, <2>1, <2>2, <2>3, Zenon DEF Stay
  <2> QED BY <2>4, KeepsRuns
<1>8. Own(n + 1)' = args
  <2>1. Limit(n + 1)' = Len(stack')
    BY <1>4 DEF Limit
  <2> QED BY <1>3, <1>4, <1>5, <2>1, Zenon DEF Own, Part
<1>9. Seen(n + 1)'.prog = p /\ Seen(n + 1)'.own = args /\ ~Seen(n + 1)'.returned
  BY <1>3, <1>4, <1>8 DEF Seen
<1> QED BY <1>0, <1>6, <1>7, <1>9 DEF Private!Opened

\* A compiled function is given copies of the topmost values of the caller.
LEMMA EnteredCalls ==
  ASSUME FInv, FInv', KeepsFrame, AtWork, Ins.op = "INVOKE", Entered(stack)
  PROVE  \E p \in Progs : Private!Call(p)
<1>1. PICK c \in 1 .. Len(closures), args \in Seq(Sound) :
        Len(args) = NArgs[closures[c].prog] /\ Enter(closures[c].prog, c, stack, args) /\ Passed(args)
  BY DEF Entered
<1>2. last' = last
  BY DEF Entered
<1> DEFINE p == closures[c].prog
<1>3. p \in Progs
  BY ClosuresHavePrograms DEF FInv
<1>4. /\ Len(Active') = Len(calls) + 1 /\ Len(Active) = Len(calls) /\ Private!Same(Len(calls))
      /\ Private!Opened(Active'[Len(calls) + 1], p, args)
  BY <1>1, EntryOpens
<1>5. PICK n \in Nat : n = Len(calls)
  BY Depth DEF FInv
<1>6. calls # << >> /\ n \in 1 .. Len(calls) /\ Act = calls[n]
  BY <1>5, Running DEF AtWork, FInv, Act
<1>7. ActiveFacts
  BY ActiveIs
<1>8. Private!Top = Seen(n) /\ Active # << >> /\ ~Private!Top.ended /\ Private!Top.own = Own(n)
  <2>1. Active # << >> /\ Active[n] = Seen(n) /\ Private!Top = Active[n]
    BY <1>4, <1>5, <1>6, <1>7 DEF ActiveFacts, Private!Top
  <2>2. Act.pc \in DOMAIN Code[Act.prog]
    BY DEF AtWork
  <2>3. Seen(n).own = Own(n) /\ Seen(n).ended = (calls[n].pc \notin DOMAIN Code[calls[n].prog])
    BY DEF Seen
  <2> QED BY <1>6, <2>1, <2>2, <2>3
<1> DEFINE a == calls[n].base
           r == NArgs[p]
           m == Len(stack)
<1>9. a \in Nat /\ m \in Nat /\ stack \in Seq(Sound) /\ a <= Frame /\ Frame \in Nat
  BY <1>6, Floor, Levels, Depth DEF FInv
<1>10. r \in Nat /\ r = Reach
  BY <1>1, <1>3, MachineAssumption DEF Passed
<1>11. Reach <= Len(stack) - Frame
  BY DEF KeepsFrame, AtWork
<1> HIDE DEF a, r
<1>12. a + r <= m
  BY <1>9, <1>10, <1>11
<1>13. Own(n) = Part(stack, a, m)
  <2>1. Limit(n) = m
    BY <1>5 DEF Limit
  <2> QED BY <2>1, Zenon DEF Own, Part, a
<1>14. args = Part(stack, m - r, m)
  BY <1>1, <1>10, Zenon DEF Passed, Part
<1>15. Len(Own(n)) = m - a /\ Part(Own(n), m - a - r, m - a) = args
  <2> HIDE DEF m
  <2>1. m = Len(stack)
    BY DEF m
  <2>2. Len(Part(stack, a, m)) = m - a /\ Part(Part(stack, a, m), m - a - r, m - a) = Part(stack, m - r, m)
    <3>1. Endings(stack, a, r, m)
      BY <1>12, <2>1, Zenon DEF Endings
    <3>2. a \in Nat /\ r \in Nat /\ m \in Nat /\ stack \in Seq(Sound)
      BY <1>9, <1>10
    <3> QED BY <3>1, <3>2, EndOfPart
  <2> QED BY <1>13, <1>14, <2>2, Zenon
<1>16. SubSeq(Own(n), Len(Own(n)) - NArgs[p] + 1, Len(Own(n))) = args
  BY <1>15, Zenon DEF Part, r
<1>17. NArgs[p] <= Len(Own(n))
  BY <1>9, <1>10, <1>12, <1>15 DEF r
<1>18. Private!Call(p)
  BY <1>2, <1>4, <1>5, <1>8, <1>16, <1>17 DEF Private!Call
<1> QED BY <1>3, <1>18

LEMMA InvokeCalls ==
  ASSUME FInv, FInv', Untouched, KeepsFrame, Invoke
  PROVE  Private!Work \/ \E p \in Progs : Private!Call(p)
<1>1. AtWork /\ Ins.op = "INVOKE" /\ (Throws \/ Calls)
  BY InvokeCases DEF FInv
<1>2. CASE Throws
  BY <1>1, <1>2, ThrowWorks
<1>3. ASSUME NEW s \in Seq(Sound), Refused(s) \/ Entered(s) \/ Answered(s)
      PROVE  Private!Work \/ \E p \in Progs : Private!Call(p)
  <2>1. CASE Refused(s)
    BY <1>1, <2>1, GotoWorks DEF Refused
  <2>2. CASE Answered(s)
    <3>1. Goto(Act.pc + 1) /\ Act.pc + 1 \in Nat
      BY <1>1, <2>2, Located DEF Answered, Advance, FInv
    <3> QED BY <1>1, <3>1, GotoWorks
  <2>3. CASE Entered(s)
    <3>1. s = stack
      BY <2>3 DEF Entered
    <3>2. Entered(stack)
      BY <2>3, <3>1, Zenon
    <3> QED BY <1>1, <3>2, EnteredCalls
  <2> QED BY <1>3, <2>1, <2>2, <2>3
<1> QED BY <1>1, <1>2, <1>3 DEF Calls

\* The host starts a run where there is none.
LEMMA HostRunStarts == ASSUME FInv, FInv', NEW p \in Entry, HostRun(p) PROVE Private!Start(p)
<1>1. PICK args \in [1 .. NArgs[p] -> Foreign] : Enter(p, 0, stack, args)
  BY DEF HostRun
<1>2. calls = << >> /\ last' = last /\ Len(calls) = 0
  BY DEF HostRun
<1>3. p \in Progs /\ NArgs[p] \in Nat
  BY MachineAssumption
<1>4. args \in Seq(Sound)
  BY <1>3, HostHandsOver, Depth DEF Sound, FInv
<1>5. Len(Active') = 0 + 1 /\ Private!Opened(Active'[0 + 1], p, args)
  BY <1>1, <1>2, <1>4, EntryOpens
<1>6. Active = << >>
  BY <1>2, ActiveIs DEF ActiveFacts
<1>7. 0 + 1 = 1
  OBVIOUS
<1> QED BY <1>2, <1>5, <1>6, <1>7, Zenon DEF Private!Start
-----------------------------------------------------------------------------
(***************************************************************************)
(* The end of a run.                                                       *)
(***************************************************************************)
\* A sequence that was cut and given one value more.
CutBetween(s, a, h) == a <= h /\ h <= Len(s)

LEMMA CutAndGiven ==
  ASSUME NEW S, NEW s \in Seq(S), NEW v \in S, NEW a \in Nat, NEW h \in Nat, CutBetween(s, a, h)
  PROVE  Part(Append(SubSeq(s, 1, h), v), a, h + 1) = Append(Part(s, a, h), v)
BY DEF Part, CutBetween

\* What is delivered of the run that ends.
LEMMA EndTells ==
  ASSUME FInv, Ended, End, ActiveFacts
  PROVE  /\ Active # << >> /\ Private!Top = Seen(Len(calls)) /\ Private!Top.ended
         /\ last'.prog = Private!Top.prog /\ last'.returned = Private!Top.returned
         /\ Private!Top.returned => last'.result = Private!Top.value
         /\ last'.result = vals0
<1>1. calls # << >> /\ Act.pc \notin DOMAIN Code[Act.prog]
  BY DEF Ended
<1>2. Len(calls) \in 1 .. Len(calls) /\ Act = calls[Len(calls)]
  BY <1>1, Running DEF FInv, Act
<1>3. Active # << >> /\ Private!Top = Seen(Len(calls))
  BY <1>1, <1>2 DEF ActiveFacts, Private!Top
<1>4. /\ Private!Top.prog = Act.prog /\ Private!Top.returned = Act.returned /\ Private!Top.value = Act.value
      /\ Private!Top.ended = (Act.pc \notin DOMAIN Code[Act.prog])
  BY <1>2, <1>3 DEF Seen
<1>5. last' = [prog |-> Act.prog, result |-> vals0, returned |-> Act.returned]
  BY DEF End
<1>6. last'.prog = Act.prog /\ last'.returned = Act.returned /\ last'.result = vals0
  BY <1>5
<1>7. Act.returned => last'.result = Act.value
  BY <1>1, EndDelivers
<1> QED BY <1>1, <1>3, <1>4, <1>6, <1>7

LEMMA EndOfHostRunEnds == ASSUME FInv, FInv', EndOfHostRun PROVE Private!End
<1>1. Ended /\ End /\ Len(calls) = 1 /\ calls' = << >>
  BY DEF EndOfHostRun
<1>2. ActiveFacts /\ ActiveFacts'
  BY ActiveIs, ActiveNext
<1>3. Len(Active) = 1 /\ Active' = << >> /\ Len(Active') = 0
  BY <1>1, <1>2 DEF ActiveFacts
<1>4. Len(Active) - 1 = 0 /\ ~(Len(Active) - 1 > 0)
  BY <1>3
<1>5. Private!Same(Len(Active) - 1 - 1)
  BY <1>3 DEF Private!Same
<1> QED BY <1>1, <1>2, <1>3, <1>4, <1>5, EndTells DEF Private!End

LEMMA EndOfCallEnds == ASSUME FInv, FInv', EndOfCall PROVE Private!End
<1>1. Ended /\ End /\ calls # << >> /\ stack' = Append(Restored, vals0)
  BY DEF EndOfCall, Ended
<1>2. PICK n \in Nat : n = Len(calls) - 1
  BY Running DEF EndOfCall, FInv, Ended
<1>3. /\ n >= 1 /\ Len(calls') = n /\ Act = calls[n + 1] /\ n \in 1 .. Len(calls)
      /\ calls'[n].prog = calls[n].prog /\ calls'[n].base = calls[n].base
      /\ calls'[n].returned = calls[n].returned
      /\ \A k \in 1 .. n : k # n => calls'[k] = calls[k]
  BY <1>2, EndOfCallRuns
<1>4. Len(calls) = n + 1 /\ n # Len(calls) /\ n \in 1 .. Len(calls')
  BY <1>2, <1>3, Depth DEF FInv
<1>5. PICK h \in Nat : h = Act.base
  BY <1>1, Floor
<1>6. Layered /\ Layered' /\ ActiveFacts /\ ActiveFacts'
  BY BasesAre, BasesNext, ActiveIs, ActiveNext
<1>7. PICK a \in Nat : a = calls[n].base
  BY <1>3, <1>6 DEF Layered
<1>8. /\ stack \in Seq(Sound) /\ vals0 \in Sound /\ Len(stack) \in Nat
      /\ Restored = SubSeq(stack, 1, h) /\ Restored \in Seq(Sound) /\ Len(Restored) = h
      /\ \A i \in 1 .. h : Restored[i] = stack[i]
  BY <1>1, <1>5, Restoring, Depth DEF FInv
<1>9. Limit(n) = h /\ a <= h /\ h <= Len(stack)
  <2>1. Limit(n) = h
    BY <1>3, <1>4, <1>5 DEF Limit
  <2> QED BY <1>3, <1>6, <1>7, <2>1 DEF Layered
<1>10. Len(stack') = h + 1 /\ \A i \in 1 .. h : stack'[i] = stack[i]
  <2>1. \A S : \A s \in Seq(S), v \in S : Len(Append(s, v)) = Len(s) + 1 /\ \A i \in 1 .. Len(s) : Append(s, v)[i] = s[i]
    OBVIOUS
  <2>2. Len(stack') = Len(Restored) + 1 /\ \A i \in 1 .. Len(Restored) : stack'[i] = Restored[i]
    BY <1>1, <1>8, <2>1, Zenon
  <2> QED BY <1>8, <2>2, Zenon
<1>11. Limit(n)' = h + 1
  BY <1>3, <1>10 DEF Limit
<1>12. Own(n)' = Append(Own(n), vals0)
  <2>1. Own(n)' = Part(stack', a, h + 1) /\ Own(n) = Part(stack, a, h)
    BY <1>3, <1>7, <1>9, <1>11, Zenon DEF Own, Part
  <2>2. stack' = Append(SubSeq(stack, 1, h), vals0)
    BY <1>1, <1>8, Zenon
  <2>3. CutBetween(stack, a, h)
    BY <1>9, Zenon DEF CutBetween
  <2>4. Part(Append(SubSeq(stack, 1, h), vals0), a, h + 1) = Append(Part(stack, a, h), vals0)
    <3>1. stack \in Seq(Sound) /\ vals0 \in Sound
      BY <1>8
    <3> QED BY <2>3, <3>1, CutAndGiven
  <2> QED BY <2>1, <2>2, <2>4, Zenon
<1>13. PICK m \in Nat : m = n - 1
  BY <1>3
<1>14. Private!Same(m)
  <2>1. \A k \in 1 .. m : k \in 1 .. n /\ k # n
    BY <1>13
  <2>2. \A k \in 1 .. m : calls'[k] = calls[k]
    BY <1>3, <2>1, Zenon
  <2>3. m <= Len(calls) /\ m <= Len(calls') /\ m # Len(calls) /\ m # Len(calls') /\ m + 1 = n
    BY <1>3, <1>4, <1>13
  <2>4. Limit(m) = a /\ Limit(m)' = a
    BY <1>3, <1>7, <2>3, Zenon DEF Limit
  <2>5. a <= Len(stack) /\ a <= Len(stack') /\ \A i \in 1 .. a : i \in 1 .. h
    BY <1>8, <1>9, <1>10
  <2>6. \A i \in 1 .. a : stack'[i] = stack[i]
    BY <1>10, <2>5, Zenon
  <2>7. Stay(m, a)
    BY <2>2, <2>3, <2>4, <2>5, <2>6, Zenon DEF Stay
  <2> QED BY <2>7, KeepsRuns
<1>15. /\ Len(Active) = n + 1 /\ Len(Active') = n /\ Active[n] = Seen(n) /\ Active'[n] = Seen(n)'
  BY <1>3, <1>4, <1>6 DEF ActiveFacts
<1>16. ~calls[n].returned
  BY <1>3, <1>4 DEF FInv, Delivered
<1>17. /\ Seen(n).prog = calls[n].prog /\ Seen(n).own = Own(n)
       /\ Seen(n)'.prog = calls'[n].prog /\ Seen(n)'.own = Own(n)' /\ Seen(n)'.returned = calls'[n].returned
  BY DEF Seen
<1>18. Private!Opened(Active'[n], Active[n].prog, Append(Active[n].own, vals0))
  BY <1>3, <1>12, <1>15, <1>16, <1>17 DEF Private!Opened
<1>19. Len(Active) - 1 = n /\ n - 1 = m
  BY <1>13, <1>15
<1> QED BY <1>1, <1>6, <1>14, <1>15, <1>18, <1>19, EndTells DEF Private!End
-----------------------------------------------------------------------------
(***************************************************************************)
(* All steps.                                                              *)
(***************************************************************************)
Onward == AtWork /\ \E pc \in Nat : Goto(pc)

LEMMA OrdinaryGoesOn == ASSUME Ordinary PROVE Onward
BY DEF Ordinary, Onward, Throws, Throw, Proceeds

LEMMA SpecialGoesOn ==
  ASSUME FInv, PushFrame \/ PopFrame \/ StoreValue \/ StoreCapture \/ Closure
  PROVE  Onward
<1>1. AtWork
  BY DEF AtWork, At, PushFrame, PopFrame, StoreValue, StoreCapture, Closure
<1>2. Act.pc + 1 \in Nat
  BY <1>1, Located DEF FInv
<1>3. Goto(0) \/ Goto(Act.pc + 1)
  <2>1. CASE PushFrame
    BY <2>1 DEF PushFrame, Underflow, Check, Throw, Advance
  <2>2. CASE PopFrame
    BY <2>2 DEF PopFrame, Check, Throw, Advance
  <2>3. CASE StoreValue
    BY <2>3 DEF StoreValue, Underflow, Check, Throw, Advance
  <2>4. CASE StoreCapture
    BY <2>4 DEF StoreCapture, Underflow, Check, Throw, Advance
  <2>5. CASE Closure
    BY <2>5 DEF Closure, Exact, Underflow, Check, Throw, Advance
  <2> QED BY <2>1, <2>2, <2>3, <2>4, <2>5
<1> QED BY <1>1, <1>2, <1>3 DEF Onward

LEMMA OnwardWorks == ASSUME FInv, FInv', Untouched, Onward PROVE Private!Work
BY GotoWorks DEF Onward

LEMMA StepImplements ==
  ASSUME FInv, FInv', Untouched, KeepsFrame, OperandsInFrame, Step
  PROVE  Private!Work \/ Private!Return \/ Private!End \/ \E p \in Progs : Private!Call(p)
<1>1. CASE Ordinary
  BY <1>1, OrdinaryGoesOn, OnwardWorks
<1>2. CASE PushFrame \/ PopFrame \/ StoreValue \/ StoreCapture \/ Closure
  BY <1>2, SpecialGoesOn, OnwardWorks
<1>3. CASE ReturnValue
  BY <1>3, ReturnReturns
<1>4. CASE Invoke
  BY <1>4, InvokeCalls
<1>5. CASE EndOfCall
  BY <1>5, EndOfCallEnds
<1>6. CASE EndOfHostRun
  BY <1>6, EndOfHostRunEnds
<1> QED BY <1>1, <1>2, <1>3, <1>4, <1>5, <1>6, Steps DEF Special, FInv

LEMMA StutteringImplements == ASSUME UNCHANGED vars PROVE Active' = Active /\ last' = last
<1>1. stack' = stack /\ calls' = calls /\ last' = last
  BY DEF vars
<1>2. \A k : Own(k)' = Own(k)
  BY <1>1 DEF Own, Limit
<1> QED BY <1>1, <1>2, Zenon DEF Active

LEMMA NextImplements ==
  ASSUME FInv, HInv, CallsFit, [Next]_vars
  PROVE  [Private!Next]_<<Active, last>>
<1>1. KeepsFrame /\ OperandsInFrame
  BY Keeping
<1>2. FInv' /\ Untouched
  BY <1>1, NextDoes
<1>3. Active' \in Seq(Private!Run)
  BY <1>2, ActiveNext DEF ActiveFacts
<1>4. CASE Step
  BY <1>1, <1>2, <1>3, <1>4, StepImplements DEF Private!Next
<1>5. ASSUME NEW p \in Entry, HostRun(p)
      PROVE  Private!Next
  BY <1>2, <1>3, <1>5, HostRunStarts DEF Private!Next
<1>6. CASE UNCHANGED vars
  BY <1>6, StutteringImplements
<1> QED BY <1>4, <1>5, <1>6 DEF Next, Done

LEMMA InitImplements == ASSUME Init PROVE Private!Init
<1>1. FInv /\ calls = << >> /\ last = [prog |-> "none", result |-> Null, returned |-> FALSE]
  BY FramesAtFirst DEF Init
<1>2. Active = << >>
  BY <1>1, ActiveIs DEF ActiveFacts
<1> QED BY <1>1, <1>2 DEF Private!Init

(***************************************************************************)
(* Runs that share one value stack behave as if each had a stack of its    *)
(* own: a function gets its arguments and nothing else of its caller, no   *)
(* run takes or changes a value of another, and each end leaves the caller *)
(* exactly one value more, for any programs whose code has heights noted,  *)
(* however they call each other and whatever they throw.                   *)
(***************************************************************************)
THEOREM CallsAreImplemented == Spec /\ []CallsFit => ImplementsCalls
<1>1. Init => Private!Init
  BY InitImplements
<1>2. FInv /\ HInv /\ CallsFit /\ [Next]_vars => [Private!Next]_<<Active, last>>
  BY NextImplements
<1> QED BY <1>1, <1>2, HeightsHold, PTL DEF Spec, ImplementsCalls, Private!Spec
===============================================================================
