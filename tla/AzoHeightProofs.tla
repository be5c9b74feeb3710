--------------------------- MODULE AzoHeightProofs ---------------------------
(***************************************************************************)
(* Proof that programs with heights noted for their code keep to their     *)
(* frames (AzoHeights), provided that the functions they call find their   *)
(* arguments in the frame.  KeepsFrame is no invariant by itself: that an  *)
(* instruction finds its values in the frame depends on all that ran       *)
(* before it, in the run it belongs to and in those it called.  The        *)
(* inductive invariant says of every run in progress that its frames have  *)
(* the values noted for the instruction it is at.                          *)
(***************************************************************************)
EXTENDS AzoEffectProofs, AzoVerified

(***************************************************************************)
(* The notes.                                                              *)
(***************************************************************************)
LEMMA NotesAre ==
  ASSUME NEW p \in Progs, NEW i \in DOMAIN Code[p]
  PROVE  /\ Heights[p][i].frames \in Seq(Nat) /\ Len(Heights[p][i].frames) \in Nat
         /\ Heights[p][i].spare \in Nat /\ Heights[p][i].over \in Nat
         /\ Agrees(p, i)
<1>1. Heights[p] \in Seq(Notes) /\ Len(Heights[p]) = Len(Code[p]) /\ Agrees(p, i)
  BY HeightsAssumption DEF NotedWell
<1>2. Code[p] \in Seq(Instructions)
  BY CodeAssumption
<1>3. Heights[p][i] \in Notes
  BY <1>1, <1>2
<1> DEFINE note == Heights[p][i]
<1> HIDE DEF note
<1>4. note.frames \in Seq(Nat) /\ Len(note.frames) \in Nat /\ note.spare \in Nat /\ note.over \in Nat
  <2>1. note \in [frames : Seq(Nat), spare : Nat, over : Nat]
    BY <1>3 DEF note, Notes
  <2> QED BY <2>1
<1> QED BY <1>1, <1>4 DEF note

LEMMA StartsWell == \A p \in Progs : Starts(p) /\ NArgs[p] \in Nat
BY HeightsAssumption, MachineAssumption DEF NotedWell

LEMMA LimitsAreNat == MaxStack \in Nat /\ Overshoot \in Nat
BY MachineAssumption

LEMMA AllowedIsNat ==
  ASSUME NEW p \in Progs, NEW i, i \in DOMAIN Code[p] => Len(Heights[p][i].frames) > 0
  PROVE  Allowed(p, i) \in Nat /\ Allowed(p, i) <= Overshoot
<1>1. CASE i \in DOMAIN Code[p]
  BY <1>1, NotesAre DEF Allowed, Agrees
<1>2. CASE i \notin DOMAIN Code[p]
  BY <1>2, LimitsAreNat DEF Allowed
<1> QED BY <1>1, <1>2

\* The marks from b + 1 to m + 1 are numbers.
Numbers(marks, m) == \A j \in 1 .. m + 1 : marks[j] \in Nat

LEMMA LessFits == \A x, z \in Nat, f, g \in Int : x + f <= z => (g <= f => x + g <= z)
OBVIOUS
LEMMA SumFits == \A x, z, f \in Nat, d, e \in Int : x + f + e <= z => x + (f + (d + e)) <= z + d
OBVIOUS
LEMMA RestFits == \A x, z, f, a \in Nat : x + f <= z => x + (f - a) <= z - a
OBVIOUS
LEMMA PartFits == \A z, a \in Nat : (z - a) + a <= z
OBVIOUS
LEMMA BothFit == \A x, y, z, f, g \in Nat : x + f <= y => (y + g <= z => x + (f + g) <= z)
OBVIOUS

LEMMA LimitFits == \A x, y, z, v \in Int : x <= y + z => (z <= v => x <= y + v)
OBVIOUS

LEMMA CoversLaid ==
  ASSUME NEW noted \in Seq(Nat), NEW fs \in Seq(Int), NEW marks, NEW b \in Nat, NEW m \in Nat,
         Numbers(marks, m), m = b + Len(fs), Covers(noted, fs), Laid(fs, marks, b)
  PROVE  Laid(noted, marks, b) /\ Len(noted) = Len(fs)
<1>1. Len(noted) = Len(fs) /\ Len(fs) \in Nat /\ DOMAIN noted = 1 .. Len(fs) /\ DOMAIN fs = 1 .. Len(fs)
  BY DEF Covers
<1>2. ASSUME NEW i \in 1 .. Len(fs)
      PROVE  marks[b + i] + noted[i] <= marks[b + i + 1]
  <2>1. marks[b + i] \in Nat /\ marks[b + i + 1] \in Nat
    <3>1. b + i \in 1 .. m + 1 /\ b + i + 1 \in 1 .. m + 1
      BY <1>1
    <3> QED BY <3>1, Zenon DEF Numbers
  <2>2. noted[i] \in Int /\ fs[i] \in Int /\ noted[i] <= fs[i]
    BY <1>1 DEF Covers
  <2>3. marks[b + i] + fs[i] <= marks[b + i + 1]
    BY <1>1 DEF Laid
  <2>4. \A f, g \in Int : marks[b + i] + f <= marks[b + i + 1] => (g <= f => marks[b + i] + g <= marks[b + i + 1])
    BY <2>1, LessFits, Zenon
  <2> QED BY <2>2, <2>3, <2>4, Zenon
<1> QED BY <1>1, <1>2 DEF Laid

\* The topmost frame has d values more, and had x more than noted.
Raised(fs, n, d, x, b, m, marks, marks2, gs) ==
  /\ fs \in Seq(Nat) /\ n \in Nat /\ n = Len(fs) /\ n >= 1 /\ d \in Int /\ x \in Int
  /\ b \in Nat /\ m \in Nat /\ m = b + n /\ Numbers(marks, m) /\ Numbers(marks2, m)
  /\ \A j \in 1 .. m : marks2[j] = marks[j]
  /\ marks2[m + 1] = marks[m + 1] + d
  /\ Laid(fs, marks, b) /\ marks[m] + fs[n] + x <= marks[m + 1]
  /\ gs = [fs EXCEPT ![n] = @ + (d + x)]

LEMMA LaidOn ==
  ASSUME NEW fs, NEW n, NEW d, NEW x, NEW b, NEW m, NEW marks, NEW marks2, NEW gs,
         Raised(fs, n, d, x, b, m, marks, marks2, gs)
  PROVE  gs \in Seq(Int) /\ Len(gs) = n /\ Laid(gs, marks2, b)
<1> USE DEF Raised
<1>1. fs[n] \in Nat /\ gs = [fs EXCEPT ![n] = fs[n] + (d + x)] /\ fs[n] + (d + x) \in Int /\ fs \in Seq(Int)
  OBVIOUS
<1>2. gs \in Seq(Int) /\ Len(gs) = n /\ gs[n] = fs[n] + (d + x) /\ \A j \in 1 .. n - 1 : gs[j] = fs[j]
  BY <1>1
<1>3. \A j \in 1 .. n : marks[b + j] + fs[j] <= marks[b + j + 1]
  <2>1. DOMAIN fs = 1 .. n
    OBVIOUS
  <2> QED BY <2>1, Zenon DEF Laid
<1>4. ASSUME NEW j \in 1 .. n - 1
      PROVE  marks2[b + j] + gs[j] <= marks2[b + j + 1]
  <2>1. b + j \in 1 .. m /\ b + j + 1 \in 1 .. m /\ j \in 1 .. n
    OBVIOUS
  <2>2. marks2[b + j] = marks[b + j] /\ marks2[b + j + 1] = marks[b + j + 1]
    BY <2>1, Zenon
  <2> QED BY <1>2, <1>3, <2>1, <2>2, Zenon
<1>5. marks2[m] + gs[n] <= marks2[m + 1]
  <2>0. m \in 1 .. m /\ m \in 1 .. m + 1 /\ m + 1 \in 1 .. m + 1
    OBVIOUS
  <2>1. marks[m] \in Nat /\ marks[m + 1] \in Nat /\ marks2[m] = marks[m]
    BY <2>0, Zenon DEF Numbers
  <2>2. marks[m] + (fs[n] + (d + x)) <= marks[m + 1] + d
    BY <1>1, <2>1, SumFits, Zenon
  <2> QED BY <1>2, <2>1, <2>2, Zenon
<1>6. Laid(gs, marks2, b)
  <2>1. b + n = m /\ b + n + 1 = m + 1 /\ DOMAIN gs = 1 .. n /\ \A j \in 1 .. n : j \in 1 .. n - 1 \/ j = n
    BY <1>2
  <2> QED BY <1>4, <1>5, <2>1, Zenon DEF Laid
<1> QED BY <1>2, <1>6

\* The topmost frame is divided, and a values of it are the new one.
Divided(fs, n, a, b, m, marks, marks2, hs) ==
  /\ fs \in Seq(Nat) /\ n \in Nat /\ n = Len(fs) /\ n >= 1 /\ a \in Nat
  /\ b \in Nat /\ m \in Nat /\ m = b + n /\ Numbers(marks, m) /\ Numbers(marks2, m + 1)
  /\ \A j \in 1 .. m : marks2[j] = marks[j]
  /\ marks2[m + 1] = marks[m + 1] - a /\ marks2[m + 2] = marks[m + 1] /\ Laid(fs, marks, b)
  /\ hs = Append([fs EXCEPT ![n] = @ - a], a)

LEMMA LaidPush ==
  ASSUME NEW fs, NEW n, NEW a, NEW b, NEW m, NEW marks, NEW marks2, NEW hs,
         Divided(fs, n, a, b, m, marks, marks2, hs)
  PROVE  hs \in Seq(Int) /\ Len(hs) = n + 1 /\ Laid(hs, marks2, b)
<1> USE DEF Divided
<1> DEFINE gs == [fs EXCEPT ![n] = @ - a]
<1>1. fs[n] \in Nat /\ gs = [fs EXCEPT ![n] = fs[n] - a] /\ fs[n] - a \in Int /\ fs \in Seq(Int) /\ hs = Append(gs, a)
  OBVIOUS
<1> HIDE DEF gs
<1>2. gs \in Seq(Int) /\ Len(gs) = n /\ gs[n] = fs[n] - a /\ \A j \in 1 .. n - 1 : gs[j] = fs[j]
  BY <1>1
<1>3. /\ hs \in Seq(Int) /\ Len(hs) = n + 1 /\ hs[n + 1] = a /\ hs[n] = fs[n] - a
      /\ \A j \in 1 .. n - 1 : hs[j] = fs[j]
  BY <1>1, <1>2
<1>4. \A j \in 1 .. n : marks[b + j] + fs[j] <= marks[b + j + 1]
  <2>1. DOMAIN fs = 1 .. n
    OBVIOUS
  <2> QED BY <2>1, Zenon DEF Laid
<1>5. ASSUME NEW j \in 1 .. n - 1
      PROVE  marks2[b + j] + hs[j] <= marks2[b + j + 1]
  <2>1. b + j \in 1 .. m /\ b + j + 1 \in 1 .. m /\ j \in 1 .. n
    OBVIOUS
  <2>2. marks2[b + j] = marks[b + j] /\ marks2[b + j + 1] = marks[b + j + 1]
    BY <2>1, Zenon
  <2> QED BY <1>3, <1>4, <2>1, <2>2, Zenon
<1>6. marks[m] \in Nat /\ marks[m + 1] \in Nat /\ marks2[m] = marks[m]
  BY DEF Numbers
<1>7. marks2[m] + hs[n] <= marks2[m + 1]
  <2>1. b + n = m /\ b + n + 1 = m + 1 /\ n \in 1 .. n
    OBVIOUS
  <2>2. marks[m] + fs[n] <= marks[m + 1]
    BY <1>4, <2>1, Zenon
  <2>3. marks[m] + (fs[n] - a) <= marks[m + 1] - a
    BY <1>1, <1>6, <2>2, RestFits, Zenon
  <2> QED BY <1>3, <1>6, <2>3, Zenon
<1>8. marks2[m + 1] + hs[n + 1] <= marks2[m + 2]
  <2>1. (marks[m + 1] - a) + a <= marks[m + 1]
    BY <1>6, PartFits, Zenon
  <2> QED BY <1>3, <2>1, Zenon
<1>9. Laid(hs, marks2, b)
  <2>1. /\ \A j \in 1 .. n + 1 : j \in 1 .. n - 1 \/ j = n \/ j = n + 1
        /\ b + n = m /\ b + n + 1 = m + 1 /\ b + (n + 1) = m + 1 /\ b + (n + 1) + 1 = m + 2
    OBVIOUS
  <2>2. DOMAIN hs = 1 .. n + 1
    BY <1>3
  <2> QED BY <1>5, <1>7, <1>8, <2>1, <2>2, Zenon DEF Laid
<1> QED BY <1>3, <1>9

\* The topmost frame becomes part of the one below.
Merged(fs, n, b, m, marks, marks2, hs) ==
  /\ fs \in Seq(Nat) /\ n \in Nat /\ n = Len(fs) /\ n > 1
  /\ b \in Nat /\ m \in Nat /\ m = b + n /\ Numbers(marks, m) /\ Numbers(marks2, m - 1)
  /\ \A j \in 1 .. m - 1 : marks2[j] = marks[j]
  /\ marks2[m] = marks[m + 1] /\ Laid(fs, marks, b)
  /\ hs = [SubSeq(fs, 1, n - 1) EXCEPT ![n - 1] = @ + fs[n]]

LEMMA FirstPart ==
  ASSUME NEW s \in Seq(Nat), NEW k \in Nat, k <= Len(s)
  PROVE  SubSeq(s, 1, k) \in Seq(Nat) /\ Len(SubSeq(s, 1, k)) = k /\ \A j \in 1 .. k : SubSeq(s, 1, k)[j] = s[j]
OBVIOUS

LEMMA LaidPop ==
  ASSUME NEW fs, NEW n, NEW b, NEW m, NEW marks, NEW marks2, NEW hs, Merged(fs, n, b, m, marks, marks2, hs)
  PROVE  hs \in Seq(Int) /\ Len(hs) = n - 1 /\ Laid(hs, marks2, b)
<1> DEFINE gs == SubSeq(fs, 1, n - 1)
<1>0. fs \in Seq(Nat) /\ n \in Nat /\ n = Len(fs) /\ n > 1 /\ hs = [gs EXCEPT ![n - 1] = @ + fs[n]]
  BY DEF Merged
<1>1. fs[n] \in Nat /\ gs \in Seq(Nat) /\ Len(gs) = n - 1 /\ \A j \in 1 .. n - 1 : gs[j] = fs[j] /\ gs[j] \in Nat
  <2>1. n - 1 \in Nat /\ n - 1 <= Len(fs) /\ fs[n] \in Nat /\ fs \in Seq(Nat)
    BY <1>0
  <2>2. gs \in Seq(Nat) /\ Len(gs) = n - 1 /\ \A j \in 1 .. n - 1 : gs[j] = fs[j]
    BY <2>1, FirstPart
  <2> HIDE DEF gs
  <2> QED BY <2>1, <2>2
<1> HIDE DEF gs
<1>2. hs = [gs EXCEPT ![n - 1] = gs[n - 1] + fs[n]] /\ gs[n - 1] + fs[n] \in Int /\ gs \in Seq(Int)
  BY <1>0, <1>1
<1>3. /\ hs \in Seq(Int) /\ Len(hs) = n - 1 /\ hs[n - 1] = gs[n - 1] + fs[n]
      /\ \A j \in 1 .. n - 2 : hs[j] = gs[j]
  BY <1>0, <1>1, <1>2
<1>a. b \in Nat /\ m \in Nat /\ m = b + n
  BY DEF Merged
<1>b. Numbers(marks, m) /\ Laid(fs, marks, b) /\ marks2[m] = marks[m + 1]
  BY Zenon DEF Merged
<1>c. \A j \in 1 .. m - 1 : marks2[j] = marks[j]
  BY Zenon DEF Merged
<1>4. \A j \in 1 .. n : marks[b + j] + fs[j] <= marks[b + j + 1]
  <2>1. DOMAIN fs = 1 .. n
    BY <1>0
  <2> QED BY <1>b, <2>1, Zenon DEF Laid
<1>5. ASSUME NEW j \in 1 .. n - 2
      PROVE  marks2[b + j] + hs[j] <= marks2[b + j + 1]
  <2>1. b + j \in 1 .. m - 1 /\ b + j + 1 \in 1 .. m - 1 /\ j \in 1 .. n /\ j \in 1 .. n - 1
    BY <1>0, <1>a
  <2>2. marks2[b + j] = marks[b + j] /\ marks2[b + j + 1] = marks[b + j + 1]
    BY <1>c, <2>1, Zenon
  <2>3. hs[j] = fs[j]
    BY <1>1, <1>3, <2>1, Zenon
  <2> QED BY <1>4, <2>1, <2>2, <2>3, Zenon
<1>6. marks2[m - 1] + hs[n - 1] <= marks2[m]
  <2>0. m - 1 \in 1 .. m + 1 /\ m \in 1 .. m + 1 /\ m + 1 \in 1 .. m + 1 /\ m - 1 \in 1 .. m - 1
    BY <1>0, <1>a
  <2>1. marks[m - 1] \in Nat /\ marks[m] \in Nat /\ marks[m + 1] \in Nat /\ marks2[m - 1] = marks[m - 1]
    BY <1>b, <1>c, <2>0, Zenon DEF Numbers
  <2>2. /\ n - 1 \in 1 .. n /\ b + (n - 1) = m - 1 /\ b + (n - 1) + 1 = m
        /\ n \in 1 .. n /\ b + n = m /\ b + n + 1 = m + 1 /\ n - 1 \in 1 .. n - 1
    BY <1>0, <1>a
  <2>3. marks[m - 1] + fs[n - 1] <= marks[m] /\ marks[m] + fs[n] <= marks[m + 1]
    BY <1>4, <2>2, Zenon
  <2>4. fs[n - 1] \in Nat /\ hs[n - 1] = fs[n - 1] + fs[n]
    BY <1>1, <1>3, <2>2, Zenon
  <2>5. marks[m - 1] + (fs[n - 1] + fs[n]) <= marks[m + 1]
    BY <1>1, <2>1, <2>3, <2>4, BothFit, Zenon
  <2> QED BY <1>b, <2>1, <2>4, <2>5, Zenon
<1>7. Laid(hs, marks2, b)
  <2>1. /\ \A j \in 1 .. n - 1 : j \in 1 .. n - 2 \/ j = n - 1
        /\ b + (n - 1) = m - 1 /\ b + (n - 1) + 1 = m
    BY <1>0, <1>a
  <2>2. DOMAIN hs = 1 .. n - 1
    BY <1>3
  <2> QED BY <1>5, <1>6, <2>1, <2>2, Zenon DEF Laid
<1> QED BY <1>3, <1>7

\* Where the frames after an instruction have the values its notes lead to, what
\* is noted where it goes on holds.
Landing(p, i, to, d, fs, b, m, marks) ==
  /\ p \in Progs /\ i \in DOMAIN Code[p] /\ Len(Heights[p][i].frames) > 0
  /\ to \in Nat /\ d \in Int /\ to \in Follow(Code[p][i], i) /\ d \in Balance(Code[p][i])
  /\ fs \in Seq(Int) /\ Len(fs) > 0
  /\ fs = After(Code[p][i], Heights[p][i].frames, d + Unspared(Code[p][i], i, to, Heights[p][i].spare))
  /\ b \in Nat /\ m \in Nat /\ m = b + Len(fs) /\ Numbers(marks, m) /\ Laid(fs, marks, b)
  /\ marks[m + 1] <= MaxStack + OverAfter(Code[p][i], Heights[p][i].over, d)

LEMMA LandsOn ==
  ASSUME NEW p, NEW i, NEW to, NEW d, NEW fs, NEW b, NEW m, NEW marks, Landing(p, i, to, d, fs, b, m, marks)
  PROVE  /\ Sits(p, to, b, m, marks) /\ marks[m + 1] <= MaxStack + Overshoot
         /\ to \in DOMAIN Code[p] =>
              /\ Heights[p][to].spare <= Spared(Code[p][i])
              /\ Covers(Heights[p][to].frames, fs)
<1> USE DEF Landing
<1> DEFINE ins == Code[p][i]
           note == Heights[p][i]
<1>1. Agrees(p, i) /\ note.over \in Nat
  BY NotesAre
<1>2. /\ to \in DOMAIN Code[p] => Covers(Heights[p][to].frames, fs) /\ Heights[p][to].spare <= Spared(ins)
      /\ OverAfter(ins, note.over, d) <= Allowed(p, to)
  BY <1>1 DEF Agrees
<1>3. marks[m + 1] \in Nat /\ MaxStack \in Nat /\ OverAfter(ins, note.over, d) \in Int
  <2>1. m + 1 \in 1 .. m + 1
    OBVIOUS
  <2>2. marks[m + 1] \in Nat
    BY <2>1, Zenon DEF Numbers
  <2>3. note.over + d \in Int /\ 0 \in Int
    BY <1>1
  <2> HIDE DEF ins, note
  <2> QED BY <2>2, <2>3, MachineAssumption DEF OverAfter
<1>4. to \in DOMAIN Code[p] => Len(Heights[p][to].frames) = Len(fs)
  BY <1>2 DEF Covers
<1>5. Allowed(p, to) \in Nat /\ Allowed(p, to) <= Overshoot
  BY <1>4, AllowedIsNat
<1>6. marks[m + 1] <= MaxStack + Allowed(p, to) /\ marks[m + 1] <= MaxStack + Overshoot
  <2>1. marks[m + 1] <= MaxStack + OverAfter(ins, note.over, d)
    OBVIOUS
  <2>2. marks[m + 1] \in Int /\ MaxStack \in Int /\ Allowed(p, to) \in Int /\ Overshoot \in Int
    BY <1>3, <1>5, LimitsAreNat
  <2> HIDE DEF ins, note
  <2>3. marks[m + 1] <= MaxStack + Allowed(p, to)
    BY <1>2, <1>3, <2>1, <2>2, LimitFits, Zenon
  <2> QED BY <1>5, <2>2, <2>3, LimitFits, Zenon
<1>7. ASSUME to \in DOMAIN Code[p] PROVE Laid(Heights[p][to].frames, marks, b) /\ Len(Heights[p][to].frames) = m - b
  <2>1. Heights[p][to].frames \in Seq(Nat)
    BY <1>7, NotesAre
  <2>2. Laid(Heights[p][to].frames, marks, b)
    BY <1>2, <1>7, <2>1, CoversLaid
  <2>3. Len(fs) \in Nat
    OBVIOUS
  <2> QED BY <1>4, <1>7, <2>2, <2>3
<1>8. Sits(p, to, b, m, marks)
  BY <1>6, <1>7 DEF Sits, Allowed
<1> QED BY <1>2, <1>6, <1>8
-----------------------------------------------------------------------------
(***************************************************************************)
(* What is noted of the executing run.                                     *)
(***************************************************************************)
LEMMA AppendAre ==
  ASSUME NEW fs \in Seq(Nat), NEW n \in Nat
  PROVE  /\ Append(fs, n) \in Seq(Nat) /\ Len(Append(fs, n)) = Len(fs) + 1 /\ Append(fs, n)[Len(fs) + 1] = n
         /\ \A i \in 1 .. Len(fs) : Append(fs, n)[i] = fs[i]
         /\ Numbers(Append(fs, n), Len(fs))
<1> DEFINE marks == Append(fs, n)
<1>1. /\ marks \in Seq(Nat) /\ Len(marks) = Len(fs) + 1 /\ marks[Len(fs) + 1] = n
      /\ \A i \in 1 .. Len(fs) : marks[i] = fs[i]
  OBVIOUS
<1>2. Numbers(marks, Len(fs))
  <2> HIDE DEF marks
  <2> QED BY <1>1 DEF Numbers
<1> QED BY <1>1, <1>2

LEMMA MarksAre ==
  ASSUME FInv
  PROVE  /\ Marks[Len(frames) + 1] = Len(stack) /\ \A i \in 1 .. Len(frames) : Marks[i] = frames[i]
         /\ Numbers(Marks, Len(frames)) /\ Marks[Len(frames)] = Frame
<1>1. frames \in Seq(Nat) /\ Len(stack) \in Nat /\ Len(frames) \in 1 .. Len(frames) /\ Frame = frames[Len(frames)]
  BY Levels DEF Frame
<1>2. /\ Marks[Len(frames) + 1] = Len(stack) /\ \A i \in 1 .. Len(frames) : Marks[i] = frames[i]
      /\ Numbers(Marks, Len(frames))
  BY <1>1, AppendAre DEF Marks
<1> QED BY <1>1, <1>2

LEMMA RunsAre ==
  ASSUME FInv, NEW k \in 1 .. Len(calls)
  PROVE  /\ calls[k] \in Activations /\ calls[k].prog \in Progs /\ calls[k].pc \in Nat
         /\ calls[k].prev_frame \in Nat /\ 1 <= calls[k].prev_frame
         /\ LastFrame(k) \in Nat /\ calls[k].prev_frame < LastFrame(k) /\ LastFrame(k) <= Len(frames)
         /\ k # Len(calls) => k + 1 \in 1 .. Len(calls)
<1>1. calls \in Seq(Activations) /\ Len(calls) \in Nat /\ Len(frames) \in Nat
  BY Levels, Depth DEF FInv, IInv, CallsInv
<1>2. \A j \in 1 .. Len(calls) :
        /\ calls[j] \in Activations /\ calls[j].prog \in Progs /\ calls[j].pc \in Nat
        /\ calls[j].prev_frame \in Nat
  <2>1. \A j \in 1 .. Len(calls) : calls[j] \in Activations
    BY <1>1
  <2> QED BY <2>1 DEF Activations
<1>3. \A j \in 1 .. Len(calls) : 1 <= calls[j].prev_frame /\ calls[j].prev_frame < Len(frames)
  BY DEF FInv, OwnFrames
<1>4. k # Len(calls) => k + 1 \in 1 .. Len(calls) /\ calls[k].prev_frame < calls[k + 1].prev_frame
  <2>1. k # Len(calls) => k + 1 \in 1 .. Len(calls) /\ k < k + 1
    BY <1>1
  <2> QED BY <2>1 DEF FInv, OwnFrames
<1>5. LastFrame(k) \in Nat /\ calls[k].prev_frame < LastFrame(k) /\ LastFrame(k) <= Len(frames)
  <2>1. CASE k = Len(calls)
    BY <1>1, <1>3, <2>1 DEF LastFrame
  <2>2. CASE k # Len(calls)
    <3>1. LastFrame(k) = calls[k + 1].prev_frame /\ k + 1 \in 1 .. Len(calls)
      BY <1>4, <2>2 DEF LastFrame
    <3>2. calls[k + 1].prev_frame \in Nat /\ calls[k + 1].prev_frame < Len(frames)
      BY <1>2, <1>3, <3>1
    <3> QED BY <1>1, <1>4, <2>2, <3>1, <3>2
  <2> QED BY <2>1, <2>2
<1> QED BY <1>2, <1>3, <1>4, <1>5

Note == Heights[Act.prog][Act.pc]

LEMMA Annotated ==
  ASSUME FInv, HInv, AtWork
  PROVE  /\ Act.prog \in Progs /\ Act.pc \in DOMAIN Code[Act.prog] /\ Act.prev_frame \in Nat
         /\ Note.frames \in Seq(Nat) /\ Len(Note.frames) \in Nat /\ Len(Note.frames) >= 1
         /\ Len(frames) = Act.prev_frame + Len(Note.frames)
         /\ Laid(Note.frames, Marks, Act.prev_frame)
         /\ Note.spare \in Nat /\ Note.over \in Nat /\ Note.over <= Overshoot
         /\ Len(stack) <= MaxStack + Note.over
         /\ Agrees(Act.prog, Act.pc)
         /\ Note.frames[Len(Note.frames)] \in Nat /\ Frame + Note.frames[Len(Note.frames)] <= Len(stack)
<1> DEFINE n == Len(calls)
<1>1. n \in 1 .. Len(calls) /\ Act = calls[n] /\ LastFrame(n) = Len(frames)
  BY Located DEF FInv, Act, LastFrame
<1>2. Act.prog \in Progs /\ Act.pc \in DOMAIN Code[Act.prog]
  BY Located DEF FInv
<1>3. /\ Note.frames \in Seq(Nat) /\ Len(Note.frames) \in Nat /\ Note.spare \in Nat /\ Note.over \in Nat
      /\ Agrees(Act.prog, Act.pc)
  BY <1>2, NotesAre DEF Note
<1>4. Noted(n)
  BY <1>1 DEF HInv
<1>5. /\ Len(Note.frames) = Len(frames) - Act.prev_frame /\ Laid(Note.frames, Marks, Act.prev_frame)
      /\ Marks[Len(frames) + 1] <= MaxStack + Note.over
  BY <1>1, <1>2, <1>4 DEF Noted, Sits, Note
<1>6. Act.prev_frame \in Nat /\ Act.prev_frame < Len(frames) /\ Len(frames) \in Nat
  BY Floor, Levels DEF AtWork
<1>7. Len(Note.frames) >= 1 /\ Len(frames) = Act.prev_frame + Len(Note.frames)
  BY <1>3, <1>5, <1>6
<1>8. Note.over <= Overshoot
  <2>1. Len(Note.frames) > 0
    BY <1>3, <1>7
  <2> QED BY <1>3, <2>1, Zenon DEF Agrees, Note
<1>9. Len(stack) <= MaxStack + Note.over
  BY <1>5, MarksAre
<1>10. Note.frames[Len(Note.frames)] \in Nat /\ Frame + Note.frames[Len(Note.frames)] <= Len(stack)
  <2> DEFINE fs == Note.frames
             m == Len(fs)
  <2>1. m \in DOMAIN fs /\ fs[m] \in Nat
    BY <1>3, <1>7
  <2>2. Act.prev_frame + m = Len(frames) /\ Act.prev_frame + m + 1 = Len(frames) + 1
    BY <1>6, <1>7
  <2> HIDE DEF fs, m
  <2>3. Marks[Act.prev_frame + m] + fs[m] <= Marks[Act.prev_frame + m + 1]
    BY <1>5, <2>1, Zenon DEF Laid, fs
  <2>4. Frame + fs[m] <= Len(stack)
    BY <2>2, <2>3, MarksAre, Zenon
  <2> QED BY <2>1, <2>4 DEF fs, m
<1> QED BY <1>2, <1>3, <1>5, <1>6, <1>7, <1>8, <1>9, <1>10

\* What a verifier of the code finds out is so.
LEMMA Verified ==
  ASSUME FInv, HInv, AtWork
  PROVE  Fitting /\ (Ins.op = "POP_FRAME" => Act.prev_frame + 1 < Len(frames) /\ Len(Note.frames) > 1)
<1>1. /\ Asks(Ins) <= Note.frames[Len(Note.frames)] /\ (Ins.op = "POP_FRAME" => Len(Note.frames) > 1)
      /\ (Ins.op \in Raise => Ins.t # "SYSTEM")
  <2>1. Agrees(Act.prog, Act.pc) /\ Len(Note.frames) > 0
    BY Annotated, NotesAre
  <2> QED BY <2>1, Zenon DEF Agrees, Note, Ins, Raise
<1>2. Asks(Ins) \in Int /\ Frame \in Nat /\ Len(stack) \in Nat
  <2>1. Ins.a \in Int /\ Ins.b \in Nat
    BY Operand DEF FInv
  <2> QED BY <2>1, Levels DEF Asks
<1>3. Asks(Ins) <= Len(stack) - Frame
  BY <1>1, <1>2, Annotated
<1>4. Ins.op = "POP_FRAME" => Act.prev_frame + 1 < Len(frames)
  BY <1>1, Annotated
<1> QED BY <1>1, <1>3, <1>4 DEF Fitting

LEMMA Keeping ==
  ASSUME FInv, HInv, CallsFit
  PROVE  KeepsFrame /\ OperandsInFrame
<1>1. CASE AtWork
  BY <1>1, Verified, AsksEnough DEF KeepsFrame, OperandsInFrame, Fitting, AtWork
<1>2. CASE ~AtWork
  BY <1>2 DEF KeepsFrame, OperandsInFrame, AtWork
<1> QED BY <1>1, <1>2
-----------------------------------------------------------------------------
(***************************************************************************)
(* Steps of the executing run.                                             *)
(***************************************************************************)
\* The executing run is at `to' now; the others are where they were.
Turned(to) ==
  /\ Len(calls') = Len(calls)
  /\ \A k \in 1 .. Len(calls) :
       /\ calls'[k].prog = calls[k].prog /\ calls'[k].prev_frame = calls[k].prev_frame
       /\ calls'[k].base = calls[k].base
       /\ calls'[k].pc = IF k = Len(calls) THEN to ELSE calls[k].pc

LEMMA GotoTurns == ASSUME FInv, AtWork, NEW to \in Nat, Goto(to) PROVE Turned(to)
<1> DEFINE n == Len(calls)
<1>1. n \in Nat /\ n >= 1 /\ calls' = [calls EXCEPT ![n].pc = to] /\ calls \in Seq(Activations)
  BY Located DEF Goto, FInv, IInv, CallsInv
<1>2. calls[n] \in Activations
  BY <1>1
<1>3. [calls[n] EXCEPT !.pc = to] \in Activations
  BY <1>2 DEF Activations
<1> HIDE DEF n
<1>4. /\ Len(calls') = n /\ calls'[n] = [calls[n] EXCEPT !.pc = to]
      /\ \A k \in 1 .. n : k # n => calls'[k] = calls[k]
  BY <1>1 DEF n
<1>5. /\ calls'[n].prev_frame = calls[n].prev_frame /\ calls'[n].base = calls[n].base
      /\ calls'[n].prog = calls[n].prog /\ calls'[n].pc = to
  BY <1>2, <1>4 DEF Activations
<1> QED BY <1>4, <1>5 DEF Turned, n

LEMMA ReturnTurns == ASSUME FInv, AtWork, 1 <= Len(stack), ReturnValue PROVE Turned(0)
<1> DEFINE n == Len(calls)
           v == Bw(stack, 0)
           act == [[[calls[n] EXCEPT !.pc = 0] EXCEPT !.returned = TRUE] EXCEPT !.value = v]
<1>1. n \in Nat /\ n >= 1 /\ calls \in Seq(Activations) /\ calls[n] \in Activations
  BY Located DEF FInv, IInv, CallsInv
<1>2. calls' = [calls EXCEPT ![n].pc = 0, ![n].returned = TRUE, ![n].value = v]
  BY DEF ReturnValue, Underflow, Check
<1>3. calls' = [calls EXCEPT ![n] = act]
  BY <1>1, <1>2
<1>4. /\ act.prog = calls[n].prog /\ act.prev_frame = calls[n].prev_frame /\ act.base = calls[n].base
      /\ act.pc = 0
  BY <1>1 DEF Activations
<1> HIDE DEF n, act
<1>5. Len(calls') = n /\ calls'[n] = act /\ \A k \in 1 .. n : k # n => calls'[k] = calls[k]
  BY <1>1, <1>3 DEF n
<1> QED BY <1>4, <1>5 DEF Turned, n

\* What is noted of a run that waits stays so.
LEMMA NotedStays ==
  ASSUME NEW k, Noted(k), calls'[k].prog = calls[k].prog, calls'[k].pc = calls[k].pc,
         calls'[k].prev_frame = calls[k].prev_frame, LastFrame(k)' = LastFrame(k),
         LastFrame(k) \in Nat, calls[k].prev_frame \in Nat, calls[k].prog \in Progs,
         \A i \in 1 .. LastFrame(k) + 1 : Marks'[i] = Marks[i]
  PROVE  Noted(k)'
<1> DEFINE p == calls[k].prog
           i == calls[k].pc
           b == calls[k].prev_frame
           m == LastFrame(k)
           fs == Heights[p][i].frames
<1>1. Sits(p, i, b, m, Marks)
  BY DEF Noted
<1>2. p \in Progs /\ b \in Nat /\ m \in Nat /\ \A j \in 1 .. m + 1 : Marks'[j] = Marks[j]
  OBVIOUS
<1>3. ASSUME NEW marks, \A j \in 1 .. m + 1 : marks[j] = Marks[j]
      PROVE  Sits(p, i, b, m, marks)
  <2> HIDE DEF m, b, i, p
  <2> SUFFICES ASSUME i \in DOMAIN Code[p] PROVE Sits(p, i, b, m, marks)
    BY DEF Sits
  <2>1. Len(fs) = m - b /\ Laid(fs, Marks, b) /\ Marks[m + 1] <= MaxStack + Heights[p][i].over
    BY <1>1 DEF Sits
  <2>2. fs \in Seq(Nat) /\ Len(fs) \in Nat
    BY <1>2, NotesAre
  <2> HIDE DEF fs
  <2>3. m + 1 \in 1 .. m + 1 /\ DOMAIN fs = 1 .. Len(fs)
    BY <1>2, <2>2
  <2>4. \A j \in 1 .. Len(fs) : b + j \in 1 .. m + 1 /\ b + j + 1 \in 1 .. m + 1
    BY <1>2, <2>1, <2>2
  <2>5. Laid(fs, marks, b)
    BY <1>3, <2>1, <2>3, <2>4, Zenon DEF Laid
  <2> QED BY <1>3, <2>1, <2>3, <2>5 DEF Sits, fs
<1>4. Sits(p, i, b, m, Marks')
  <2> HIDE DEF p, i, b, m
  <2> QED BY <1>2, <1>3
<1> QED BY <1>4 DEF Noted

\* What a step of the executing run has to show.
LEMMA RunStays ==
  ASSUME FInv, HInv, IInv', AtWork, NEW to \in Nat, Turned(to),
         Act.prev_frame < Len(frames'), \A i \in 1 .. Act.prev_frame + 1 : frames'[i] = frames[i],
         Sits(Act.prog, to, Act.prev_frame, Len(frames'), Marks'),
         Extra', StackBounded', NoUnderflow'
  PROVE  HInv'
<1>0. PICK n \in Nat : n = Len(calls)
  BY Depth DEF FInv
<1>1. n \in Nat /\ n \in 1 .. Len(calls) /\ Act = calls[n] /\ n = Len(calls') /\ Len(frames) \in Nat
  BY <1>0, Located, Levels DEF FInv, Act, Turned
<1>2. frames' \in Seq(Nat) /\ Len(frames') \in Nat /\ Len(stack') \in Nat
  BY DEF IInv, StacksInv
<1>3. \A i \in 1 .. Len(frames') : Marks'[i] = frames'[i]
  BY <1>2, AppendAre DEF Marks
<1>4. Act.prev_frame \in Nat /\ Act.prev_frame < Len(frames)
  BY Floor DEF AtWork
<1>5. \A i \in 1 .. Act.prev_frame + 1 : Marks'[i] = Marks[i]
  <2>1. \A i \in 1 .. Act.prev_frame + 1 : i \in 1 .. Len(frames) /\ i \in 1 .. Len(frames')
    <3> DEFINE b == Act.prev_frame
    <3>1. b < Len(frames')
      OBVIOUS
    <3>2. b < Len(frames) /\ b \in Nat /\ Len(frames) \in Nat /\ Len(frames') \in Nat
      BY <1>1, <1>2, <1>4, Zenon
    <3> HIDE DEF b
    <3>3. \A i \in 1 .. b + 1 : i \in 1 .. Len(frames) /\ i \in 1 .. Len(frames')
      BY <3>1, <3>2
    <3> QED BY <3>3, Zenon DEF b
  <2> QED BY <1>3, <2>1, MarksAre, Zenon
<1>6. ASSUME NEW k \in 1 .. n, k # n
      PROVE  Noted(k)'
  <2>1. /\ calls[k].prog \in Progs /\ calls[k].prev_frame \in Nat /\ LastFrame(k) \in Nat
        /\ LastFrame(k) = calls[k + 1].prev_frame /\ k + 1 \in 1 .. n
    BY <1>0, <1>1, <1>6, RunsAre DEF LastFrame
  <2>2. LastFrame(k)' = LastFrame(k)
    BY <1>0, <1>1, <1>6, <2>1 DEF Turned, LastFrame
  <2>3. LastFrame(k) <= Act.prev_frame
    <3>1. CASE k + 1 = n
      BY <1>1, <1>4, <2>1, <3>1
    <3>2. CASE k + 1 # n
      <4>1. k + 1 < n
        BY <1>1, <1>6, <2>1, <3>2
      <4>2. calls[k + 1].prev_frame < calls[n].prev_frame
        BY <1>0, <1>1, <2>1, <4>1 DEF FInv, OwnFrames
      <4> QED BY <1>1, <1>4, <2>1, <4>2
    <3> QED BY <3>1, <3>2
  <2>4. \A i \in 1 .. LastFrame(k) + 1 : i \in 1 .. Act.prev_frame + 1
    BY <1>4, <2>1, <2>3
  <2>5. Noted(k)
    BY <1>0, <1>6 DEF HInv
  <2>6. calls'[k].prog = calls[k].prog /\ calls'[k].pc = calls[k].pc /\ calls'[k].prev_frame = calls[k].prev_frame
    BY <1>0, <1>6 DEF Turned
  <2> QED BY <1>5, <2>1, <2>2, <2>4, <2>5, <2>6, NotedStays
<1>7. Noted(n)'
  <2>1. /\ calls'[n].prog = Act.prog /\ calls'[n].pc = to /\ calls'[n].prev_frame = Act.prev_frame
        /\ LastFrame(n)' = Len(frames')
    BY <1>0, <1>1 DEF Turned, LastFrame
  <2> QED BY <2>1 DEF Noted
<1>8. Waiting'
  <2>1. \A k \in 1 .. n - 1 : calls[k].pc \in DOMAIN Code[calls[k].prog] /\ Code[calls[k].prog][calls[k].pc].op = "INVOKE"
    BY <1>0 DEF HInv, Waiting
  <2>2. \A k \in 1 .. n - 1 : k \in 1 .. n /\ k # n
    BY <1>1
  <2>3. \A k \in 1 .. n - 1 : calls'[k].pc = calls[k].pc /\ calls'[k].prog = calls[k].prog
    BY <1>0, <2>2 DEF Turned
  <2> QED BY <1>1, <2>1, <2>3 DEF Waiting
<1>9. Grounded'
  <2>1. calls[1].base = 0 /\ 1 \in 1 .. n
    BY <1>0, <1>1 DEF HInv, Grounded, AtWork
  <2>2. calls'[1].base = 0
    BY <1>0, <2>1 DEF Turned
  <2>3. calls' # << >>
    BY <1>1
  <2> QED BY <2>2, <2>3 DEF Grounded
<1>10. \A k \in 1 .. n : Noted(k)'
  BY <1>6, <1>7
<1>11. (\A k \in 1 .. Len(calls) : Noted(k))'
  BY <1>1, <1>10
<1> QED BY <1>8, <1>9, <1>11 DEF HInv

LEMMA NextAct ==
  ASSUME FInv, AtWork, NEW to \in Nat, Turned(to)
  PROVE  calls' # << >> /\ Act'.prog = Act.prog /\ Act'.pc = to /\ Act'.prev_frame = Act.prev_frame
<1>1. Len(calls) \in Nat /\ Len(calls) >= 1 /\ Act = calls[Len(calls)] /\ Len(calls') = Len(calls)
  BY Located DEF FInv, Act, Turned
<1>2. Act' = calls'[Len(calls)] /\ Len(calls) \in 1 .. Len(calls)
  BY <1>1 DEF Act
<1>3. calls' # << >>
  BY <1>1
<1> QED BY <1>1, <1>2, <1>3 DEF Turned

LEMMA NowhereIsNoCode == \A p \in Progs : 0 \notin DOMAIN Code[p]
<1>1. \A c \in Seq(Instructions) : 0 \notin DOMAIN c
  OBVIOUS
<1> QED BY <1>1, CodeAssumption

\* A run that stops leaves the stack and its frames to its caller.
LEMMA HaltKeeps ==
  ASSUME FInv, HInv, IInv', AtWork, Turned(0), UNCHANGED frameVars, Len(stack') = Len(stack), NoUnderflow'
  PROVE  HInv'
<1>1. Act.prog \in Progs /\ 0 \notin DOMAIN Code[Act.prog]
  BY Located, NowhereIsNoCode DEF FInv
<1>2. frames' = frames /\ Act.prev_frame < Len(frames')
  BY Floor DEF frameVars, AtWork
<1>3. Act'.prog = Act.prog /\ Act'.pc = 0
  BY NextAct
<1>4. Extra'
  BY <1>1, <1>3 DEF Extra
<1>5. StackBounded'
  BY DEF StackBounded, HInv
<1>6. Sits(Act.prog, 0, Act.prev_frame, Len(frames'), Marks')
  BY <1>1 DEF Sits
<1>7. \A i \in 1 .. Act.prev_frame + 1 : frames'[i] = frames[i]
  BY <1>2
<1> QED BY <1>2, <1>4, <1>5, <1>6, <1>7, RunStays

LEMMA Quiet == ASSUME FInv, AtWork, exc' = exc PROVE NoUnderflow'
BY Undisturbed DEF FInv, NoUnderflow, NoException

LEMMA StopsKeep == ASSUME FInv, HInv, IInv', AtWork, Stops PROVE HInv'
<1>1. ASSUME NEW type \in Exceptions, Throw(type), type = "SYSTEM" => Ins.op = "LOAD_ARRAY_ELEMENT"
      PROVE  HInv'
  <2>1. Turned(0) /\ UNCHANGED frameVars /\ Len(stack') = Len(stack) /\ exc' = [type |-> type, ipc |-> Act.pc]
    BY <1>1, GotoTurns DEF Throw
  <2>2. Act'.prog = Act.prog /\ exc'.type = type /\ exc'.ipc = Act.pc
    BY <2>1, NextAct
  <2>3. NoUnderflow'
    BY <1>1, <2>2 DEF NoUnderflow, Ins
  <2> QED BY <2>1, <2>3, HaltKeeps
<1>2. ASSUME Goto(0), UNCHANGED <<stack, frameVars, exc>>
      PROVE  HInv'
  <2>1. Turned(0) /\ UNCHANGED frameVars /\ Len(stack') = Len(stack) /\ NoUnderflow'
    BY <1>2, GotoTurns, Quiet
  <2> QED BY <2>1, HaltKeeps
<1> QED BY <1>1, <1>2 DEF Stops

LEMMA ReturnValueKeepsHeights == ASSUME FInv, HInv, IInv', ReturnValue PROVE HInv'
<1>1. AtWork /\ Ins.op = "RETURN_VALUE"
  BY DEF ReturnValue, At, AtWork
<1>2. 1 <= Len(stack)
  <2>1. Asks(Ins) = 1 /\ Asks(Ins) <= Len(stack) - Frame
    BY <1>1, Verified, OtherCosts DEF Fitting
  <2> QED BY <2>1, Levels
<1>3. stack' = stack /\ UNCHANGED frameVars /\ exc' = exc
  BY <1>2 DEF ReturnValue, Underflow, Check
<1>4. Turned(0) /\ NoUnderflow'
  BY <1>1, <1>2, <1>3, ReturnTurns, Quiet
<1> QED BY <1>1, <1>3, <1>4, HaltKeeps

\* After an instruction that leaves the frames alone.
LEMMA GoesKeep ==
  ASSUME FInv, HInv, IInv', AtWork, NEW to \in Nat, NEW d \in Int, Goes(to, d),
         Ins.op \notin {"PUSH_FRAME", "POP_FRAME"}
  PROVE  HInv'
<1> DEFINE p == Act.prog
           i == Act.pc
           b == Act.prev_frame
           fs == Note.frames
           n == Len(fs)
           m == Len(frames)
           x == Unspared(Ins, i, to, Note.spare)
           gs == [fs EXCEPT ![n] = @ + (d + x)]
<1>1. /\ p \in Progs /\ i \in DOMAIN Code[p] /\ b \in Nat /\ fs \in Seq(Nat) /\ n \in Nat /\ n >= 1 /\ m = b + n
      /\ Laid(fs, Marks, b) /\ Note.spare \in Nat /\ Note.over \in Nat /\ fs[n] \in Nat
      /\ Len(stack) <= MaxStack + Note.over /\ Frame + fs[n] <= Len(stack) /\ m \in Nat
  BY Annotated, Levels
<1>2. /\ to \in Follow(Ins, i) /\ d \in Balance(Ins) /\ Len(stack') = Len(stack) + d
      /\ Ins.op \in Tested => Len(stack') <= MaxStack
      /\ Ins.op = "JMP_32_IF" /\ to # i + 1 + Ins.a => Bw(stack, 0) # Truth(TRUE)
      /\ Ins.op = "SET_PROPERTY" => d = 1 \/ Bw(stack', 0) = Truth(TRUE)
      /\ exc' = exc /\ frames' = frames /\ UNCHANGED frameVars /\ Turned(to)
  BY GotoTurns DEF Goes, frameVars
<1>3. /\ Frame \in Nat /\ Len(stack) \in Nat /\ Len(stack') \in Nat /\ frames \in Seq(Nat) /\ MaxStack \in Nat
  BY Levels, MachineAssumption DEF IInv, StacksInv
<1>4. x \in Int /\ Frame + fs[n] + x <= Len(stack)
  <2>1. x = 0 \/ (Ins.op = "JMP_32_IF" /\ to # i + 1 + Ins.a /\ x = Note.spare)
    BY DEF Unspared
  <2>2. CASE x = 0
    <3>1. Frame \in Nat /\ fs[n] \in Nat /\ Frame + fs[n] <= Len(stack)
      BY <1>1, <1>3, Zenon
    <3> HIDE DEF x, n, fs
    <3> QED BY <2>2, <3>1
  <2>3. CASE Ins.op = "JMP_32_IF" /\ to # i + 1 + Ins.a /\ x = Note.spare
    <3>1. Frame + fs[n] + Note.spare <= Len(stack)
      <4>1. ~(stack # << >> /\ Bw(stack, 0) = Truth(TRUE))
        BY <1>2, <2>3, Zenon
      <4> QED BY <4>1, Zenon DEF HInv, Extra, AtWork, Note
    <3> QED BY <1>1, <2>3, <3>1
  <2> QED BY <2>1, <2>2, <2>3
<1>5. /\ Marks[m + 1] = Len(stack) /\ Marks[m] = Frame /\ Numbers(Marks, m)
      /\ \A j \in 1 .. m : Marks[j] = frames[j]
  BY MarksAre
<1>6. Marks' = Append(frames, Len(stack'))
  BY <1>2 DEF Marks
<1>7. /\ Marks'[m + 1] = Len(stack') /\ Numbers(Marks', m)
      /\ \A j \in 1 .. m : Marks'[j] = frames[j]
  BY <1>3, <1>6, AppendAre
<1>8. After(Ins, fs, d + x) = gs
  BY DEF After
<1>9. Len(stack') <= MaxStack + OverAfter(Ins, Note.over, d)
  <2>1. CASE Ins.op \in Tested
    BY <1>2, <1>3, <2>1 DEF OverAfter
  <2>2. CASE Ins.op \notin Tested
    <3>1. OverAfter(Ins, Note.over, d) = Note.over + d
      BY <2>2 DEF OverAfter
    <3>2. /\ Len(stack') = Len(stack) + d /\ Len(stack) <= MaxStack + Note.over
          /\ Note.over \in Nat /\ Len(stack) \in Nat /\ MaxStack \in Nat
      BY <1>1, <1>2, <1>3, Zenon
    <3> HIDE DEF p, i, b, n, m, fs, x, gs
    <3> QED BY <3>1, <3>2
  <2> QED BY <2>1, <2>2
<1>10. Ins = Code[p][i] /\ Note = Heights[p][i]
  BY DEF Ins, Note
<1> HIDE DEF p, i, b, n, m, x, gs
<1>11. gs \in Seq(Int) /\ Len(gs) = n /\ Laid(gs, Marks', b)
  <2>1. Marks[m] + fs[n] + x <= Marks[m + 1]
    BY <1>4, <1>5
  <2>2. Marks'[m + 1] = Marks[m + 1] + d /\ \A j \in 1 .. m : Marks'[j] = Marks[j]
    BY <1>2, <1>5, <1>7
  <2>3. n = Len(fs) /\ gs = [fs EXCEPT ![n] = @ + (d + x)]
    BY DEF n, gs
  <2> HIDE DEF fs
  <2>4. Raised(fs, n, d, x, b, m, Marks, Marks', gs)
    BY <1>1, <1>4, <1>5, <1>7, <2>1, <2>2, <2>3, Zenon DEF Raised
  <2> QED BY <2>4, LaidOn
<1>12. /\ Sits(p, to, b, m, Marks') /\ Len(stack') <= MaxStack + Overshoot
       /\ to \in DOMAIN Code[p] => Heights[p][to].spare <= Spared(Ins) /\ Covers(Heights[p][to].frames, gs)
  <2>1. /\ Len(Heights[p][i].frames) > 0 /\ m = b + Len(gs) /\ Len(gs) > 0
        /\ to \in Follow(Code[p][i], i) /\ d \in Balance(Code[p][i])
        /\ gs = After(Code[p][i], Heights[p][i].frames, d + Unspared(Code[p][i], i, to, Heights[p][i].spare))
        /\ Marks'[m + 1] <= MaxStack + OverAfter(Code[p][i], Heights[p][i].over, d)
    BY <1>1, <1>2, <1>7, <1>8, <1>9, <1>10, <1>11 DEF n, x
  <2>2. Landing(p, i, to, d, gs, b, m, Marks')
    BY <1>1, <1>7, <1>11, <2>1, Zenon DEF Landing
  <2> QED BY <1>7, <1>10, <2>2, LandsOn
<1>13. StackBounded'
  BY <1>12 DEF StackBounded
<1>14. NoUnderflow'
  BY <1>2, Quiet
<1>15. b < Len(frames') /\ \A j \in 1 .. b + 1 : frames'[j] = frames[j]
  BY <1>1, <1>2 DEF m
<1>16. Extra'
  <2>1. Act'.prog = p /\ Act'.pc = to
    BY <1>2, NextAct DEF p
  <2>2. Frame' = Frame
    BY <1>2 DEF Frame
  <2>3. ASSUME to \in DOMAIN Code[p], ~(stack' # << >> /\ Bw(stack', 0) = Truth(TRUE))
        PROVE  Frame + Heights[p][to].frames[Len(Heights[p][to].frames)] + Heights[p][to].spare <= Len(stack')
    <3> DEFINE hs == Heights[p][to].frames
               spare == Heights[p][to].spare
    <3>1. hs \in Seq(Nat) /\ spare \in Nat /\ spare <= Spared(Ins) /\ Len(hs) = n /\ hs[n] \in Nat
      <4>1. hs \in Seq(Nat) /\ spare \in Nat
        BY <1>1, <2>3, NotesAre
      <4>2. Covers(hs, gs) /\ spare <= Spared(Ins)
        BY <1>12, <2>3
      <4> HIDE DEF hs, spare
      <4>3. Len(hs) = n
        BY <1>11, <4>2 DEF Covers
      <4>4. n \in 1 .. Len(hs)
        BY <1>1, <4>3
      <4> QED BY <4>1, <4>2, <4>3, <4>4
    <3>2. Marks'[m] + hs[n] <= Marks'[m + 1]
      <4>1. Laid(hs, Marks', b)
        BY <1>12, <2>3 DEF Sits
      <4> HIDE DEF hs
      <4>2. n \in DOMAIN hs /\ b + n = m /\ b + n + 1 = m + 1
        BY <1>1, <3>1
      <4>3. \A j \in DOMAIN hs : Marks'[b + j] + hs[j] <= Marks'[b + j + 1]
        BY <4>1, Zenon DEF Laid
      <4> QED BY <4>2, <4>3, Zenon
    <3>3. Marks'[m] = Frame /\ Marks'[m + 1] = Len(stack')
      <4>1. m \in 1 .. m
        BY <1>1
      <4> QED BY <1>5, <1>7, <4>1
    <3>4. Frame + hs[n] <= Len(stack')
      BY <3>2, <3>3
    <3>5. CASE spare = 0
      <4> HIDE DEF hs, spare
      <4>1. Frame + hs[n] + spare = Frame + hs[n]
        BY <1>3, <3>1, <3>5
      <4> QED BY <3>1, <3>4, <4>1 DEF hs, spare
    <3>6. CASE spare # 0
      <4>1. Ins.op = "SET_PROPERTY" /\ spare <= 3
        BY <3>1, <3>6 DEF Spared
      <4>2. Balance(Ins) = {0 - 2, 1} /\ Asks(Ins) = 3 /\ Follow(Ins, i) = {i + 1}
        BY <4>1 DEF Balance, Asks, Follow, Tested, Untested, Combine, Drop, Indexed, Binary, BinaryTyped, JumpCodes
      <4>3. 3 <= Len(stack)
        BY <1>3, <4>2, Fits, Verified DEF Fitting
      <4>4. d = 1 /\ Len(stack') = Len(stack) + 1
        <5>1. ASSUME d = 0 - 2
              PROVE  FALSE
          <6>1. d # 1
            BY <5>1
          <6>2. Bw(stack', 0) = Truth(TRUE)
            BY <1>2, <4>1, <6>1, Zenon
          <6>3. Len(stack') >= 1
            BY <1>2, <1>3, <4>3, <5>1
          <6>4. stack' # << >>
            <7>1. stack' = << >> => Len(stack') = 0
              OBVIOUS
            <7> QED BY <6>3, <7>1
          <6> QED BY <2>3, <6>2, <6>4, Zenon
        <5> QED BY <1>2, <4>2, <5>1
      <4>5. Covers(hs, After(Ins, fs, 0 - 2))
        <5>1. Agrees(p, i) /\ n > 0 /\ Unspared(Ins, i, to, Note.spare) = 0 /\ 0 - 2 + 0 = 0 - 2
          BY <1>1, <4>1, Annotated DEF p, i, Unspared
        <5>2. Covers(hs, After(Ins, fs, (0 - 2) + Unspared(Ins, i, to, Note.spare)))
          BY <1>2, <1>10, <2>3, <4>2, <5>1 DEF Agrees, n
        <5> QED BY <5>1, <5>2
      <4>6. After(Ins, fs, 0 - 2) = [fs EXCEPT ![n] = fs[n] + (0 - 2)]
        BY <4>1 DEF After, n
      <4> HIDE DEF hs, spare, fs
      <4>7. hs[n] <= fs[n] + (0 - 2)
        <5>1. n \in DOMAIN hs /\ [fs EXCEPT ![n] = fs[n] + (0 - 2)][n] = fs[n] + (0 - 2)
          BY <1>1, <3>1 DEF n
        <5> QED BY <4>5, <4>6, <5>1 DEF Covers
      <4>8. Frame + hs[n] + spare <= Len(stack')
        <5>1. Frame + fs[n] <= Len(stack) /\ fs[n] \in Nat /\ Frame \in Nat /\ Len(stack) \in Nat
          BY <1>1, <1>3
        <5>2. \A f, h, k, c, l \in Nat : f + k <= l /\ h <= k + (0 - 2) /\ c <= 3 => f + h + c <= l + 1
          OBVIOUS
        <5>3. Frame + hs[n] + spare <= Len(stack) + 1
          BY <3>1, <4>1, <4>7, <5>1, <5>2, Zenon
        <5> QED BY <4>4, <5>3
      <4> QED BY <3>1, <4>8 DEF hs, spare
    <3> QED BY <3>5, <3>6
  <2> QED BY <2>1, <2>2, <2>3 DEF Extra
<1> QED BY <1>2, <1>12, <1>13, <1>14, <1>15, <1>16, RunStays DEF p, b, m
-----------------------------------------------------------------------------
(***************************************************************************)
(* Steps that change the frames.                                           *)
(***************************************************************************)
LEMMA NextMarks ==
  ASSUME IInv'
  PROVE  /\ frames' \in Seq(Nat) /\ Len(frames') \in Nat /\ Len(stack') \in Nat
         /\ Marks'[Len(frames') + 1] = Len(stack') /\ \A i \in 1 .. Len(frames') : Marks'[i] = frames'[i]
         /\ Numbers(Marks', Len(frames'))
<1>1. frames' \in Seq(Nat) /\ Len(frames') \in Nat /\ Len(stack') \in Nat
  BY DEF IInv, StacksInv
<1> QED BY <1>1, AppendAre DEF Marks

\* Where no more is noted for a missing `true', there is nothing to show.
LEMMA Sparing ==
  ASSUME IInv', NEW p \in Progs, NEW to \in Nat, NEW b \in Nat, b < Len(frames'),
         Sits(p, to, b, Len(frames'), Marks'), Act'.prog = p, Act'.pc = to,
         to \in DOMAIN Code[p] => Heights[p][to].spare = 0
  PROVE  Extra'
<1> DEFINE m == Len(frames')
           fs == Heights[p][to].frames
           n == Len(fs)
<1> SUFFICES ASSUME to \in DOMAIN Code[p]
             PROVE  Frame' + fs[n] + Heights[p][to].spare <= Len(stack')
  BY DEF Extra
<1>1. fs \in Seq(Nat) /\ n \in Nat
  BY NotesAre
<1>2. n = m - b /\ Laid(fs, Marks', b) /\ m \in Nat
  BY NextMarks DEF Sits
<1>3. Marks'[m + 1] = Len(stack') /\ Marks'[m] = Frame' /\ Frame' \in Nat
  <2>1. m \in 1 .. m /\ frames' \in Seq(Nat)
    BY <1>2, NextMarks
  <2>2. Frame' = frames'[m] /\ frames'[m] \in Nat
    BY <2>1 DEF Frame
  <2> QED BY <2>1, <2>2, NextMarks
<1> HIDE DEF m, fs
<1>4. n \in DOMAIN fs /\ fs[n] \in Nat /\ b + n = m /\ b + n + 1 = m + 1
  <2>1. n >= 1
    BY <1>1, <1>2 DEF m
  <2> QED BY <1>1, <1>2, <2>1
<1>5. Frame' + fs[n] <= Len(stack')
  BY <1>2, <1>3, <1>4, Zenon DEF Laid
<1>6. Heights[p][to].spare = 0 /\ Frame' + fs[n] + 0 = Frame' + fs[n]
  BY <1>3, <1>4 DEF fs
<1> QED BY <1>5, <1>6, Zenon DEF fs

LEMMA PushFrameKeepsHeights == ASSUME FInv, HInv, IInv', PushFrame PROVE HInv'
<1> DEFINE p == Act.prog
           i == Act.pc
           b == Act.prev_frame
           fs == Note.frames
           n == Len(fs)
           m == Len(frames)
           hs == Append([fs EXCEPT ![n] = @ - Ins.a], Ins.a)
<1>1. AtWork /\ Ins.op = "PUSH_FRAME"
  BY DEF PushFrame, At, AtWork
<1>2. Fitting /\ Costs(Ins.a + 1, 0)
  BY <1>1, Verified, MoveCosts
<1>3. /\ Ins.a \in Nat /\ Ins.a + 1 <= Len(stack) - Frame /\ Frame \in Nat /\ Len(stack) \in Nat /\ m \in Nat
      /\ i + 1 \in Nat /\ stack \in Seq(Sound)
  BY <1>1, <1>2, Fits, Levels, Depth DEF JumpCodes, FInv
<1>4. PushFrameOn(stack, Ins.a) /\ Advance /\ stack' = stack
  BY <1>3 DEF PushFrame, Underflow, Check
<1>5. /\ Len(frames') = m + 1 /\ frames'[m + 1] = Len(stack) - Ins.a
      /\ \A j \in 1 .. m : frames'[j] = frames[j]
  <2>1. Frame <= Len(stack) - Ins.a
    BY <1>3
  <2> QED BY <1>3, <1>4, <2>1, FramePushed
<1>6. /\ p \in Progs /\ i \in DOMAIN Code[p] /\ b \in Nat /\ fs \in Seq(Nat) /\ n \in Nat /\ n >= 1 /\ m = b + n
      /\ Laid(fs, Marks, b) /\ Note.over \in Nat /\ Len(stack) <= MaxStack + Note.over
      /\ Ins = Code[p][i] /\ Note = Heights[p][i]
  BY <1>1, Annotated DEF Ins, Note
<1>7. /\ Numbers(Marks', m + 1) /\ \A j \in 1 .. m : Marks'[j] = Marks[j]
      /\ Marks'[m + 1] = Marks[m + 1] - Ins.a /\ Marks'[m + 2] = Marks[m + 1] /\ Marks[m + 1] = Len(stack)
  <2>1. /\ Numbers(Marks', m + 1) /\ \A j \in 1 .. m + 1 : Marks'[j] = frames'[j]
        /\ Marks'[m + 1 + 1] = Len(stack)
    BY <1>4, <1>5, NextMarks
  <2>2. Marks[m + 1] = Len(stack) /\ \A j \in 1 .. m : Marks[j] = frames[j]
    BY MarksAre
  <2>3. m + 1 + 1 = m + 2 /\ m + 1 \in 1 .. m + 1 /\ \A j \in 1 .. m : j \in 1 .. m + 1
    BY <1>3
  <2> QED BY <1>5, <2>1, <2>2, <2>3
<1>8. Goto(i + 1) /\ exc' = exc /\ Turned(i + 1)
  BY <1>1, <1>3, <1>4, GotoTurns DEF Advance
<1>9. Agrees(p, i) /\ i + 1 \in Follow(Ins, i) /\ 0 \in Balance(Ins)
  BY <1>1, <1>2, Annotated DEF Costs
<1>10. /\ hs = After(Ins, fs, 0 + Unspared(Ins, i, i + 1, Note.spare))
       /\ OverAfter(Ins, Note.over, 0) = Note.over + 0 /\ Note.over + 0 = Note.over
  BY <1>1, <1>6 DEF After, OverAfter, Tested
<1>11. Numbers(Marks, m)
  BY MarksAre
<1>12. n = Len(fs)
  OBVIOUS
<1> HIDE DEF p, i, b, n, m, hs
<1>13. hs \in Seq(Int) /\ Len(hs) = n + 1 /\ Laid(hs, Marks', b)
  <2>1. hs = Append([fs EXCEPT ![n] = @ - Ins.a], Ins.a)
    BY DEF hs
  <2> HIDE DEF fs
  <2>2. Divided(fs, n, Ins.a, b, m, Marks, Marks', hs)
    BY <1>3, <1>6, <1>7, <1>11, <1>12, <2>1, Zenon DEF Divided
  <2> QED BY <2>2, LaidPush
<1>14. /\ Sits(p, i + 1, b, m + 1, Marks') /\ Len(stack') <= MaxStack + Overshoot
       /\ i + 1 \in DOMAIN Code[p] => Heights[p][i + 1].spare <= Spared(Ins)
  <2>1. /\ Len(Heights[p][i].frames) > 0 /\ m + 1 = b + Len(hs) /\ Len(hs) > 0 /\ m + 1 \in Nat
        /\ Marks'[m + 2] <= MaxStack + OverAfter(Ins, Note.over, 0) /\ 0 \in Int
    <3>1. Len(Heights[p][i].frames) = n
      BY <1>6, <1>12
    <3>2. m + 1 = b + (n + 1) /\ n + 1 > 0 /\ m + 1 \in Nat /\ n > 0 /\ 0 \in Int
      BY <1>3, <1>6
    <3>3. Marks'[m + 2] = Len(stack) /\ OverAfter(Ins, Note.over, 0) = Note.over
      BY <1>7, <1>10, Zenon
    <3> QED BY <1>6, <1>13, <3>1, <3>2, <3>3, Zenon
  <2>2. m + 1 + 1 = m + 2
    BY <1>3
  <2>3. Marks'[m + 1 + 1] <= MaxStack + OverAfter(Code[p][i], Heights[p][i].over, 0)
    BY <1>6, <2>1, <2>2
  <2>4. hs = After(Code[p][i], Heights[p][i].frames, 0 + Unspared(Code[p][i], i, i + 1, Heights[p][i].spare))
    BY <1>6, <1>10
  <2>5. i + 1 \in Follow(Code[p][i], i) /\ 0 \in Balance(Code[p][i])
    BY <1>6, <1>9
  <2>6. Landing(p, i, i + 1, 0, hs, b, m + 1, Marks')
    BY <1>3, <1>6, <1>7, <1>13, <2>1, <2>3, <2>4, <2>5, Zenon DEF Landing
  <2>7. Marks'[m + 1 + 1] = Len(stack')
    BY <1>4, <1>7, <2>2
  <2> QED BY <1>6, <2>6, <2>7, LandsOn
<1>15. Act.prev_frame < Len(frames') /\ \A j \in 1 .. Act.prev_frame + 1 : frames'[j] = frames[j]
  <2>1. b < m + 1 /\ \A j \in 1 .. b + 1 : j \in 1 .. m
    BY <1>3, <1>6
  <2> QED BY <1>5, <2>1 DEF b
<1>16. Extra'
  <2>1. Act'.prog = p /\ Act'.pc = i + 1
    BY <1>1, <1>3, <1>8, NextAct DEF p
  <2>2. i + 1 \in DOMAIN Code[p] => Heights[p][i + 1].spare = 0
    <3>1. Spared(Ins) = 0
      BY <1>1 DEF Spared
    <3> QED BY <1>6, <1>14, <3>1, NotesAre
  <2>3. Sits(p, i + 1, b, Len(frames'), Marks')
    BY <1>5, <1>14
  <2> QED BY <1>3, <1>6, <1>15, <2>1, <2>2, <2>3, Sparing DEF b
<1>17. StackBounded' /\ NoUnderflow'
  BY <1>1, <1>8, <1>14, Quiet DEF StackBounded
<1> QED BY <1>1, <1>3, <1>5, <1>8, <1>14, <1>15, <1>16, <1>17, RunStays DEF p, b

LEMMA Shortened ==
  ASSUME NEW S, NEW s \in Seq(S), NEW n \in Int, n \in Nat, n <= Len(s)
  PROVE  /\ SubSeq(s, 1, n) \in Seq(S) /\ Len(SubSeq(s, 1, n)) = n
         /\ \A j \in 1 .. n : SubSeq(s, 1, n)[j] = s[j]
OBVIOUS

LEMMA PopFrameKeepsHeights == ASSUME FInv, HInv, IInv', PopFrame PROVE HInv'
<1> DEFINE p == Act.prog
           i == Act.pc
           b == Act.prev_frame
           fs == Note.frames
           n == Len(fs)
           m == Len(frames)
           hs == [SubSeq(fs, 1, n - 1) EXCEPT ![n - 1] = @ + fs[n]]
<1>1. AtWork /\ Ins.op = "POP_FRAME"
  BY DEF PopFrame, At, AtWork
<1>2. Fitting /\ Costs(0, 0) /\ n > 1 /\ b + 1 < m
  BY <1>1, Verified, OtherCosts
<1>3. /\ Frame \in Nat /\ Len(stack) \in Nat /\ Frame <= Len(stack) /\ frames # << >> /\ m \in Nat
      /\ i + 1 \in Nat /\ frames \in Seq(Nat)
  BY <1>2, Fits, Levels
<1>4. frames' = SubSeq(frames, 1, m - 1) /\ Advance /\ stack' = stack
  BY <1>3 DEF PopFrame, Check
<1>5. Len(frames') = m - 1 /\ \A j \in 1 .. m - 1 : frames'[j] = frames[j]
  <2>1. b \in Nat
    BY <1>1, Annotated
  <2> DEFINE k == m - 1
  <2>2. k \in Nat /\ k <= Len(frames) /\ frames' = SubSeq(frames, 1, k)
    BY <1>2, <1>3, <1>4, <2>1
  <2> HIDE DEF k
  <2>3. Len(frames') = k /\ \A j \in 1 .. k : frames'[j] = frames[j]
    BY <1>3, <2>2, Shortened
  <2> QED BY <2>3 DEF k
<1>6. /\ p \in Progs /\ i \in DOMAIN Code[p] /\ b \in Nat /\ fs \in Seq(Nat) /\ n \in Nat /\ n >= 1 /\ m = b + n
      /\ Laid(fs, Marks, b) /\ Note.over \in Nat /\ Len(stack) <= MaxStack + Note.over
      /\ Ins = Code[p][i] /\ Note = Heights[p][i]
  BY <1>1, Annotated DEF Ins, Note
<1>7. /\ Numbers(Marks', m - 1) /\ \A j \in 1 .. m - 1 : Marks'[j] = Marks[j]
      /\ Marks'[m] = Marks[m + 1] /\ Marks[m + 1] = Len(stack)
  <2>1. /\ Numbers(Marks', m - 1) /\ \A j \in 1 .. m - 1 : Marks'[j] = frames'[j]
        /\ Marks'[m - 1 + 1] = Len(stack)
    BY <1>4, <1>5, NextMarks
  <2>2. Marks[m + 1] = Len(stack) /\ \A j \in 1 .. m : Marks[j] = frames[j]
    BY MarksAre
  <2>3. m - 1 + 1 = m /\ \A j \in 1 .. m - 1 : j \in 1 .. m
    BY <1>3
  <2> QED BY <1>5, <2>1, <2>2, <2>3
<1>8. Goto(i + 1) /\ exc' = exc /\ Turned(i + 1)
  BY <1>1, <1>3, <1>4, GotoTurns DEF Advance
<1>9. Agrees(p, i) /\ i + 1 \in Follow(Ins, i) /\ 0 \in Balance(Ins)
  BY <1>1, <1>2, Annotated DEF Costs
<1>10. /\ hs = After(Ins, fs, 0 + Unspared(Ins, i, i + 1, Note.spare))
       /\ OverAfter(Ins, Note.over, 0) = Note.over + 0 /\ Note.over + 0 = Note.over
  BY <1>1, <1>6 DEF After, OverAfter, Tested
<1>11. Numbers(Marks, m)
  BY MarksAre
<1>12. n = Len(fs)
  OBVIOUS
<1> HIDE DEF p, i, b, n, m, hs
<1>13. hs \in Seq(Int) /\ Len(hs) = n - 1 /\ Laid(hs, Marks', b)
  <2>1. hs = [SubSeq(fs, 1, n - 1) EXCEPT ![n - 1] = @ + fs[n]]
    BY DEF hs
  <2> HIDE DEF fs
  <2>2. Merged(fs, n, b, m, Marks, Marks', hs)
    BY <1>2, <1>3, <1>6, <1>7, <1>11, <1>12, <2>1, Zenon DEF Merged
  <2> QED BY <2>2, LaidPop
<1>14. /\ Sits(p, i + 1, b, m - 1, Marks') /\ Len(stack') <= MaxStack + Overshoot
       /\ i + 1 \in DOMAIN Code[p] => Heights[p][i + 1].spare <= Spared(Ins)
  <2>1. /\ Len(Heights[p][i].frames) > 0 /\ m - 1 = b + Len(hs) /\ Len(hs) > 0 /\ m - 1 \in Nat
        /\ Marks'[m] <= MaxStack + OverAfter(Ins, Note.over, 0) /\ 0 \in Int
    <3>1. Len(Heights[p][i].frames) = n
      BY <1>6, <1>12
    <3>2. m - 1 = b + (n - 1) /\ n - 1 > 0 /\ m - 1 \in Nat /\ n > 0 /\ 0 \in Int
      <4>1. b \in Nat /\ n \in Nat /\ m = b + n
        BY <1>6, Zenon
      <4>2. n > 1
        BY <1>2, Zenon
      <4> QED BY <4>1, <4>2
    <3>3. Marks'[m] = Len(stack) /\ OverAfter(Ins, Note.over, 0) = Note.over
      BY <1>7, <1>10, Zenon
    <3> QED BY <1>6, <1>13, <3>1, <3>2, <3>3, Zenon
  <2>2. m - 1 + 1 = m
    BY <1>3
  <2>3. Marks'[m - 1 + 1] <= MaxStack + OverAfter(Code[p][i], Heights[p][i].over, 0)
    BY <1>6, <2>1, <2>2
  <2>4. hs = After(Code[p][i], Heights[p][i].frames, 0 + Unspared(Code[p][i], i, i + 1, Heights[p][i].spare))
    BY <1>6, <1>10
  <2>5. i + 1 \in Follow(Code[p][i], i) /\ 0 \in Balance(Code[p][i])
    BY <1>6, <1>9
  <2>6. Landing(p, i, i + 1, 0, hs, b, m - 1, Marks')
    BY <1>3, <1>6, <1>7, <1>13, <2>1, <2>3, <2>4, <2>5, Zenon DEF Landing
  <2>7. Marks'[m - 1 + 1] = Len(stack')
    BY <1>4, <1>7, <2>2
  <2> QED BY <1>6, <2>6, <2>7, LandsOn
<1>15. Act.prev_frame < Len(frames') /\ \A j \in 1 .. Act.prev_frame + 1 : frames'[j] = frames[j]
  <2>1. b < m - 1 /\ \A j \in 1 .. b + 1 : j \in 1 .. m - 1
    BY <1>2, <1>3, <1>6
  <2> QED BY <1>5, <2>1 DEF b
<1>16. Extra'
  <2>1. Act'.prog = p /\ Act'.pc = i + 1
    BY <1>1, <1>3, <1>8, NextAct DEF p
  <2>2. i + 1 \in DOMAIN Code[p] => Heights[p][i + 1].spare = 0
    <3>1. Spared(Ins) = 0
      BY <1>1 DEF Spared
    <3> QED BY <1>6, <1>14, <3>1, NotesAre
  <2>3. Sits(p, i + 1, b, Len(frames'), Marks')
    BY <1>5, <1>14
  <2> QED BY <1>3, <1>6, <1>15, <2>1, <2>2, <2>3, Sparing DEF b
<1>17. StackBounded' /\ NoUnderflow'
  BY <1>1, <1>8, <1>14, Quiet DEF StackBounded
<1> QED BY <1>1, <1>3, <1>5, <1>8, <1>14, <1>15, <1>16, <1>17, RunStays DEF p, b
-----------------------------------------------------------------------------
(***************************************************************************)
(* The start of a run.                                                     *)
(***************************************************************************)
\* The runs below a step that leaves the beginning of the frames alone.
LEMMA LowerRunsStay ==
  ASSUME FInv, HInv, IInv', NEW k \in 1 .. Len(calls), calls'[k] = calls[k],
         LastFrame(k)' = LastFrame(k), \A i \in 1 .. LastFrame(k) + 1 : Marks'[i] = Marks[i]
  PROVE  Noted(k)'
<1>1. calls[k].prog \in Progs /\ calls[k].prev_frame \in Nat /\ LastFrame(k) \in Nat
  BY RunsAre
<1>2. Noted(k)
  BY DEF HInv
<1>3. calls'[k].prog = calls[k].prog /\ calls'[k].pc = calls[k].pc /\ calls'[k].prev_frame = calls[k].prev_frame
  OBVIOUS
<1> QED BY <1>1, <1>2, <1>3, NotedStays

\* What is noted of the beginning of a program.
LEMMA AtFirst ==
  ASSUME NEW q \in Progs
  PROVE  /\ NArgs[q] \in Nat /\ MaxStack \in Nat /\ NArgs[q] <= MaxStack + Allowed(q, 1)
         /\ 1 \in DOMAIN Code[q] =>
              /\ Heights[q][1].frames \in Seq(Nat) /\ Len(Heights[q][1].frames) = 1
              /\ Heights[q][1].frames[1] \in Nat /\ Heights[q][1].frames[1] <= NArgs[q]
              /\ Heights[q][1].spare = 0
         /\ Allowed(q, 1) \in Nat /\ Allowed(q, 1) <= Overshoot
<1> DEFINE fs == Heights[q][1].frames
<1>1. NArgs[q] \in Nat /\ Starts(q) /\ MaxStack \in Nat
  BY StartsWell, MachineAssumption
<1>2. ASSUME 1 \in DOMAIN Code[q]
      PROVE  /\ fs \in Seq(Nat) /\ Len(fs) = 1 /\ fs[1] \in Nat /\ fs[1] <= NArgs[q]
             /\ Heights[q][1].spare = 0
  <2>1. fs \in Seq(Nat) /\ Covers(fs, <<NArgs[q]>>) /\ Heights[q][1].spare = 0
    BY <1>1, <1>2, NotesAre DEF Starts
  <2> HIDE DEF fs
  <2>2. Len(fs) = 1 /\ fs[1] \in Nat /\ fs[1] <= NArgs[q]
    <3>1. \A x : Len(<<x>>) = 1 /\ <<x>>[1] = x
      OBVIOUS
    <3>2. Len(fs) = 1
      BY <2>1, <3>1, Zenon DEF Covers
    <3>3. 1 \in DOMAIN fs /\ fs[1] \in Nat
      <4>1. \A t \in Seq(Nat) : DOMAIN t = 1 .. Len(t) /\ \A i \in 1 .. Len(t) : t[i] \in Nat
        OBVIOUS
      <4>2. 1 \in 1 .. 1
        OBVIOUS
      <4> QED BY <2>1, <3>2, <4>1, <4>2, Zenon
    <3> DEFINE gs == <<NArgs[q]>>
    <3>4. gs[1] = NArgs[q] /\ Covers(fs, gs)
      BY <2>1
    <3> HIDE DEF gs
    <3>5. fs[1] <= NArgs[q]
      BY <3>3, <3>4, Zenon DEF Covers
    <3> QED BY <3>2, <3>3, <3>5
  <2> QED BY <2>1, <2>2
<1> HIDE DEF fs
<1>3. Allowed(q, 1) \in Nat /\ Allowed(q, 1) <= Overshoot
  <2>1. 1 \in DOMAIN Code[q] => Len(fs) > 0
    BY <1>2
  <2> QED BY <2>1, AllowedIsNat DEF fs
<1> QED BY <1>1, <1>2, <1>3 DEF Starts, fs

\* A program finds its arguments in its frame.
LEMMA SitsAtFirst ==
  ASSUME NEW q \in Progs, NEW m \in Nat, NEW marks, NEW h \in Nat, marks[m + 1] = h, marks[m + 2] = h + NArgs[q],
         h + NArgs[q] <= MaxStack + Allowed(q, 1)
  PROVE  /\ Sits(q, 1, m, m + 1, marks) /\ h + NArgs[q] <= MaxStack + Overshoot
         /\ 1 \in DOMAIN Code[q] => Heights[q][1].spare = 0
<1> DEFINE fs == Heights[q][1].frames
<1>1. NArgs[q] \in Nat /\ MaxStack \in Nat
  BY AtFirst
<1>2. ASSUME 1 \in DOMAIN Code[q]
      PROVE  /\ Len(fs) = 1 /\ Heights[q][1].spare = 0 /\ Laid(fs, marks, m)
             /\ Allowed(q, 1) = Heights[q][1].over
  <2>1. fs \in Seq(Nat) /\ Len(fs) = 1 /\ fs[1] \in Nat /\ fs[1] <= NArgs[q] /\ Heights[q][1].spare = 0
    BY <1>2, AtFirst
  <2> HIDE DEF fs
  <2>2. DOMAIN fs = {1}
    BY <2>1
  <2>3. h + fs[1] <= h + NArgs[q] /\ m + 1 + 1 = m + 2
    BY <1>1, <2>1
  <2>4. Laid(fs, marks, m)
    BY <2>2, <2>3 DEF Laid
  <2> QED BY <1>2, <2>1, <2>4 DEF Allowed
<1>3. Allowed(q, 1) \in Nat /\ Allowed(q, 1) <= Overshoot
  BY AtFirst
<1>4. h + NArgs[q] <= MaxStack + Overshoot
  BY <1>1, <1>3, LimitsAreNat
<1>5. m + 1 - m = 1 /\ m + 1 + 1 = m + 2
  OBVIOUS
<1>6. Sits(q, 1, m, m + 1, marks)
  BY <1>2, <1>5 DEF Sits
<1> QED BY <1>2, <1>4, <1>6

LEMMA EnterKeepsHeights ==
  ASSUME FInv, HInv, IInv', NEW q \in Progs, NEW c, NEW s \in Seq(Sound), Len(s) = Len(stack),
         NEW args \in Seq(Sound), Len(args) = NArgs[q], Enter(q, c, s, args),
         Len(stack) + NArgs[q] <= MaxStack + Allowed(q, 1), exc' = NoException,
         calls # << >> => Act.pc \in DOMAIN Code[Act.prog] /\ Ins.op = "INVOKE"
  PROVE  HInv'
<1> DEFINE m == Len(frames)
           act == [prog |-> q, pc |-> 1, closure |-> c, prev_frame |-> m,
                   base |-> Len(s), returned |-> FALSE, value |-> Null]
<1>0. PICK n \in Nat : n = Len(calls)
  BY Depth DEF FInv
<1>1. /\ calls \in Seq(Activations) /\ frames \in Seq(Nat) /\ m \in Nat /\ Len(stack) \in Nat /\ Frame <= Len(stack)
      /\ Frame \in Nat
  BY Levels DEF FInv, IInv, CallsInv
<1>2. PushFrameOn(s, 0) /\ stack' = s \o args /\ calls' = Append(calls, act)
  BY DEF Enter
<1>3. /\ Len(frames') = m + 1 /\ frames'[m + 1] = Len(stack) /\ \A i \in 1 .. m : frames'[i] = frames[i]
  <2>1. Frame <= Len(s) - 0 /\ Len(s) - 0 = Len(stack)
    BY <1>1
  <2> QED BY <1>1, <1>2, <2>1, FramePushed
<1>4. Len(stack') = Len(stack) + NArgs[q]
  <2>1. Len(s \o args) = Len(s) + Len(args)
    OBVIOUS
  <2> QED BY <1>2, <2>1
<1>5. act.prog = q /\ act.pc = 1 /\ act.prev_frame = m /\ act.base = Len(stack)
  OBVIOUS
<1> HIDE DEF act
<1>6. Len(calls') = n + 1 /\ calls'[n + 1] = act /\ \A k \in 1 .. n : calls'[k] = calls[k]
  BY <1>0, <1>1, <1>2
<1>7. /\ Marks'[m + 1] = Len(stack) /\ Marks'[m + 2] = Len(stack) + NArgs[q]
      /\ \A i \in 1 .. m + 1 : Marks'[i] = Marks[i]
  <2>0. \A l \in Nat : l + 1 + 1 = l + 2 /\ l + 1 \in 1 .. l + 1 /\ \A i \in 1 .. l + 1 : i \in 1 .. l \/ i = l + 1
    OBVIOUS
  <2>1. m + 1 + 1 = m + 2 /\ m + 1 \in 1 .. m + 1 /\ \A i \in 1 .. m + 1 : i \in 1 .. m \/ i = m + 1
    BY <1>1, <2>0
  <2>5. \A i \in 1 .. m : i \in 1 .. m + 1
    BY <1>1
  <2>2. Marks'[m + 1 + 1] = Len(stack') /\ \A i \in 1 .. m + 1 : Marks'[i] = frames'[i]
    BY <1>3, NextMarks
  <2>3. Marks[m + 1] = Len(stack) /\ \A i \in 1 .. m : Marks[i] = frames[i]
    BY MarksAre
  <2> HIDE DEF m
  <2>4. \A i \in 1 .. m : Marks'[i] = Marks[i]
    BY <1>3, <2>2, <2>3, <2>5, Zenon DEF m
  <2> QED BY <1>3, <1>4, <2>1, <2>2, <2>3, <2>4, Zenon DEF m
<1>8. /\ Sits(q, 1, m, m + 1, Marks') /\ Len(stack') <= MaxStack + Overshoot
      /\ 1 \in DOMAIN Code[q] => Heights[q][1].spare = 0
  BY <1>1, <1>4, <1>7, SitsAtFirst
<1> HIDE DEF m
<1>9. ASSUME NEW k \in 1 .. n
      PROVE  Noted(k)'
  <2>1. LastFrame(k) \in Nat /\ LastFrame(k) <= m /\ k \in 1 .. Len(calls)
    BY <1>0, RunsAre DEF m
  <2>2. LastFrame(k)' = LastFrame(k)
    <3>1. LastFrame(k)' = calls'[k + 1].prev_frame
      BY <1>0, <1>6 DEF LastFrame
    <3>2. CASE k = n
      BY <1>0, <1>5, <1>6, <3>1, <3>2 DEF LastFrame, m
    <3>3. CASE k # n
      <4>1. k + 1 \in 1 .. n
        BY <1>0, <3>3
      <4> QED BY <1>0, <1>6, <3>1, <3>3, <4>1 DEF LastFrame
    <3> QED BY <3>2, <3>3
  <2>3. \A i \in 1 .. LastFrame(k) + 1 : i \in 1 .. m + 1
    BY <1>1, <2>1
  <2> QED BY <1>6, <1>7, <2>1, <2>2, <2>3, LowerRunsStay
<1>10. Noted(n + 1)'
  <2>1. LastFrame(n + 1)' = m + 1
    BY <1>3, <1>6 DEF LastFrame
  <2> QED BY <1>5, <1>6, <1>8, <2>1 DEF Noted
<1>11. (\A k \in 1 .. Len(calls) : Noted(k))'
  <2>1. \A k \in 1 .. n + 1 : k \in 1 .. n \/ k = n + 1
    OBVIOUS
  <2>2. \A k \in 1 .. n + 1 : Noted(k)'
    BY <1>9, <1>10, <2>1
  <2> QED BY <1>6, <2>2
<1>12. calls' # << >> /\ Act'.prog = q /\ Act'.pc = 1
  <2>1. calls' # << >>
    BY <1>0, <1>6
  <2> QED BY <1>5, <1>6, <2>1 DEF Act
<1>13. Extra'
  <2>1. m < Len(frames') /\ 1 \in Nat
    BY <1>1, <1>3
  <2> QED BY <1>1, <1>3, <1>8, <1>12, <2>1, Sparing
<1>14. Waiting'
  <2>1. ASSUME NEW k \in 1 .. n
        PROVE  calls[k].pc \in DOMAIN Code[calls[k].prog] /\ Code[calls[k].prog][calls[k].pc].op = "INVOKE"
    <3>1. CASE k = n
      <4>1. calls # << >> /\ Act = calls[k]
        BY <1>0, <3>1 DEF Act
      <4> QED BY <4>1 DEF Ins
    <3>2. CASE k # n
      <4>1. k \in 1 .. Len(calls) - 1
        BY <1>0, <3>2
      <4> QED BY <4>1 DEF HInv, Waiting
    <3> QED BY <3>1, <3>2
  <2>2. Len(calls') - 1 = n
    BY <1>6
  <2> QED BY <1>6, <2>1, <2>2 DEF Waiting
<1>15. Grounded'
  <2>1. CASE n = 0
    <3>1. calls = << >> /\ calls'[1] = act
      <4>1. calls = << >>
        <5>1. \A S, t : t \in Seq(S) /\ Len(t) = 0 => t = << >>
          OBVIOUS
        <5> QED BY <1>0, <1>1, <2>1, <5>1
      <4>2. n + 1 = 1
        BY <2>1
      <4> QED BY <1>6, <4>1, <4>2
    <3> QED BY <1>5, <1>12, <3>1 DEF HInv, Grounded
  <2>2. CASE n # 0
    <3>1. calls # << >> /\ 1 \in 1 .. n
      BY <1>0, <1>1, <2>2
    <3> QED BY <1>6, <1>12, <3>1 DEF HInv, Grounded
  <2> QED BY <2>1, <2>2
<1>16. StackBounded' /\ NoUnderflow'
  BY <1>8 DEF StackBounded, NoUnderflow, NoException
<1> QED BY <1>11, <1>13, <1>14, <1>15, <1>16 DEF HInv

LEMMA HostRunKeepsHeights == ASSUME FInv, HInv, IInv', NEW p \in Entry, HostRun(p) PROVE HInv'
<1>1. PICK args \in [1 .. NArgs[p] -> Foreign] : Enter(p, 0, stack, args)
  BY DEF HostRun
<1>2. p \in Progs /\ NArgs[p] \in Nat /\ stack \in Seq(Sound) /\ Len(stack) = 0 /\ MaxStack \in Nat
  BY MachineAssumption, Depth DEF FInv, HInv, Grounded, HostRun
<1>3. args \in Seq(Sound) /\ Len(args) = NArgs[p]
  BY <1>2, HostHandsOver, Depth DEF Sound, FInv
<1>4. exc' = NoException
  BY DEF HostRun, FInv, IInv, ExceptionConfined
<1>5. Len(stack) + NArgs[p] <= MaxStack + Allowed(p, 1)
  BY <1>2, AtFirst
<1>6. calls = << >>
  BY DEF HostRun
<1> QED BY <1>1, <1>2, <1>3, <1>4, <1>5, <1>6, EnterKeepsHeights

\* A call finds its function, and throws nothing but INVALID_TYPE.
LEMMA InvokeThrows == ASSUME Invoke, 1 <= Len(stack) PROVE exc' = exc \/ exc' = [type |-> "INVALID_TYPE", ipc |-> Act.pc]
BY DEF Invoke, Underflow, Check, Throw, Advance

LEMMA InvokeKeepsHeights == ASSUME FInv, HInv, IInv', Invoke PROVE HInv'
<1>1. AtWork /\ Ins.op = "INVOKE" /\ (Throws \/ Calls)
  BY InvokeCases DEF FInv
<1>2. Fitting /\ Costs(1, 1)
  BY <1>1, Verified, OtherCosts
<1>3. 1 <= Len(stack) /\ Len(stack) \in Nat /\ Act.pc + 1 \in Nat
  BY <1>2, Fits
<1>4. exc = NoException /\ Act.pc # 0
  BY <1>1, Undisturbed DEF FInv
<1>5. CASE Throws
  <2>1. PICK type \in Exceptions : Throw(type)
    BY <1>5 DEF Throws
  <2>2. exc'.type = type
    BY <2>1 DEF Throw
  <2>3. type # "SYSTEM"
    <3>1. exc'.type \in {"NONE", "INVALID_TYPE"}
      BY <1>3, <1>4, InvokeThrows DEF NoException
    <3> QED BY <2>2, <3>1
  <2> QED BY <1>1, <2>1, <2>3, Stopping, StopsKeep
<1>6. ASSUME NEW s \in Seq(Sound), Prepared(s), Refused(s)
      PROVE  HInv'
  <2>1. Turned(0) /\ UNCHANGED frameVars /\ Len(stack') = Len(stack)
    BY <1>1, <1>6, GotoTurns DEF Refused, Prepared
  <2>2. exc'.type = "INVALID_TYPE"
    BY <1>6 DEF Refused
  <2>3. NoUnderflow'
    BY <2>2 DEF NoUnderflow
  <2> QED BY <1>1, <2>1, <2>3, HaltKeeps
<1>7. ASSUME NEW s \in Seq(Sound), Prepared(s), Answered(s)
      PROVE  HInv'
  <2>1. Goto(Act.pc + 1) /\ exc' = exc /\ UNCHANGED frameVars /\ Len(stack') = Len(stack) + 1
    BY <1>7 DEF Answered, Advance, Prepared
  <2>2. Ins.op \notin Tested
    BY <1>1, TestedAre
  <2>3. Act.pc + 1 \in Follow(Ins, Act.pc) /\ 1 \in Balance(Ins)
    BY <1>2 DEF Costs
  <2>4. Goes(Act.pc + 1, 1)
    BY <1>1, <1>3, <2>1, <2>2, <2>3 DEF Goes
  <2> QED BY <1>1, <1>3, <2>4, GoesKeep
<1>8. ASSUME NEW s \in Seq(Sound), Prepared(s), Entered(s)
      PROVE  HInv'
  <2>1. PICK c \in 1 .. Len(closures), args \in Seq(Sound) :
          Len(args) = NArgs[closures[c].prog] /\ Enter(closures[c].prog, c, s, args)
    BY <1>8 DEF Entered
  <2> DEFINE q == closures[c].prog
  <2>2. q \in Progs /\ NArgs[q] \in Nat /\ MaxStack \in Nat
    BY ClosuresHavePrograms, StartsWell, MachineAssumption DEF FInv
  <2>3. exc' = NoException /\ Len(s) = Len(stack)
    BY <1>4, <1>8 DEF Entered, Prepared
  <2>4. /\ Len(stack) <= MaxStack + Note.over /\ Note.over \in Nat /\ Note.over + NArgs[q] <= Allowed(q, 1)
        /\ Act.pc \in DOMAIN Code[Act.prog]
    <3>1. /\ Len(stack) <= MaxStack + Note.over /\ Note.over \in Nat /\ Len(Note.frames) >= 1
          /\ Agrees(Act.prog, Act.pc) /\ Act.pc \in DOMAIN Code[Act.prog]
      BY <1>1, Annotated
    <3>2. Note.over = 0
      BY <1>1, <3>1 DEF Agrees, Note, Ins
    <3>3. NArgs[q] <= Allowed(q, 1)
      BY <2>2, StartsWell DEF Starts
    <3> HIDE DEF q
    <3> QED BY <2>2, <3>1, <3>2, <3>3
  <2>5. Allowed(q, 1) \in Nat
    BY <2>2, AtFirst
  <2> HIDE DEF q
  <2>6. Len(stack) + NArgs[q] <= MaxStack + Allowed(q, 1)
    BY <1>3, <2>2, <2>4, <2>5
  <2> QED BY <1>1, <2>1, <2>2, <2>3, <2>4, <2>6, EnterKeepsHeights DEF q
<1> QED BY <1>1, <1>5, <1>6, <1>7, <1>8 DEF Calls
-----------------------------------------------------------------------------
(***************************************************************************)
(* The end of a run.                                                       *)
(***************************************************************************)
LEMMA EndOfHostRunKeepsHeights == ASSUME FInv, HInv, IInv', EndOfHostRun PROVE HInv'
<1>1. calls # << >> /\ End /\ stack' = Restored /\ calls' = << >> /\ Len(calls) = 1
  BY DEF EndOfHostRun, Ended
<1>2. Act = calls[1] /\ calls[1].base = 0
  BY <1>1 DEF Act, HInv, Grounded
<1>3. Len(stack') = 0
  BY <1>1, <1>2, Restoring
<1>4. (\A k \in 1 .. Len(calls) : Noted(k))' /\ Waiting'
  <2>1. Len(calls') = 0
    BY <1>1
  <2>2. \A k \in 1 .. 0 : FALSE
    OBVIOUS
  <2>3. \A k \in 1 .. 0 - 1 : FALSE
    OBVIOUS
  <2> QED BY <2>1, <2>2, <2>3 DEF Waiting
<1>5. Extra' /\ Grounded'
  BY <1>1, <1>3 DEF Extra, Grounded
<1>6. StackBounded' /\ NoUnderflow'
  BY <1>1, <1>3, MachineAssumption DEF StackBounded, NoUnderflow, End, NoException
<1> QED BY <1>4, <1>5, <1>6 DEF HInv

\* The runs below the one that ends are as they were, but the next goes on.
LEMMA EndOfCallRuns ==
  ASSUME FInv, EndOfCall, NEW n \in Nat, n = Len(calls) - 1
  PROVE  /\ n >= 1 /\ Len(calls') = n /\ Act = calls[n + 1] /\ n \in 1 .. Len(calls)
         /\ calls'[n].prog = calls[n].prog /\ calls'[n].prev_frame = calls[n].prev_frame
         /\ calls'[n].base = calls[n].base /\ calls'[n].pc = calls[n].pc + 1
         /\ calls'[n].returned = calls[n].returned
         /\ \A k \in 1 .. n : k # n => calls'[k] = calls[k]
<1>1. calls # << >> /\ Len(calls) > 1 /\ calls' = [SubSeq(calls, 1, n) EXCEPT ![n].pc = @ + 1]
  BY DEF EndOfCall, Ended
<1>2. calls \in Seq(Activations) /\ n >= 1 /\ Len(calls) = n + 1 /\ n \in 1 .. Len(calls) /\ n <= Len(calls)
  BY <1>1, Running DEF FInv
<1>3. calls[n] \in Activations
  BY <1>2
<1> DEFINE act == [calls[n] EXCEPT !.pc = @ + 1]
           below == SubSeq(calls, 1, n)
<1>4. /\ act.prog = calls[n].prog /\ act.prev_frame = calls[n].prev_frame
      /\ act.base = calls[n].base /\ act.pc = calls[n].pc + 1 /\ act.returned = calls[n].returned
  BY <1>3 DEF Activations
<1>5. below \in Seq(Activations) /\ Len(below) = n /\ \A k \in 1 .. n : below[k] = calls[k]
  BY <1>2, Shortened
<1>6. n \in 1 .. n
  BY <1>2
<1>7. calls' = [below EXCEPT ![n] = act]
  BY <1>1, <1>5, <1>6
<1> HIDE DEF act, below
<1>8. Len(calls') = n /\ calls'[n] = act /\ \A k \in 1 .. n : k # n => calls'[k] = calls[k]
  BY <1>5, <1>6, <1>7
<1> QED BY <1>2, <1>4, <1>8 DEF Act

LEMMA EndOfCallKeepsHeights == ASSUME FInv, HInv, IInv', EndOfCall PROVE HInv'
<1>0. PICK n \in Nat : n = Len(calls) - 1
  BY Depth DEF EndOfCall, FInv
<1> DEFINE p == calls[n].prog
           i == calls[n].pc
           b == calls[n].prev_frame
           m == Act.prev_frame
           fs == Heights[p][i].frames
           l == Len(fs)
           gs == [fs EXCEPT ![l] = @ + (1 + 0)]
<1>1. /\ n >= 1 /\ Len(calls') = n /\ Act = calls[n + 1] /\ n \in 1 .. Len(calls)
      /\ calls'[n].prog = p /\ calls'[n].prev_frame = b /\ calls'[n].base = calls[n].base /\ calls'[n].pc = i + 1
      /\ \A k \in 1 .. n : k # n => calls'[k] = calls[k]
  BY <1>0, EndOfCallRuns
<1>2. calls # << >> /\ End /\ stack' = Append(Restored, vals0)
  BY DEF EndOfCall, Ended
<1>3. /\ p \in Progs /\ i \in Nat /\ b \in Nat /\ m \in Nat /\ b < m /\ m < Len(frames) /\ LastFrame(n) = m
      /\ Len(frames) \in Nat
  <2>1. LastFrame(n) = m
    BY <1>0, <1>1 DEF LastFrame
  <2> QED BY <1>1, <1>2, <2>1, RunsAre, Floor, Levels
<1>4. i \in DOMAIN Code[p] /\ Code[p][i].op = "INVOKE"
  <2>1. n \in 1 .. Len(calls) - 1
    BY <1>0, <1>1
  <2> QED BY <2>1 DEF HInv, Waiting
<1>5. /\ l = m - b /\ Laid(fs, Marks, b) /\ Marks[m + 1] <= MaxStack + Heights[p][i].over
  BY <1>1, <1>3, <1>4 DEF HInv, Noted, Sits
<1>6. fs \in Seq(Nat) /\ l \in Nat /\ Heights[p][i].over \in Nat /\ MaxStack \in Nat
  BY <1>3, <1>4, NotesAre, MachineAssumption
<1>7. /\ Marks[m + 1] = Act.base /\ Act.base \in Nat
      /\ Numbers(Marks, m) /\ \A j \in 1 .. m : Marks[j] = frames[j]
  <2>1. m + 1 \in 1 .. Len(frames) /\ (\A j \in 1 .. m : j \in 1 .. Len(frames))
        /\ \A j \in 1 .. m + 1 : j \in 1 .. Len(frames) + 1
    BY <1>3
  <2>2. Numbers(Marks, m)
    BY <2>1, MarksAre DEF Numbers
  <2> QED BY <1>2, <2>1, <2>2, MarksAre, Floor
<1>8. Len(frames') = m /\ \A j \in 1 .. m : frames'[j] = frames[j]
  BY <1>2, Restoring DEF End
<1>9. Len(stack') = Act.base + 1
  <2>1. Restored \in Seq(Sound) /\ Len(Restored) = Act.base
    BY <1>2, Restoring
  <2> QED BY <1>2, <2>1
<1>10. /\ Marks'[m + 1] = Marks[m + 1] + 1 /\ Marks'[m + 1] = Len(stack') /\ Numbers(Marks', m)
       /\ \A j \in 1 .. m : Marks'[j] = Marks[j]
  BY <1>7, <1>8, <1>9, NextMarks
<1>11. exc' = NoException
  BY <1>2 DEF End
<1>12. l >= 1 /\ m = b + l /\ m + 1 \in Nat /\ i + 1 \in Nat /\ l = Len(fs)
  <2>1. l = Len(fs) /\ l \in Nat /\ l = m - b /\ m \in Nat /\ b \in Nat /\ i \in Nat /\ b < m
    BY <1>3, <1>5, <1>6, Zenon
  <2> HIDE DEF p, i, b, m, l, fs
  <2> QED BY <2>1
<1>13. i + 1 \in Follow(Code[p][i], i) /\ 1 \in Balance(Code[p][i]) /\ Spared(Code[p][i]) = 0
  BY <1>4 DEF Follow, Balance, Spared, JumpCodes, Tested, Untested, Combine, Drop, Binary, BinaryTyped
<1>14. /\ gs = After(Code[p][i], Heights[p][i].frames, 1 + Unspared(Code[p][i], i, i + 1, Heights[p][i].spare))
       /\ OverAfter(Code[p][i], Heights[p][i].over, 1) = Heights[p][i].over + 1
  BY <1>4 DEF After, Unspared, OverAfter, Tested
<1>15. Marks'[m + 1] <= MaxStack + OverAfter(Code[p][i], Heights[p][i].over, 1)
  <2>1. \A x, y, z \in Nat : x <= y + z => x + 1 <= y + (z + 1)
    OBVIOUS
  <2>2. Marks[m + 1] \in Nat
    BY <1>7, Zenon
  <2>3. Marks[m + 1] + 1 <= MaxStack + (Heights[p][i].over + 1)
    BY <1>5, <1>6, <2>1, <2>2, Zenon
  <2> QED BY <1>10, <1>14, <2>3, Zenon
<1> HIDE DEF p, i, b, m, l, gs
<1>16. gs \in Seq(Int) /\ Len(gs) = l /\ Laid(gs, Marks', b)
  <2>1. gs = [fs EXCEPT ![l] = @ + (1 + 0)] /\ 1 \in Int /\ 0 \in Int
    BY DEF gs
  <2> HIDE DEF fs
  <2>2. Marks[m] + fs[l] + 0 <= Marks[m + 1]
    <3>1. b + l = m /\ b + l + 1 = m + 1 /\ l \in DOMAIN fs /\ fs[l] \in Nat
      BY <1>3, <1>6, <1>12
    <3>2. Marks[m] + fs[l] <= Marks[m + 1]
      BY <1>5, <3>1, Zenon DEF Laid
    <3>3. Marks[m] \in Nat
      <4>1. m \in 1 .. m + 1
        BY <1>3
      <4> QED BY <1>7, <4>1, Zenon DEF Numbers
    <3>4. \A x, y \in Nat : x + y + 0 = x + y
      OBVIOUS
    <3>5. Marks[m] + fs[l] + 0 = Marks[m] + fs[l]
      BY <3>1, <3>3, <3>4, Zenon
    <3> QED BY <3>2, <3>5, Zenon
  <2>3. Raised(fs, l, 1, 0, b, m, Marks, Marks', gs)
    BY <1>3, <1>5, <1>6, <1>7, <1>10, <1>12, <2>1, <2>2, Zenon DEF Raised
  <2> QED BY <2>3, LaidOn
<1>17. /\ Sits(p, i + 1, b, m, Marks') /\ Len(stack') <= MaxStack + Overshoot
       /\ i + 1 \in DOMAIN Code[p] => Heights[p][i + 1].spare <= Spared(Code[p][i])
  <2>1. Len(Heights[p][i].frames) > 0 /\ m = b + Len(gs) /\ Len(gs) > 0 /\ 1 \in Int
    BY <1>12, <1>16
  <2>2. Landing(p, i, i + 1, 1, gs, b, m, Marks')
    BY <1>3, <1>4, <1>10, <1>12, <1>13, <1>14, <1>15, <1>16, <2>1, Zenon DEF Landing
  <2> QED BY <1>10, <2>2, LandsOn
<1>18. ASSUME NEW k \in 1 .. n, k # n
       PROVE  Noted(k)'
  <2>1. k + 1 \in 1 .. n /\ k \in 1 .. Len(calls) /\ k # Len(calls) /\ n \in 1 .. Len(calls)
    BY <1>0, <1>18, <1>1
  <2>2. LastFrame(k) = calls[k + 1].prev_frame /\ LastFrame(k) \in Nat
    BY <2>1, RunsAre DEF LastFrame
  <2>3. LastFrame(k)' = LastFrame(k)
    <3>1. LastFrame(k)' = calls'[k + 1].prev_frame
      BY <1>1, <1>18 DEF LastFrame
    <3> QED BY <1>1, <2>1, <2>2, <3>1 DEF b
  <2>4. LastFrame(k) < m
    <3>1. CASE k + 1 = n
      BY <1>3, <2>2, <3>1 DEF b
    <3>2. CASE k + 1 # n
      <4>1. k + 1 < n /\ k + 1 \in 1 .. Len(calls)
        BY <1>0, <2>1, <3>2
      <4>2. calls[k + 1].prev_frame < calls[n].prev_frame
        BY <2>1, <4>1 DEF FInv, OwnFrames
      <4> QED BY <1>3, <2>2, <4>2 DEF b
    <3> QED BY <3>1, <3>2
  <2>5. \A j \in 1 .. LastFrame(k) + 1 : j \in 1 .. m
    BY <1>3, <2>2, <2>4
  <2>6. \A j \in 1 .. LastFrame(k) + 1 : Marks'[j] = Marks[j]
    BY <1>10, <2>5
  <2> QED BY <1>1, <1>18, <2>1, <2>3, <2>6, LowerRunsStay
<1>19. Noted(n)'
  <2>1. LastFrame(n)' = m
    BY <1>1, <1>8 DEF LastFrame
  <2> QED BY <1>1, <1>17, <2>1 DEF Noted
<1>20. (\A k \in 1 .. Len(calls) : Noted(k))'
  BY <1>1, <1>18, <1>19
<1>21. calls' # << >> /\ Act'.prog = p /\ Act'.pc = i + 1
  <2>1. calls' # << >>
    BY <1>1
  <2> QED BY <1>1, <2>1 DEF Act
<1>22. Extra'
  <2>1. i + 1 \in DOMAIN Code[p] => Heights[p][i + 1].spare = 0
    BY <1>3, <1>13, <1>17, NotesAre
  <2> QED BY <1>3, <1>8, <1>12, <1>17, <1>21, <2>1, Sparing
<1>23. Waiting'
  <2>1. \A k \in 1 .. n - 1 : k \in 1 .. Len(calls) - 1 /\ k \in 1 .. n /\ k # n
    BY <1>0
  <2>2. \A k \in 1 .. n - 1 : calls'[k] = calls[k]
    BY <1>1, <2>1
  <2>3. \A k \in 1 .. n - 1 :
          calls[k].pc \in DOMAIN Code[calls[k].prog] /\ Code[calls[k].prog][calls[k].pc].op = "INVOKE"
    BY <2>1 DEF HInv, Waiting
  <2> QED BY <1>1, <2>2, <2>3 DEF Waiting
<1>24. Grounded'
  <2>1. calls[1].base = 0 /\ 1 \in 1 .. n
    BY <1>1, <1>2 DEF HInv, Grounded
  <2>2. calls'[1].base = 0
    BY <1>1, <2>1
  <2> QED BY <1>21, <2>2 DEF Grounded
<1>25. StackBounded' /\ NoUnderflow'
  BY <1>11, <1>17 DEF StackBounded, NoUnderflow, NoException
<1> QED BY <1>20, <1>22, <1>23, <1>24, <1>25 DEF HInv
-----------------------------------------------------------------------------
(***************************************************************************)
(* All steps.                                                              *)
(***************************************************************************)
LEMMA ObeysKeepsHeights ==
  ASSUME FInv, HInv, IInv', AtWork, Obeys, Ins.op \notin {"PUSH_FRAME", "POP_FRAME"}
  PROVE  HInv'
<1>1. CASE Stops
  BY <1>1, StopsKeep
<1>2. ASSUME NEW to \in Nat, NEW d \in Int, Goes(to, d)
      PROVE  HInv'
  BY <1>2, GoesKeep
<1> QED BY <1>1, <1>2 DEF Obeys

\* Only they are at the instructions that push and pop frames.
LEMMA FramesByOwnSteps ==
  ASSUME Step, AtWork, Ins.op \in {"PUSH_FRAME", "POP_FRAME"}
  PROVE  PushFrame \/ PopFrame
<1>1. ASSUME NEW ops, At(ops)
      PROVE  Ins.op \in ops
  BY <1>1 DEF At
<1>2. ~Runs
  BY <1>1 DEF Runs, EndOfCall, EndOfHostRun, Ended, AtWork, Invoke, Return, ReturnValue, At
<1>3. Control => PushFrame \/ PopFrame
  BY <1>1 DEF Control, Exception, ExceptionIfTypeIsNot, Nop, Jump, JumpCond, At
<1>4. ~Moves
  BY DEF Moves, Pop, Remove, PushEmpty, PushImmediate, Duplicate, DuplicateFrame, Exchange, ExchangeFrame, At
<1>5. ~Data
  BY DEF Data, PushValue, StoreValue, PushCapture, StoreCapture, Closure, At
<1>6. ~Typing
  BY DEF Typing, Type, TypeImmediate, TypeOf, Promote, ConvertType, At
<1>7. ~Operators
  BY DEF Operators, Equal, Compare, LogicalNot, LogicalBinary, Unary, Arithmetic, MinMax, At, Binary, BinaryTyped
<1>8. ~Objects
  BY DEF Objects, NewArray, LoadArrayElement, WriteArrayElement, GetInterface, GetGlobal, GetProperty, GetFunction,
         GetStaticFunction, SetProperty, GetStaticProperty, LookupProperty, GetAttribute, SetAttribute, At
<1> QED BY <1>2, <1>3, <1>4, <1>5, <1>6, <1>7, <1>8 DEF Step

LEMMA StepKeepsHeights == ASSUME FInv, HInv, IInv', Step PROVE HInv'
<1>1. CASE Framing
  BY <1>1, PushFrameKeepsHeights, PopFrameKeepsHeights, InvokeKeepsHeights, ReturnValueKeepsHeights,
     EndOfCallKeepsHeights, EndOfHostRunKeepsHeights DEF Framing
<1>2. CASE ~Framing
  <2>1. AtWork
    BY <1>2, StepsAreAtWork DEF Framing, FInv
  <2>2. Fitting
    BY <2>1, Verified
  <2>3. Obeys
    BY <1>2, <2>2, StepsObey
  <2>4. Ins.op \notin {"PUSH_FRAME", "POP_FRAME"}
    BY <1>2, <2>1, FramesByOwnSteps DEF Framing
  <2> QED BY <2>1, <2>3, <2>4, ObeysKeepsHeights
<1> QED BY <1>1, <1>2
LEMMA StutteringKeepsHeights == ASSUME HInv, UNCHANGED vars PROVE HInv'
<1>1. stack' = stack /\ frames' = frames /\ calls' = calls /\ exc' = exc
  BY DEF vars
<1>2. Marks' = Marks /\ Len(calls') = Len(calls) /\ \A k : LastFrame(k)' = LastFrame(k)
  BY <1>1 DEF Marks, LastFrame
<1>3. (\A k \in 1 .. Len(calls) : Noted(k))'
  BY <1>1, <1>2 DEF HInv, Noted, Sits
<1>4. Extra' /\ Waiting' /\ Grounded' /\ StackBounded' /\ NoUnderflow'
  BY <1>1 DEF HInv, Extra, Waiting, Grounded, StackBounded, NoUnderflow, Frame, Act, Bw
<1> QED BY <1>3, <1>4 DEF HInv

LEMMA NextKeepsHeights == ASSUME FInv, HInv, CallsFit, [Next]_vars PROVE FInv' /\ HInv'
<1>1. KeepsFrame
  BY Keeping
<1>2. FInv' /\ IInv'
  BY <1>1, NextDoes DEF FInv
<1>3. ASSUME NEW p \in Entry, HostRun(p)
      PROVE  HInv'
  BY <1>2, <1>3, HostRunKeepsHeights
<1>4. HInv'
  BY <1>2, <1>3, StepKeepsHeights, StutteringKeepsHeights DEF Next, Done
<1> QED BY <1>2, <1>4

LEMMA HeightsAtFirst == ASSUME Init PROVE HInv
<1>1. calls = << >> /\ stack = << >> /\ exc = NoException /\ Len(calls) = 0 /\ Len(stack) = 0
  BY DEF Init
<1>2. (\A k \in 1 .. Len(calls) : Noted(k)) /\ Extra /\ Waiting /\ Grounded
  BY <1>1 DEF Extra, Waiting, Grounded
<1>3. StackBounded /\ NoUnderflow
  BY <1>1, MachineAssumption DEF StackBounded, NoUnderflow, NoException
<1> QED BY <1>2, <1>3 DEF HInv

LEMMA HeightsHold == Spec /\ []CallsFit => [](FInv /\ HInv)
<1>1. Init => FInv /\ HInv
  BY FramesAtFirst, HeightsAtFirst
<1>2. FInv /\ HInv /\ CallsFit /\ [Next]_vars => FInv' /\ HInv'
  BY NextKeepsHeights
<1> QED BY <1>1, <1>2, PTL DEF Spec

(***************************************************************************)
(* What is noted of an instruction holds of every run that is at it, the   *)
(* runs that wait for a call included, whatever is called and thrown.      *)
(***************************************************************************)
THEOREM HeightsStay == Spec /\ []CallsFit => []HInv
BY HeightsHold, PTL

(***************************************************************************)
(* Code for which heights can be noted uses only values of its own frame,  *)
(* though the interpreter does not test it, as long as each function       *)
(* called finds its arguments in the frame that was set for the call.      *)
(***************************************************************************)
THEOREM OperandsAreInFrame == Spec /\ []CallsFit => []OperandsInFrame
<1>1. FInv /\ HInv /\ CallsFit => OperandsInFrame
  BY Keeping
<1> QED BY HeightsHold, <1>1, PTL

(***************************************************************************)
(* Such code never changes values below its frame, and POP_FRAME never     *)
(* takes the frame azo_program_interpret pushed for the run.               *)
(***************************************************************************)
THEOREM FramesAreKept == Spec /\ []CallsFit => []KeepsFrame
<1>1. FInv /\ HInv /\ CallsFit => KeepsFrame
  BY Keeping
<1> QED BY HeightsHold, <1>1, PTL

(***************************************************************************)
(* For such code the tests of the handlers for missing values never fail.  *)
(***************************************************************************)
THEOREM NothingIsMissing == Spec /\ []CallsFit => []NoUnderflow
<1>1. FInv /\ HInv => NoUnderflow
  BY DEF HInv
<1> QED BY HeightsHold, <1>1, PTL

(***************************************************************************)
(* And the value stack stays within its limit and the few values that are  *)
(* pushed without a test, however deep the calls go.                       *)
(***************************************************************************)
THEOREM StackStaysBounded == Spec /\ []CallsFit => []StackBounded
<1>1. FInv /\ HInv => StackBounded
  BY DEF HInv
<1> QED BY HeightsHold, <1>1, PTL

(***************************************************************************)
(* So what AzoFrameProofs shows of programs that keep to their frames      *)
(* holds of such code: frames in order, callers untouched, and every run   *)
(* returned to its caller as it left it.                                   *)
(***************************************************************************)
THEOREM VerifiedCodeIsSafe == Spec /\ []CallsFit => []FramesOrdered /\ CallerUntouched /\ ReturnsToCaller
BY FramesAreKept, FramesStayOrdered, CallersStayUntouched, RunsReturnToCaller, PTL
=============================================================================
