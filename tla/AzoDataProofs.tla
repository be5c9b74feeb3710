---------------------------- MODULE AzoDataProofs ----------------------------
(***************************************************************************)
(* Proof that the shared data of a program holds what the compiler and the *)
(* last closure put there.  Nothing in azo_datablock_set or in             *)
(* azo_compiled_function_bind sees to it: both write whatever entry they   *)
(* are told, and the test that should refuse a constant one is not made.   *)
(* So the hypothesis is about the code executed, CapturesFit: a closure    *)
(* binds as many values as the program has captures, and STORE_VALUE names *)
(* a capture.  The run `compiled' checks it of compiled code.              *)
(***************************************************************************)
EXTENDS AzoMachineProofs

(***************************************************************************)
(* Blocks.                                                                 *)
(***************************************************************************)
LEMMA BoundEntries ==
  ASSUME NEW m \in Nat, NEW block \in [1 .. m -> SoundEntries], NEW vs \in Seq(Sound), NEW j \in 1 .. m
  PROVE  /\ j <= Len(vs) => Bound(block, vs)[j] = SetTo(vs[j])
         /\ j > Len(vs) => Bound(block, vs)[j] = block[j]
BY DEF Bound

\* The blocks, and the places of captures and constants in them.
LEMMA BlocksAre ==
  ASSUME IInv, NEW p \in Progs
  PROVE  /\ SharedSize(p) \in Nat /\ NCaptures[p] \in Nat /\ Len(Constants[p]) \in Nat
         /\ DOMAIN Constants[p] = 1 .. Len(Constants[p])
         /\ shared[p] \in [1 .. SharedSize(p) -> SoundEntries]
         /\ \A i \in DOMAIN Constants[p] : NCaptures[p] + i \in 1 .. SharedSize(p) /\ NCaptures[p] + i > NCaptures[p]
         /\ \A i \in 1 .. NCaptures[p] : i \in 1 .. SharedSize(p)
<1>1. NCaptures[p] \in Nat /\ Constants[p] \in Seq(Values)
  BY MachineAssumption, CodeAssumption
<1>2. Len(Constants[p]) \in Nat /\ DOMAIN Constants[p] = 1 .. Len(Constants[p])
  BY <1>1
<1>3. SharedSize(p) = NCaptures[p] + Len(Constants[p])
  BY DEF SharedSize
<1>4. shared[p] \in [1 .. SharedSize(p) -> SoundEntries]
  BY DEF IInv, DataInv
<1> QED BY <1>1, <1>2, <1>3, <1>4

(***************************************************************************)
(* Steps that write no block.                                              *)
(***************************************************************************)
LEMMA SameBlocks == ASSUME BlocksIntact, UNCHANGED dataVars PROVE BlocksIntact'
<1>1. shared' = shared /\ closures' = closures
  BY DEF dataVars
<1>2. ConstantsKept'
  BY <1>1 DEF BlocksIntact, ConstantsKept
<1>3. CapturesKept'
  BY <1>1 DEF BlocksIntact, CapturesKept, Latest
<1> QED BY <1>2, <1>3 DEF BlocksIntact

LEMMA ThrowsLeavesData == ASSUME Throws PROVE UNCHANGED dataVars
BY DEF Throws, Throw

LEMMA InvokeLeavesData == ASSUME IInv, Invoke PROVE UNCHANGED dataVars
<1>1. Throws \/ Calls
  BY InvokeCases
<1>2. ASSUME NEW s \in Seq(Sound), Refused(s)
      PROVE  UNCHANGED dataVars
  BY <1>2 DEF Refused
<1>3. ASSUME NEW s \in Seq(Sound), Entered(s)
      PROVE  UNCHANGED dataVars
  BY <1>3 DEF Entered
<1>4. ASSUME NEW s \in Seq(Sound), Answered(s)
      PROVE  UNCHANGED dataVars
  BY <1>4 DEF Answered
<1> QED BY <1>1, <1>2, <1>3, <1>4, ThrowsLeavesData DEF Calls

Stores == StoreValue \/ StoreCapture \/ Closure

LEMMA OthersLeaveData ==
  ASSUME IInv, [Next]_vars
  PROVE  Stores \/ UNCHANGED dataVars
<1>1. CASE Step
  <2>1. CASE Ordinary
    BY <2>1, ThrowsLeavesData DEF Ordinary, Proceeds
  <2>2. CASE PushFrame
    BY <2>2, ThrowsLeavesData DEF PushFrame, Check, Throw, Underflow
  <2>3. CASE PopFrame
    BY <2>3 DEF PopFrame, Check, Throw
  <2>4. CASE ReturnValue
    BY <2>4 DEF ReturnValue, Underflow, Check, Throw
  <2>5. CASE Invoke
    BY <2>5, InvokeLeavesData
  <2>6. CASE EndOfCall
    BY <2>6 DEF EndOfCall, End, dataVars
  <2>7. CASE EndOfHostRun
    BY <2>7 DEF EndOfHostRun, End, dataVars
  <2>8. Stores \/ UNCHANGED dataVars
    BY <1>1, <2>1, <2>2, <2>3, <2>4, <2>5, <2>6, <2>7, Steps DEF Special, Stores
  <2> QED BY <2>8
<1>2. CASE \E p \in Entry : HostRun(p)
  BY <1>2 DEF HostRun
<1>3. CASE Done
  BY <1>3 DEF Done, vars, dataVars
<1>4. CASE UNCHANGED vars
  BY <1>4 DEF vars, dataVars
<1> QED BY <1>1, <1>2, <1>3, <1>4 DEF Next

(***************************************************************************)
(* STORE_VALUE.  It leaves a capture that is set, as those of a closure    *)
(* are, and never comes to a constant.                                     *)
(***************************************************************************)
LEMMA StoreValueStays == ASSUME IInv, CapturesFit, BlocksIntact, StoreValue PROVE BlocksIntact'
<1> DEFINE p == Act.prog
           i == Ins.a
           block == Stored(shared[p], i, Bw(stack, 0), NCaptures[p])
<1>1. AtWork /\ i \in Nat
  BY Operand DEF StoreValue, At, AtWork, JumpCodes
<1>2. i < NCaptures[p]
  BY DEF StoreValue, CapturesFit
<1>3. Throws \/ (shared' = [shared EXCEPT ![p] = block] /\ UNCHANGED closures)
  BY Throwing DEF StoreValue, Underflow, Check
<1>4. ASSUME shared' = [shared EXCEPT ![p] = block], UNCHANGED closures
      PROVE  BlocksIntact'
  <2>1. p \in Progs /\ DOMAIN shared = Progs
    BY <1>1, Located DEF IInv, DataInv
  <2>2. /\ SharedSize(p) \in Nat /\ NCaptures[p] \in Nat
        /\ shared[p] \in [1 .. SharedSize(p) -> SoundEntries]
    BY <2>1, BlocksAre
  <2>3. ASSUME NEW j \in 1 .. SharedSize(p), j # i + 1
        PROVE  block[j] = shared[p][j]
    BY <2>2, <2>3 DEF Stored
  <2>4. shared[p][i + 1].set = TRUE => block = shared[p]
    BY <1>2 DEF Stored
  <2> HIDE DEF block, i
  <2>5. shared'[p] = block /\ \A q \in Progs : q # p => shared'[q] = shared[q]
    BY <1>4, <2>1
  <2>6. ConstantsKept'
    <3>1. ASSUME NEW q \in Progs, NEW k \in DOMAIN Constants[q]
          PROVE  shared'[q][NCaptures[q] + k] = SetTo(Constants[q][k])
      <4>1. shared[q][NCaptures[q] + k] = SetTo(Constants[q][k])
        BY DEF BlocksIntact, ConstantsKept
      <4>2. CASE q # p
        BY <2>5, <4>1, <4>2
      <4>3. CASE q = p
        <5>1. NCaptures[p] + k \in 1 .. SharedSize(p) /\ NCaptures[p] + k > NCaptures[p]
          BY <2>1, <4>3, BlocksAre
        <5>2. NCaptures[p] + k # i + 1
          BY <1>1, <1>2, <2>2, <5>1
        <5> QED BY <2>3, <2>5, <4>1, <4>3, <5>1, <5>2
      <4> QED BY <4>2, <4>3
    <3> QED BY <3>1 DEF ConstantsKept
  <2>7. CapturesKept'
    <3>1. ASSUME NEW c \in DOMAIN closures, Latest(c), NEW k \in 1 .. NCaptures[closures[c].prog]
          PROVE  shared'[closures[c].prog][k] = SetTo(closures[c].snapshot[k])
      <4>1. \A j \in 1 .. NCaptures[closures[c].prog] :
              shared[closures[c].prog][j] = SetTo(closures[c].snapshot[j])
        BY <3>1 DEF BlocksIntact, CapturesKept
      <4>2. CASE closures[c].prog # p
        <5>1. closures[c].prog \in Progs
          BY ClosuresHavePrograms, Depth DEF IInv, DataInv
        <5> QED BY <2>5, <4>1, <4>2, <5>1
      <4>3. CASE closures[c].prog = p
        <5>1. i + 1 \in 1 .. NCaptures[p]
          BY <1>1, <1>2, <2>2
        <5>2. shared[p][i + 1].set = TRUE
          <6>1. shared[p][i + 1] = SetTo(closures[c].snapshot[i + 1])
            BY <4>1, <4>3, <5>1
          <6> QED BY <6>1 DEF SetTo
        <5> QED BY <2>4, <2>5, <4>1, <4>3, <5>2
      <4> QED BY <4>2, <4>3
    <3> QED BY <1>4, <3>1 DEF CapturesKept, Latest
  <2> QED BY <2>6, <2>7 DEF BlocksIntact
<1> QED BY <1>3, <1>4, ThrowsLeavesData, SameBlocks

(***************************************************************************)
(* STORE_CAPTURE.  What a closure keeps for itself is no part of a block.  *)
(***************************************************************************)
LEMMA StoreCaptureStays == ASSUME IInv, BlocksIntact, StoreCapture PROVE BlocksIntact'
<1> DEFINE c == Act.closure
           block == Stored(closures[c].static, Ins.a, Bw(stack, 0), Len(Constants[Act.prog]))
<1>1. Throws \/ (closures' = [closures EXCEPT ![c].static = block] /\ UNCHANGED shared)
  BY Throwing DEF StoreCapture, Underflow, Check
<1>2. ASSUME closures' = [closures EXCEPT ![c].static = block], UNCHANGED shared
      PROVE  BlocksIntact'
  <2> HIDE DEF block
  <2>1. closures \in Seq(Closures)
    BY DEF IInv, DataInv
  <2>2. DOMAIN closures' = DOMAIN closures
    BY <1>2, <2>1
  <2>3. ASSUME NEW d \in DOMAIN closures
        PROVE  closures'[d].prog = closures[d].prog /\ closures'[d].snapshot = closures[d].snapshot
    <3>1. closures[d] \in Closures
      BY <2>1
    <3> QED BY <1>2, <2>1, <3>1 DEF Closures
  <2>4. ConstantsKept'
    BY <1>2 DEF BlocksIntact, ConstantsKept
  <2>5. \A d \in DOMAIN closures : Latest(d)' => Latest(d)
    BY <2>2, <2>3 DEF Latest
  <2>6. ASSUME NEW d \in DOMAIN closures', Latest(d)', NEW k \in 1 .. NCaptures[closures'[d].prog]
        PROVE  shared'[closures'[d].prog][k] = SetTo(closures'[d].snapshot[k])
    <3>1. d \in DOMAIN closures /\ Latest(d)
      BY <2>2, <2>5, <2>6
    <3>2. closures'[d].prog = closures[d].prog /\ closures'[d].snapshot = closures[d].snapshot
      BY <2>3, <3>1
    <3> QED BY <1>2, <2>6, <3>1, <3>2 DEF BlocksIntact, CapturesKept
  <2> QED BY <2>4, <2>6 DEF BlocksIntact, CapturesKept
<1> QED BY <1>1, <1>2, ThrowsLeavesData, SameBlocks

(***************************************************************************)
(* CLOSURE.  The new closure is the last of its program, and the block has *)
(* what it captured; the blocks of other programs stay.                    *)
(***************************************************************************)
LEMMA ClosureStays == ASSUME IInv, CapturesFit, BlocksIntact, Closure PROVE BlocksIntact'
<1> DEFINE n == Ins.a
           p == Bw(stack, n).content
           m == Len(closures) + 1
           captured == SubSeq(stack, Len(stack) - n + 1, Len(stack))
           static == [i \in 1 .. NStatic[p] |-> Unset]
           new == [prog |-> p, snapshot |-> captured, static |-> static]
           block == Bound(shared[p], captured)
<1>1. AtWork /\ n \in Nat /\ At({"CLOSURE"})
  BY Operand DEF Closure, At, AtWork, JumpCodes
<1>2. \/ Throws
      \/ /\ n + 1 <= Len(stack) /\ Bw(stack, n).type = "program"
         /\ shared' = [shared EXCEPT ![p] = block] /\ closures' = Append(closures, new)
  BY Throwing DEF Closure, Exact, Underflow, Check
<1>3. ASSUME n + 1 <= Len(stack), Bw(stack, n).type = "program",
             shared' = [shared EXCEPT ![p] = block], closures' = Append(closures, new)
      PROVE  BlocksIntact'
  <2>1. stack \in Seq(Sound) /\ Len(stack) \in Nat /\ Len(closures) \in Nat /\ m \in Nat
    BY Depth
  <2>2. p \in Progs
    <3>1. Bw(stack, n) \in Sound
      BY <1>1, <1>3, OnStack
    <3> QED BY <1>3, <3>1 DEF Sound, Valid, Known
  <2>3. n = NCaptures[p]
    BY <1>1, <1>3, <2>1 DEF CapturesFit
  <2>4. captured \in Seq(Sound) /\ Len(captured) = n
    BY <1>1, <1>3, <2>1, Topmost, SMTT(20)
  <2> HIDE DEF captured, static
  <2>5. new.prog = p /\ new.snapshot = captured
    OBVIOUS
  <2> HIDE DEF new, p, n
  <2>6. /\ SharedSize(p) \in Nat /\ NCaptures[p] \in Nat /\ DOMAIN shared = Progs
        /\ shared[p] \in [1 .. SharedSize(p) -> SoundEntries]
    BY <2>2, BlocksAre DEF IInv, DataInv
  <2>7. \A j \in 1 .. SharedSize(p) : /\ j <= n => block[j] = SetTo(captured[j])
                                      /\ j > n => block[j] = shared[p][j]
    BY <2>4, <2>6, BoundEntries
  <2> HIDE DEF block
  <2>8. shared'[p] = block /\ \A q \in Progs : q # p => shared'[q] = shared[q]
    BY <1>3, <2>2, <2>6
  <2>9. closures \in Seq(Closures) /\ DOMAIN closures = 1 .. Len(closures)
    BY DEF IInv, DataInv
  <2>10. /\ DOMAIN closures' = 1 .. m /\ closures'[m] = new
         /\ \A d \in 1 .. Len(closures) : closures'[d] = closures[d]
    BY <1>3, <2>1, <2>9
  <2>11. ConstantsKept'
    <3>1. ASSUME NEW q \in Progs, NEW k \in DOMAIN Constants[q]
          PROVE  shared'[q][NCaptures[q] + k] = SetTo(Constants[q][k])
      <4>1. shared[q][NCaptures[q] + k] = SetTo(Constants[q][k])
        BY DEF BlocksIntact, ConstantsKept
      <4>2. CASE q # p
        BY <2>8, <4>1, <4>2
      <4>3. CASE q = p
        <5>1. NCaptures[p] + k \in 1 .. SharedSize(p) /\ NCaptures[p] + k > n
          BY <2>2, <2>3, <4>3, BlocksAre
        <5> QED BY <2>7, <2>8, <4>1, <4>3, <5>1
      <4> QED BY <4>2, <4>3
    <3> QED BY <3>1 DEF ConstantsKept
  <2>12. ASSUME NEW c \in 1 .. Len(closures), Latest(c)', NEW k \in 1 .. NCaptures[closures'[c].prog]
         PROVE  shared'[closures'[c].prog][k] = SetTo(closures'[c].snapshot[k])
    <3>1. closures'[c] = closures[c] /\ closures[c].prog \in Progs
      BY <2>10, ClosuresHavePrograms
    <3>2. c < m /\ m \in DOMAIN closures' /\ \A d \in 1 .. Len(closures) : d \in DOMAIN closures'
      BY <2>1, <2>10
    <3>3. closures[c].prog # p
      BY <2>5, <2>10, <2>12, <3>1, <3>2 DEF Latest
    <3>4. ASSUME NEW d \in DOMAIN closures, d > c
          PROVE  closures[d].prog # closures[c].prog
      BY <2>9, <2>10, <2>12, <3>1, <3>2, <3>4 DEF Latest
    <3>5. Latest(c)
      BY <3>4 DEF Latest
    <3>6. shared[closures[c].prog][k] = SetTo(closures[c].snapshot[k])
      BY <2>9, <2>12, <3>1, <3>5 DEF BlocksIntact, CapturesKept
    <3> QED BY <2>8, <3>1, <3>3, <3>6
  <2>13. ASSUME NEW k \in 1 .. NCaptures[p]
         PROVE  shared'[p][k] = SetTo(captured[k])
    <3>1. k \in 1 .. SharedSize(p) /\ k <= n
      BY <2>2, <2>3, <2>6, BlocksAre
    <3> QED BY <2>7, <2>8, <3>1
  <2>14. CapturesKept'
    <3>1. ASSUME NEW c \in DOMAIN closures', Latest(c)', NEW k \in 1 .. NCaptures[closures'[c].prog]
          PROVE  shared'[closures'[c].prog][k] = SetTo(closures'[c].snapshot[k])
      <4>1. c \in 1 .. Len(closures) \/ c = m
        BY <2>1, <2>10
      <4> QED BY <2>5, <2>10, <2>12, <2>13, <3>1, <4>1
    <3> QED BY <3>1 DEF CapturesKept
  <2> QED BY <2>11, <2>14 DEF BlocksIntact
<1> HIDE DEF n, p, m, captured, static, new, block
<1> QED BY <1>2, <1>3, ThrowsLeavesData, SameBlocks

(***************************************************************************)
(* All steps.                                                              *)
(***************************************************************************)
LEMMA NextStays == ASSUME IInv, CapturesFit, BlocksIntact, [Next]_vars PROVE BlocksIntact'
<1>1. Stores \/ UNCHANGED dataVars
  BY OthersLeaveData
<1> QED BY <1>1, SameBlocks, StoreValueStays, StoreCaptureStays, ClosureStays DEF Stores

LEMMA BlocksAtFirst == ASSUME Init PROVE BlocksIntact
<1>1. ASSUME NEW p \in Progs, NEW k \in DOMAIN Constants[p]
      PROVE  shared[p][NCaptures[p] + k] = SetTo(Constants[p][k])
  <2> DEFINE captures == [i \in 1 .. NCaptures[p] |-> Unset]
             constants == [i \in 1 .. Len(Constants[p]) |-> SetTo(Constants[p][i])]
  <2>1. NCaptures[p] \in Nat /\ Len(Constants[p]) \in Nat /\ DOMAIN Constants[p] = 1 .. Len(Constants[p])
    BY InitHolds, BlocksAre
  <2>2. shared[p] = captures \o constants
    BY DEF Init
  <2>3. captures \in Seq({Unset}) /\ Len(captures) = NCaptures[p]
    BY <2>1
  <2>4. constants \in Seq({SetTo(v) : v \in Values}) /\ Len(constants) = Len(Constants[p])
        /\ constants[k] = SetTo(Constants[p][k])
    <3>1. \A i \in 1 .. Len(Constants[p]) : Constants[p][i] \in Values
      BY <2>1, CodeAssumption
    <3> QED BY <2>1, <3>1
  <2> HIDE DEF captures, constants
  <2>5. (captures \o constants)[Len(captures) + k] = constants[k]
    BY <2>1, <2>3, <2>4, SMTT(20)
  <2> QED BY <2>2, <2>3, <2>4, <2>5
<1>2. DOMAIN closures = {}
  BY DEF Init
<1> QED BY <1>1, <1>2 DEF BlocksIntact, ConstantsKept, CapturesKept

(***************************************************************************)
(* However closures and stores are interleaved, constants stay as the      *)
(* compiler wrote them and the captures in the block of a program are      *)
(* those of its last closure, provided that CLOSURE and STORE_VALUE name   *)
(* captures only, which nothing but the compiler sees to.                  *)
(***************************************************************************)
THEOREM BlocksStayIntact == Spec /\ []CapturesFit => []BlocksIntact
<1>1. IInv /\ CapturesFit /\ BlocksIntact /\ [Next]_vars => BlocksIntact'
  BY NextStays
<1> QED BY <1>1, BlocksAtFirst, InvariantHolds, PTL DEF Spec
===============================================================================
