------------------------- MODULE AzoRefinementProofs -------------------------
(***************************************************************************)
(* The packed layout of stack.c implements the stack of stack.h, for any   *)
(* sizes of the values, any number of elements and any initial blocks.     *)
(*                                                                         *)
(* The argument: memory `holds' an element where all its cells lie in      *)
(* order.  A run of cells that is moved keeps the elements it contains and *)
(* every element it does not overwrite; the order of the elements in       *)
(* memory (IInv) tells which is which.  So each operation leaves memory    *)
(* that holds the elements the promised operation leaves in the sequence,  *)
(* and reading them back gives that sequence.  The invariant this needs    *)
(* beside IInv is Intact: every element reads back as a whole value.       *)
(*                                                                         *)
(* Assumed: the discipline of the compiler (PopAfterExchange), and that    *)
(* memcpy does not spoil overlapping runs.                                 *)
(***************************************************************************)
EXTENDS AzoPackedStackProofs, SequenceTheorems

\* Memory mem holds element e at a; null has no cells to hold.
Holds(mem, a, e) ==
  e.impl # NoImpl => \A i \in 0 .. Cells(e.impl) - 1 :
                       a + i \in DOMAIN mem /\ mem[a + i] = Cell(e.content, i + 1, Cells(e.impl))

\* A block of n cells.
Block(mem, n) == n \in Nat /\ DOMAIN mem = 0 .. n - 1

\* Every element occupies a cell at least.
LEMMA ElementCells == \A e \in Element : e.impl \in Held /\ Cells(e.impl) \in Nat /\ Cells(e.impl) >= 1
<1>1. \A e \in Element : e.impl \in Held
  BY DEF Element, Null, Held
<1> QED BY <1>1, CellsPositive

\* An element inside a run of cells moves with it.
LEMMA MovedHolds ==
  ASSUME NEW mem, NEW bound, Block(mem, bound), NEW e \in Element,
         NEW a \in Nat, NEW dst \in Nat, NEW src \in Nat, NEW n \in Nat,
         Holds(mem, a, e), src <= a, a + Cells(e.impl) <= src + n, dst + n <= bound,
         NEW b \in Nat, b = a + dst - src
  PROVE  Holds(Moved(mem, dst, src, n), b, e)
<1> DEFINE k == Cells(e.impl)
<1>1. k \in Nat /\ bound \in Nat
  BY ElementCells DEF Block
<1> SUFFICES ASSUME e.impl # NoImpl, NEW i \in 0 .. k - 1
             PROVE  b + i \in DOMAIN Moved(mem, dst, src, n) /\ Moved(mem, dst, src, n)[b + i] = Cell(e.content, i + 1, k)
  BY DEF Holds
<1>2. a + i \in DOMAIN mem /\ mem[a + i] = Cell(e.content, i + 1, k)
  BY DEF Holds
<1> HIDE DEF k
<1>3. b + i \in 0 .. bound - 1 /\ dst <= b + i /\ b + i < dst + n /\ src + (b + i) - dst = a + i
  BY <1>1 DEF k
<1> QED BY <1>2, <1>3 DEF Moved, At, Block

\* An element that is the run of cells moved.
LEMMA MovedWhole ==
  ASSUME NEW mem, NEW bound, Block(mem, bound), NEW e \in Element, NEW dst \in Nat, NEW src \in Nat,
         NEW k \in Nat, k = Cells(e.impl), Holds(mem, src, e), dst + k <= bound
  PROVE  Holds(Moved(mem, dst, src, k), dst, e)
<1>1. src <= src /\ src + k <= src + k /\ dst = src + dst - src
  OBVIOUS
<1> QED BY <1>1, MovedHolds

\* An element the run is not moved over stays.
LEMMA MovedKeeps ==
  ASSUME NEW mem, NEW bound, Block(mem, bound), NEW e \in Element,
         NEW a \in Nat, NEW dst \in Nat, NEW src \in Nat, NEW n \in Nat,
         Holds(mem, a, e), a + Cells(e.impl) <= dst \/ dst + n <= a
  PROVE  Holds(Moved(mem, dst, src, n), a, e)
<1> DEFINE k == Cells(e.impl)
<1>1. k \in Nat
  BY ElementCells
<1> SUFFICES ASSUME e.impl # NoImpl, NEW i \in 0 .. k - 1
             PROVE  a + i \in DOMAIN Moved(mem, dst, src, n) /\ Moved(mem, dst, src, n)[a + i] = Cell(e.content, i + 1, k)
  BY DEF Holds
<1>2. a + i \in DOMAIN mem /\ mem[a + i] = Cell(e.content, i + 1, k)
  BY DEF Holds
<1>3. ~(dst <= a + i /\ a + i < dst + n)
  BY <1>1
<1> QED BY <1>2, <1>3 DEF Moved

\* A stored element is held, and spoils no element beside it.
LEMMA StoreHolds ==
  ASSUME NEW mem, NEW bound, Block(mem, bound), NEW e \in Element,
         NEW a \in Nat, a + Cells(e.impl) <= bound
  PROVE  Holds(Store(mem, a, e), a, e)
<1> DEFINE k == Cells(e.impl)
<1>1. k \in Nat /\ bound \in Nat
  BY ElementCells DEF Block
<1> SUFFICES ASSUME e.impl # NoImpl, NEW i \in 0 .. k - 1
             PROVE  a + i \in DOMAIN Store(mem, a, e) /\ Store(mem, a, e)[a + i] = Cell(e.content, i + 1, k)
  BY DEF Holds
<1>2. a + i \in DOMAIN mem /\ a <= a + i /\ a + i < a + k /\ a + i - a + 1 = i + 1
  BY <1>1 DEF Block
<1> QED BY <1>2 DEF Store

LEMMA StoreKeeps ==
  ASSUME NEW mem, NEW e \in Element, NEW f \in Element,
         NEW a \in Nat, NEW b \in Nat, Holds(mem, a, e),
         a + Cells(e.impl) <= b \/ b + Cells(f.impl) <= a
  PROVE  Holds(Store(mem, b, f), a, e)
<1> DEFINE k == Cells(e.impl)
<1> DEFINE l == Cells(f.impl)
<1>1. k \in Nat /\ l \in Nat
  BY ElementCells
<1> SUFFICES ASSUME e.impl # NoImpl, NEW i \in 0 .. k - 1
             PROVE  a + i \in DOMAIN Store(mem, b, f) /\ Store(mem, b, f)[a + i] = Cell(e.content, i + 1, k)
  BY DEF Holds
<1>2. a + i \in DOMAIN mem /\ mem[a + i] = Cell(e.content, i + 1, k)
  BY DEF Holds
<1>3. ~(b <= a + i /\ a + i < b + l)
  BY <1>1
<1> QED BY <1>2, <1>3 DEF Store

\* What data holds, it holds after it has grown.
LEMMA ResizedHolds ==
  ASSUME NEW e \in Element, NEW a \in Nat, NEW n \in Nat, n >= data_size, data_size \in Nat,
         DOMAIN data = 0 .. data_size - 1, Holds(data, a, e)
  PROVE  Block(Resized(n), n) /\ Holds(Resized(n), a, e)
<1>1. Block(Resized(n), n)
  BY DEF Block, Resized
<1> DEFINE k == Cells(e.impl)
<1> SUFFICES ASSUME e.impl # NoImpl, NEW i \in 0 .. k - 1
             PROVE  a + i \in DOMAIN Resized(n) /\ Resized(n)[a + i] = Cell(e.content, i + 1, k)
  BY <1>1 DEF Holds
<1>3. a + i \in DOMAIN data /\ data[a + i] = Cell(e.content, i + 1, k)
  BY DEF Holds
<1>4. a + i \in 0 .. n - 1
  BY <1>3
<1> QED BY <1>3, <1>4 DEF Resized, At

LEMMA MovedBlock ==
  ASSUME NEW mem, NEW n, Block(mem, n), NEW dst, NEW src, NEW k
  PROVE  Block(Moved(mem, dst, src, k), n)
BY DEF Block, Moved

LEMMA StoreBlock ==
  ASSUME NEW mem, NEW n, Block(mem, n), NEW a, NEW e
  PROVE  Block(Store(mem, a, e), n)
BY DEF Block, Store

\* What is read at a as a value of implementation impl: ElementAt, for any memory.
Reading(impl, mem, a) ==
  LET k == Cells(impl)
      c == At(mem, a)
  IN  IF impl = NoImpl THEN Null
      ELSE IF c # Junk /\ \A i \in 0 .. k - 1 : At(mem, a + i) = Cell(c.content, i + 1, k)
      THEN [impl |-> impl, content |-> c.content]
      ELSE [impl |-> impl, content |-> NoContent]

\* Every element reads back as a whole value.
Intact == \A p \in 0 .. length - 1 : ElementAt(p) \in Element

\* Reading what memory holds gives the element, and memory holds what reads as one.
LEMMA ReadBack ==
  ASSUME NEW mem, NEW a \in Nat, NEW e \in Element, Holds(mem, a, e)
  PROVE  Reading(e.impl, mem, a) = e
<1>1. CASE e.impl = NoImpl
  <2>1. e = Null
    BY <1>1, ValuesAssumption DEF Element, Null
  <2> QED BY <1>1, <2>1 DEF Reading
<1>2. CASE e.impl # NoImpl
  <2> DEFINE k == Cells(e.impl)
  <2>1. e \in [impl : Impls, content : Contents] /\ k \in Nat /\ k >= 1
    BY <1>2, ElementCells DEF Element, Null
  <2>2. \A i \in 0 .. k - 1 : At(mem, a + i) = Cell(e.content, i + 1, k)
    BY <1>2 DEF Holds, At
  <2>3. 0 \in 0 .. k - 1 /\ a + 0 = a
    BY <2>1
  <2>4. At(mem, a) = Cell(e.content, 1, k)
    BY <2>2, <2>3
  <2>5. Cell(e.content, 1, k) \in [content : Contents, part : Nat, of : Nat] /\ Cell(e.content, 1, k).content = e.content
    BY <2>1 DEF Cell
  <2>6. At(mem, a) # Junk /\ At(mem, a).content = e.content
    BY <2>4, <2>5, JunkAssumption
  <2>7. e = [impl |-> e.impl, content |-> e.content]
    BY <2>1
  <2> QED BY <1>2, <2>2, <2>6, <2>7 DEF Reading
<1> QED BY <1>1, <1>2

LEMMA ReadingNow == \A p : ElementAt(p) = Reading(impls[p], data, values[p])
BY DEF ElementAt, Reading

LEMMA ReadingNext == \A p : ElementAt(p)' = Reading(impls'[p], data', values'[p])
BY DEF ElementAt, Reading

LEMMA IntactHolds ==
  ASSUME Intact, NEW p \in 0 .. length - 1
  PROVE  /\ ElementAt(p) \in Element /\ ElementAt(p).impl = impls[p]
         /\ Holds(data, values[p], ElementAt(p))
<1> DEFINE e == ElementAt(p)
<1> DEFINE k == Cells(e.impl)
<1>1. e \in Element /\ e.impl = impls[p]
  BY DEF Intact, ElementAt, Null
<1>2. ASSUME e.impl # NoImpl, NEW i \in 0 .. k - 1
      PROVE  values[p] + i \in DOMAIN data /\ data[values[p] + i] = Cell(e.content, i + 1, k)
  <2>1. e.content \in Contents /\ e.content # NoContent /\ k \in Nat
    BY <1>1, <1>2, ValuesAssumption, ElementCells DEF Element, Null
  <2>2. At(data, values[p] + i) = Cell(e.content, i + 1, k)
    BY <1>1, <1>2, <2>1 DEF ElementAt
  <2>3. Cell(e.content, i + 1, k) \in [content : Contents, part : Nat, of : Nat]
    BY <1>2, <2>1 DEF Cell
  <2> QED BY <2>2, <2>3, JunkAssumption DEF At
<1> QED BY <1>1, <1>2 DEF Holds

\* The memory holds the sequence E where the next state says its elements are.
Laid(mem, E) ==
  \A p \in 0 .. Len(E) - 1 : impls'[p] = E[p + 1].impl /\ Holds(mem, values'[p], E[p + 1])

\* The contents as a sequence of elements.
LEMMA ContentsSeq ==
  ASSUME Intact, length \in Nat
  PROVE  /\ contents \in Seq(Element) /\ Len(contents) = length
         /\ \A p \in 0 .. length - 1 : contents[p + 1] = ElementAt(p)
<1>1. contents \in [1 .. length -> Element] /\ DOMAIN contents = 1 .. length
  BY DEF contents, Intact
<1>2. contents \in Seq(Element) /\ Len(contents) = length
  BY <1>1
<1> QED BY <1>2 DEF contents

\* Where memory is laid out as E, E is what the client reads: the junk that settling
\* leaves between the elements is never read.
LEMMA SettledHolds ==
  ASSUME NEW mem, NEW E \in Seq(Element), NEW n \in Nat, n = Len(E), length' = n,
         values' \in [0 .. n -> Nat], data' = Settled(mem), Laid(mem, E)
  PROVE  contents' = E /\ Intact'
<1>1. ASSUME NEW p \in 0 .. n - 1 PROVE ElementAt(p)' = E[p + 1] /\ E[p + 1] \in Element
  <2> DEFINE e == E[p + 1]
  <2>1. values'[p] \in Nat /\ e \in Element
    BY ElementOfSeq
  <2>2. impls'[p] = e.impl /\ Holds(mem, values'[p], e)
    BY DEF Laid
  <2> HIDE DEF e
  <2>3. Holds(data', values'[p], e)
    <3> DEFINE k == Cells(e.impl)
    <3> SUFFICES ASSUME e.impl # NoImpl, NEW i \in 0 .. k - 1
                 PROVE  values'[p] + i \in DOMAIN data' /\ data'[values'[p] + i] = Cell(e.content, i + 1, k)
      BY DEF Holds
    <3>1. values'[p] + i \in DOMAIN mem /\ mem[values'[p] + i] = Cell(e.content, i + 1, k)
      BY <2>2 DEF Holds
    <3>2. k \in Nat
      BY <2>1, ElementCells
    <3>3. values'[p] <= values'[p] + i /\ values'[p] + i < values'[p] + Cells(impls'[p])
      BY <2>1, <2>2, <3>2
    <3> QED BY <3>1, <3>3 DEF Settled
  <2>4. Reading(e.impl, data', values'[p]) = e
    BY <2>1, <2>3, ReadBack
  <2> QED BY <2>1, <2>2, <2>4, ReadingNext DEF e
<1>2. contents' = [i \in 1 .. n |-> E[i]]
  <2>1. \A i \in 1 .. n : i - 1 \in 0 .. n - 1 /\ ElementAt(i - 1)' = E[i]
    BY <1>1
  <2> QED BY <2>1 DEF contents
<1>3. [i \in 1 .. n |-> E[i]] = E
  BY LenProperties
<1>4. Intact'
  BY <1>1 DEF Intact
<1> QED BY <1>2, <1>3, <1>4

\* The elements of the stack, in a data block that has grown to n cells.
LEMMA Resident ==
  ASSUME IInv, Intact, NEW n \in Nat, n >= data_size
  PROVE  /\ Block(Resized(n), n)
         /\ contents \in Seq(Element) /\ Len(contents) = length
         /\ \A p \in 0 .. length - 1 :
              /\ contents[p + 1] \in Element /\ contents[p + 1].impl = impls[p]
              /\ Cells(contents[p + 1].impl) = Occupied(p)
              /\ Holds(data, values[p], contents[p + 1])
              /\ Holds(Resized(n), values[p], contents[p + 1])
<1>1. /\ TypeOK /\ length \in Nat /\ data_size \in Nat /\ DOMAIN data = 0 .. data_size - 1
      /\ \A p \in 0 .. length : values[p] \in Nat
  BY Numbers DEF IInv, TypeOK
<1>2. Block(Resized(n), n)
  BY DEF Block, Resized
<1>3. /\ contents \in Seq(Element) /\ Len(contents) = length
      /\ \A p \in 0 .. length - 1 : contents[p + 1] = ElementAt(p)
  BY <1>1, ContentsSeq
<1>4. ASSUME NEW p \in 0 .. length - 1
      PROVE  /\ contents[p + 1] \in Element /\ contents[p + 1].impl = impls[p]
             /\ Cells(contents[p + 1].impl) = Occupied(p)
             /\ Holds(data, values[p], contents[p + 1])
             /\ Holds(Resized(n), values[p], contents[p + 1])
  <2>1. /\ contents[p + 1] \in Element /\ contents[p + 1].impl = impls[p]
        /\ Holds(data, values[p], contents[p + 1])
    BY <1>3, IntactHolds
  <2>2. Cells(contents[p + 1].impl) = Occupied(p)
    BY <2>1 DEF Occupied
  <2>3. values[p] \in Nat
    BY <1>1
  <2> QED BY <1>1, <2>1, <2>2, <2>3, ResizedHolds
<1> QED BY <1>2, <1>3, <1>4

(***************************************************************************)
(* Push, pop and remove.                                                   *)
(***************************************************************************)
LEMMA PushImplements ==
  ASSUME PopAfterExchange, IInv, IInv', Intact, NEW STATE e, e \in Element, PushElement(e)
  PROVE  contents' = Append(contents, e) /\ Len(contents) < MaxLength /\ Intact'
<1> DEFINE k == Cells(e.impl)
<1>1. /\ TypeOK /\ Roomy /\ Ordered /\ fault = "none" /\ ~Torn
      /\ length \in Nat /\ data_size \in Nat /\ Top \in Nat
      /\ \A p \in 0 .. length : values[p] \in Nat
  BY Numbers DEF IInv, PushElement, Usable
<1>2. k \in Nat /\ k >= 1
  BY ElementCells
<1>3. EnsureSize(1, k, length + 1, Top + k)
  BY DEF PushElement
<1>4. data' = Settled(Store(Resized(data_size'), Top, e)) /\ length < MaxLength /\ length' = length + 1
  BY DEF PushElement
<1>5. impls' = [p \in 0 .. length |-> IF p = length THEN e.impl ELSE impls[p]]
  BY DEF PushElement
<1>6. values' = [p \in 0 .. length + 1 |-> IF p = length + 1 THEN Top + k ELSE values[p]]
  BY DEF PushElement
<1> HIDE DEF k
<1>7. data_size' \in Nat /\ data_size' >= data_size /\ data_size' >= Top + k
  BY <1>1, <1>2, <1>3, EnsureEnough
<1> DEFINE n == data_size'
<1> DEFINE m == Store(Resized(n), Top, e)
<1> DEFINE E == Append(contents, e)
<1>8. /\ Block(Resized(n), n) /\ contents \in Seq(Element) /\ Len(contents) = length
      /\ \A p \in 0 .. length - 1 :
           /\ contents[p + 1] \in Element /\ contents[p + 1].impl = impls[p]
           /\ Cells(contents[p + 1].impl) = Occupied(p)
           /\ Holds(Resized(n), values[p], contents[p + 1])
  BY <1>7, Resident
<1>9. /\ E \in Seq(Element) /\ Len(E) = length + 1 /\ E[length + 1] = e
      /\ \A p \in 0 .. length - 1 : E[p + 1] = contents[p + 1]
  BY <1>1, <1>8
<1>10. Holds(m, Top, e)
  BY <1>1, <1>7, <1>8, StoreHolds DEF k
<1>11. ASSUME NEW p \in 0 .. length - 1
       PROVE  Holds(m, values[p], contents[p + 1])
  <2>1. values[p] \in Nat /\ values[p] + Occupied(p) <= Top
    BY <1>1, AllBelowTop
  <2> QED BY <1>1, <1>8, <2>1, StoreKeeps
<1>12. Laid(m, E)
  <2> SUFFICES ASSUME NEW p \in 0 .. length
               PROVE  impls'[p] = E[p + 1].impl /\ Holds(m, values'[p], E[p + 1])
    BY <1>1, <1>9 DEF Laid
  <2>1. CASE p = length
    BY <1>1, <1>5, <1>6, <1>9, <1>10, <2>1 DEF Top
  <2>2. CASE p # length
    <3>1. p \in 0 .. length - 1
      BY <1>1, <2>2
    <3>2. impls'[p] = impls[p] /\ values'[p] = values[p] /\ E[p + 1] = contents[p + 1]
      BY <1>1, <1>5, <1>6, <1>9, <3>1
    <3> QED BY <1>8, <1>11, <3>1, <3>2
  <2> QED BY <2>1, <2>2
<1>13. values' \in [0 .. length + 1 -> Nat]
  BY <1>4 DEF IInv, TypeOK
<1> HIDE DEF m, E
<1>14. length + 1 \in Nat
  BY <1>1
<1>15. contents' = E /\ Intact'
  BY <1>4, <1>9, <1>12, <1>13, <1>14, SettledHolds DEF m
<1> QED BY <1>4, <1>8, <1>15 DEF E

LEMMA PopImplements ==
  ASSUME IInv, IInv', Intact, NEW n \in 0 .. length, Pop(n)
  PROVE  contents' = SubSeq(contents, 1, length - n) /\ Intact'
<1>1. /\ length \in Nat /\ data_size \in Nat /\ length - n \in 0 .. length
      /\ \A p \in 0 .. length : values[p] \in Nat
  BY Numbers DEF IInv
<1>2. /\ length' = length - n /\ data' = Settled(data)
      /\ \A p \in 0 .. length - n - 1 : impls'[p] = impls[p] /\ values'[p] = values[p]
  BY <1>1 DEF Pop
<1>3. /\ contents \in Seq(Element) /\ Len(contents) = length
      /\ \A p \in 0 .. length - 1 : contents[p + 1].impl = impls[p] /\ Holds(data, values[p], contents[p + 1])
  BY <1>1, Resident
<1> DEFINE E == SubSeq(contents, 1, length - n)
<1>4. /\ E \in Seq(Element) /\ Len(E) = length - n
      /\ \A p \in 0 .. length - n - 1 : E[p + 1] = contents[p + 1]
  BY <1>1, <1>3
<1> HIDE DEF E
<1>5. Laid(data, E)
  BY <1>1, <1>2, <1>3, <1>4 DEF Laid
<1>6. values' \in [0 .. length - n -> Nat]
  BY <1>2 DEF IInv, TypeOK
<1>7. contents' = E /\ Intact'
  BY <1>1, <1>2, <1>4, <1>5, <1>6, SettledHolds
<1> QED BY <1>7 DEF E

LEMMA RemoveImplements ==
  ASSUME IInv, IInv', Intact, NEW first \in 0 .. length, NEW n \in 0 .. length,
         PopAfterExchange, Remove(first, n)
  PROVE  /\ first + n <= length /\ Intact'
         /\ contents' = SubSeq(contents, 1, first) \o SubSeq(contents, first + n + 1, length)
<1> DEFINE tail == first + n
<1> DEFINE start == TailStart(first)
<1> DEFINE shift == values[tail] - start
<1> DEFINE m == IF tail = length THEN data ELSE Moved(data, start, values[tail], Top - values[tail])
<1> DEFINE E == SubSeq(contents, 1, first) \o SubSeq(contents, tail + 1, length)
<1>0. ~Torn
  BY DEF Remove, Usable
<1> HIDE DEF m, E, shift, start
<1>1. /\ Ordered /\ Roomy /\ TypeOK /\ ~Torn
      /\ length \in Nat /\ data_size \in Nat /\ Top \in Nat /\ Block(data, data_size)
      /\ \A p \in 0 .. length : values[p] \in Nat
      /\ \A p \in 0 .. length - 1 : Occupied(p) \in Nat
      /\ first \in Nat /\ n \in Nat
  <2>1. Ordered /\ Roomy /\ TypeOK
    BY DEF IInv
  <2>2. /\ length \in Nat /\ data_size \in Nat /\ Top \in Nat
        /\ \A p \in 0 .. length : values[p] \in Nat
        /\ \A p \in 0 .. length - 1 : Occupied(p) \in Nat
    BY <2>1, Numbers
  <2>3. Block(data, data_size)
    BY <2>1, <2>2 DEF TypeOK, Block
  <2> QED BY <1>0, <2>1, <2>2, <2>3
<1>2. tail \in first .. length /\ length' = length - n /\ length - n \in Nat /\ data' = Settled(m)
  BY <1>1 DEF Remove, m, start
<1>3. \A p \in 0 .. length - n - 1 :
         impls'[p] = (IF p < first THEN impls[p] ELSE impls[p + n])
         /\ values'[p] = IF p < first \/ tail = length THEN values[p] ELSE values[p + n] - shift
  BY <1>1, <1>2 DEF Remove, shift, start
<1>4. /\ contents \in Seq(Element) /\ Len(contents) = length
      /\ \A p \in 0 .. length - 1 :
           /\ contents[p + 1] \in Element /\ contents[p + 1].impl = impls[p]
           /\ Cells(contents[p + 1].impl) = Occupied(p)
           /\ Holds(data, values[p], contents[p + 1])
  <2>1. data_size \in Nat /\ data_size >= data_size
    BY <1>1
  <2> QED BY <2>1, Resident
<1>5. /\ E \in Seq(Element) /\ Len(E) = length - n
      /\ \A p \in 0 .. length - n - 1 : E[p + 1] = IF p < first THEN contents[p + 1] ELSE contents[p + n + 1]
  <2> DEFINE low == SubSeq(contents, 1, first)
  <2> DEFINE high == SubSeq(contents, tail + 1, length)
  <2>1. /\ low \in Seq(Element) /\ Len(low) = first
        /\ \A i \in 1 .. first : low[i] = contents[i]
    BY <1>1, <1>2, <1>4
  <2>2. /\ high \in Seq(Element) /\ Len(high) = length - tail
        /\ \A i \in 1 .. length - tail : high[i] = contents[tail + i]
    BY <1>1, <1>2, <1>4
  <2> HIDE DEF low, high
  <2>3. /\ low \o high \in Seq(Element) /\ Len(low \o high) = Len(low) + Len(high)
        /\ \A i \in 1 .. Len(low) + Len(high) : (low \o high)[i] = IF i <= Len(low) THEN low[i] ELSE high[i - Len(low)]
    BY <2>1, <2>2, ConcatProperties
  <2>4. Len(low) + Len(high) = length - n
    BY <1>1, <1>2, <2>1, <2>2
  <2>5. ASSUME NEW p \in 0 .. length - n - 1
        PROVE  (low \o high)[p + 1] = IF p < first THEN contents[p + 1] ELSE contents[p + n + 1]
    <3>1. CASE p < first
      BY <1>1, <2>1, <2>3, <2>4, <3>1
    <3>2. CASE ~(p < first)
      <4>1. p + 1 - first \in 1 .. length - tail /\ tail + (p + 1 - first) = p + n + 1
        BY <1>1, <1>2, <3>2
      <4> QED BY <1>1, <2>1, <2>2, <2>3, <2>4, <3>2, <4>1
    <3> QED BY <3>1, <3>2
  <2> QED BY <2>3, <2>4, <2>5 DEF E, low, high
<1>6. Laid(m, E)
  <2> SUFFICES ASSUME NEW p \in 0 .. length - n - 1
               PROVE  impls'[p] = E[p + 1].impl /\ Holds(m, values'[p], E[p + 1])
    BY <1>5 DEF Laid
  <2>1. CASE tail = length
    <3>1. p < first /\ p \in 0 .. length - 1
      BY <1>1, <2>1
    <3> QED BY <1>3, <1>4, <1>5, <2>1, <3>1 DEF m
  <2>2. CASE tail # length
    <3>1. /\ start \in Nat /\ start <= values[tail]
          /\ \A q \in 0 .. first - 1 : values[q] + Occupied(q) <= start
      <4>1. tail \in first .. length - 1
        BY <1>1, <1>2, <2>2
      <4> QED BY <4>1, TailBelow DEF start
    <3>2. /\ values[tail] \in Nat /\ values[tail] <= Top /\ tail \in 0 .. length
      BY <1>1, <1>2, <2>2 DEF Ordered, Top
    <3>3. m = Moved(data, start, values[tail], Top - values[tail])
      BY <2>2 DEF m
    <3>4. Top - values[tail] \in Nat /\ start + (Top - values[tail]) <= data_size
      BY <1>1, <3>1, <3>2 DEF Roomy
    <3>5. CASE p < first
      <4>1. p \in 0 .. length - 1 /\ p \in 0 .. first - 1 /\ values[p] \in Nat
        BY <1>1, <1>2, <3>5
      <4>2. impls'[p] = impls[p] /\ values'[p] = values[p] /\ E[p + 1] = contents[p + 1]
        BY <1>3, <1>5, <3>5
      <4> QED BY <1>1, <1>4, <3>1, <3>2, <3>3, <3>4, <4>1, <4>2, MovedKeeps
    <3>6. CASE p >= first
      <4>1. p + n \in 0 .. length - 1 /\ values[p + n] \in Nat /\ p + n >= tail
        BY <1>1, <1>2, <3>6
      <4>2. impls'[p] = impls[p + n] /\ values'[p] = values[p + n] - shift /\ E[p + 1] = contents[p + n + 1]
        BY <1>1, <1>3, <1>5, <2>2, <3>6
      <4>3. values[tail] <= values[p + n]
        BY <1>1, <3>2, <4>1 DEF Ordered
      <4>4. values[p + n] + Occupied(p + n) <= Top
        BY <1>1, <4>1, AllBelowTop
      <4>5. values'[p] \in Nat /\ values'[p] = values[p + n] + start - values[tail]
        BY <3>1, <3>2, <4>1, <4>2, <4>3 DEF shift
      <4>6. values[p + n] + Occupied(p + n) <= values[tail] + (Top - values[tail])
        BY <1>1, <3>2, <4>1, <4>4
      <4> QED BY <1>1, <1>4, <3>1, <3>2, <3>3, <3>4, <4>1, <4>2, <4>3, <4>5, <4>6, MovedHolds
    <3> QED BY <1>1, <3>5, <3>6
  <2> QED BY <2>1, <2>2
<1>7. values' \in [0 .. length - n -> Nat]
  BY <1>2 DEF IInv, TypeOK
<1>8. contents' = E /\ Intact'
  BY <1>2, <1>5, <1>6, <1>7, SettledHolds
<1> QED BY <1>1, <1>2, <1>8 DEF E

(***************************************************************************)
(* The exchanges.                                                          *)
(***************************************************************************)
\* The moves of the three exchanges: x and y are the places of the element at pos
\* and the topmost one, a and b their cells, z the place above the element at pos,
\* t the first free cell and s the difference of the sizes.
EqualMoved(mem, x, y, t, k) == Moved(Moved(Moved(mem, t, x, k), x, y, k), y, t, k)
LargerMoved(mem, x, y, z, t, a, b, s) ==
  Moved(Moved(Moved(Moved(mem, t, x, a), x, y, b), z - s, z, y - z), y - s, t, a)
SmallerMoved(mem, x, y, z, t, a, b, s) ==
  Moved(Moved(Moved(Moved(mem, z + s, z, t - z), t + s, x, a), x, y + s, b), y + s, t + s, a)

\* Each sequence of moves puts the two elements in each other's place and takes the
\* elements between them along.
LEMMA EqualMoves ==
  ASSUME NEW mem, NEW n, Block(mem, n), NEW A \in Element, NEW B \in Element,
         NEW x \in Nat, NEW y \in Nat, NEW t \in Nat, NEW k \in Nat,
         Cells(A.impl) = k, Cells(B.impl) = k, x + k <= y, y + k <= t, t + k <= n,
         Holds(mem, x, A), Holds(mem, y, B)
  PROVE  LET m == EqualMoved(mem, x, y, t, k)
         IN  /\ Holds(m, x, B) /\ Holds(m, y, A)
             /\ \A C \in Element, c \in Nat :
                  /\ Holds(mem, c, C)
                  /\ c + Cells(C.impl) <= x \/ (x + k <= c /\ c + Cells(C.impl) <= y)
                  => Holds(m, c, C)
<1> DEFINE m1 == Moved(mem, t, x, k)
<1> DEFINE m2 == Moved(m1, x, y, k)
<1> DEFINE m3 == Moved(m2, y, t, k)
<1>0. n \in Nat
  BY DEF Block
<1>1. Block(m1, n) /\ Holds(m1, t, A) /\ Holds(m1, y, B)
  <2>1. Block(m1, n)
    BY MovedBlock
  <2>2. Holds(m1, t, A)
    BY MovedWhole
  <2>3. Holds(m1, y, B)
    BY MovedKeeps
  <2> QED BY <2>1, <2>2, <2>3
<1> HIDE DEF m1
<1>2. Block(m2, n) /\ Holds(m2, x, B) /\ Holds(m2, t, A)
  <2>1. Block(m2, n)
    BY <1>1, MovedBlock
  <2>2. x + k <= n
    BY <1>0
  <2>3. Holds(m2, x, B)
    BY <1>1, <2>2, MovedWhole
  <2>4. Holds(m2, t, A)
    <3>1. x + k <= t
      OBVIOUS
    <3> QED BY <1>1, <3>1, MovedKeeps
  <2> QED BY <2>1, <2>3, <2>4
<1> HIDE DEF m2
<1>3. Holds(m3, x, B) /\ Holds(m3, y, A)
  <2>1. y + k <= n
    BY <1>0
  <2> QED BY <1>2, <2>1, MovedWhole, MovedKeeps
<1>4. ASSUME NEW C \in Element, NEW c \in Nat, Holds(mem, c, C),
             c + Cells(C.impl) <= x \/ (x + k <= c /\ c + Cells(C.impl) <= y)
      PROVE  Holds(m3, c, C)
  <2>0. Cells(C.impl) \in Nat
    BY ElementCells
  <2>1. Holds(m1, c, C)
    BY <1>0, <1>4, <2>0, MovedKeeps DEF m1
  <2>2. Holds(m2, c, C)
    BY <1>0, <1>1, <1>4, <2>0, <2>1, MovedKeeps DEF m2
  <2> QED BY <1>0, <1>2, <1>4, <2>0, <2>2, MovedKeeps
<1> QED BY <1>3, <1>4 DEF m1, m2, EqualMoved

\* A at x and B at y, the larger first, what is from z to y between them.
LargerReady(mem, n, A, B, x, y, z, t, a, b, s) ==
  /\ Block(mem, n) /\ A \in Element /\ B \in Element
  /\ x \in Nat /\ y \in Nat /\ z \in Nat /\ t \in Nat /\ a \in Nat /\ b \in Nat /\ s \in Nat
  /\ Cells(A.impl) = a /\ Cells(B.impl) = b /\ a = b + s
  /\ x + a <= z /\ z <= y /\ y + b <= t /\ t + a <= n
  /\ Holds(mem, x, A) /\ Holds(mem, y, B)

LEMMA LargerMoves ==
  ASSUME NEW mem, NEW n, NEW A, NEW B, NEW x, NEW y, NEW z, NEW t, NEW a, NEW b, NEW s,
         LargerReady(mem, n, A, B, x, y, z, t, a, b, s)
  PROVE  LET m == LargerMoved(mem, x, y, z, t, a, b, s)
         IN  /\ Holds(m, x, B) /\ Holds(m, y - s, A)
             /\ \A C \in Element, c \in Nat :
                  /\ Holds(mem, c, C) /\ c + Cells(C.impl) <= x => Holds(m, c, C)
                  /\ Holds(mem, c, C) /\ z <= c /\ c + Cells(C.impl) <= y => Holds(m, c - s, C)
<1> USE DEF LargerReady
<1> DEFINE zs == z - s
<1> DEFINE ys == y - s
<1> DEFINE d == y - z
<1> DEFINE m1 == Moved(mem, t, x, a)
<1> DEFINE m2 == Moved(m1, x, y, b)
<1> DEFINE m3 == Moved(m2, zs, z, d)
<1> DEFINE m4 == Moved(m3, ys, t, a)
<1>0. /\ n \in Nat /\ zs \in Nat /\ ys \in Nat /\ d \in Nat /\ zs <= z /\ zs + d = ys /\ z + d = y /\ ys <= t
      /\ x + b <= zs /\ x + b <= ys /\ x + b <= t /\ x + b <= n /\ zs + d <= n /\ ys + a <= n /\ x + a <= t
  BY DEF Block
<1>1. Block(m1, n) /\ Holds(m1, t, A) /\ Holds(m1, y, B)
  <2>1. Block(m1, n)
    BY MovedBlock
  <2>2. Holds(m1, t, A)
    BY MovedWhole
  <2>3. Holds(m1, y, B)
    BY MovedKeeps
  <2> QED BY <2>1, <2>2, <2>3
<1> HIDE DEF m1, zs, ys, d
<1>2. Block(m2, n) /\ Holds(m2, x, B) /\ Holds(m2, t, A)
  <2>1. Block(m2, n)
    BY <1>1, MovedBlock
  <2>2. Holds(m2, x, B)
    BY <1>0, <1>1, MovedWhole
  <2>3. Holds(m2, t, A)
    BY <1>0, <1>1, MovedKeeps
  <2> QED BY <2>1, <2>2, <2>3
<1> HIDE DEF m2
<1>3. Block(m3, n) /\ Holds(m3, x, B) /\ Holds(m3, t, A)
  <2>1. Block(m3, n)
    BY <1>2, MovedBlock
  <2>2. Holds(m3, x, B)
    BY <1>0, <1>2, MovedKeeps
  <2>3. Holds(m3, t, A)
    BY <1>0, <1>2, MovedKeeps
  <2> QED BY <2>1, <2>2, <2>3
<1> HIDE DEF m3
<1>4. Holds(m4, x, B) /\ Holds(m4, ys, A)
  <2>1. Holds(m4, x, B)
    BY <1>0, <1>3, MovedKeeps
  <2>2. Holds(m4, ys, A)
    BY <1>0, <1>3, MovedWhole
  <2> QED BY <2>1, <2>2
<1>5. ASSUME NEW C \in Element, NEW c \in Nat, Holds(mem, c, C), c + Cells(C.impl) <= x
      PROVE  Holds(m4, c, C)
  <2>0. Cells(C.impl) \in Nat
    BY ElementCells
  <2>1. c + Cells(C.impl) <= t /\ c + Cells(C.impl) <= zs /\ c + Cells(C.impl) <= ys
    BY <1>0, <1>5, <2>0
  <2>2. Holds(m1, c, C)
    BY <1>5, <2>1, MovedKeeps DEF m1
  <2>3. Holds(m2, c, C)
    BY <1>1, <1>5, <2>2, MovedKeeps DEF m2
  <2>4. Holds(m3, c, C)
    BY <1>0, <1>2, <2>1, <2>3, MovedKeeps DEF m3
  <2> QED BY <1>0, <1>3, <2>1, <2>4, MovedKeeps
<1>6. ASSUME NEW C \in Element, NEW c \in Nat, Holds(mem, c, C), z <= c, c + Cells(C.impl) <= y
      PROVE  Holds(m4, c - s, C)
  <2> DEFINE k == Cells(C.impl)
  <2> DEFINE cs == c - s
  <2>0. k \in Nat
    BY ElementCells
  <2>1. /\ c + k <= t /\ x + b <= c /\ cs \in Nat /\ cs = c + zs - z /\ cs + k <= ys /\ c + k <= z + d
    BY <1>0, <1>6, <2>0 DEF zs, ys
  <2>2. Holds(m1, c, C)
    BY <1>6, <2>1, MovedKeeps DEF m1
  <2>3. Holds(m2, c, C)
    BY <1>1, <1>6, <2>1, <2>2, MovedKeeps DEF m2
  <2> HIDE DEF cs
  <2>4. Holds(m3, cs, C)
    BY <1>0, <1>2, <1>6, <2>1, <2>3, MovedHolds DEF m3
  <2>5. Holds(m4, cs, C)
    BY <1>0, <1>3, <2>1, <2>4, MovedKeeps
  <2> QED BY <2>5 DEF cs
<1>7. m4 = LargerMoved(mem, x, y, z, t, a, b, s)
  BY DEF LargerMoved, m1, m2, m3, zs, ys, d
<1> HIDE DEF m4
<1> QED BY <1>4, <1>5, <1>6, <1>7 DEF ys

\* The same with the smaller first.
SmallerReady(mem, n, A, B, x, y, z, t, a, b, s) ==
  /\ Block(mem, n) /\ A \in Element /\ B \in Element
  /\ x \in Nat /\ y \in Nat /\ z \in Nat /\ t \in Nat /\ a \in Nat /\ b \in Nat /\ s \in Nat
  /\ Cells(A.impl) = a /\ Cells(B.impl) = b /\ b = a + s
  /\ x + a <= z /\ z <= y /\ y + b <= t /\ t + b <= n
  /\ Holds(mem, x, A) /\ Holds(mem, y, B)

LEMMA SmallerMoves ==
  ASSUME NEW mem, NEW n, NEW A, NEW B, NEW x, NEW y, NEW z, NEW t, NEW a, NEW b, NEW s,
         SmallerReady(mem, n, A, B, x, y, z, t, a, b, s)
  PROVE  LET m == SmallerMoved(mem, x, y, z, t, a, b, s)
         IN  /\ Holds(m, x, B) /\ Holds(m, y + s, A)
             /\ \A C \in Element, c \in Nat :
                  /\ Holds(mem, c, C) /\ c + Cells(C.impl) <= x => Holds(m, c, C)
                  /\ Holds(mem, c, C) /\ z <= c /\ c + Cells(C.impl) <= y => Holds(m, c + s, C)
<1> USE DEF SmallerReady
<1> DEFINE zs == z + s
<1> DEFINE ys == y + s
<1> DEFINE ts == t + s
<1> DEFINE d == t - z
<1> DEFINE m1 == Moved(mem, zs, z, d)
<1> DEFINE m2 == Moved(m1, ts, x, a)
<1> DEFINE m3 == Moved(m2, x, ys, b)
<1> DEFINE m4 == Moved(m3, ys, ts, a)
<1>0. /\ n \in Nat /\ zs \in Nat /\ ys \in Nat /\ ts \in Nat /\ d \in Nat /\ z + d = t /\ zs + d = ts
      /\ x + a <= zs /\ ys + b <= ts /\ x + b <= ts /\ x + b <= ys /\ x + b <= zs /\ ts + a <= n /\ x + b <= n
      /\ ys + a <= n /\ zs + d <= n /\ ys = y + zs - z /\ y + b <= z + d
  BY DEF Block
<1> HIDE DEF zs, ys, ts, d
<1>1. Block(m1, n) /\ Holds(m1, x, A) /\ Holds(m1, ys, B)
  <2>1. Block(m1, n)
    BY MovedBlock
  <2>2. Holds(m1, x, A)
    BY <1>0, MovedKeeps
  <2>3. Holds(m1, ys, B)
    BY <1>0, MovedHolds
  <2> QED BY <2>1, <2>2, <2>3
<1> HIDE DEF m1
<1>2. Block(m2, n) /\ Holds(m2, ts, A) /\ Holds(m2, ys, B)
  <2>1. Block(m2, n)
    BY <1>1, MovedBlock
  <2>2. Holds(m2, ts, A)
    BY <1>0, <1>1, MovedWhole
  <2>3. Holds(m2, ys, B)
    BY <1>0, <1>1, MovedKeeps
  <2> QED BY <2>1, <2>2, <2>3
<1> HIDE DEF m2
<1>3. Block(m3, n) /\ Holds(m3, x, B) /\ Holds(m3, ts, A)
  <2>1. Block(m3, n)
    BY <1>2, MovedBlock
  <2>2. Holds(m3, x, B)
    BY <1>0, <1>2, MovedWhole
  <2>3. Holds(m3, ts, A)
    BY <1>0, <1>2, MovedKeeps
  <2> QED BY <2>1, <2>2, <2>3
<1> HIDE DEF m3
<1>4. Holds(m4, x, B) /\ Holds(m4, ys, A)
  <2>1. Holds(m4, x, B)
    BY <1>0, <1>3, MovedKeeps
  <2>2. Holds(m4, ys, A)
    BY <1>0, <1>3, MovedWhole
  <2> QED BY <2>1, <2>2
<1>5. ASSUME NEW C \in Element, NEW c \in Nat, Holds(mem, c, C), c + Cells(C.impl) <= x
      PROVE  Holds(m4, c, C)
  <2>0. Cells(C.impl) \in Nat
    BY ElementCells
  <2>1. c + Cells(C.impl) <= ts /\ c + Cells(C.impl) <= zs /\ c + Cells(C.impl) <= ys
    BY <1>0, <1>5, <2>0
  <2>2. Holds(m1, c, C)
    BY <1>0, <1>5, <2>1, MovedKeeps DEF m1
  <2>3. Holds(m2, c, C)
    BY <1>0, <1>1, <1>5, <2>1, <2>2, MovedKeeps DEF m2
  <2>4. Holds(m3, c, C)
    BY <1>0, <1>2, <1>5, <2>3, MovedKeeps DEF m3
  <2> QED BY <1>0, <1>3, <2>1, <2>4, MovedKeeps
<1>6. ASSUME NEW C \in Element, NEW c \in Nat, Holds(mem, c, C), z <= c, c + Cells(C.impl) <= y
      PROVE  Holds(m4, c + s, C)
  <2> DEFINE k == Cells(C.impl)
  <2> DEFINE cs == c + s
  <2>0. k \in Nat
    BY ElementCells
  <2>1. /\ cs \in Nat /\ cs = c + zs - z /\ c + k <= z + d /\ cs + k <= ts /\ x + b <= cs /\ cs + k <= ys
    BY <1>0, <1>6, <2>0 DEF zs, ys, ts
  <2> HIDE DEF cs
  <2>2. Holds(m1, cs, C)
    BY <1>0, <1>6, <2>1, MovedHolds DEF m1
  <2>3. Holds(m2, cs, C)
    BY <1>0, <1>1, <2>1, <2>2, MovedKeeps DEF m2
  <2>4. Holds(m3, cs, C)
    BY <1>0, <1>2, <2>1, <2>3, MovedKeeps DEF m3
  <2>5. Holds(m4, cs, C)
    BY <1>0, <1>3, <2>1, <2>4, MovedKeeps
  <2> QED BY <2>5 DEF cs
<1>7. m4 = SmallerMoved(mem, x, y, z, t, a, b, s)
  BY DEF SmallerMoved, m1, m2, m3, zs, ys, ts, d
<1> HIDE DEF m4
<1> QED BY <1>4, <1>5, <1>6, <1>7 DEF ys

\* The places an exchange of the element at pos with the topmost one starts from.
LEMMA Places ==
  ASSUME PopAfterExchange, IInv, Usable, NEW pos \in 0 .. length - 1, pos < length - 1
  PROVE  /\ length \in Nat /\ data_size \in Nat /\ Top \in Nat /\ pos \in Nat
         /\ \A p \in 0 .. length : values[p] \in Nat
         /\ \A p \in 0 .. length - 1 : Occupied(p) \in Nat
         /\ values[pos] \in Nat /\ values[pos + 1] \in Nat /\ values[length - 1] \in Nat
         /\ Occupied(pos) \in Nat /\ Occupied(length - 1) \in Nat
         /\ values[pos] + Occupied(pos) <= values[pos + 1]
         /\ values[pos + 1] <= values[length - 1]
         /\ values[length - 1] + Occupied(length - 1) <= Top
         /\ \A q \in 0 .. pos - 1 : values[q] + Occupied(q) <= values[pos]
         /\ \A q \in pos + 1 .. length - 2 :
              values[pos + 1] <= values[q] /\ values[q] + Occupied(q) <= values[length - 1]
<1>1. /\ Ordered /\ length \in Nat /\ data_size \in Nat /\ Top \in Nat
      /\ \A p \in 0 .. length : values[p] \in Nat
      /\ \A p \in 0 .. length - 1 : Occupied(p) \in Nat /\ values[p] + Occupied(p) <= Top
      /\ values[pos] + Occupied(pos) <= values[pos + 1]
  BY Before DEF IInv
<1>2. pos \in Nat /\ pos + 1 \in 0 .. length - 1 /\ length - 1 \in 0 .. length - 1
  BY <1>1
<1>3. values[pos + 1] <= values[length - 1]
  <2>1. CASE pos + 1 = length - 1
    BY <1>1, <1>2, <2>1
  <2>2. CASE pos + 1 # length - 1
    <3>1. pos + 1 < length - 1 /\ pos + 1 \in 0 .. length /\ length - 1 \in 0 .. length
      BY <1>1, <1>2, <2>2
    <3> QED BY <1>1, <3>1 DEF Ordered
  <2> QED BY <2>1, <2>2
<1>4. ASSUME NEW q \in 0 .. pos - 1 PROVE values[q] + Occupied(q) <= values[pos]
  <2>1. q \in 0 .. length - 1 /\ q < pos
    BY <1>1, <1>2
  <2> QED BY <1>1, <2>1 DEF Ordered
<1>5. ASSUME NEW q \in pos + 1 .. length - 2
      PROVE  values[pos + 1] <= values[q] /\ values[q] + Occupied(q) <= values[length - 1]
  <2>1. q \in 0 .. length - 1 /\ q < length - 1 /\ q \in 0 .. length /\ pos + 1 \in 0 .. length
    BY <1>1, <1>2
  <2>2. values[q] + Occupied(q) <= values[length - 1]
    BY <1>1, <1>2, <2>1 DEF Ordered
  <2>3. CASE q = pos + 1
    BY <1>1, <2>1, <2>2, <2>3
  <2>4. CASE q # pos + 1
    <3>1. pos + 1 < q
      BY <1>2, <2>1, <2>4
    <3> QED BY <1>1, <2>1, <2>2, <3>1 DEF Ordered
  <2> QED BY <2>3, <2>4
<1> QED BY <1>1, <1>2, <1>3, <1>4, <1>5

\* The stack an exchange promises; the implementations are exchanged with it.
Swapped(s, pos) == [s EXCEPT ![pos + 1] = s[Len(s)], ![Len(s)] = s[pos + 1]]

\* What Swapped leaves at each position.
LEMMA SwappedElements ==
  ASSUME NEW s \in Seq(Element), NEW pos \in Nat, pos < Len(s) - 1
  PROVE  /\ Swapped(s, pos) \in Seq(Element) /\ Len(Swapped(s, pos)) = Len(s)
         /\ Swapped(s, pos)[pos + 1] = s[Len(s)]
         /\ Swapped(s, pos)[Len(s)] = s[pos + 1]
         /\ \A i \in 1 .. Len(s) : i # pos + 1 /\ i # Len(s) => Swapped(s, pos)[i] = s[i]
<1> DEFINE n == Len(s)
<1> DEFINE u == [s EXCEPT ![pos + 1] = s[n]]
<1>1. n \in Nat /\ pos + 1 \in 1 .. n /\ n \in 1 .. n /\ pos + 1 # n
  BY LenProperties
<1>2. s[n] \in Element /\ s[pos + 1] \in Element
  BY <1>1, ElementOfSeq
<1>3. u \in Seq(Element) /\ Len(u) = n /\ \A j \in 1 .. n : u[j] = IF j = pos + 1 THEN s[n] ELSE s[j]
  BY <1>1, <1>2, ExceptSeq
<1> HIDE DEF u
<1> DEFINE v == [u EXCEPT ![n] = s[pos + 1]]
<1>4. v \in Seq(Element) /\ Len(v) = n /\ \A j \in 1 .. n : v[j] = IF j = n THEN s[pos + 1] ELSE u[j]
  <2>1. n \in 1 .. Len(u)
    BY <1>1, <1>3
  <2> HIDE DEF n
  <2>2. v \in Seq(Element) /\ Len(v) = Len(u) /\ \A j \in 1 .. Len(u) : v[j] = IF j = n THEN s[pos + 1] ELSE u[j]
    BY <1>2, <1>3, <2>1, ExceptSeq
  <2> QED BY <1>3, <2>2
<1>5. Swapped(s, pos) = v
  BY DEF Swapped, u, v
<1> HIDE DEF v
<1> QED BY <1>1, <1>3, <1>4, <1>5

\* The implementations are exchanged with the elements.
LEMMA SwapImplements ==
  ASSUME NEW n \in Nat, n >= data_size, IInv, Intact, NEW pos \in 0 .. length - 1, pos < length - 1,
         SwapImpls(pos), pos \in Nat
  PROVE  /\ Swapped(contents, pos) \in Seq(Element) /\ Len(Swapped(contents, pos)) = length
         /\ Swapped(contents, pos)[pos + 1] = contents[length]
         /\ Swapped(contents, pos)[length] = contents[pos + 1]
         /\ \A p \in 0 .. length - 1 :
              /\ p # pos /\ p # length - 1 => Swapped(contents, pos)[p + 1] = contents[p + 1]
              /\ impls'[p] = Swapped(contents, pos)[p + 1].impl
<1>1. /\ contents \in Seq(Element) /\ Len(contents) = length /\ length \in Nat
      /\ \A p \in 0 .. length - 1 : contents[p + 1].impl = impls[p]
      /\ impls \in [0 .. length - 1 -> Held]
  BY Resident DEF IInv, TypeOK, Held
<1> DEFINE E == Swapped(contents, pos)
<1>2. /\ E \in Seq(Element) /\ Len(E) = length /\ E[pos + 1] = contents[length] /\ E[length] = contents[pos + 1]
      /\ \A i \in 1 .. length : i # pos + 1 /\ i # length => E[i] = contents[i]
  BY <1>1, SwappedElements
<1> HIDE DEF E
<1>3. /\ impls'[pos] = impls[length - 1] /\ impls'[length - 1] = impls[pos]
      /\ \A p \in 0 .. length - 1 : p # pos /\ p # length - 1 => impls'[p] = impls[p]
  BY <1>1 DEF SwapImpls
<1>4. ASSUME NEW p \in 0 .. length - 1
      PROVE  /\ p # pos /\ p # length - 1 => E[p + 1] = contents[p + 1]
             /\ impls'[p] = E[p + 1].impl
  <2>1. length - 1 \in 0 .. length - 1 /\ length = length - 1 + 1
    BY <1>1
  <2>2. CASE p = pos
    BY <1>1, <1>2, <1>3, <2>1, <2>2
  <2>3. CASE p = length - 1
    BY <1>1, <1>2, <1>3, <2>1, <2>3
  <2>4. CASE p # pos /\ p # length - 1
    <3>1. p + 1 \in 1 .. length /\ p + 1 # pos + 1 /\ p + 1 # length
      BY <1>1, <2>4
    <3> QED BY <1>1, <1>2, <1>3, <2>4, <3>1
  <2> QED BY <2>2, <2>3, <2>4
<1> QED BY <1>2, <1>4 DEF E

\* Everything above pos moves by d cells, and memory m holds every element of E where
\* its entry then points.
Raised(pos, d) ==
  \A p \in 0 .. length : values'[p] = IF p > pos THEN values[p] + d ELSE values[p]
Found(m, E, pos, d) ==
  /\ \A p \in 0 .. length - 1 : p <= pos => Holds(m, values[p], E[p + 1])
  /\ \A p \in 0 .. length - 1 : p > pos => Holds(m, values[p] + d, E[p + 1])

\* An operation that leaves the positions alone implements the change to E.
LEMMA ShiftImplements ==
  ASSUME IInv', NEW E \in Seq(Element), length \in Nat, Len(E) = length, length' = length,
         NEW m, data' = Settled(m), NEW pos \in 0 .. length - 1, NEW d \in Int,
         Raised(pos, d), Found(m, E, pos, d), \A p \in 0 .. length - 1 : impls'[p] = E[p + 1].impl
  PROVE  contents' = E /\ Intact'
<1>1. ASSUME NEW p \in 0 .. length - 1
      PROVE  Holds(m, values'[p], E[p + 1])
  <2>1. CASE p <= pos
    <3>1. values'[p] = values[p]
      BY <2>1 DEF Raised
    <3> QED BY <2>1, <3>1 DEF Found
  <2>2. CASE p > pos
    <3>1. values'[p] = values[p] + d
      BY <2>2 DEF Raised
    <3> QED BY <2>2, <3>1 DEF Found
  <2> QED BY <2>1, <2>2
<1>2. Laid(m, E)
  BY <1>1 DEF Laid
<1>3. values' \in [0 .. length -> Nat]
  BY DEF IInv, TypeOK
<1> QED BY <1>2, <1>3, SettledHolds

\* What the three exchanges share, given what their moves leave in memory.
LEMMA ExchangeImplements ==
  ASSUME PopAfterExchange, IInv, IInv', Intact, Usable,
         NEW pos \in 0 .. length - 1, pos < length - 1, SwapImpls(pos), length' = length,
         NEW n \in Nat, n >= data_size, NEW m, data' = Settled(m), NEW d \in Int,
         Raised(pos, d),
         Holds(m, values[pos], contents[length]),
         Holds(m, values[length - 1] + d, contents[pos + 1]),
         \A C \in Element, c \in Nat :
           Holds(Resized(n), c, C) /\ c + Cells(C.impl) <= values[pos] => Holds(m, c, C),
         \A C \in Element, c \in Nat :
           Holds(Resized(n), c, C) /\ values[pos + 1] <= c /\ c + Cells(C.impl) <= values[length - 1]
             => Holds(m, c + d, C)
  PROVE  contents' = Swapped(contents, pos) /\ Intact'
<1> DEFINE E == Swapped(contents, pos)
<1>1. /\ length \in Nat /\ pos \in Nat
      /\ \A p \in 0 .. length : values[p] \in Nat
      /\ \A q \in 0 .. pos - 1 : values[q] + Occupied(q) <= values[pos]
      /\ \A q \in pos + 1 .. length - 2 :
           values[pos + 1] <= values[q] /\ values[q] + Occupied(q) <= values[length - 1]
  BY Places
<1>2. /\ E \in Seq(Element) /\ Len(E) = length
      /\ E[pos + 1] = contents[length] /\ E[length] = contents[pos + 1]
      /\ \A p \in 0 .. length - 1 :
           /\ p # pos /\ p # length - 1 => E[p + 1] = contents[p + 1]
           /\ impls'[p] = E[p + 1].impl
  BY <1>1, SwapImplements
<1>3. \A p \in 0 .. length - 1 :
         /\ contents[p + 1] \in Element /\ Cells(contents[p + 1].impl) = Occupied(p)
         /\ Holds(Resized(n), values[p], contents[p + 1])
  BY Resident
<1> HIDE DEF E
<1>4. ASSUME NEW p \in 0 .. length - 1, p <= pos PROVE Holds(m, values[p], E[p + 1])
  <2>1. CASE p = pos
    BY <1>2, <2>1
  <2>2. CASE p # pos
    <3>1. p \in 0 .. pos - 1 /\ p # length - 1 /\ p \in 0 .. length
      BY <1>1, <1>4, <2>2
    <3>2. E[p + 1] = contents[p + 1]
      BY <1>2, <2>2, <3>1
    <3> QED BY <1>1, <1>3, <3>1, <3>2
  <2> QED BY <2>1, <2>2
<1>5. ASSUME NEW p \in 0 .. length - 1, p > pos PROVE Holds(m, values[p] + d, E[p + 1])
  <2>1. CASE p = length - 1
    <3>1. p + 1 = length
      BY <1>1, <2>1
    <3> QED BY <1>2, <2>1, <3>1
  <2>2. CASE p # length - 1
    <3>1. p \in pos + 1 .. length - 2 /\ p # pos /\ p \in 0 .. length
      BY <1>1, <1>5, <2>2
    <3>2. E[p + 1] = contents[p + 1]
      BY <1>2, <2>2, <3>1
    <3>3. contents[p + 1] \in Element /\ Holds(Resized(n), values[p], contents[p + 1])
      BY <1>3
    <3>4. /\ values[p] \in Nat /\ values[pos + 1] <= values[p]
          /\ values[p] + Cells(contents[p + 1].impl) <= values[length - 1]
      BY <1>1, <1>3, <3>1
    <3> QED BY <3>2, <3>3, <3>4
  <2> QED BY <2>1, <2>2
<1>6. Found(m, E, pos, d)
  BY <1>4, <1>5 DEF Found
<1>7. contents' = E /\ Intact'
  BY <1>1, <1>2, <1>6, ShiftImplements
<1> QED BY <1>7 DEF E

\* The two elements an exchange starts from, in a data block of n cells.
LEMMA Exchangeable ==
  ASSUME IInv, Intact, NEW n \in Nat, n >= data_size, NEW pos \in 0 .. length - 1
  PROVE  /\ Block(Resized(n), n)
         /\ contents[pos + 1] \in Element /\ contents[length] \in Element
         /\ Cells(contents[pos + 1].impl) = Occupied(pos)
         /\ Cells(contents[length].impl) = Occupied(length - 1)
         /\ Holds(Resized(n), values[pos], contents[pos + 1])
         /\ Holds(Resized(n), values[length - 1], contents[length])
<1>1. length - 1 \in 0 .. length - 1 /\ length - 1 + 1 = length
  BY Numbers DEF IInv
<1> QED BY <1>1, Resident

LEMMA ExchangeEqualImplements ==
  ASSUME PopAfterExchange, ~MemcpyAscends, IInv, IInv', Intact,
         NEW pos \in 0 .. length - 1, ExchangeEqual(pos)
  PROVE  pos < length - 1 /\ contents' = Swapped(contents, pos) /\ Intact'
<1> DEFINE a == Occupied(pos)
<1> DEFINE b == Occupied(length - 1)
<1> DEFINE x == values[pos]
<1> DEFINE y == values[length - 1]
<1> DEFINE z == values[pos + 1]
<1> DEFINE n == data_size'
<1> DEFINE mem == Resized(n)
<1> DEFINE A == contents[pos + 1]
<1> DEFINE B == contents[length]
<1> DEFINE m == EqualMoved(mem, x, y, Top, a)
<1>1. Usable /\ pos < length - 1 /\ a = b /\ SwapImpls(pos) /\ EnsureSize(1, a, length, Top + a)
  BY DEF ExchangeEqual
<1>2. length' = length /\ data' = Settled(m)
  <2>1. data_size' = GrownCells(a)
    BY <1>1 DEF EnsureSize
  <2> QED BY <2>1 DEF ExchangeEqual, Copy, EqualMoved
<1>3. /\ TypeOK /\ Roomy /\ fault = "none" /\ length \in Nat /\ data_size \in Nat /\ Top \in Nat
      /\ \A p \in 0 .. length : values[p] \in Nat
      /\ x \in Nat /\ y \in Nat /\ z \in Nat /\ a \in Nat /\ b \in Nat
      /\ x + a <= z /\ z <= y /\ y + b <= Top
  BY <1>1, Places DEF IInv, Usable
<1>4. Raised(pos, 0)
  BY <1>3 DEF Raised, ExchangeEqual
<1>6. n \in Nat /\ n >= data_size /\ n >= Top + a
  <2>1. Top + a \in Nat /\ length <= length + 1 /\ Top + a <= Top + a
    BY <1>1, <1>3
  <2> HIDE DEF a, b
  <2> QED BY <1>1, <1>3, <2>1, EnsureEnough
<1> HIDE DEF n
<1>7. /\ Block(mem, n) /\ A \in Element /\ B \in Element /\ Cells(A.impl) = a /\ Cells(B.impl) = b
      /\ Holds(mem, x, A) /\ Holds(mem, y, B)
  BY <1>6, Exchangeable
<1> HIDE DEF mem, A, B, a, b, x, y, z
<1>8. x + a <= y /\ y + a <= Top /\ Top + a <= n
  BY <1>1, <1>3, <1>6
<1>9. /\ Holds(m, x, B) /\ Holds(m, y, A)
      /\ \A C \in Element, c \in Nat :
           /\ Holds(mem, c, C)
           /\ c + Cells(C.impl) <= x \/ (x + a <= c /\ c + Cells(C.impl) <= y)
           => Holds(m, c, C)
  BY <1>1, <1>3, <1>7, <1>8, EqualMoves
<1> HIDE DEF m
<1>10. /\ Holds(m, y + 0, A)
       /\ \A C \in Element, c \in Nat : Holds(mem, c, C) /\ c + Cells(C.impl) <= x => Holds(m, c, C)
       /\ \A C \in Element, c \in Nat :
            Holds(mem, c, C) /\ z <= c /\ c + Cells(C.impl) <= y => Holds(m, c + 0, C)
  <2>1. y + 0 = y /\ \A c \in Nat : c + 0 = c /\ (z <= c => x + a <= c)
    BY <1>3
  <2> QED BY <1>9, <2>1
<1> QED BY <1>1, <1>2, <1>4, <1>6, <1>9, <1>10, ExchangeImplements DEF A, B, x, y, z, mem

LEMMA ExchangeLargerImplements ==
  ASSUME PopAfterExchange, ~MemcpyAscends, IInv, IInv', Intact,
         NEW pos \in 0 .. length - 1, ExchangeLarger(pos)
  PROVE  pos < length - 1 /\ contents' = Swapped(contents, pos) /\ Intact'
<1> DEFINE a == Occupied(pos)
<1> DEFINE b == Occupied(length - 1)
<1> DEFINE x == values[pos]
<1> DEFINE y == values[length - 1]
<1> DEFINE z == values[pos + 1]
<1> DEFINE n == data_size'
<1> DEFINE mem == Resized(n)
<1> DEFINE A == contents[pos + 1]
<1> DEFINE B == contents[length]
<1> DEFINE s == a - b
<1> DEFINE m == LargerMoved(mem, x, y, z, Top, a, b, s)
<1>1. Usable /\ pos < length - 1 /\ a > b /\ SwapImpls(pos) /\ EnsureSize(0, a, length, Top + a)
  BY DEF ExchangeLarger
<1>2. length' = length /\ data' = Settled(m)
  <2>1. data_size' = GrownCells(a)
    BY <1>1 DEF EnsureSize
  <2> QED BY <2>1 DEF ExchangeLarger, Copy, LargerMoved
<1>3. /\ TypeOK /\ Roomy /\ fault = "none" /\ length \in Nat /\ data_size \in Nat /\ Top \in Nat
      /\ \A p \in 0 .. length : values[p] \in Nat
      /\ x \in Nat /\ y \in Nat /\ z \in Nat /\ a \in Nat /\ b \in Nat
      /\ x + a <= z /\ z <= y /\ y + b <= Top
  BY <1>1, Places DEF IInv, Usable
<1>4. Raised(pos, -s)
  BY <1>3 DEF Raised, ExchangeLarger
<1>5. s \in Nat /\ a = b + s /\ -s \in Int
  BY <1>1, <1>3
<1>6. n \in Nat /\ n >= data_size /\ n >= Top + a
  <2>1. Top + a \in Nat /\ length <= length + 0 /\ Top + a <= Top + a
    BY <1>1, <1>3
  <2> HIDE DEF a, b, s
  <2> QED BY <1>1, <1>3, <2>1, EnsureEnough
<1> HIDE DEF n
<1>7. /\ Block(mem, n) /\ A \in Element /\ B \in Element /\ Cells(A.impl) = a /\ Cells(B.impl) = b
      /\ Holds(mem, x, A) /\ Holds(mem, y, B)
  BY <1>6, Exchangeable
<1> HIDE DEF mem, A, B, a, b, x, y, z, s
<1>8. Top + a <= n
  BY <1>3, <1>6
<1>9. /\ Holds(m, x, B) /\ Holds(m, y - s, A)
      /\ \A C \in Element, c \in Nat :
           /\ Holds(mem, c, C) /\ c + Cells(C.impl) <= x => Holds(m, c, C)
           /\ Holds(mem, c, C) /\ z <= c /\ c + Cells(C.impl) <= y => Holds(m, c - s, C)
  <2>1. Block(mem, n) /\ A \in Element /\ B \in Element /\ Holds(mem, x, A) /\ Holds(mem, y, B)
    BY <1>7, Zenon
  <2>2. /\ x \in Nat /\ y \in Nat /\ z \in Nat /\ Top \in Nat /\ a \in Nat /\ b \in Nat /\ s \in Nat
        /\ Cells(A.impl) = a /\ Cells(B.impl) = b /\ a = b + s
        /\ x + a <= z /\ z <= y /\ y + b <= Top /\ Top + a <= n
    BY <1>3, <1>5, <1>7, <1>8, Zenon
  <2>3. LargerReady(mem, n, A, B, x, y, z, Top, a, b, s)
    BY <2>1, <2>2, Zenon DEF LargerReady
  <2> QED BY <2>3, LargerMoves, Zenon
<1> HIDE DEF m
<1>10. /\ Holds(m, y + -s, A)
       /\ \A C \in Element, c \in Nat : Holds(mem, c, C) /\ c + Cells(C.impl) <= x => Holds(m, c, C)
       /\ \A C \in Element, c \in Nat :
            Holds(mem, c, C) /\ z <= c /\ c + Cells(C.impl) <= y => Holds(m, c + -s, C)
  <2>1. y + -s = y - s /\ \A c \in Nat : c + -s = c - s
    BY <1>3, <1>5
  <2> QED BY <1>9, <2>1
<1> QED BY <1>1, <1>2, <1>4, <1>5, <1>6, <1>9, <1>10, ExchangeImplements DEF A, B, x, y, z, mem

LEMMA ExchangeSmallerImplements ==
  ASSUME PopAfterExchange, ~MemcpyAscends, IInv, IInv', Intact,
         NEW pos \in 0 .. length - 1, ExchangeSmaller(pos)
  PROVE  pos < length - 1 /\ contents' = Swapped(contents, pos) /\ Intact'
<1> DEFINE a == Occupied(pos)
<1> DEFINE b == Occupied(length - 1)
<1> DEFINE x == values[pos]
<1> DEFINE y == values[length - 1]
<1> DEFINE z == values[pos + 1]
<1> DEFINE n == data_size'
<1> DEFINE mem == Resized(n)
<1> DEFINE A == contents[pos + 1]
<1> DEFINE B == contents[length]
<1> DEFINE s == b - a
<1> DEFINE m == SmallerMoved(mem, x, y, z, Top, a, b, s)
<1>1. Usable /\ pos < length - 1 /\ a < b /\ SwapImpls(pos) /\ EnsureSize(0, b, length, Top + s + a)
  BY DEF ExchangeSmaller
<1>2. length' = length /\ data' = Settled(m)
  <2>1. data_size' = GrownCells(b)
    BY <1>1 DEF EnsureSize
  <2> QED BY <2>1 DEF ExchangeSmaller, Copy, SmallerMoved
<1>3. /\ TypeOK /\ Roomy /\ fault = "none" /\ length \in Nat /\ data_size \in Nat /\ Top \in Nat
      /\ \A p \in 0 .. length : values[p] \in Nat
      /\ x \in Nat /\ y \in Nat /\ z \in Nat /\ a \in Nat /\ b \in Nat
      /\ x + a <= z /\ z <= y /\ y + b <= Top
  BY <1>1, Places DEF IInv, Usable
<1>4. Raised(pos, s)
  BY <1>3 DEF Raised, ExchangeSmaller
<1>5. s \in Nat /\ b = a + s /\ s \in Int
  BY <1>1, <1>3
<1>6. n \in Nat /\ n >= data_size /\ n >= Top + b
  <2>1. Top + s + a \in Nat /\ length <= length + 0 /\ Top + s + a <= Top + b
    BY <1>1, <1>3
  <2> HIDE DEF a, b, s
  <2> QED BY <1>1, <1>3, <2>1, EnsureEnough
<1> HIDE DEF n
<1>7. /\ Block(mem, n) /\ A \in Element /\ B \in Element /\ Cells(A.impl) = a /\ Cells(B.impl) = b
      /\ Holds(mem, x, A) /\ Holds(mem, y, B)
  BY <1>6, Exchangeable
<1> HIDE DEF mem, A, B, a, b, x, y, z, s
<1>8. Top + b <= n
  BY <1>3, <1>6
<1>9. /\ Holds(m, x, B) /\ Holds(m, y + s, A)
      /\ \A C \in Element, c \in Nat :
           /\ Holds(mem, c, C) /\ c + Cells(C.impl) <= x => Holds(m, c, C)
           /\ Holds(mem, c, C) /\ z <= c /\ c + Cells(C.impl) <= y => Holds(m, c + s, C)
  <2> HIDE DEF m
  <2>1. m = SmallerMoved(mem, x, y, z, Top, a, b, s)
    BY DEF m
  <2>2. SmallerReady(mem, n, A, B, x, y, z, Top, a, b, s)
    BY <1>3, <1>5, <1>7, <1>8, Zenon DEF SmallerReady
  <2> QED BY <2>1, <2>2, SmallerMoves, Zenon
<1> HIDE DEF m
<1> QED BY <1>1, <1>2, <1>4, <1>5, <1>6, <1>9, ExchangeImplements DEF A, B, x, y, z, mem

(***************************************************************************)
(* The conversions.                                                        *)
(***************************************************************************)
LEMMA ConversionElement ==
  ASSUME NEW f \in Element, NEW to \in Impls, NEW e \in Conversions(f, to)
  PROVE  e \in Element
<1>1. CASE f = Null \/ f.impl = to
  BY <1>1 DEF Conversions
<1>2. CASE ~(f = Null \/ f.impl = to)
  <2>1. f \in [impl : Impls, content : Contents]
    BY <1>2 DEF Element
  <2>2. e = [f EXCEPT !.impl = IF Bytes[to] <= CellBytes THEN to ELSE Boxed]
    BY <1>2 DEF Conversions
  <2>3. (IF Bytes[to] <= CellBytes THEN to ELSE Boxed) \in Impls
    BY ValuesAssumption
  <2> QED BY <2>1, <2>2, <2>3 DEF Element
<1> QED BY <1>1, <1>2

\* The stack a conversion promises.
Replaced(s, pos, e) == [s EXCEPT ![pos + 1] = e]

LEMMA ReplacedElements ==
  ASSUME NEW s \in Seq(Element), NEW pos \in Nat, pos < Len(s), NEW e \in Element
  PROVE  /\ Replaced(s, pos, e) \in Seq(Element) /\ Len(Replaced(s, pos, e)) = Len(s)
         /\ Replaced(s, pos, e)[pos + 1] = e
         /\ \A p \in 0 .. Len(s) - 1 : p # pos => Replaced(s, pos, e)[p + 1] = s[p + 1]
<1>1. pos + 1 \in 1 .. Len(s) /\ Len(s) \in Nat
  BY LenProperties
<1> DEFINE E == Replaced(s, pos, e)
<1>2. E \in Seq(Element) /\ Len(E) = Len(s) /\ \A j \in 1 .. Len(s) : E[j] = IF j = pos + 1 THEN e ELSE s[j]
  BY <1>1, ExceptSeq DEF Replaced
<1> HIDE DEF E
<1>3. E[pos + 1] = e
  BY <1>1, <1>2
<1>4. \A p \in 0 .. Len(s) - 1 : p # pos => E[p + 1] = s[p + 1]
  BY <1>1, <1>2
<1> QED BY <1>2, <1>3, <1>4 DEF E

\* The conversion in place, once the room has been made for it.
LEMMA ConvertInPlaceImplements ==
  ASSUME PopAfterExchange, IInv, IInv', Intact, Usable, NEW pos \in 0 .. length - 1, NEW to \in Impls,
         NEW n \in Nat, n >= data_size, NEW m, Block(m, n), length' = length, NEW d \in Nat, Raised(pos, d),
         Found(m, contents, pos, d), ConvertInPlace(pos, to, m)
  PROVE  /\ Intact'
         /\ \/ contents' = contents
            \/ \E e \in Conversions(contents[pos + 1], to) : contents' = Replaced(contents, pos, e)
<1>1. /\ TypeOK /\ Ordered /\ Roomy /\ length \in Nat /\ data_size \in Nat /\ Top \in Nat
      /\ \A p \in 0 .. length : values[p] \in Nat
      /\ \A p \in 0 .. length - 1 : /\ impls[p] \in Held /\ Occupied(p) \in Nat
                                    /\ values[p] + Occupied(p) <= Top
      /\ impls \in [0 .. length - 1 -> Held] /\ pos \in Nat /\ pos < length
  BY Before DEF IInv
<1>2. /\ contents \in Seq(Element) /\ Len(contents) = length
      /\ \A p \in 0 .. length - 1 :
           /\ contents[p + 1] \in Element /\ contents[p + 1].impl = impls[p]
           /\ Cells(contents[p + 1].impl) = Occupied(p)
  BY Resident
<1>3. contents[pos + 1] = ElementAt(pos)
  BY <1>1, ContentsSeq
<1>4. CASE UNCHANGED impls /\ data' = Settled(m)
  <2>1. \A p \in 0 .. length - 1 : impls'[p] = contents[p + 1].impl
    BY <1>2, <1>4
  <2>2. d \in Int
    OBVIOUS
  <2> QED BY <1>1, <1>2, <1>4, <2>1, <2>2, ShiftImplements
<1>5. ASSUME NEW e \in Conversions(ElementAt(pos), to), impls' = [impls EXCEPT ![pos] = e.impl],
             data' = Settled(Store(m, values[pos], e))
      PROVE  Intact' /\ contents' = Replaced(contents, pos, e)
  <2>1. e \in Element
    BY <1>2, <1>3, ConversionElement
  <2>2. Cells(e.impl) \in Nat /\ Cells(e.impl) <= Occupied(pos)
    <3>1. impls[pos] \in Held
      BY <1>1
    <3> QED BY <2>1, <3>1, ConversionShrinks, ElementCells
  <2> DEFINE E == Replaced(contents, pos, e)
  <2> DEFINE w == Store(m, values[pos], e)
  <2>3. /\ E \in Seq(Element) /\ Len(E) = length /\ E[pos + 1] = e
        /\ \A p \in 0 .. length - 1 : p # pos => E[p + 1] = contents[p + 1]
    <3>1. contents \in Seq(Element) /\ Len(contents) = length /\ pos \in Nat /\ pos < Len(contents)
      BY <1>1, <1>2
    <3> QED BY <2>1, <3>1, ReplacedElements
  <2> HIDE DEF E
  <2>4. Holds(w, values[pos], e)
    <3>1. values[pos] \in Nat /\ values[pos] + Cells(e.impl) <= n
      BY <1>1, <2>2 DEF Roomy
    <3> QED BY <2>1, <3>1, StoreHolds
  <2>5. ASSUME NEW p \in 0 .. length - 1, NEW a \in Nat, p # pos, Holds(m, a, contents[p + 1]),
               a + Occupied(p) <= values[pos] \/ values[pos] + Occupied(pos) <= a
        PROVE  Holds(w, a, E[p + 1])
    <3>1. values[pos] \in Nat /\ E[p + 1] = contents[p + 1] /\ contents[p + 1] \in Element
      BY <1>1, <1>2, <2>3, <2>5
    <3>2. a + Cells(contents[p + 1].impl) <= values[pos] \/ values[pos] + Cells(e.impl) <= a
      <4>1. Occupied(pos) \in Nat /\ Cells(contents[p + 1].impl) = Occupied(p)
        BY <1>1, <1>2
      <4> QED BY <2>2, <2>5, <3>1, <4>1
    <3> QED BY <2>1, <2>5, <3>1, <3>2, StoreKeeps
  <2> HIDE DEF w
  <2>6. ASSUME NEW p \in 0 .. length - 1, p <= pos PROVE Holds(w, values[p], E[p + 1])
    <3>1. CASE p = pos
      BY <2>3, <2>4, <3>1
    <3>2. CASE p # pos
      <4>1. values[p] \in Nat /\ p < pos
        BY <1>1, <2>6, <3>2
      <4>2. values[p] + Occupied(p) <= values[pos]
        BY <1>1, <4>1 DEF Ordered
      <4>3. Holds(m, values[p], contents[p + 1])
        BY <2>6 DEF Found
      <4> QED BY <2>5, <3>2, <4>1, <4>2, <4>3
    <3> QED BY <3>1, <3>2
  <2>7. ASSUME NEW p \in 0 .. length - 1, p > pos PROVE Holds(w, values[p] + d, E[p + 1])
    <3> DEFINE a == values[p] + d
    <3>1. a \in Nat /\ values[p] \in Nat /\ p # pos
      BY <1>1, <2>7
    <3>2. values[pos] + Occupied(pos) <= values[p]
      BY <1>1, <2>7 DEF Ordered
    <3>3. values[pos] + Occupied(pos) <= a
      <4>1. values[pos] \in Nat /\ Occupied(pos) \in Nat
        BY <1>1
      <4> QED BY <3>1, <3>2, <4>1
    <3>4. Holds(m, a, contents[p + 1])
      BY <2>7 DEF Found
    <3> HIDE DEF a
    <3>5. Holds(w, a, E[p + 1])
      BY <2>5, <3>1, <3>3, <3>4
    <3> QED BY <3>5 DEF a
  <2>8. Found(w, E, pos, d)
    BY <2>6, <2>7 DEF Found
  <2>9. \A p \in 0 .. length - 1 : impls'[p] = E[p + 1].impl
    BY <1>1, <1>2, <1>5, <2>3
  <2>10. contents' = E /\ Intact'
    <3>1. d \in Int /\ data' = Settled(w)
      BY <1>5 DEF w
    <3> QED BY <1>1, <2>3, <2>8, <2>9, <3>1, ShiftImplements
  <2> QED BY <2>10 DEF E
<1> QED BY <1>3, <1>4, <1>5 DEF ConvertInPlace

LEMMA ConvertFittingImplements ==
  ASSUME PopAfterExchange, IInv, IInv', Intact, NEW pos \in 0 .. length - 1, NEW to \in Impls,
         ConvertFitting(pos, to)
  PROVE  /\ Intact'
         /\ \/ contents' = contents
            \/ \E e \in Conversions(contents[pos + 1], to) : contents' = Replaced(contents, pos, e)
<1>1. Usable /\ UNCHANGED <<length, values>> /\ ConvertInPlace(pos, to, data)
  BY DEF ConvertFitting
<1>2. /\ data_size \in Nat /\ data_size >= data_size /\ Block(data, data_size)
      /\ length \in Nat /\ \A p \in 0 .. length : values[p] \in Nat
  BY <1>1, Before DEF Block
<1>3. Raised(pos, 0)
  BY <1>1, <1>2 DEF Raised
<1>4. Found(data, contents, pos, 0)
  <2>1. \A p \in 0 .. length - 1 : Holds(data, values[p], contents[p + 1])
    BY <1>2, Resident
  <2>2. \A p \in 0 .. length - 1 : values[p] + 0 = values[p]
    BY <1>2
  <2> QED BY <2>1, <2>2 DEF Found
<1>5. 0 \in Nat
  OBVIOUS
<1> QED BY <1>1, <1>2, <1>3, <1>4, <1>5, ConvertInPlaceImplements

LEMMA ConvertGrowingImplements ==
  ASSUME PopAfterExchange, ~MemcpyAscends, IInv, IInv', Intact,
         NEW pos \in 0 .. length - 1, NEW to \in Impls, ConvertGrowing(pos, to)
  PROVE  /\ Intact'
         /\ \/ contents' = contents
            \/ \E e \in Conversions(contents[pos + 1], to) : contents' = Replaced(contents, pos, e)
<1> DEFINE s == Shortage(pos, to) \div CellBytes
<1> DEFINE z == values[pos + 1]
<1> DEFINE n == data_size'
<1> DEFINE m == Moved(Resized(n), z + s, z, Top - z)
<1>1. /\ Usable /\ s > 0 /\ length' = length /\ EnsureSize(0, s, length, Top + s)
      /\ values' = [p \in 0 .. length |-> IF p > pos THEN values[p] + s ELSE values[p]]
  BY DEF ConvertGrowing
<1>2. ConvertInPlace(pos, to, m)
  <2>1. data_size' = GrownCells(s)
    BY <1>1 DEF EnsureSize
  <2> QED BY <2>1 DEF ConvertGrowing, Copy
<1>3. /\ TypeOK /\ Ordered /\ Roomy /\ fault = "none"
      /\ length \in Nat /\ data_size \in Nat /\ Top \in Nat /\ z \in Nat
      /\ \A p \in 0 .. length : values[p] \in Nat
      /\ \A p \in 0 .. length - 1 : Occupied(p) \in Nat /\ values[p] + Occupied(p) <= Top
      /\ values[pos] + Occupied(pos) <= z
  BY <1>1, Before DEF IInv
<1>4. s \in Nat
  <2>1. Bytes[to] \in Nat /\ Slot(pos) * 16 \in Int
    BY <1>3, ValuesAssumption DEF Slot
  <2>2. Shortage(pos, to) \in Nat
    BY <2>1 DEF Shortage, CellBytes
  <2> QED BY <2>2 DEF CellBytes
<1> HIDE DEF s
<1>5. n \in Nat /\ n >= data_size /\ n >= Top + s
  <2>1. Top + s \in Nat /\ length <= length + 0 /\ Top + s <= Top + s
    BY <1>3, <1>4
  <2> QED BY <1>1, <1>3, <1>4, <2>1, EnsureEnough
<1> HIDE DEF n
<1>6. Raised(pos, s)
  BY <1>1 DEF Raised
<1>7. /\ Block(Resized(n), n)
      /\ \A p \in 0 .. length - 1 :
           /\ contents[p + 1] \in Element /\ Cells(contents[p + 1].impl) = Occupied(p)
           /\ Holds(Resized(n), values[p], contents[p + 1])
  BY <1>5, Resident
<1>8. z <= Top
  <2>1. pos + 1 \in 0 .. length
    BY <1>3
  <2> QED BY <1>3, <2>1 DEF Ordered, Top
<1> DEFINE dst == z + s
<1> DEFINE k == Top - z
<1>9. dst \in Nat /\ k \in Nat /\ z <= dst /\ dst + k <= n /\ z + k = Top
  BY <1>3, <1>4, <1>5, <1>8
<1>10. m = Moved(Resized(n), dst, z, k)
  OBVIOUS
<1> HIDE DEF m, dst, k, z
<1>11. ASSUME NEW p \in 0 .. length - 1, p <= pos PROVE Holds(m, values[p], contents[p + 1])
  <2>1. values[p] \in Nat /\ Occupied(p) \in Nat
    BY <1>3
  <2>2. values[p] + Occupied(p) <= z
    <3>1. CASE p = pos
      BY <1>3, <3>1
    <3>2. CASE p # pos
      <4>1. p < pos /\ values[pos] \in Nat /\ Occupied(pos) \in Nat
        BY <1>3, <1>11, <3>2
      <4>2. values[p] + Occupied(p) <= values[pos]
        BY <1>3, <4>1 DEF Ordered
      <4> QED BY <1>3, <2>1, <4>1, <4>2
    <3> QED BY <3>1, <3>2
  <2>3. values[p] + Cells(contents[p + 1].impl) <= dst
    BY <1>3, <1>7, <1>9, <2>1, <2>2
  <2> QED BY <1>3, <1>7, <1>9, <1>10, <2>1, <2>3, MovedKeeps
<1>12. ASSUME NEW p \in 0 .. length - 1, p > pos PROVE Holds(m, values[p] + s, contents[p + 1])
  <2> DEFINE b == values[p] + s
  <2>1. values[p] \in Nat /\ b \in Nat /\ b = values[p] + dst - z
    BY <1>3, <1>4 DEF dst
  <2>2. z <= values[p]
    <3>1. CASE p = pos + 1
      BY <1>3, <3>1 DEF z
    <3>2. CASE p # pos + 1
      <4>1. pos + 1 \in 0 .. length /\ p \in 0 .. length /\ pos + 1 < p
        BY <1>3, <1>12, <3>2
      <4> QED BY <1>3, <2>1, <4>1 DEF Ordered, z
    <3> QED BY <3>1, <3>2
  <2>3. values[p] + Cells(contents[p + 1].impl) <= z + k
    BY <1>3, <1>7, <1>9
  <2> HIDE DEF b
  <2>4. Holds(m, b, contents[p + 1])
    BY <1>3, <1>7, <1>9, <1>10, <2>1, <2>2, <2>3, MovedHolds
  <2> QED BY <2>4 DEF b
<1>13. Found(m, contents, pos, s)
  BY <1>11, <1>12 DEF Found
<1>14. Block(m, n)
  BY <1>7, <1>10, MovedBlock
<1> QED BY <1>1, <1>2, <1>4, <1>5, <1>6, <1>13, <1>14, ConvertInPlaceImplements

(***************************************************************************)
(* Every step.                                                             *)
(***************************************************************************)
\* The values the promise speaks of are the ones the layout stores.
LEMMA SameValues ==
  /\ Promise!Element = Element
  /\ \A f \in Element, to \in Impls : Promise!Conversions(f, to) = Conversions(f, to)
BY DEF Promise!Element, Promise!Null, Promise!Conversions, Promise!CellBytes, Element, Null, Conversions, CellBytes

LEMMA StepImplements ==
  ASSUME PopAfterExchange, ~MemcpyAscends, IInv, Intact, [Next]_vars
  PROVE  Intact' /\ [Promise!Next]_contents
<1>0. /\ IInv' /\ length \in Nat /\ Len(contents) = length
      /\ \A p \in 0 .. length - 1 : ElementAt(p) = contents[p + 1] /\ ElementAt(p) \in Element
  BY StepKeeps, ContentsSeq DEF IInv, TypeOK, Intact
<1>1. CASE UNCHANGED vars
  BY <1>1 DEF vars, Intact, ElementAt, contents
<1>2. ASSUME NEW e \in Element, Push(e)
      PROVE  Intact' /\ Promise!Next
  <2>1. Intact' /\ contents' = Append(contents, e) /\ Len(contents) < MaxLength
    BY <1>0, <1>2, PushImplements DEF Push
  <2> QED BY <2>1, SameValues DEF Promise!Next, Promise!Push
<1>3. ASSUME NEW n \in 0 .. length, Pop(n)
      PROVE  Intact' /\ Promise!Next
  <2>1. Intact' /\ contents' = SubSeq(contents, 1, length - n)
    BY <1>0, <1>3, PopImplements
  <2>2. Promise!Pop(n)
    BY <1>0, <2>1 DEF Promise!Pop, Promise!Popped
  <2> QED BY <1>0, <2>1, <2>2 DEF Promise!Next
<1>4. ASSUME NEW first \in 0 .. length, NEW n \in 0 .. length, Remove(first, n)
      PROVE  Intact' /\ Promise!Next
  <2>1. /\ Intact' /\ first + n <= length
        /\ contents' = SubSeq(contents, 1, first) \o SubSeq(contents, first + n + 1, length)
    BY <1>0, <1>4, RemoveImplements
  <2>2. Promise!Remove(first, n)
    BY <1>0, <2>1 DEF Promise!Remove, Promise!Removed
  <2> QED BY <1>0, <2>1, <2>2 DEF Promise!Next
<1>5. ASSUME NEW pos \in 0 .. length - 1, Duplicate(pos)
      PROVE  Intact' /\ Promise!Next
  <2>1. PushElement(ElementAt(pos)) /\ ElementAt(pos) \in Element
    BY <1>0, <1>5 DEF Duplicate
  <2>2. Intact' /\ contents' = Append(contents, ElementAt(pos)) /\ Len(contents) < MaxLength
    BY <1>0, <2>1, PushImplements
  <2>3. Promise!Duplicate(pos)
    BY <1>0, <2>2 DEF Promise!Duplicate, Promise!Duplicated
  <2> QED BY <1>0, <2>2, <2>3 DEF Promise!Next
<1>6. ASSUME NEW pos \in 0 .. length - 1, Exchange(pos)
      PROVE  Intact' /\ Promise!Next
  <2>1. Intact' /\ pos < length - 1 /\ contents' = Swapped(contents, pos)
    BY <1>0, <1>6, ExchangeEqualImplements, ExchangeLargerImplements, ExchangeSmallerImplements DEF Exchange
  <2>2. Promise!Exchange(pos)
    BY <1>0, <2>1 DEF Promise!Exchange, Promise!Exchanged, Swapped
  <2> QED BY <1>0, <2>1, <2>2 DEF Promise!Next
<1>7. ASSUME NEW pos \in 0 .. length - 1, NEW to \in Impls, Convert(pos, to)
      PROVE  Intact' /\ [Promise!Next]_contents
  <2>1. CASE ConvertAsserts(pos, to)
    BY <2>1 DEF ConvertAsserts, Intact, ElementAt, contents
  <2>2. CASE ~ConvertAsserts(pos, to)
    <3>1. /\ Intact'
          /\ \/ contents' = contents
             \/ \E e \in Conversions(contents[pos + 1], to) : contents' = Replaced(contents, pos, e)
      BY <1>0, <1>7, <2>2, ConvertFittingImplements, ConvertGrowingImplements DEF Convert
    <3>2. ASSUME NEW e \in Conversions(contents[pos + 1], to), contents' = Replaced(contents, pos, e)
          PROVE  Promise!Next
      <4>1. e \in Promise!Conversions(contents[pos + 1], to) /\ pos < Len(contents)
        BY <1>0, SameValues
      <4>2. Promise!Convert(pos, to)
        BY <3>2, <4>1 DEF Promise!Convert, Replaced
      <4> QED BY <1>0, <4>2 DEF Promise!Next
    <3> QED BY <3>1, <3>2
  <2> QED BY <2>1, <2>2
<1> QED BY <1>1, <1>2, <1>3, <1>4, <1>5, <1>6, <1>7 DEF Next

LEMMA InitImplements == Init => Intact /\ Promise!Init
<1> SUFFICES ASSUME Init PROVE Intact /\ Promise!Init
  OBVIOUS
<1>1. length = 0 /\ 0 .. length - 1 = {} /\ 1 .. length = {}
  BY DEF Init
<1>2. contents = << >>
  BY <1>1 DEF contents
<1> QED BY <1>1, <1>2 DEF Intact, Promise!Init

(***************************************************************************)
(* Whatever an element's neighbours do, reading it back from the packed    *)
(* memory gives a well-formed element of its own implementation: no        *)
(* operation leaves an entry that points to a mixture of values (stack.c,  *)
(* the memcpy and memmove calls of every operation).                       *)
(***************************************************************************)
THEOREM ElementsIntact ==
  ASSUME PopAfterExchange, ~MemcpyAscends
  PROVE  Spec => []Intact
<1>1. IInv /\ Intact /\ [Next]_vars => Intact'
  BY StepImplements
<1> QED BY <1>1, InitImplements, Invariance, PTL DEF Spec

(***************************************************************************)
(* The packed layout keeps the promise of stack.h: through every push,     *)
(* pop, remove, duplicate, exchange and convert, what a client reads is    *)
(* what the same operations leave in a plain sequence of elements.         *)
(***************************************************************************)
THEOREM PackedImplementsStack ==
  ASSUME PopAfterExchange, ~MemcpyAscends
  PROVE  Spec => ImplementsStack
<1>1. Init => Promise!Init
  BY InitImplements
<1>2. IInv /\ Intact /\ [Next]_vars => [Promise!Next]_contents
  BY StepImplements
<1> QED BY <1>1, <1>2, Invariance, ElementsIntact, PTL DEF Spec, ImplementsStack, Promise!Spec
=============================================================================
