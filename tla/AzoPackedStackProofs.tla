------------------------- MODULE AzoPackedStackProofs -------------------------
(***************************************************************************)
(* Proofs about the memory layout of the value stack, for any sizes of the *)
(* values, any number of elements and any initial size of the blocks.      *)
(* The assumption throughout is the discipline of the compiler: a pop      *)
(* follows every exchange with a larger element.                           *)
(***************************************************************************)
EXTENDS AzoPackedStack, TLAPS

Held == Impls \cup {NoImpl}

(***************************************************************************)
(* The inductive invariant.  ElementsApart relates neighbours; a shift of  *)
(* all elements above a position needs the order of any two of them.       *)
(***************************************************************************)
Ordered ==
  /\ \A p, q \in 0 .. length : p < q => values[p] < values[q]
  /\ \A p, q \in 0 .. length - 1 : p < q => values[p] + Occupied(p) <= values[q]

WithinData == \A p \in 0 .. length - 1 : values[p] + Occupied(p) <= data_size

Roomy == length < size /\ Top <= data_size

IInv == TypeOK /\ NoOverrun /\ Ordered /\ WithinData /\ Roomy
-----------------------------------------------------------------------------
LEMMA CellsPositive == \A i \in Held : Cells(i) \in Nat /\ Cells(i) >= 1
<1> SUFFICES ASSUME NEW i \in Held PROVE Cells(i) \in Nat /\ Cells(i) >= 1
  OBVIOUS
<1>1. CASE i = NoImpl \/ Bytes[i] = 0
  BY <1>1 DEF Cells
<1>2. CASE ~(i = NoImpl \/ Bytes[i] = 0)
  <2>1. Bytes[i] \in Nat /\ Bytes[i] >= 1
    BY <1>2, ValuesAssumption DEF Held
  <2>2. (Bytes[i] + 16 - 1) \div 16 \in Nat /\ (Bytes[i] + 16 - 1) \div 16 >= 1
    BY <2>1
  <2> QED BY <1>2, <2>2 DEF Cells, CellBytes
<1> QED BY <1>1, <1>2

\* A value of at most 16 bytes has one cell.
LEMMA SmallCells == \A i \in Impls : Bytes[i] <= CellBytes => Cells(i) = 1
<1> SUFFICES ASSUME NEW i \in Impls, Bytes[i] <= 16 PROVE Cells(i) = 1
  BY DEF CellBytes
<1>1. CASE i = NoImpl \/ Bytes[i] = 0
  BY <1>1 DEF Cells
<1>2. CASE ~(i = NoImpl \/ Bytes[i] = 0)
  <2>1. Bytes[i] \in 1 .. 16
    BY <1>2, ValuesAssumption
  <2>2. (Bytes[i] + 16 - 1) \div 16 = 1
    BY <2>1
  <2> QED BY <1>2, <2>2 DEF Cells, CellBytes
<1> QED BY <1>1, <1>2

\* A conversion in place never needs more cells than the value had.
LEMMA ConversionShrinks ==
  ASSUME NEW pos, impls[pos] \in Held, NEW to \in Impls,
         NEW e \in Conversions(ElementAt(pos), to)
  PROVE  e.impl \in Held /\ Cells(e.impl) <= Occupied(pos)
<1>1. ElementAt(pos).impl = impls[pos]
  BY DEF ElementAt, Null
<1>2. e.impl = impls[pos] \/ (e.impl \in Impls /\ Bytes[e.impl] <= CellBytes)
  BY <1>1, ValuesAssumption DEF Conversions, CellBytes, ElementAt, Null
<1> QED BY <1>2, CellsPositive, SmallCells DEF Occupied, Held

\* stack_ensure_size leaves room for one entry more than asked for and for
\* all the cells asked for.
LEMMA GrownEnough ==
  ASSUME TypeOK, Roomy, NEW n \in Nat, NEW k \in Nat
  PROVE  /\ GrownSize(n) \in Nat /\ GrownSize(n) >= size /\ GrownSize(n) > length + n
         /\ GrownCells(k) \in Nat /\ GrownCells(k) >= data_size /\ GrownCells(k) >= Top + k
<1>1. size \in Nat /\ length \in Nat /\ data_size \in Nat /\ Top \in Nat /\ Top <= data_size
  BY DEF TypeOK, Roomy, Top
<1>2. GrownSize(n) \in Nat /\ GrownSize(n) >= size /\ GrownSize(n) > length + n
  BY <1>1 DEF GrownSize
<1>3. GrownCells(k) \in Nat /\ GrownCells(k) >= data_size /\ GrownCells(k) >= Top + k
  BY <1>1 DEF GrownCells
<1> QED BY <1>2, <1>3

LEMMA EnsureEnough ==
  ASSUME TypeOK, Roomy, fault = "none",
         NEW n \in Nat, NEW k \in Nat, NEW entries, NEW cells \in Nat,
         entries \in Nat, entries <= length + n, cells <= Top + k,
         EnsureSize(n, k, entries, cells)
  PROVE  /\ size' \in Nat /\ size' >= size /\ size' > length + n
         /\ data_size' \in Nat /\ data_size' >= data_size /\ data_size' >= Top + k
         /\ fault' \in {"none", "stale"}
<1>1. size' = GrownSize(n) /\ data_size' = GrownCells(k)
  BY DEF EnsureSize
<1>2. /\ size' \in Nat /\ size' >= size /\ size' > length + n
      /\ data_size' \in Nat /\ data_size' >= data_size /\ data_size' >= Top + k
  BY <1>1, GrownEnough
<1>3. size \in Nat /\ length \in Nat /\ Top \in Nat
  BY DEF TypeOK, Top
<1>4. ~(length >= size \/ entries >= size' \/ cells > data_size')
  BY <1>2, <1>3 DEF Roomy
<1> QED BY <1>2, <1>4 DEF EnsureSize

\* The numbers behind a state of the stack.
LEMMA Numbers ==
  ASSUME TypeOK
  PROVE  /\ size \in Nat /\ length \in Nat /\ data_size \in Nat /\ Top \in Nat
         /\ \A p \in 0 .. length : values[p] \in Nat
         /\ \A p \in 0 .. length - 1 : impls[p] \in Held /\ Occupied(p) \in Nat /\ Occupied(p) >= 1
<1>1. /\ size \in Nat /\ length \in Nat /\ data_size \in Nat /\ Top \in Nat
      /\ \A p \in 0 .. length : values[p] \in Nat
      /\ \A p \in 0 .. length - 1 : impls[p] \in Held
  BY DEF TypeOK, Top, Held
<1> QED BY <1>1, CellsPositive DEF Occupied

\* In a state that is not torn, the first free cell is above every element.
LEMMA AllBelowTop ==
  ASSUME TypeOK, Ordered, ~Torn
  PROVE  \A p \in 0 .. length - 1 : values[p] + Occupied(p) <= Top
<1> SUFFICES ASSUME NEW p \in 0 .. length - 1 PROVE values[p] + Occupied(p) <= Top
  OBVIOUS
<1>1. /\ length \in Nat /\ Top \in Nat /\ \A q \in 0 .. length : values[q] \in Nat
      /\ \A q \in 0 .. length - 1 : Occupied(q) \in Nat /\ Occupied(q) >= 1
  BY Numbers
<1>2. length - 1 \in 0 .. length - 1 /\ values[length - 1] + Occupied(length - 1) <= Top
  BY <1>1 DEF Torn
<1>3. CASE p = length - 1
  BY <1>2, <1>3
<1>4. CASE p < length - 1
  <2>1. values[p] + Occupied(p) <= values[length - 1]
    BY <1>2, <1>4 DEF Ordered
  <2> QED BY <1>1, <1>2, <2>1
<1> QED BY <1>1, <1>3, <1>4

LEMMA PushKeeps ==
  ASSUME PopAfterExchange, IInv, NEW STATE e, e.impl \in Held, PushElement(e)
  PROVE  IInv'
<1> DEFINE k == Cells(e.impl)
<1>0. /\ TypeOK /\ Ordered /\ WithinData /\ Roomy
      /\ \A p \in 0 .. length : values[p] \in Nat
      /\ \A p \in 0 .. length - 1 : Occupied(p) \in Nat /\ Occupied(p) >= 1
      /\ size \in Nat /\ data_size \in Nat
  BY Numbers DEF IInv
<1>1. k \in Nat /\ k >= 1 /\ ~Torn /\ fault = "none" /\ length \in Nat /\ Top \in Nat
  BY CellsPositive DEF PushElement, Usable, IInv, TypeOK, Top
<1>2. /\ size' \in Nat /\ size' >= size /\ size' > length + 1
      /\ data_size' \in Nat /\ data_size' >= data_size /\ data_size' >= Top + k
      /\ fault' \in {"none", "stale"}
  <2>1. EnsureSize(1, k, length + 1, Top + k)
    BY DEF PushElement
  <2> HIDE DEF k
  <2> QED BY <1>1, <2>1, EnsureEnough DEF IInv
<1>3. length' = length + 1
  BY DEF PushElement
<1>4. impls' = [p \in 0 .. length |-> IF p = length THEN e.impl ELSE impls[p]]
  BY DEF PushElement
<1>5. values' = [p \in 0 .. length + 1 |-> IF p = length + 1 THEN Top + k ELSE values[p]]
  BY DEF PushElement
<1>6. DOMAIN data' = 0 .. data_size' - 1
  BY DEF PushElement, Settled, Store, Resized
<1>7. \A p \in 0 .. length - 1 : Cells(impls'[p]) = Occupied(p)
  BY <1>1, <1>4 DEF Occupied
<1>8. impls'[length] = e.impl /\ Cells(impls'[length]) = k
  BY <1>1, <1>4 DEF Occupied
<1>9. TypeOK'
  <2>1. impls' \in [0 .. length' - 1 -> Impls \cup {NoImpl}]
    BY <1>1, <1>3, <1>4 DEF IInv, TypeOK, Held
  <2>2. values' \in [0 .. length' -> Nat]
    BY <1>1, <1>3, <1>5 DEF IInv, TypeOK
  <2>3. size' \in Nat \ {0} /\ length' \in Nat /\ data_size' \in Nat \ {0}
    BY <1>1, <1>2, <1>3
  <2> QED BY <2>1, <2>2, <2>3, <1>2, <1>6 DEF TypeOK
<1>10. Ordered'
  <2> HIDE DEF k
  <2>1. \A p, q \in 0 .. length + 1 : p < q => values'[p] < values'[q]
    BY <1>0, <1>1, <1>5 DEF Ordered, Top
  <2>2. \A p, q \in 0 .. length : p < q => values'[p] + Cells(impls'[p]) <= values'[q]
    <3>1. \A p \in 0 .. length - 1 : values[p] + Occupied(p) <= Top
      BY <1>0, <1>1, AllBelowTop
    <3> SUFFICES ASSUME NEW p \in 0 .. length, NEW q \in 0 .. length, p < q
                 PROVE  values'[p] + Cells(impls'[p]) <= values'[q]
      OBVIOUS
    <3>2. p \in 0 .. length - 1 /\ values'[p] = values[p] /\ values'[q] = values[q]
      BY <1>1, <1>5
    <3>3. Cells(impls'[p]) = Occupied(p)
      BY <1>7, <3>2
    <3>4. CASE q = length
      BY <3>1, <3>2, <3>3, <3>4 DEF Top
    <3>5. CASE q # length
      <4>1. q \in 0 .. length - 1
        BY <1>1, <3>5
      <4>2. values[p] + Occupied(p) <= values[q]
        BY <1>0, <3>2, <4>1 DEF Ordered
      <4> QED BY <3>2, <3>3, <4>2
    <3> QED BY <3>4, <3>5
  <2> QED BY <2>1, <2>2, <1>1, <1>3 DEF Ordered, Occupied
<1>11. WithinData'
  <2> HIDE DEF k
  <2>1. \A p \in 0 .. length : values'[p] + Cells(impls'[p]) <= data_size'
    BY <1>0, <1>1, <1>2, <1>5, <1>7, <1>8 DEF WithinData, Top
  <2> QED BY <2>1, <1>1, <1>3 DEF WithinData, Occupied
<1>12. Roomy' /\ NoOverrun'
  BY <1>1, <1>2, <1>3, <1>5 DEF Roomy, NoOverrun, Top
<1> QED BY <1>9, <1>10, <1>11, <1>12 DEF IInv

LEMMA PopKeeps ==
  ASSUME IInv, NEW n \in 0 .. length, Pop(n)
  PROVE  IInv'
<1>1. /\ TypeOK /\ Ordered /\ WithinData /\ Roomy /\ NoOverrun
      /\ size \in Nat /\ length \in Nat /\ data_size \in Nat /\ Top \in Nat
      /\ \A p \in 0 .. length : values[p] \in Nat
      /\ \A p \in 0 .. length - 1 : impls[p] \in Held
  BY Numbers DEF IInv
<1>2. length' = length - n /\ length' \in 0 .. length
  BY <1>1 DEF Pop
<1>3. /\ impls' = [p \in 0 .. length' - 1 |-> impls[p]]
      /\ values' = [p \in 0 .. length' |-> values[p]]
      /\ UNCHANGED <<size, data_size, fault>>
  BY <1>2 DEF Pop
<1>4. DOMAIN data' = 0 .. data_size' - 1
  BY <1>1, <1>3 DEF Pop, Settled, TypeOK
<1>5. TypeOK'
  <2>1. impls' \in [0 .. length' - 1 -> Impls \cup {NoImpl}]
    BY <1>1, <1>2, <1>3 DEF Held
  <2>2. values' \in [0 .. length' -> Nat]
    BY <1>1, <1>2, <1>3
  <2> QED BY <1>1, <1>2, <1>3, <1>4, <2>1, <2>2 DEF TypeOK
<1>6. Ordered'
  <2>1. \A p \in 0 .. length' - 1 : Cells(impls'[p]) = Occupied(p)
    BY <1>2, <1>3 DEF Occupied
  <2> QED BY <1>1, <1>2, <1>3, <2>1 DEF Ordered, Occupied
<1>7. WithinData'
  BY <1>1, <1>2, <1>3 DEF WithinData, Occupied
<1>8. Roomy'
  BY <1>1, <1>2, <1>3 DEF Roomy, Ordered, Top
<1> QED BY <1>1, <1>3, <1>5, <1>6, <1>7, <1>8 DEF IInv, NoOverrun

(***************************************************************************)
(* Exchanges and conversions move everything above a position by the same  *)
(* distance, up or down, and give the room to the element at it.           *)
(***************************************************************************)
Shifted(pos, d) ==
  /\ length' = length
  /\ values' = [p \in 0 .. length |-> IF p > pos THEN values[p] + d ELSE values[p]]
  /\ impls' \in [0 .. length - 1 -> Held]
  /\ Cells(impls'[pos]) <= Occupied(pos) + d
  /\ \A p \in 0 .. length - 2 : p # pos => Cells(impls'[p]) = Occupied(p)

Enough(d) ==
  /\ size' \in Nat /\ size' > length
  /\ data_size' \in Nat /\ data_size' >= data_size /\ data_size' >= Top + d
  /\ values'[length - 1] + Cells(impls'[length - 1]) <= data_size'
  /\ DOMAIN data' = 0 .. data_size' - 1
  /\ fault' \in {"none", "stale", "assert"}

LEMMA ShiftKeeps ==
  ASSUME IInv, ~Torn, NEW pos \in 0 .. length - 1, NEW STATE d, d \in Int,
         Shifted(pos, d), Enough(d)
  PROVE  IInv'
<1>1. /\ TypeOK /\ Ordered /\ WithinData /\ Roomy
      /\ size \in Nat /\ length \in Nat /\ data_size \in Nat /\ Top \in Nat
      /\ \A p \in 0 .. length : values[p] \in Nat
      /\ \A p \in 0 .. length - 1 : Occupied(p) \in Nat /\ Occupied(p) >= 1
      /\ \A p \in 0 .. length - 1 : values[p] + Occupied(p) <= Top
  BY Numbers, AllBelowTop DEF IInv
<1>0. /\ length' = length /\ length \in Nat /\ impls' \in [0 .. length - 1 -> Held]
      /\ \A q \in 0 .. length : q > pos => values'[q] = values[q] + d
      /\ \A q \in 0 .. length : q <= pos => values'[q] = values[q]
      /\ DOMAIN values' = 0 .. length
      /\ Cells(impls'[pos]) <= Occupied(pos) + d
      /\ \A p \in 0 .. length - 2 : p # pos => Cells(impls'[p]) = Occupied(p)
      /\ size' \in Nat /\ size' > length /\ data_size' \in Nat /\ data_size' >= data_size
      /\ data_size' >= Top + d
      /\ values'[length - 1] + Cells(impls'[length - 1]) <= data_size'
      /\ DOMAIN data' = 0 .. data_size' - 1 /\ fault' \in {"none", "stale", "assert"}
  BY <1>1 DEF Shifted, Enough
<1>2. \A p \in 0 .. length - 1 : Cells(impls'[p]) \in Nat /\ Cells(impls'[p]) >= 1
  BY <1>0, CellsPositive
<1>3. \A q \in 0 .. length : pos < q => values[pos] + Occupied(pos) <= values[q]
  <2> SUFFICES ASSUME NEW q \in 0 .. length, pos < q
               PROVE  values[pos] + Occupied(pos) <= values[q]
    OBVIOUS
  <2>1. CASE q = length
    BY <1>1, <2>1 DEF Top
  <2>2. CASE q # length
    BY <1>1, <2>2 DEF Ordered
  <2> QED BY <2>1, <2>2
<1> DEFINE c == Cells(impls'[pos])
<1>a. /\ c \in Nat /\ c <= Occupied(pos) + d
      /\ values[pos] \in Nat /\ Occupied(pos) \in Nat /\ pos \in 0 .. length
      /\ length \in Nat /\ pos \in Nat
  BY <1>0, <1>1, <1>2
<1> HIDE DEF c
<1>4. \A q \in 0 .. length :
         pos < q => values'[q] = values[q] + d /\ values[pos] + c <= values'[q]
  <2> SUFFICES ASSUME NEW q \in 0 .. length, pos < q
               PROVE  values'[q] = values[q] + d /\ values[pos] + c <= values'[q]
    OBVIOUS
  <2>1. values'[q] = values[q] + d
    BY <1>0
  <2>2. values[q] \in Nat /\ values[pos] + Occupied(pos) <= values[q]
    BY <1>1, <1>3
  <2> QED BY <1>a, <2>1, <2>2
<1>5. \A q \in 0 .. length : q <= pos => values'[q] = values[q]
  BY <1>0
<1>6. \A q \in 0 .. length : values'[q] \in Nat
  <2> SUFFICES ASSUME NEW q \in 0 .. length PROVE values'[q] \in Nat
    OBVIOUS
  <2>1. CASE q <= pos
    BY <1>1, <1>5, <2>1
  <2>2. CASE ~(q <= pos)
    <3>1. q \in Int /\ pos \in Int /\ pos < q
      BY <1>1, <2>2
    <3>2. values'[q] = values[q] + d /\ values[pos] + c <= values'[q] /\ values[q] \in Nat
      BY <1>1, <1>4, <3>1
    <3> QED BY <1>a, <3>1, <3>2
  <2> QED BY <2>1, <2>2
<1>7. \A p, q \in 0 .. length : p < q => values'[p] < values'[q]
  <2> SUFFICES ASSUME NEW p \in 0 .. length, NEW q \in 0 .. length, p < q
               PROVE  values'[p] < values'[q]
    OBVIOUS
  <2>0. values[p] < values[q]
    BY <1>1 DEF Ordered
  <2>a. p \in Nat /\ q \in Nat /\ pos \in Nat /\ values[p] \in Nat /\ values[q] \in Nat
    BY <1>1
  <2>1. CASE p > pos
    <3>1. values'[p] = values[p] + d /\ values'[q] = values[q] + d
      BY <1>0, <2>0, <2>1, <2>a
    <3> QED BY <2>0, <2>a, <3>1
  <2>2. CASE q <= pos
    BY <1>5, <2>0, <2>2, <2>a
  <2>3. CASE p <= pos /\ pos < q
    <3>1. values[p] <= values[pos]
      <4>1. CASE p = pos
        BY <1>a, <4>1
      <4>2. CASE p # pos
        <5>1. p < pos
          BY <2>3, <2>a, <4>2
        <5>2. values[p] < values[pos]
          BY <1>1, <1>a, <5>1 DEF Ordered
        <5> QED BY <1>a, <2>a, <5>2
      <4> QED BY <4>1, <4>2
    <3>2. values'[p] = values[p] /\ values[pos] + c <= values'[q] /\ values'[q] \in Nat /\ c >= 1
      BY <1>2, <1>4, <1>5, <1>6, <2>3 DEF c
    <3> QED BY <1>a, <2>a, <2>3, <3>1, <3>2
  <2> QED BY <2>1, <2>2, <2>3, <2>a
<1>8. \A p, q \in 0 .. length - 1 : p < q => values'[p] + Cells(impls'[p]) <= values'[q]
  <2> SUFFICES ASSUME NEW p \in 0 .. length - 1, NEW q \in 0 .. length - 1, p < q
               PROVE  values'[p] + Cells(impls'[p]) <= values'[q]
    OBVIOUS
  <2>0. values[p] + Occupied(p) <= values[q] /\ p \in 0 .. length - 2
    BY <1>1 DEF Ordered
  <2>a. /\ p \in Nat /\ q \in Nat /\ pos \in Nat /\ p \in 0 .. length /\ q \in 0 .. length
        /\ values[p] \in Nat /\ values[q] \in Nat /\ Occupied(p) \in Nat
    BY <1>1
  <2>1. CASE p = pos
    BY <1>1, <1>4, <1>5, <2>1, <2>a DEF c
  <2>2. CASE p # pos /\ (p > pos \/ q <= pos)
    <3>1. Cells(impls'[p]) = Occupied(p)
      BY <1>0, <2>0, <2>2
    <3>2. (values'[p] = values[p] + d /\ values'[q] = values[q] + d)
          \/ (values'[p] = values[p] /\ values'[q] = values[q])
      BY <1>0, <1>5, <2>0, <2>2, <2>a
    <3> QED BY <2>0, <2>a, <3>1, <3>2
  <2>3. CASE p < pos /\ pos < q
    <3>1. values[p] + Occupied(p) <= values[pos]
      BY <1>1, <2>3 DEF Ordered
    <3>2. Cells(impls'[p]) = Occupied(p)
      BY <1>0, <2>0, <2>3, <2>a
    <3>3. values'[p] = values[p] /\ values[pos] + c <= values'[q] /\ values'[q] \in Nat
      BY <1>4, <1>5, <1>6, <2>3, <2>a
    <3> QED BY <1>a, <2>a, <2>3, <3>1, <3>2, <3>3
  <2> QED BY <2>1, <2>2, <2>3, <2>a
<1>9. values'[length] <= data_size'
  BY <1>0, <1>1, <1>4 DEF Top
<1>10. \A p \in 0 .. length - 1 : values'[p] + Cells(impls'[p]) <= data_size'
  <2> SUFFICES ASSUME NEW p \in 0 .. length - 1
               PROVE  values'[p] + Cells(impls'[p]) <= data_size'
    OBVIOUS
  <2>1. CASE p = length - 1
    BY <1>0, <2>1
  <2>2. CASE p # length - 1
    <3>1. /\ length - 1 \in 0 .. length - 1 /\ p < length - 1
          /\ length - 1 \in 0 .. length /\ length \in 0 .. length
      BY <1>1, <2>2
    <3>2. values'[p] + Cells(impls'[p]) <= values'[length - 1]
      BY <1>8, <3>1
    <3>3. values'[length - 1] < values'[length]
      BY <1>1, <1>7, <3>1
    <3>4. /\ Cells(impls'[p]) \in Nat /\ values'[p] \in Nat
          /\ values'[length - 1] \in Nat /\ values'[length] \in Nat
      BY <1>2, <1>6, <3>1
    <3> QED BY <1>0, <1>9, <3>2, <3>3, <3>4
  <2> QED BY <2>1, <2>2
<1>11. TypeOK'
  <2>1. values' \in [0 .. length' -> Nat] /\ impls' \in [0 .. length' - 1 -> Impls \cup {NoImpl}]
    BY <1>0, <1>6 DEF Held, Shifted
  <2>2. size' \in Nat \ {0} /\ length' \in Nat
    BY <1>1 DEF Enough, Shifted
  <2>3. data_size' \in Nat \ {0}
    <3>1. data_size > 0
      BY <1>1 DEF TypeOK
    <3> QED BY <1>1, <3>1 DEF Enough
  <2>4. DOMAIN data' = 0 .. data_size' - 1 /\ fault' \in {"none", "overrun", "stale", "assert"}
    BY DEF Enough
  <2> QED BY <2>1, <2>2, <2>3, <2>4 DEF TypeOK
<1>12. Ordered' /\ WithinData' /\ Roomy' /\ NoOverrun'
  BY <1>0, <1>1, <1>7, <1>8, <1>9, <1>10 DEF Ordered, WithinData, Roomy, NoOverrun, Occupied, Top
<1> QED BY <1>11, <1>12 DEF IInv

\* What an exchange or a conversion of the element at pos starts from.
LEMMA Before ==
  ASSUME PopAfterExchange, IInv, Usable, NEW pos \in 0 .. length - 1
  PROVE  /\ TypeOK /\ Roomy /\ fault = "none" /\ ~Torn
         /\ size \in Nat /\ length \in Nat /\ data_size \in Nat /\ Top \in Nat
         /\ \A p \in 0 .. length : values[p] \in Nat
         /\ \A p \in 0 .. length - 1 : /\ impls[p] \in Held
                                       /\ Occupied(p) \in Nat /\ Occupied(p) >= 1
                                       /\ values[p] + Occupied(p) <= Top
         /\ impls \in [0 .. length - 1 -> Held]
         /\ values[pos + 1] \in Nat /\ values[pos] + Occupied(pos) <= values[pos + 1]
         /\ DOMAIN data = 0 .. data_size - 1
<1>1. TypeOK /\ Ordered /\ Roomy /\ fault = "none" /\ ~Torn
  BY DEF IInv, Usable
<1>2. /\ size \in Nat /\ length \in Nat /\ data_size \in Nat /\ Top \in Nat
      /\ \A p \in 0 .. length : values[p] \in Nat
      /\ \A p \in 0 .. length - 1 : impls[p] \in Held /\ Occupied(p) \in Nat /\ Occupied(p) >= 1
      /\ \A p \in 0 .. length - 1 : values[p] + Occupied(p) <= Top
  BY <1>1, Numbers, AllBelowTop
<1>3. values[pos + 1] \in Nat /\ values[pos] + Occupied(pos) <= values[pos + 1]
  <2>1. CASE pos = length - 1
    BY <1>2, <2>1 DEF Top
  <2>2. CASE pos # length - 1
    BY <1>1, <1>2, <2>2 DEF Ordered
  <2> QED BY <2>1, <2>2
<1>4. DOMAIN data = 0 .. data_size - 1 /\ impls \in [0 .. length - 1 -> Held]
  BY <1>1 DEF TypeOK, Held
<1> QED BY <1>1, <1>2, <1>3, <1>4

\* SwapImpls exchanges the sizes of the two elements.
LEMMA SwappedCells ==
  ASSUME length \in Nat, NEW pos \in 0 .. length - 1, pos < length - 1,
         impls \in [0 .. length - 1 -> Held], SwapImpls(pos)
  PROVE  /\ impls' \in [0 .. length - 1 -> Held]
         /\ Cells(impls'[pos]) = Occupied(length - 1)
         /\ Cells(impls'[length - 1]) = Occupied(pos)
         /\ \A p \in 0 .. length - 2 : p # pos => Cells(impls'[p]) = Occupied(p)
  BY DEF SwapImpls, Occupied

LEMMA ExchangeEqualKeeps ==
  ASSUME PopAfterExchange, IInv, NEW pos \in 0 .. length - 1, ExchangeEqual(pos)
  PROVE  IInv'
<1> DEFINE k == Occupied(pos)
<1>1. Usable /\ pos < length - 1 /\ k = Occupied(length - 1)
  BY DEF ExchangeEqual
<1>2. SwapImpls(pos) /\ length' = length /\ values' = values
  BY DEF ExchangeEqual
<1>3. EnsureSize(1, k, length, Top + k)
  BY DEF ExchangeEqual
<1>4. DOMAIN data' = 0 .. data_size' - 1
  <2>1. data_size' = GrownCells(k)
    BY <1>3 DEF EnsureSize
  <2>2. DOMAIN data' = 0 .. GrownCells(k) - 1
    BY DEF ExchangeEqual, Settled, Copy, Moved, Resized
  <2> QED BY <2>1, <2>2
<1> HIDE DEF k
<1>5. /\ TypeOK /\ Roomy /\ fault = "none" /\ ~Torn /\ k \in Nat
      /\ length \in Nat /\ data_size \in Nat /\ Top \in Nat
      /\ values[length - 1] \in Nat /\ values[length - 1] + k <= Top
      /\ impls \in [0 .. length - 1 -> Held]
  BY <1>1, Before DEF k
<1>6. /\ size' \in Nat /\ size' > length + 1 /\ data_size' \in Nat
      /\ data_size' >= data_size /\ data_size' >= Top + k /\ fault' \in {"none", "stale"}
  <2>1. Top + k \in Nat /\ length <= length + 1 /\ Top + k <= Top + k
    BY <1>5
  <2> QED BY <1>3, <1>5, <2>1, EnsureEnough
<1>7. /\ impls' \in [0 .. length - 1 -> Held]
      /\ Cells(impls'[pos]) = k /\ Cells(impls'[length - 1]) = k
      /\ \A p \in 0 .. length - 2 : p # pos => Cells(impls'[p]) = Occupied(p)
  BY <1>1, <1>2, <1>5, SwappedCells DEF k
<1>8. Shifted(pos, 0)
  <2>1. values' = [p \in 0 .. length |-> IF p > pos THEN values[p] + 0 ELSE values[p]]
    BY <1>2, <1>5 DEF TypeOK
  <2>2. Cells(impls'[pos]) <= Occupied(pos) + 0
    BY <1>5, <1>7 DEF k
  <2> QED BY <1>2, <1>7, <2>1, <2>2 DEF Shifted
<1>9. Enough(0)
  <2>1. values'[length - 1] + Cells(impls'[length - 1]) <= data_size'
    BY <1>2, <1>5, <1>6, <1>7
  <2>2. size' > length /\ data_size' >= Top + 0
    BY <1>5, <1>6
  <2> QED BY <1>4, <1>6, <2>1, <2>2 DEF Enough
<1> QED BY <1>5, <1>8, <1>9, ShiftKeeps

LEMMA ExchangeLargerKeeps ==
  ASSUME PopAfterExchange, IInv, NEW pos \in 0 .. length - 1, ExchangeLarger(pos)
  PROVE  IInv'
<1> DEFINE a == Occupied(pos)
<1> DEFINE b == Occupied(length - 1)
<1>1. Usable /\ pos < length - 1 /\ a > b
  BY DEF ExchangeLarger
<1>2. /\ SwapImpls(pos) /\ length' = length
      /\ values' = [p \in 0 .. length |-> IF p > pos THEN values[p] - (a - b) ELSE values[p]]
  BY DEF ExchangeLarger
<1>3. EnsureSize(0, a, length, Top + a)
  BY DEF ExchangeLarger
<1>4. DOMAIN data' = 0 .. data_size' - 1
  <2>1. data_size' = GrownCells(a)
    BY <1>3 DEF EnsureSize
  <2>2. DOMAIN data' = 0 .. GrownCells(a) - 1
    BY DEF ExchangeLarger, Settled, Copy, Moved, Resized
  <2> QED BY <2>1, <2>2
<1> HIDE DEF a, b
<1>5. /\ TypeOK /\ Roomy /\ fault = "none" /\ ~Torn /\ a \in Nat /\ b \in Nat
      /\ length \in Nat /\ data_size \in Nat /\ Top \in Nat
      /\ \A p \in 0 .. length : values[p] \in Nat
      /\ values[length - 1] \in Nat /\ values[length - 1] + b <= Top
      /\ impls \in [0 .. length - 1 -> Held]
  BY <1>1, Before DEF a, b
<1>6. /\ size' \in Nat /\ size' > length + 0 /\ data_size' \in Nat
      /\ data_size' >= data_size /\ data_size' >= Top + a /\ fault' \in {"none", "stale"}
  <2>1. Top + a \in Nat /\ length <= length + 0 /\ Top + a <= Top + a
    BY <1>5
  <2> QED BY <1>3, <1>5, <2>1, EnsureEnough
<1>7. /\ impls' \in [0 .. length - 1 -> Held]
      /\ Cells(impls'[pos]) = b /\ Cells(impls'[length - 1]) = a
      /\ \A p \in 0 .. length - 2 : p # pos => Cells(impls'[p]) = Occupied(p)
  BY <1>1, <1>2, <1>5, SwappedCells DEF a, b
<1>8. b - a \in Int /\ Shifted(pos, b - a)
  <2>1. values' = [p \in 0 .. length |-> IF p > pos THEN values[p] + (b - a) ELSE values[p]]
    BY <1>2, <1>5
  <2>2. Cells(impls'[pos]) <= Occupied(pos) + (b - a)
    BY <1>5, <1>7 DEF a
  <2> QED BY <1>2, <1>5, <1>7, <2>1, <2>2 DEF Shifted
<1>9. Enough(b - a)
  <2>1. values'[length - 1] = values[length - 1] - (a - b)
    BY <1>1, <1>2, <1>5
  <2>2. values'[length - 1] + Cells(impls'[length - 1]) <= data_size'
    BY <1>5, <1>6, <1>7, <2>1
  <2>3. size' > length /\ data_size' >= Top + (b - a)
    BY <1>1, <1>5, <1>6
  <2> QED BY <1>4, <1>6, <2>2, <2>3 DEF Enough
<1> QED BY <1>5, <1>8, <1>9, ShiftKeeps

LEMMA ExchangeSmallerKeeps ==
  ASSUME PopAfterExchange, IInv, NEW pos \in 0 .. length - 1, ExchangeSmaller(pos)
  PROVE  IInv'
<1> DEFINE a == Occupied(pos)
<1> DEFINE b == Occupied(length - 1)
<1>1. Usable /\ pos < length - 1 /\ a < b
  BY DEF ExchangeSmaller
<1>2. /\ SwapImpls(pos) /\ length' = length
      /\ values' = [p \in 0 .. length |-> IF p > pos THEN values[p] + (b - a) ELSE values[p]]
  BY DEF ExchangeSmaller
<1>3. EnsureSize(0, b, length, Top + (b - a) + a)
  BY DEF ExchangeSmaller
<1>4. DOMAIN data' = 0 .. data_size' - 1
  <2>1. data_size' = GrownCells(b)
    BY <1>3 DEF EnsureSize
  <2>2. DOMAIN data' = 0 .. GrownCells(b) - 1
    BY DEF ExchangeSmaller, Settled, Copy, Moved, Resized
  <2> QED BY <2>1, <2>2
<1> HIDE DEF a, b
<1>5. /\ TypeOK /\ Roomy /\ fault = "none" /\ ~Torn /\ a \in Nat /\ b \in Nat
      /\ length \in Nat /\ data_size \in Nat /\ Top \in Nat
      /\ \A p \in 0 .. length : values[p] \in Nat
      /\ values[length - 1] \in Nat /\ values[length - 1] + b <= Top
      /\ impls \in [0 .. length - 1 -> Held]
  BY <1>1, Before DEF a, b
<1>6. /\ size' \in Nat /\ size' > length + 0 /\ data_size' \in Nat
      /\ data_size' >= data_size /\ data_size' >= Top + b /\ fault' \in {"none", "stale"}
  <2>1. /\ Top + (b - a) + a \in Nat /\ length <= length + 0
        /\ Top + (b - a) + a <= Top + b
    BY <1>5
  <2> QED BY <1>3, <1>5, <2>1, EnsureEnough
<1>7. /\ impls' \in [0 .. length - 1 -> Held]
      /\ Cells(impls'[pos]) = b /\ Cells(impls'[length - 1]) = a
      /\ \A p \in 0 .. length - 2 : p # pos => Cells(impls'[p]) = Occupied(p)
  BY <1>1, <1>2, <1>5, SwappedCells DEF a, b
<1>8. b - a \in Int /\ Shifted(pos, b - a)
  <2>1. Cells(impls'[pos]) <= Occupied(pos) + (b - a)
    BY <1>5, <1>7 DEF a
  <2> QED BY <1>2, <1>5, <1>7, <2>1 DEF Shifted
<1>9. Enough(b - a)
  <2>1. values'[length - 1] = values[length - 1] + (b - a)
    BY <1>1, <1>2, <1>5
  <2>2. values'[length - 1] + Cells(impls'[length - 1]) <= data_size'
    BY <1>5, <1>6, <1>7, <2>1
  <2>3. size' > length /\ data_size' >= Top + (b - a)
    BY <1>1, <1>5, <1>6
  <2> QED BY <1>4, <1>6, <2>2, <2>3 DEF Enough
<1> QED BY <1>5, <1>8, <1>9, ShiftKeeps

\* What a conversion in place does to the sizes.
LEMMA ConvertedCells ==
  ASSUME NEW pos \in 0 .. length - 1, NEW to \in Impls, NEW STATE m,
         impls \in [0 .. length - 1 -> Held], ConvertInPlace(pos, to, m)
  PROVE  /\ impls' \in [0 .. length - 1 -> Held]
         /\ Cells(impls'[pos]) <= Occupied(pos)
         /\ \A p \in 0 .. length - 1 : p # pos => Cells(impls'[p]) = Occupied(p)
<1>1. CASE \E e \in Conversions(ElementAt(pos), to) : impls' = [impls EXCEPT ![pos] = e.impl]
  <2>1. PICK e \in Conversions(ElementAt(pos), to) : impls' = [impls EXCEPT ![pos] = e.impl]
    BY <1>1
  <2>2. e.impl \in Held /\ Cells(e.impl) <= Occupied(pos)
    BY ConversionShrinks
  <2> QED BY <2>1, <2>2 DEF Occupied
<1>2. CASE UNCHANGED impls
  <2>1. Occupied(pos) \in Nat
    BY CellsPositive DEF Occupied
  <2> QED BY <1>2, <2>1 DEF Occupied
<1> QED BY <1>1, <1>2 DEF ConvertInPlace

LEMMA ConvertFittingKeeps ==
  ASSUME PopAfterExchange, IInv, NEW pos \in 0 .. length - 1, NEW to \in Impls,
         ConvertFitting(pos, to)
  PROVE  IInv'
<1>1. /\ Usable /\ UNCHANGED <<size, length, values, data_size, fault>>
      /\ ConvertInPlace(pos, to, data)
  BY DEF ConvertFitting
<1>2. /\ TypeOK /\ Roomy /\ fault = "none" /\ ~Torn
      /\ size \in Nat /\ length \in Nat /\ data_size \in Nat /\ Top \in Nat
      /\ \A p \in 0 .. length : values[p] \in Nat
      /\ \A p \in 0 .. length - 1 : Occupied(p) \in Nat /\ values[p] + Occupied(p) <= Top
      /\ impls \in [0 .. length - 1 -> Held] /\ DOMAIN data = 0 .. data_size - 1
  BY <1>1, Before
<1>3. /\ impls' \in [0 .. length - 1 -> Held]
      /\ Cells(impls'[pos]) <= Occupied(pos)
      /\ \A p \in 0 .. length - 1 : p # pos => Cells(impls'[p]) = Occupied(p)
  BY <1>1, <1>2, ConvertedCells
<1>4. DOMAIN data' = 0 .. data_size' - 1
  BY <1>1, <1>2 DEF ConvertInPlace, Settled, Store
<1>5. \A p \in 0 .. length - 1 : Cells(impls'[p]) \in Nat /\ Cells(impls'[p]) <= Occupied(p)
  <2> SUFFICES ASSUME NEW p \in 0 .. length - 1
               PROVE  Cells(impls'[p]) \in Nat /\ Cells(impls'[p]) <= Occupied(p)
    OBVIOUS
  <2>1. Cells(impls'[p]) \in Nat /\ Occupied(p) \in Nat
    BY <1>2, <1>3, CellsPositive
  <2>2. CASE p = pos
    BY <1>3, <2>1, <2>2
  <2>3. CASE p # pos
    BY <1>3, <2>1, <2>3
  <2> QED BY <2>2, <2>3
<1>6. Shifted(pos, 0)
  <2>1. values' = [p \in 0 .. length |-> IF p > pos THEN values[p] + 0 ELSE values[p]]
    BY <1>1, <1>2 DEF TypeOK
  <2>2. Cells(impls'[pos]) <= Occupied(pos) + 0
    BY <1>2, <1>3
  <2>3. \A p \in 0 .. length - 2 : p # pos => Cells(impls'[p]) = Occupied(p)
    BY <1>2, <1>3
  <2> QED BY <1>1, <1>3, <2>1, <2>2, <2>3 DEF Shifted
<1>7. Enough(0)
  <2>1. length - 1 \in 0 .. length - 1 /\ length - 1 \in 0 .. length
    BY <1>2
  <2>2. values[length - 1] + Cells(impls'[length - 1]) <= Top
    BY <1>2, <1>5, <2>1
  <2>3. values[length - 1] \in Nat /\ Cells(impls'[length - 1]) \in Nat
    BY <1>2, <1>5, <2>1
  <2> QED BY <1>1, <1>2, <1>4, <2>2, <2>3 DEF Enough, Roomy
<1> QED BY <1>2, <1>6, <1>7, ShiftKeeps

LEMMA ConvertGrowingKeeps ==
  ASSUME PopAfterExchange, IInv, NEW pos \in 0 .. length - 1, NEW to \in Impls,
         ConvertGrowing(pos, to)
  PROVE  IInv'
<1> DEFINE s == Shortage(pos, to) \div CellBytes
<1> DEFINE m == Copy(Resized(GrownCells(s)), values[pos + 1] + s, values[pos + 1], Top - values[pos + 1])
<1>1. /\ Usable /\ s > 0 /\ length' = length
      /\ EnsureSize(0, s, length, Top + s)
      /\ values' = [p \in 0 .. length |-> IF p > pos THEN values[p] + s ELSE values[p]]
      /\ ConvertInPlace(pos, to, m)
  BY DEF ConvertGrowing
<1>2. DOMAIN data' = 0 .. data_size' - 1
  <2>1. data_size' = GrownCells(s)
    BY <1>1 DEF EnsureSize
  <2>2. DOMAIN m = 0 .. GrownCells(s) - 1
    BY DEF Copy, Moved, Resized
  <2>3. DOMAIN data' = DOMAIN m
    BY <1>1 DEF ConvertInPlace, Settled, Store
  <2> QED BY <2>1, <2>2, <2>3
<1>3. /\ TypeOK /\ Roomy /\ fault = "none" /\ ~Torn
      /\ length \in Nat /\ data_size \in Nat /\ Top \in Nat
      /\ \A p \in 0 .. length : values[p] \in Nat
      /\ \A p \in 0 .. length - 1 : Occupied(p) \in Nat /\ values[p] + Occupied(p) <= Top
      /\ impls \in [0 .. length - 1 -> Held] /\ values[pos + 1] \in Nat
  BY <1>1, Before
<1>4. s \in Nat
  <2>1. Bytes[to] \in Nat /\ Slot(pos) * 16 \in Int
    BY <1>3, ValuesAssumption DEF Slot
  <2>2. Shortage(pos, to) \in Nat
    BY <2>1 DEF Shortage, CellBytes
  <2> QED BY <2>2 DEF CellBytes
<1> HIDE DEF s, m
<1>5. /\ impls' \in [0 .. length - 1 -> Held]
      /\ Cells(impls'[pos]) <= Occupied(pos)
      /\ \A p \in 0 .. length - 1 : p # pos => Cells(impls'[p]) = Occupied(p)
  BY <1>1, <1>3, ConvertedCells
<1>6. /\ size' \in Nat /\ size' > length + 0 /\ data_size' \in Nat
      /\ data_size' >= data_size /\ data_size' >= Top + s /\ fault' \in {"none", "stale"}
  <2>1. Top + s \in Nat /\ length <= length + 0 /\ Top + s <= Top + s
    BY <1>3, <1>4
  <2> QED BY <1>1, <1>3, <1>4, <2>1, EnsureEnough
<1>7. \A p \in 0 .. length - 1 : Cells(impls'[p]) \in Nat /\ Cells(impls'[p]) <= Occupied(p)
  <2> SUFFICES ASSUME NEW p \in 0 .. length - 1
               PROVE  Cells(impls'[p]) \in Nat /\ Cells(impls'[p]) <= Occupied(p)
    OBVIOUS
  <2>1. Cells(impls'[p]) \in Nat /\ Occupied(p) \in Nat
    BY <1>3, <1>5, CellsPositive
  <2>2. CASE p = pos
    BY <1>5, <2>1, <2>2
  <2>3. CASE p # pos
    BY <1>5, <2>1, <2>3
  <2> QED BY <2>2, <2>3
<1>8. Shifted(pos, s)
  <2>1. Cells(impls'[pos]) <= Occupied(pos) + s
    BY <1>3, <1>4, <1>7
  <2>2. \A p \in 0 .. length - 2 : p # pos => Cells(impls'[p]) = Occupied(p)
    BY <1>3, <1>5
  <2> QED BY <1>1, <1>5, <2>1, <2>2 DEF Shifted
<1>9. Enough(s)
  <2>1. /\ values[length - 1] \in Nat /\ Cells(impls'[length - 1]) \in Nat
        /\ values[length - 1] + Cells(impls'[length - 1]) <= Top
    <3>1. length - 1 \in 0 .. length - 1 /\ length - 1 \in 0 .. length
      BY <1>3
    <3> QED BY <1>3, <1>7, <3>1
  <2>2. values'[length - 1] <= values[length - 1] + s /\ values'[length - 1] \in Nat
    <3>1. values'[length - 1] = IF length - 1 > pos THEN values[length - 1] + s ELSE values[length - 1]
      <4>1. length - 1 \in 0 .. length
        BY <1>3
      <4> QED BY <1>1, <4>1
    <3> QED BY <1>4, <2>1, <3>1
  <2>3. size' > length
    BY <1>3, <1>6
  <2>4. values'[length - 1] + Cells(impls'[length - 1]) <= data_size'
    BY <1>3, <1>4, <1>6, <2>1, <2>2
  <2>5. DOMAIN data' = 0 .. data_size' - 1 /\ fault' \in {"none", "stale", "assert"}
    BY <1>2, <1>6
  <2> QED BY <1>6, <2>3, <2>4, <2>5 DEF Enough
<1> QED BY <1>3, <1>4, <1>8, <1>9, ShiftKeeps

LEMMA RemoveTopmostKeeps ==
  ASSUME PopAfterExchange, IInv, NEW first \in 0 .. length, NEW n \in 0 .. length,
         Remove(first, n), first + n = length
  PROVE  IInv'
<1>1. /\ TypeOK /\ Ordered /\ WithinData /\ Roomy /\ NoOverrun
      /\ size \in Nat /\ length \in Nat /\ data_size \in Nat /\ Top \in Nat
      /\ \A p \in 0 .. length : values[p] \in Nat
      /\ \A p \in 0 .. length - 1 : impls[p] \in Held
  BY Numbers DEF IInv
<1>2. length' = length - n /\ length' = first
  BY <1>1 DEF Remove
<1>3. UNCHANGED <<size, data_size, fault>>
  BY DEF Remove
<1>4. values' = [p \in 0 .. first |-> values[p]]
  BY <1>1, <1>2 DEF Remove
<1>5. impls' \in [0 .. first - 1 -> Held] /\ \A p \in 0 .. first - 1 : impls'[p] = impls[p]
  BY <1>1, <1>2 DEF Remove
<1>6. DOMAIN data' = 0 .. data_size' - 1
  BY <1>1, <1>3 DEF Remove, Settled, TypeOK
<1>7. TypeOK'
  BY <1>1, <1>2, <1>3, <1>4, <1>5, <1>6 DEF TypeOK, Held
<1>8. Ordered'
  <2>1. \A p \in 0 .. first - 1 : Cells(impls'[p]) = Occupied(p)
    BY <1>5 DEF Occupied
  <2> QED BY <1>1, <1>2, <1>4, <2>1 DEF Ordered, Occupied
<1>9. WithinData'
  BY <1>1, <1>2, <1>3, <1>4, <1>5 DEF WithinData, Occupied
<1>10. Roomy'
  BY <1>1, <1>2, <1>3, <1>4 DEF Roomy, Ordered, Top
<1> QED BY <1>1, <1>3, <1>7, <1>8, <1>9, <1>10 DEF IInv, NoOverrun

\* The tail goes to the end of what stays below it, which is no further up.
LEMMA TailBelow ==
  ASSUME IInv, NEW first \in 0 .. length, NEW tail \in first .. length - 1
  PROVE  /\ TailStart(first) \in Nat /\ TailStart(first) <= values[tail]
         /\ \A p \in 0 .. first - 1 : values[p] + Occupied(p) <= TailStart(first)
<1> DEFINE start == TailStart(first)
<1>1. /\ Ordered /\ length \in Nat /\ first \in Nat /\ tail \in 0 .. length - 1
      /\ \A p \in 0 .. length : values[p] \in Nat
      /\ \A p \in 0 .. length - 1 : Occupied(p) \in Nat
  BY Numbers DEF IInv
<1>2. CASE first = 0
  BY <1>1, <1>2 DEF TailStart
<1>3. CASE first # 0
  <2>1. first - 1 \in 0 .. length - 1 /\ first - 1 < tail /\ start = values[first - 1] + Occupied(first - 1)
    BY <1>1, <1>3 DEF TailStart
  <2>2. values[first - 1] + Occupied(first - 1) <= values[tail]
    BY <1>1, <2>1 DEF Ordered
  <2>3. ASSUME NEW p \in 0 .. first - 1
        PROVE  values[p] + Occupied(p) <= start
    <3>1. CASE p = first - 1
      BY <1>1, <2>1, <3>1
    <3>2. CASE p # first - 1
      <4>1. p < first - 1 /\ p \in 0 .. length - 1
        BY <1>1, <3>2
      <4>2. values[p] + Occupied(p) <= values[first - 1]
        BY <1>1, <2>1, <4>1 DEF Ordered
      <4> QED BY <1>1, <2>1, <4>1, <4>2
    <3> QED BY <3>1, <3>2
  <2> QED BY <1>1, <2>1, <2>2, <2>3
<1> QED BY <1>2, <1>3

LEMMA RemoveInnerKeeps ==
  ASSUME PopAfterExchange, IInv, NEW first \in 0 .. length, NEW n \in 0 .. length,
         Remove(first, n), first + n # length
  PROVE  IInv'
<1> DEFINE tail == first + n
<1> DEFINE start == TailStart(first)
<1> DEFINE shift == values[tail] - start
<1>1. /\ TypeOK /\ Ordered /\ WithinData /\ Roomy /\ NoOverrun
      /\ size \in Nat /\ length \in Nat /\ data_size \in Nat /\ Top \in Nat
      /\ \A p \in 0 .. length : values[p] \in Nat
      /\ \A p \in 0 .. length - 1 : impls[p] \in Held /\ Occupied(p) \in Nat /\ Occupied(p) >= 1
      /\ first \in Nat /\ n \in Nat
  BY Numbers DEF IInv
<1>2. tail \in 0 .. length - 1 /\ first \in 0 .. tail /\ length' = length - n /\ length' \in Nat
  BY <1>1 DEF Remove
<1>3. UNCHANGED <<size, data_size, fault>>
  BY DEF Remove
<1>4. values' = [p \in 0 .. length' |-> IF p < first THEN values[p] ELSE values[p + n] - shift]
  BY <1>1, <1>2 DEF Remove
<1>5. impls' = [p \in 0 .. length' - 1 |-> IF p < first THEN impls[p] ELSE impls[p + n]]
  BY <1>1, <1>2 DEF Remove
<1>6. DOMAIN data' = 0 .. data_size' - 1
  BY <1>1, <1>3 DEF Remove, Settled, Moved, TypeOK
<1>7. start \in Nat /\ start <= values[tail] /\ \A p \in 0 .. first - 1 : values[p] + Occupied(p) <= start
  <2>1. tail \in first .. length - 1
    BY <1>1, <1>2
  <2> QED BY <2>1, TailBelow
<1> HIDE DEF start
<1>8. shift \in Nat /\ values[tail] = start + shift
  BY <1>1, <1>2, <1>7
<1> HIDE DEF tail, shift
<1>9. \A p \in 0 .. length' : p < first => values'[p] = values[p]
  BY <1>4
<1>10. \A p \in 0 .. length' : p >= first =>
         /\ p + n \in 0 .. length /\ values'[p] = values[p + n] - shift
         /\ start <= values'[p] /\ values'[p] \in Nat
  <2> SUFFICES ASSUME NEW p \in 0 .. length', p >= first
               PROVE  /\ p + n \in 0 .. length /\ values'[p] = values[p + n] - shift
                      /\ start <= values'[p] /\ values'[p] \in Nat
    OBVIOUS
  <2>1. p + n \in 0 .. length /\ p + n >= tail
    BY <1>1, <1>2 DEF tail
  <2>2. values'[p] = values[p + n] - shift
    BY <1>1, <1>2, <1>4
  <2>3. values[p + n] >= values[tail] /\ values[p + n] \in Nat
    BY <1>1, <1>2, <2>1 DEF Ordered
  <2> QED BY <1>7, <1>8, <2>1, <2>2, <2>3
<1>11. \A p \in 0 .. length' - 1 :
         /\ p < first => Cells(impls'[p]) = Occupied(p)
         /\ p >= first => p + n \in 0 .. length - 1 /\ Cells(impls'[p]) = Occupied(p + n)
  BY <1>1, <1>2, <1>5 DEF Occupied
<1>12. first \in 0 .. length'
  BY <1>1, <1>2 DEF tail
<1>13. \A p, q \in 0 .. length' : p < q => values'[p] < values'[q]
  <2> SUFFICES ASSUME NEW p \in 0 .. length', NEW q \in 0 .. length', p < q
               PROVE  values'[p] < values'[q]
    OBVIOUS
  <2>1. CASE q < first
    BY <1>1, <1>2, <1>9, <2>1 DEF Ordered
  <2>2. CASE p < first /\ q >= first
    <3>1. /\ p \in 0 .. first - 1 /\ values'[p] = values[p]
          /\ values[p] \in Nat /\ Occupied(p) \in Nat /\ Occupied(p) >= 1
      BY <1>1, <1>2, <1>9, <2>2
    <3>2. values[p] + Occupied(p) <= start /\ start <= values'[q] /\ values'[q] \in Nat
      BY <1>7, <1>10, <2>2, <3>1
    <3> QED BY <1>7, <3>1, <3>2
  <2>3. CASE p >= first
    <3>1. /\ values'[p] = values[p + n] - shift /\ values'[q] = values[q + n] - shift
          /\ p + n \in 0 .. length /\ q + n \in 0 .. length /\ p + n < q + n
      BY <1>1, <1>2, <1>10, <2>3
    <3>2. values[p + n] < values[q + n] /\ values[p + n] \in Nat /\ values[q + n] \in Nat
      BY <1>1, <3>1 DEF Ordered
    <3> QED BY <1>8, <3>1, <3>2
  <2> QED BY <1>1, <1>2, <2>1, <2>2, <2>3
<1>14. \A p, q \in 0 .. length' - 1 : p < q => values'[p] + Cells(impls'[p]) <= values'[q]
  <2> SUFFICES ASSUME NEW p \in 0 .. length' - 1, NEW q \in 0 .. length' - 1, p < q
               PROVE  values'[p] + Cells(impls'[p]) <= values'[q]
    OBVIOUS
  <2>0. p \in 0 .. length' /\ q \in 0 .. length'
    BY <1>2
  <2>1. CASE q < first
    <3>1. /\ p \in 0 .. length - 1 /\ q \in 0 .. length - 1
          /\ values'[p] = values[p] /\ values'[q] = values[q] /\ Cells(impls'[p]) = Occupied(p)
      BY <1>1, <1>2, <1>9, <1>11, <2>0, <2>1
    <3> QED BY <1>1, <3>1 DEF Ordered
  <2>2. CASE p < first /\ q >= first
    <3>1. p \in 0 .. first - 1 /\ values'[p] = values[p] /\ Cells(impls'[p]) = Occupied(p)
          /\ values[p] \in Nat /\ Occupied(p) \in Nat
      BY <1>1, <1>2, <1>9, <1>11, <2>0, <2>2
    <3>2. values[p] + Occupied(p) <= start /\ start <= values'[q] /\ values'[q] \in Nat
      BY <1>7, <1>10, <2>0, <2>2, <3>1
    <3> QED BY <1>7, <3>1, <3>2
  <2>3. CASE p >= first
    <3>1. /\ values'[p] = values[p + n] - shift /\ values'[q] = values[q + n] - shift
          /\ p + n \in 0 .. length - 1 /\ q + n \in 0 .. length - 1 /\ p + n < q + n
          /\ Cells(impls'[p]) = Occupied(p + n)
      BY <1>1, <1>2, <1>10, <1>11, <2>0, <2>3
    <3>2. /\ values[p + n] + Occupied(p + n) <= values[q + n]
          /\ values[p + n] \in Nat /\ values[q + n] \in Nat /\ Occupied(p + n) \in Nat
      BY <1>1, <3>1 DEF Ordered
    <3> QED BY <1>8, <3>1, <3>2
  <2> QED BY <1>1, <1>2, <2>1, <2>2, <2>3
<1>15. \A p \in 0 .. length' - 1 : values'[p] + Cells(impls'[p]) <= data_size
  <2> SUFFICES ASSUME NEW p \in 0 .. length' - 1
               PROVE  values'[p] + Cells(impls'[p]) <= data_size
    OBVIOUS
  <2>0. p \in 0 .. length'
    BY <1>2
  <2>1. CASE p < first
    BY <1>1, <1>2, <1>9, <1>11, <2>0, <2>1 DEF WithinData
  <2>2. CASE p >= first
    <3>1. /\ p + n \in 0 .. length - 1 /\ values'[p] = values[p + n] - shift
          /\ Cells(impls'[p]) = Occupied(p + n)
      BY <1>10, <1>11, <2>0, <2>2
    <3>2. values[p + n] + Occupied(p + n) <= data_size /\ values[p + n] \in Nat /\ Occupied(p + n) \in Nat
      BY <1>1, <3>1 DEF WithinData
    <3> QED BY <1>1, <1>8, <3>1, <3>2
  <2> QED BY <1>1, <1>2, <2>1, <2>2
<1>16. values'[length'] <= data_size
  <2>1. length' + n = length /\ length' >= first /\ length' \in 0 .. length'
    BY <1>1, <1>2, <1>12
  <2>2. values'[length'] = values[length] - shift
    BY <1>10, <2>1
  <2> QED BY <1>1, <1>8, <2>2 DEF Roomy, Top
<1>17. TypeOK'
  <2>1. values' \in [0 .. length' -> Nat]
    <3>1. \A p \in 0 .. length' : values'[p] \in Nat
      <4> SUFFICES ASSUME NEW p \in 0 .. length' PROVE values'[p] \in Nat
        OBVIOUS
      <4>1. CASE p < first
        BY <1>1, <1>2, <1>9, <4>1
      <4>2. CASE p >= first
        BY <1>10, <4>2
      <4> QED BY <1>1, <1>2, <4>1, <4>2
    <3> QED BY <1>4, <3>1
  <2>2. impls' \in [0 .. length' - 1 -> Impls \cup {NoImpl}]
    BY <1>1, <1>2, <1>5 DEF Held
  <2> QED BY <1>1, <1>2, <1>3, <1>6, <2>1, <2>2 DEF TypeOK
<1>18. Ordered' /\ WithinData' /\ Roomy'
  BY <1>1, <1>2, <1>3, <1>13, <1>14, <1>15, <1>16 DEF Ordered, WithinData, Roomy, Occupied, Top
<1> QED BY <1>1, <1>3, <1>17, <1>18 DEF IInv, NoOverrun
-----------------------------------------------------------------------------
LEMMA InitHolds == Init => IInv
<1> SUFFICES ASSUME Init PROVE IInv
  OBVIOUS
<1>1. /\ size = InitSize /\ length = 0 /\ data_size = InitCells /\ values[0] = 0
      /\ InitSize \in Nat /\ InitSize > 1 /\ InitCells \in Nat /\ InitCells > 0
  BY LayoutAssumption DEF Init
<1>2. TypeOK
  <2>1. impls \in [0 .. length - 1 -> Impls \cup {NoImpl}]
    <3>1. 0 .. length - 1 = {} /\ impls = << >>
      BY <1>1 DEF Init
    <3>2. impls = [i \in 1 .. 0 |-> i] /\ 1 .. 0 = {}
      BY <3>1
    <3> QED BY <3>1, <3>2
  <2>2. values \in [0 .. length -> Nat] /\ DOMAIN data = 0 .. data_size - 1 /\ fault = "none"
    BY <1>1 DEF Init
  <2> QED BY <1>1, <2>1, <2>2 DEF TypeOK
<1>3. Ordered /\ WithinData /\ Roomy /\ NoOverrun
  BY <1>1 DEF Init, Ordered, WithinData, Roomy, NoOverrun, Top
<1> QED BY <1>2, <1>3 DEF IInv

LEMMA StepKeeps ==
  ASSUME PopAfterExchange, IInv, [Next]_vars
  PROVE  IInv'
<1>1. CASE UNCHANGED vars
  BY <1>1 DEF vars, IInv, TypeOK, NoOverrun, Ordered, WithinData, Roomy, Occupied, Top
<1>2. CASE \E e \in Element : Push(e)
  <2>1. \A e \in Element : e.impl \in Held
    BY DEF Element, Null, Held
  <2> QED BY <1>2, <2>1, PushKeeps DEF Push
<1>3. CASE \E n \in 0 .. length : Pop(n)
  BY <1>3, PopKeeps
<1>4. CASE \E first \in 0 .. length, n \in 0 .. length : Remove(first, n)
  BY <1>4, RemoveTopmostKeeps, RemoveInnerKeeps
<1>5. CASE \E pos \in 0 .. length - 1 : Duplicate(pos)
  <2>1. PICK pos \in 0 .. length - 1 : PushElement(ElementAt(pos))
    BY <1>5 DEF Duplicate
  <2>2. ElementAt(pos).impl \in Held
    BY DEF IInv, TypeOK, ElementAt, Null, Held
  <2> QED BY <2>1, <2>2, PushKeeps
<1>6. CASE \E pos \in 0 .. length - 1 : Exchange(pos)
  BY <1>6, ExchangeEqualKeeps, ExchangeLargerKeeps, ExchangeSmallerKeeps DEF Exchange
<1>7. CASE \E pos \in 0 .. length - 1, to \in Impls : Convert(pos, to)
  <2>1. PICK pos \in 0 .. length - 1, to \in Impls : Convert(pos, to)
    BY <1>7
  <2>2. CASE ConvertAsserts(pos, to)
    BY <2>2 DEF ConvertAsserts, IInv, TypeOK, NoOverrun, Ordered, WithinData, Roomy, Occupied, Top
  <2> QED BY <2>1, <2>2, ConvertFittingKeeps, ConvertGrowingKeeps DEF Convert
<1> QED BY <1>1, <1>2, <1>3, <1>4, <1>5, <1>6, <1>7 DEF Next

THEOREM Invariance ==
  ASSUME PopAfterExchange
  PROVE  Spec => []IInv
<1>1. IInv /\ [Next]_vars => IInv'
  BY StepKeeps
<1> QED BY <1>1, InitHolds, PTL DEF Spec

(***************************************************************************)
(* The sizes and pointers of the stack always describe a well-formed       *)
(* layout (stack.c, all operations), whatever the sizes of the values.     *)
(***************************************************************************)
THEOREM TypeCorrect ==
  ASSUME PopAfterExchange
  PROVE  Spec => []TypeOK
<1>1. IInv => TypeOK
  BY DEF IInv
<1> QED BY <1>1, Invariance, PTL

(***************************************************************************)
(* No operation writes past the blocks that stack_ensure_size provides:    *)
(* the room asked for is enough for every store, move and scratch copy.    *)
(***************************************************************************)
THEOREM NeverOverruns ==
  ASSUME PopAfterExchange
  PROVE  Spec => []NoOverrun
<1>1. IInv => NoOverrun
  BY DEF IInv
<1> QED BY <1>1, Invariance, PTL

(***************************************************************************)
(* The cells of different elements never overlap and lie inside data,      *)
(* through every move of remove, exchange and convert.                     *)
(***************************************************************************)
THEOREM ElementsStayApart ==
  ASSUME PopAfterExchange
  PROVE  Spec => []ElementsApart
<1>1. IInv => ElementsApart
  <2> SUFFICES ASSUME IInv PROVE ElementsApart
    OBVIOUS
  <2>1. length \in Nat /\ Ordered /\ WithinData
    BY DEF IInv, TypeOK
  <2>2. \A p \in 0 .. length - 2 : values[p] + Occupied(p) <= values[p + 1]
    BY <2>1 DEF Ordered
  <2>3. length > 0 => values[length - 1] < Top
    BY <2>1 DEF Ordered, Top
  <2> QED BY <2>1, <2>2, <2>3 DEF WithinData, ElementsApart
<1> QED BY <1>1, Invariance, PTL
=============================================================================
