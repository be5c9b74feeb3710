---------------------------- MODULE AzoPackedStack ----------------------------
(***************************************************************************)
(* The value stack as stack.c lays it out: impls and values are parallel   *)
(* arrays of `size' entries, values[i] points to the cells of element i in *)
(* the block `data' of data_size cells of 16 bytes, and values[length] to  *)
(* the first free cell.  A pointer into data is modelled by its offset, a  *)
(* cell by the value it belongs to and its place in it.                    *)
(*                                                                         *)
(* `fault' names the first thing that leaves the defined behaviour of the  *)
(* C program; nothing is modelled after it:                                *)
(*   "overrun"  a write past the end of one of the three blocks            *)
(*   "stale"    realloc moved data, values[] still points to the old block *)
(*   "assert"   stack_ensure_size is asked for a size that is not a whole  *)
(*              number of cells                                            *)
(***************************************************************************)
EXTENDS AzoValues, FiniteSets

CONSTANTS
  InitSize,         \* entries allocated at first (256 in the code)
  InitCells,        \* data cells allocated at first (4096 bytes in the code)
  MaxLength,        \* bound on length
  MaxCells,         \* bound on the offset of the first free cell
  ReallocMoves,     \* may realloc of data return another block
  MemcpyAscends,    \* does memcpy copy cell by cell upwards, which C allows,
                    \* or overlapping runs right, as memmove does
  PopAfterExchange, \* every exchange with a larger element is followed by a
                    \* pop, as in the code the compiler emits
  Junk              \* a cell that holds no value

ASSUME LayoutAssumption ==
  /\ InitSize \in Nat \ {0, 1} /\ InitCells \in Nat \ {0}
  /\ MaxLength \in Nat /\ MaxCells \in Nat
  /\ {ReallocMoves, MemcpyAscends, PopAfterExchange} \subseteq BOOLEAN

\* A free cell is told from the cells of values.
ASSUME JunkAssumption == Junk \notin [content : Contents, part : Nat, of : Nat]

VARIABLES size, length, impls, values, data_size, data, fault

vars == <<size, length, impls, values, data_size, data, fault>>

\* The k cells of content c, and the cells of element e.
Cell(c, i, k) == [content |-> c, part |-> i, of |-> k]

Top == values[length]
Occupied(p) == Cells(impls[p])           \* STACK_IMPL_VALUE_SIZE
Slot(p) == values[p + 1] - values[p]     \* STACK_ELEMENT_SIZE

\* The first free pointer lies inside the topmost element.
Torn == length > 0 /\ Top < values[length - 1] + Occupied(length - 1)
-----------------------------------------------------------------------------
(***************************************************************************)
(* Memory: reads and writes of runs of cells, all within the block.        *)
(***************************************************************************)
At(mem, a) == IF a \in DOMAIN mem THEN mem[a] ELSE Junk

\* memmove of n cells.
Moved(mem, dst, src, n) ==
  [a \in DOMAIN mem |-> IF dst <= a /\ a < dst + n THEN At(mem, src + a - dst) ELSE mem[a]]

\* memcpy of n cells.  Copied upwards to an overlapping place above, the first
\* dst - src cells repeat.
Copy(mem, dst, src, n) ==
  IF MemcpyAscends /\ src < dst
  THEN [a \in DOMAIN mem |->
          IF dst <= a /\ a < dst + n THEN At(mem, src + ((a - dst) % (dst - src))) ELSE mem[a]]
  ELSE Moved(mem, dst, src, n)

\* Initialise the cells of element e at dst.
Store(mem, dst, e) ==
  LET k == Cells(e.impl)
  IN  [a \in DOMAIN mem |->
         IF dst <= a /\ a < dst + k
         THEN IF e.impl = NoImpl THEN Junk ELSE Cell(e.content, a - dst + 1, k)
         ELSE mem[a]]

\* Memory mem after an operation, once impls', values' and length' are known.
\* Cells of no element (cleared values, scratch and stale copies, slack) are
\* never read again: they are Junk.
Settled(mem) ==
  [a \in DOMAIN mem |->
     IF \E p \in 0 .. length' - 1 : values'[p] <= a /\ a < values'[p] + Cells(impls'[p])
     THEN mem[a] ELSE Junk]

\* The element the client reads at position p.
ElementAt(p) ==
  LET k == Cells(impls[p])
      c == At(data, values[p])
  IN  IF impls[p] = NoImpl THEN Null
      ELSE IF c # Junk /\ \A i \in 0 .. k - 1 : At(data, values[p] + i) = Cell(c.content, i + 1, k)
      THEN [impl |-> impls[p], content |-> c.content]
      ELSE [impl |-> impls[p], content |-> NoContent]
-----------------------------------------------------------------------------
(***************************************************************************)
(* stack_ensure_size (n entries, k cells): the sizes after it and whether  *)
(* data was reallocated.                                                   *)
(***************************************************************************)
GrownSizeOffByOne(n) == IF length + n <= size THEN size ELSE 2 * size  \* mutant

GrownSize(n) ==
  IF length + n + 1 < size THEN size
  ELSE IF length + n + 1 < 2 * size THEN 2 * size
  ELSE length + n + 1

GrownCells(k) ==
  IF Top + k < data_size THEN data_size
  ELSE IF Top + k < 2 * data_size THEN 2 * data_size
  ELSE 2 * data_size + k

ResizedNot(n) == data  \* mutant

\* The data block after realloc to n cells.
Resized(n) == [a \in 0 .. n - 1 |-> At(data, a)]

(***************************************************************************)
(* Make room for n entries and k cells.  `entries' is the highest entry    *)
(* and `cells' the end of the run of cells the caller then writes; a push  *)
(* has written impls[length] before.                                       *)
(***************************************************************************)
EnsureSize(n, k, entries, cells) ==
  /\ size' = GrownSize(n)
  /\ data_size' = GrownCells(k)
  /\ fault' \in
       IF length >= size \/ entries >= size' \/ cells > data_size' THEN {"overrun"}
       ELSE IF ReallocMoves /\ data_size' # data_size THEN {"none", "stale"}
       ELSE {"none"}
-----------------------------------------------------------------------------
Init ==
  /\ size = InitSize /\ length = 0 /\ impls = << >>
  /\ values = [i \in {0} |-> 0]
  /\ data_size = InitCells /\ data = [a \in 0 .. InitCells - 1 |-> Junk]
  /\ fault = "none"

\* May an operation other than pop be called.
Usable == fault = "none" /\ (PopAfterExchange => ~Torn)

(***************************************************************************)
(* The four push functions differ in where the value comes from; each      *)
(* writes impls[length], makes room, stores and sets the next pointer.     *)
(***************************************************************************)
PushElement(e) ==
  LET k == Cells(e.impl)
  IN  /\ Usable /\ length < MaxLength /\ Top + k <= MaxCells
      /\ EnsureSize(1, k, length + 1, Top + k)
      /\ impls' = [p \in 0 .. length |-> IF p = length THEN e.impl ELSE impls[p]]
      /\ values' = [p \in 0 .. length + 1 |-> IF p = length + 1 THEN Top + k ELSE values[p]]
      /\ length' = length + 1
      /\ data' = Settled(Store(Resized(data_size'), Top, e))

Push(e) == PushElement(e)

Duplicate(pos) == pos < length /\ PushElement(ElementAt(pos))

Pop(n) ==
  /\ fault = "none" /\ n <= length
  /\ PopAfterExchange /\ Torn => n > 0
  /\ length' = length - n
  /\ impls' = [p \in 0 .. length - n - 1 |-> impls[p]]
  /\ values' = [p \in 0 .. length - n |-> values[p]]
  /\ data' = Settled(data)
  /\ UNCHANGED <<size, data_size, fault>>

TailStartOneCell(first) == IF first = 0 THEN 0 ELSE values[first - 1] + 1  \* mutant

\* Where the tail goes when the elements from first on are removed: the end of
\* the element below, whose slack is given up.
TailStart(first) == IF first = 0 THEN 0 ELSE values[first - 1] + Occupied(first - 1)

\* Remove inner or topmost elements and move the tail down.
Remove(first, n) ==
  LET tail  == first + n
      start == TailStart(first)
      shift == values[tail] - start
  IN  /\ Usable /\ tail <= length
      /\ length' = length - n
      /\ impls' = [p \in 0 .. length - n - 1 |-> IF p < first THEN impls[p] ELSE impls[p + n]]
      /\ values' = [p \in 0 .. length - n |->
                      IF p < first \/ tail = length THEN values[p] ELSE values[p + n] - shift]
      /\ data' = Settled(IF tail = length THEN data ELSE Moved(data, start, values[tail], Top - values[tail]))
      /\ UNCHANGED <<size, data_size, fault>>
-----------------------------------------------------------------------------
(***************************************************************************)
(* azo_stack_exchange.  A is the element at pos, B the topmost one.        *)
(***************************************************************************)
SwapImplsNot(pos) == UNCHANGED impls  \* mutant

SwapImpls(pos) ==
  impls' = [impls EXCEPT ![pos] = impls[length - 1], ![length - 1] = impls[pos]]

\* Equal sizes: A goes over the free cells after the top.
ExchangeEqual(pos) ==
  LET k  == Occupied(pos)
      m0 == Resized(GrownCells(k))
      m1 == Copy(m0, Top, values[pos], k)
      m2 == Copy(m1, values[pos], values[length - 1], k)
  IN  /\ Usable /\ pos < length - 1 /\ k = Occupied(length - 1)
      /\ EnsureSize(1, k, length, Top + k)
      /\ SwapImpls(pos)
      /\ UNCHANGED <<length, values>>
      /\ data' = Settled(Copy(m2, values[length - 1], Top, k))

\* A larger: B takes its place and everything above moves down by the
\* difference, the first free pointer included.
ExchangeLarger(pos) ==
  LET a     == Occupied(pos)
      b     == Occupied(length - 1)
      shift == a - b
      m0 == Resized(GrownCells(a))
      m1 == Copy(m0, Top, values[pos], a)
      m2 == Copy(m1, values[pos], values[length - 1], b)
      m3 == Copy(m2, values[pos + 1] - shift, values[pos + 1], values[length - 1] - values[pos + 1])
  IN  /\ Usable /\ pos < length - 1 /\ a > b
      /\ EnsureSize(0, a, length, Top + a)
      /\ values' = [p \in 0 .. length |-> IF p > pos THEN values[p] - shift ELSE values[p]]
      /\ SwapImpls(pos)
      /\ UNCHANGED length
      /\ data' = Settled(Copy(m3, values[length - 1] - shift, Top, a))

\* A smaller: everything above moves up by the difference to make room for B.
ExchangeSmaller(pos) ==
  LET a     == Occupied(pos)
      b     == Occupied(length - 1)
      shift == b - a
      m0 == Resized(GrownCells(b))
      m1 == Copy(m0, values[pos + 1] + shift, values[pos + 1], Top - values[pos + 1])
      m2 == Copy(m1, Top + shift, values[pos], a)
      m3 == Copy(m2, values[pos], values[length - 1] + shift, b)
  IN  /\ Usable /\ pos < length - 1 /\ a < b /\ Top + shift <= MaxCells
      /\ EnsureSize(0, b, length, Top + shift + a)
      /\ values' = [p \in 0 .. length |-> IF p > pos THEN values[p] + shift ELSE values[p]]
      /\ SwapImpls(pos)
      /\ UNCHANGED length
      /\ data' = Settled(Copy(m3, values[length - 1] + shift, Top + shift, a))

Exchange(pos) == ExchangeEqual(pos) \/ ExchangeLarger(pos) \/ ExchangeSmaller(pos)
-----------------------------------------------------------------------------
(***************************************************************************)
(* azo_stack_convert: make the slot large enough for the new type, moving  *)
(* everything above it up, then convert in place.                          *)
(***************************************************************************)
Shortage(pos, to) == IF Slot(pos) * CellBytes < Bytes[to] THEN Bytes[to] - Slot(pos) * CellBytes ELSE 0

\* The in-place conversion of the element at pos within memory m, or its failure.
ConvertInPlace(pos, to, m) ==
  \/ \E e \in Conversions(ElementAt(pos), to) :
       /\ impls' = [impls EXCEPT ![pos] = e.impl]
       /\ data' = Settled(Store(m, values[pos], e))
  \/ UNCHANGED impls /\ data' = Settled(m)

ConvertFitting(pos, to) ==
  /\ Usable /\ pos < length /\ Shortage(pos, to) = 0
  /\ UNCHANGED <<size, length, values, data_size, fault>>
  /\ ConvertInPlace(pos, to, data)

ConvertGrowing(pos, to) ==
  LET shift == Shortage(pos, to) \div CellBytes
      m     == Resized(GrownCells(shift))
  IN  /\ Usable /\ pos < length /\ shift > 0 /\ Top + shift <= MaxCells
      /\ Shortage(pos, to) % CellBytes = 0
      /\ EnsureSize(0, shift, length, Top + shift)
      /\ values' = [p \in 0 .. length |-> IF p > pos THEN values[p] + shift ELSE values[p]]
      /\ UNCHANGED length
      /\ ConvertInPlace(pos, to, Copy(m, values[pos + 1] + shift, values[pos + 1], Top - values[pos + 1]))

\* The rounding is missing from the shift: the assertion of stack_ensure_size
\* stops the program.
ConvertAsserts(pos, to) ==
  /\ Usable /\ pos < length
  /\ Shortage(pos, to) % CellBytes # 0
  /\ fault' = "assert"
  /\ UNCHANGED <<size, length, impls, values, data_size, data>>

Convert(pos, to) == ConvertFitting(pos, to) \/ ConvertGrowing(pos, to) \/ ConvertAsserts(pos, to)
-----------------------------------------------------------------------------
Next ==
  \/ \E e \in Element : Push(e)
  \/ \E n \in 0 .. length : Pop(n)
  \/ \E first \in 0 .. length, n \in 0 .. length : Remove(first, n)
  \/ \E pos \in 0 .. length - 1 : Duplicate(pos) \/ Exchange(pos)
  \/ \E pos \in 0 .. length - 1, to \in Impls : Convert(pos, to)

Spec == Init /\ [][Next]_vars
-----------------------------------------------------------------------------
(***************************************************************************)
(* Correctness.                                                            *)
(***************************************************************************)
TypeOK ==
  /\ size \in Nat \ {0} /\ length \in Nat /\ data_size \in Nat \ {0}
  /\ impls \in [0 .. length - 1 -> Impls \cup {NoImpl}]
  /\ values \in [0 .. length -> Nat]
  /\ DOMAIN data = 0 .. data_size - 1
  /\ fault \in {"none", "overrun", "stale", "assert"}

(* Every write of every operation stays inside the blocks stack_ensure_size *)
(* provides: the entry after the last one, the value stored or moved and    *)
(* the scratch copy of an exchange.                                         *)
NoOverrun == fault # "overrun"

(* stack.h: "Entries have (length + 1) elements, the last pointing to the  *)
(* first free value": no operation leaves the last pointer inside a value. *)
LastPointsToFirstFree == ~Torn

(* The same comment: the entries point into the block the stack owns, also  *)
(* after stack_ensure_size made it grow.                                    *)
EntriesPointIntoData == fault # "stale"

(* The cells of two elements never overlap, they all lie inside data, and   *)
(* an exchange with a larger element can spoil only the free pointer.       *)
ElementsApart ==
  /\ \A p \in 0 .. length - 1 : values[p] + Occupied(p) <= data_size
  /\ \A p \in 0 .. length - 2 : values[p] + Occupied(p) <= values[p + 1]
  /\ length > 0 => values[length - 1] < Top

(* What a client reads is the sequence of elements that stack.h promises:   *)
(* packing, slack, moves and growth of the blocks never change it.          *)
contents == [i \in 1 .. length |-> ElementAt(i - 1)]
Promise == INSTANCE AzoStack WITH stack <- contents
ImplementsStack == Promise!Spec
=============================================================================
