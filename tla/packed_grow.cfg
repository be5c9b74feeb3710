SPECIFICATION Spec
CONSTANTS
  odd = odd
  wide = wide
  box = box
  Impls <- MCImpls
  Bytes <- MCBytes
  Boxed = box
  Contents = {a, b}
  NoImpl = NoImpl
  NoContent = NoContent
  Junk = Junk
  InitSize = 2
  InitCells = 1
  MaxLength = 3
  MaxCells = 6
  ReallocMoves = TRUE
  MemcpyAscends = FALSE
  PopAfterExchange = TRUE
INVARIANT EntriesPointIntoData
CHECK_DEADLOCK FALSE
