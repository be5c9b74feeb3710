SPECIFICATION Spec
CONSTANTS
  Context <- MCContext
  Numerals <- MCNumerals
  Finals <- MCFinals
  Constructors <- MCConstructors
  Memory <- MCMemory
  MaxCallArguments = 32
  Progs <- MCProgs
  Code <- MCCode
  NArgs <- MCNArgs
  NCaptures <- MCNCaptures
  NStatic <- MCNStatic
  Constants <- MCConstants
  Entry = {"capture"}
  Foreign <- MCForeign
  Globals <- MCGlobals
  NativeArgs <- MCNativeArgs
  Names <- MCNames
  Heights <- MCHeights
  MaxStack = 20
  Overshoot = 4
  InitFrames = 2
  MaxRuns = 1
INVARIANT CapturesAreSnapshots
