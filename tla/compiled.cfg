SPECIFICATION Spec
CONSTANTS
  Context <- MCContext
  Numerals <- MCNumerals
  Finals <- Nothing
  Constructors <- Nothing
  Memory <- Nothing
  MaxCallArguments = 3
  Chains = FALSE
  Scripts <- MCScripts
  Meanings <- MCMeanings
  Progs <- MCProgs
  Entry <- MCEntry
  Code <- MCCode
  NArgs <- MCNArgs
  NCaptures <- MCNCaptures
  NStatic <- MCNStatic
  Constants <- MCConstants
  Foreign = {}
  Globals <- Nothing
  NativeArgs <- Nothing
  Names <- MCNames
  Heights <- MCHeights
  MaxStack = 40
  Overshoot = 4
  InitFrames = 2
  MaxRuns = 1
INVARIANTS NoUnderflow ReturnsAsWritten SentencesBalanced KeepsFrame HeightsKept CapturesFit
PROPERTIES ScriptsEnd
