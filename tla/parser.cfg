SPECIFICATION Spec
CONSTANTS
  Names = {"a", "b", "T"}
  Numbers = {"1"}
  Texts = {}
  MaxErrors = 3
  MaxDepth = 2
  TypoDepth = 1
  Typos = {"a", "1", ";", "{", "}", "(", ")", "[", ",", "+", "=", "=>", ".", "?", "++", "else", "if", "return", "int32", "static", "is", "do", "<INVALID>"}
  Parser <- TextToTree
  Printer <- TreesToText
INVARIANT TypeOK
INVARIANT RoundTrip
INVARIANT NothingIsDropped
INVARIANT AssertionsHold
INVARIANT RecoveryIsLocal
INVARIANT ErrorsArePoisoned
INVARIANT TreeIsShaped
CHECK_DEADLOCK FALSE
