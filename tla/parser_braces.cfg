SPECIFICATION Spec
CONSTANTS
  Names = {"a", "b", "T"}
  Numbers = {"1"}
  Texts = {}
  MaxErrors = 3
  MaxDepth = 2
  TypoDepth = 2
  Typos = {"1"}
  Parser <- TextToTree
  Printer <- TreesToText
INVARIANT BracesStayBalanced
CHECK_DEADLOCK FALSE
