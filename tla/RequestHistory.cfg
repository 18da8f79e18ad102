SPECIFICATION Spec
CONSTANTS
  a = a
  b = b
  Ids = {a, b}
  None = None
  Questions = {1, 12}
  Sizes = {1, 5}
  Handle = 1
  Notice = 2
  MaxMessages = 4
  MaxChars = 10
  MaxTokens = 8
  Keep = 2
  MaxSession = 5
SYMMETRY Symmetric
INVARIANTS
  RequestsUsable
CHECK_DEADLOCK FALSE
