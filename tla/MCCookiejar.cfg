SPECIFICATION Spec
CONSTANTS
  Letter = {x}
  Sp = Sp
  Eq = Eq
  Semi = Semi
  JarSize = 4
  MaxLine = 6
  MaxCookies = 3
INVARIANTS JarWhole CopiesFit ParsesCookie
CHECK_DEADLOCK FALSE
