SPECIFICATION Spec
CONSTANTS
  Other = {x}
  CR = CR
  LF = LF
  MaxSent = 9
  MaxLen = 8
  SizeMax = 99
CHECK_DEADLOCK FALSE
INVARIANTS SectionWhole PrefixStored
