SPECIFICATION Spec
CONSTANTS
  Apps = {a, b}
  Blank = Blank
  Keys = {}
  NoKey = NoKey
  Saver = save
  Masked = Masked
  Callers = {save, test}
  MaxSends = 1
PROPERTY DraftIsKept
CHECK_DEADLOCK FALSE
