SPECIFICATION Spec
CONSTANTS
  Apps = {a, b}
  Blank = Blank
  Keys = {k}
  NoKey = NoKey
  Saver = save
  Masked = Masked
  Callers = {save, other}
  MaxSends = 1
PROPERTIES
  RefinesChannelStore
  KeptSecretStays
  SwitchKeepsCredentials
SYMMETRY Symmetry
CHECK_DEADLOCK FALSE
