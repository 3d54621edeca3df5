SPECIFICATION Spec
CONSTANTS
  None = None
  Cut = Cut
  Negative = Negative
  Bits = 4
  EnumBits = 3
  Group = 3
  MaxFieldNumber = 6
  MaxFieldId = 5
  Reserved = {3}
  Second = 3
  Micro = 2
  MaxEdits = 2
  Hints <- MCHints
  SchemaOf <- Schemas
  Methods <- MCMethods
  Objects <- MCObjects
  Forms <- MCForms
INVARIANTS
  DecodesToValue
  OldReaderReads
  SpoiltIsAnError
  NumbersAreLegal
  ReplyIsOne
CHECK_DEADLOCK FALSE
