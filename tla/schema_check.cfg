SPECIFICATION Spec
CONSTANTS
  t1 = t1
  t2 = t2
  Thread = {t1, t2}
  Class = {"Outer", "Inner", "Node", "Other", "Ring", "Loop", "Early", "Later"}
  Fields <- MCFields
  Plain = Plain
  Bad = Bad
  Late = {"Later"}
  MaxUses = 3
INVARIANTS
  OnlyFaultyRefused
  AcceptedIsSound
  EnteredOnce
CHECK_DEADLOCK FALSE
