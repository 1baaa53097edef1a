SPECIFICATION PartSpec
CONSTANTS
  Users = {u1, u2}
  Admins = {u1}
  None = None
  Faults = TRUE
  MaxWaiting = 2
INVARIANT ChoiceShown
PROPERTIES OthersNotApplied KeptSomewhere DraftsKept ReviewedOnly OperationsEnd
CHECK_DEADLOCK FALSE
