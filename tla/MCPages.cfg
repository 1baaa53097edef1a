SPECIFICATION PartSpec
CONSTANTS
  a1 = a1
  Assets = {a1, a2}
  Types = {t}
  Values = {1, 2}
  Actions = {"outgoing", "incoming"}
  None = None
  MaxRevision = 1
  MaxWaiting = 1
PROPERTIES StaysHome WritesReviewed
CHECK_DEADLOCK FALSE
