\* Does every extractor run in isolation, and with the password?
SPECIFICATION Spec
CONSTANTS
  Name = {n1}
  BadName = bad1
  Options <- MCShipped
  MaxArchives = 1
  MaxMembers = 1
INVARIANTS HandoffKept
CHECK_DEADLOCK FALSE
