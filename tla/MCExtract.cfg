\* Two archives of two members, each option by itself.
SPECIFICATION Spec
CONSTANTS
  Name = {n1}
  BadName = bad1
  Options <- MCOptions
  MaxArchives = 2
  MaxMembers = 2
INVARIANTS WrittenIsVerified RcHonest PolicyKept
CHECK_DEADLOCK FALSE
