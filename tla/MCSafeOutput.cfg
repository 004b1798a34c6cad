\* Two writers, one call each, one entry from another program.
SPECIFICATION FairSpec
CONSTANTS
  Writer = {w1, w2}
  Inode = {top, outside, i1, i2, i3}
  Top = top
  Outside = outside
  Out = "out"
  Fresh <- MCFresh
  Name <- MCName
  Unsafe = {"c:"}
  Member <- MCMember
  None = None
  Refused = Refused
  ForeignData = ForeignData
  MaxCalls = 1
  MaxForeign = 1
INVARIANTS Confined FdDiscipline NoPartialLeft WroteIsOnDisk
PROPERTIES CallEnds SettledUntouched ImplementsExclusivePublish
CHECK_DEADLOCK FALSE
