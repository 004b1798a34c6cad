\* Is a rejected namespace survived?
SPECIFICATION HostSpec
CONSTANTS
  File = {"asked", "other"}
  Asked = "asked"
INVARIANTS RejectionNotFatal
CHECK_DEADLOCK FALSE
