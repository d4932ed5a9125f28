SPECIFICATION DataSpec
CONSTANTS
  MaxNodes = 6
  Payloads = {"a", "b"}
  Width = 3
  Overflow = "wrap"
  MaxData = 3
INVARIANT LookupExact
CHECK_DEADLOCK FALSE
