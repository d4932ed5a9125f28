SPECIFICATION DataSpec
CONSTANTS
  MaxNodes = 7
  Payloads = {"a", "b"}
  Width = 4
  Overflow = "panic"
  MaxData = 3
INVARIANTS TypeOK TransitionsExact LookupExact
CHECK_DEADLOCK FALSE
