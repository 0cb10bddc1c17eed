\* Every kind of type, containers of up to two elements, nested once.
SPECIFICATION Spec
CONSTANTS
  Radix = 2
  Width <- Widths
  StringWidth = 5
INVARIANT SizeExact
INVARIANT RoundTrip
INVARIANT StreamsReport
CHECK_DEADLOCK FALSE
