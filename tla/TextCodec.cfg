SPECIFICATION Spec
CONSTANTS
  NumberLimit = 8
  MaxLength = 17
  Lines <- MCLines
INVARIANTS
  DecodesTheProtocol
  FirstFaultNamed
  RefusalsTraceable
CHECK_DEADLOCK FALSE
