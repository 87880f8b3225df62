CONSTANTS
  first = first
  second = second
  third = third
  usual = usual
  other = other
  relative = relative
  Invocations <- MCInvocations
  CommandLines <- HelpLines
  PidFiles <- MCPidFiles
  RelativeNames <- MCRelativeNames
  DefaultPidFile = usual
  Nobody = Nobody
  Debug = FALSE

SPECIFICATION DaemonSpec

INVARIANTS
  HelpOnly

CHECK_DEADLOCK FALSE
