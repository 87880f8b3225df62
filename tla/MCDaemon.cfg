CONSTANTS
  first = first
  second = second
  third = third
  usual = usual
  other = other
  relative = relative
  Invocations <- MCInvocations
  CommandLines <- MCCommandLines
  PidFiles <- MCPidFiles
  RelativeNames <- MCRelativeNames
  DefaultPidFile = usual
  Nobody = Nobody
  Debug = FALSE

SPECIFICATION DaemonSpec

INVARIANTS
  OneDaemonPerPidFile
  PidFileNeverLies
  OneRunner
  Detached

PROPERTIES
  StartUpEnds
  ZeroIsEarned
  ImplementsService

CHECK_DEADLOCK FALSE
