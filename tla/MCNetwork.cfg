CONSTANTS
  Width <- MCWidth
  ULong <- TwiceWidth

SPECIFICATION NetworkSpec

INVARIANTS
  ContainsMeansSamePrefix
  RuleNetworksAreMasked

CHECK_DEADLOCK FALSE
