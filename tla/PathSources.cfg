SPECIFICATION Spec
CONSTANTS
  bash = bash
  sh = sh
  NoSource = NoSource
  Garbled = Garbled
  Policies <- MCSourcePolicies
  Events <- MCEvents
  Longer <- MCLonger
  ScanDepth = 8
  MaxArgs = 3
  MaxPolicies = 3
INVARIANTS
  SourcesHonoured
