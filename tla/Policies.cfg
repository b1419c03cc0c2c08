\* Every list of up to three expressions; every policy with up to two rules of a class;
\* up to three policies in the BPF maps; up to three rules in an AppArmor profile.
SPECIFICATION PoliciesSpec
CONSTANTS
  Unset = Unset
  bash = bash
  sh = sh
  NoSource = NoSource
  Garbled = Garbled
  Policies <- MCPolicies
  Events <- MCEvents
  Longer <- MCLonger
  ScanDepth = 8
  MaxArgs = 3
  MaxPolicies = 3
CHECK_DEADLOCK FALSE
INVARIANTS DecidesAsMeant AppliesAsDocumented RulesAsWritten 
