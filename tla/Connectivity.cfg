SPECIFICATION GateSpec
CONSTANTS
  Capable = {TRUE, FALSE}
  Browsers <- MCBrowsers
  Policies <- MCPolicies
  MaxUnheard = 2
INVARIANTS GateInv OpenIsAllowed
PROPERTIES OpenedByProbe Recovers
