CONSTANTS
  Ports <- MCPorts
  DeviceOf <- MCDeviceOf
  ClkId <- MCClkId
  Unique <- MCUnique
  h1 = h1
  h2 = h2
  h3 = h3
  h4 = h4
  Phcs = {h1, h2, h3, h4}
  None = None
SYMMETRY PhcSymmetry
CONSTRAINT Defined
SPECIFICATION Spec
INVARIANTS UpHasPhc SharedById PeersMutual
