SPECIFICATION Spec
CONSTANTS
  ip_a = ip_a
  ip_b = ip_b
  ip_c = ip_c
  ip_d = ip_d
  Ip <- MCIp
  Denied <- MCDenied
  PerSecond = 2
  MaxTracked = 3
  G = 2
  MaxNow = 2
SYMMETRY MCSymmetry
INVARIANTS
  StructureOK
PROPERTIES
  ImplementsTokenBuckets
