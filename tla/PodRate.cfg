SPECIFICATION Spec
CONSTANTS
  ip_a = ip_a
  ip_b = ip_b
  g1 = g1
  g2 = g2
  Ip <- MCIp
  Guests <- MCGuests
  PerSecond = 2
  MaxTracked = 1
  G = 3
  MaxNow = 4
  MaxPod = 6
INVARIANTS
  TypeOK
  RateBounded
  NeverLimitedEarly
  PodBounded
