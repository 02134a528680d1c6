\* The network changes while the timers of a lease run.
CONSTANTS
  Addr = {a1, a2} static = static none = none
  T1 = 1 T2 = 2 TickMod = 3 TryMod = 10 Xids = 3 OfferServer = {TRUE}
  Short = {} MaxLate = 1
SPECIFICATION DhcpSpec
INVARIANTS OnlyGranted
