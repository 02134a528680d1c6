\* The two ends of a PPP link, disturbed twice, and a DHCP client with its server: two
\* addresses, a lease that lasts two ticks, and counters that wrap around.  Ends that
\* are both closed stay so.
SPECIFICATION PeersSpec
CONSTANTS
  End = {e1, e2}  Ids = 4  MaxConf = 2  MaxTerm = 1  MaxNak = 1  MaxTrouble = 2
  Addr = {a1, a2}  static = static  none = none
  T1 = 1  T2 = 2  TickMod = 3  TryMod = 10  Xids = 2  OfferServer = {TRUE}
  Short = {"DISCOVER", "REQUEST", "DECLINE", "RELEASE"}  MaxLate = 1
INVARIANTS PppInv DhcpInv
PROPERTY ClientBoundAgain
CHECK_DEADLOCK FALSE
