\* Sends and receives in any order, against a controller that fails and wedges; and
\* the input task, tcpip_thread and one thread that sends, over full pools.
CONSTANTS
  ip = ip big = big other = other dmg = dmg t1 = t1
  Frame = {ip, big, other, dmg} Bad = {dmg} NoFrame = none
  Size <- MCSize RxSize = 4 MaxPkt = 2
  Stack = {ip, big} Long = {big} Pbufs <- MCPbufs
  PoolSize = 2 MsgSize = 2 MboxSize = 1 MaxRx = 1 Sender = {t1}
SPECIFICATION NicSpec
INVARIANTS DriverInv RingIntact PoolsConserved SentWhole
PROPERTIES ImplementsFramePath SentAsGiven SendReturnsUnlessWedged RxDrains PoolRecovers
