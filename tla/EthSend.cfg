\* Two threads send.
CONSTANTS
  ip = ip big = big other = other dmg = dmg t1 = t1 t2 = t2
  Frame = {ip, big, other, dmg} Bad = {dmg} NoFrame = none
  Stack = {ip, big} Long = {big} Pbufs <- MCPbufs
  PoolSize = 2 MsgSize = 2 MboxSize = 1 MaxRx = 1 Sender = {t1, t2}
SPECIFICATION IfSpec
INVARIANTS SentWhole
