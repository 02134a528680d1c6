\* Four fragments in any order.
CONSTANTS
  d1 = d1 Datagram = {d1} NoDatagram = none Length = 4 Pieces <- Blocks
  MaxPbufs = 10 MaxDatagrams = 5 ReassMaxAge = 3
SPECIFICATION ReassSpec
INVARIANTS DeliveredWhole
