\* Two threads post to a mailbox with one free slot.
CONSTANTS
  a = a b = b c = c m1 = m1 m2 = m2
  Thread = {a, b, c} Msg = {m1, m2} NoMsg = none
  MAX_QUEUE_ENTRIES = 1 Events = 2
  Prio <- ConsumerLast Ops <- RaceOps
SPECIFICATION Spec
INVARIANTS PostMayNotFail
CHECK_DEADLOCK FALSE
