SPECIFICATION NodeSpec
CHECK_DEADLOCK FALSE
CONSTANTS
  a1 = a1
  a2 = a2
  w1 = w1
  w2 = w2
  w3 = w3
  Allocations = {a1, a2}
  Workers = {w1, w3}
  Home <- MCHome
  MaxWorkers = 1
  None = None
  inner = inner
  outer = outer
  guest = guest
  proxy = proxy
  Nets = {inner, outer}
  Internal = {inner}
  Boxes = {guest, proxy}
  Guests = {guest}
  Nothing = Nothing
  MaxOps = 7
INVARIANTS
  NodeTypeOK
  Capacity
  EnvelopesTracked
  ReleasedIsBound
  GuestBehindFirewall
  LeftoversAreRecorded
PROPERTIES
  RestartSparesTasks
