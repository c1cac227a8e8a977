SPECIFICATION FairSpec
CONSTANTS
  p1 = p1
  NLidars = 2
  Packets <- MCOnePacket
  NoPacket = NoPacket
  Size = 2
  IndexRange = 4
  TransferFormat = "Custom"
INVARIANTS
  SlotExclusive
  NoLostWakeup
PROPERTIES
  IsFifo
  QuietServed
