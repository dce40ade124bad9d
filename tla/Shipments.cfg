SPECIFICATION Spec
CONSTANTS
  Worker = {w1, w2}
  Browser = {b1}
  Char <- MCChar
  Prefix <- MCPrefix
  Default <- MCDefault
  Digits <- MCDigits
  Typed <- MCTyped
  Event = {"pod"}
  Delivered = "pod"
  Created = "created"
  Blank = "blank"
  MaxNumbers = 2
  MaxRows = 2
  MaxShipments = 2
  MaxUpdates = 2
  MaxAsked = 2
  MaxFaults = 1
SYMMETRY Symmetric
CONSTRAINT Narrow
CHECK_DEADLOCK FALSE
INVARIANTS
  NumberedOnce GoodsOfNumber
PROPERTIES
  DeliveredStays
