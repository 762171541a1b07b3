SPECIFICATION Spec
CONSTANTS
  Events = {3, 5, 6}
  Lens = {0, 3}
  Tags = {170}
  RxBufs = {24}
  UuidLen = 2
  MaxQueued = 2
INVARIANT Framed
