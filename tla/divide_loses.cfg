SPECIFICATION Spec
CONSTANTS
  Messages <- MCMessages
  MAX_SIZE = 3
INVARIANT DeliveredWhole
