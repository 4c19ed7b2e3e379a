CONSTANTS
  BufferSize = 3
  Lengths = {1, 2, 3}
  MaxIn = 5
  MaxOut = 5
  MaxSent = 6
SPECIFICATION Spec
INVARIANT ReceivedInOrder
CHECK_DEADLOCK FALSE
