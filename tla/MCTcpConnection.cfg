CONSTANTS
  BufferSize = 3
  Lengths = {1, 2, 3}
  MaxIn = 5
  MaxOut = 5
  MaxSent = 6
SPECIFICATION FairSpec
INVARIANTS InOrderUnlessRefused ClosedIsLeft
PROPERTY Ends
CHECK_DEADLOCK FALSE
