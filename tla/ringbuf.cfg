CONSTANTS
  N = 4
  Bytes = {b1, b2}
  NoByte = None
SPECIFICATION Spec
INVARIANT TypeOK
PROPERTY IsBoundedQueue
