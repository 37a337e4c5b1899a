SPECIFICATION RingSpec
CONSTANTS
  Values = {1, 2, 3}
  S = 3
PROPERTIES ImplementsLastPushed
