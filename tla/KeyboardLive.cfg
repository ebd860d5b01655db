SPECIFICATION LiveSpec
CONSTANTS
  QueueSize = 3
  HandshakeTimeout = 2
  Keys = {1}
  MaxResets = 1
PROPERTY EveryByteLeaves
