SPECIFICATION Spec
CONSTANTS
  QueueSize = 3
  HandshakeTimeout = 2
  Keys = {1, 98}
  MaxResets = 1
VIEW View
INVARIANT NoStuckKeys
PROPERTY NoByteMissed
PROPERTY ImplementsFifo
