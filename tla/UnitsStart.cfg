SPECIFICATION UnitsSpec
CONSTANTS
  SpriteCount = 2
  LineClocks = 3
  Lines = 4
  FirstDmaLine = 1
  DmaHpos = 1
  MaxEvents = 3
  MaxTriggers = 2
  RamPairs = 3
  V8 = 1
  PosWords <- MCPosWords
  CtlWords <- MCCtlWords
  ControlPairs <- MCControlPairs
  SpriteWrites <- MCSpriteWrites
  Channels = {0, 1}
  ChipRam = 3
  Wrap = 3
  Samples = {0, 1}
  DmaSets <- MCDmaSets
  AudioWrites <- MCAudioWrites
  FrameTime = 3
  MaxLag = 6
  Delays = {0, 1, 3, 7, 9, 10, 25}
  Disks = {d1, d2}
  NoDisk = NoDisk
  Cylinders = 2
  TrackWords = 2
  WordTime = 3
  SwapFrames = 2
  Keys = {"F1", "J", "LCtrl", "RCtrl", "Space"}
  JoyKeys = {"LCtrl", "Space"}
  DiskKeys = {"F1"}
  ToggleKey = "J"
  Codes = {"F1", "J", "Ctrl", "Space", "Return"}
  CodeOf <- MCCodeOf
  Buttons = {"Start", "East", "Left"}
  PadKeys <- MCPadKeys
  PadMouse <- MCPadMouse
VIEW View
PROPERTY NoStartUnmet
