SPECIFICATION Spec
CONSTANTS
  Keys = {"F1", "J", "LCtrl", "RCtrl", "Space"}
  JoyKeys = {"LCtrl", "Space"}
  DiskKeys = {"F1"}
  ToggleKey = "J"
  Codes = {"F1", "J", "Ctrl", "Space", "Return"}
  CodeOf <- MCCodeOf
  Buttons = {"Start", "East", "Left"}
  PadKeys <- MCPadKeys
  PadMouse <- MCPadMouse
INVARIANT UpWithTheLast
