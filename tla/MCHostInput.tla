---------------------------- MODULE MCHostInput ----------------------------
(* HostInput for TLC: a key of each kind, two host keys for one Amiga key  *)
(* (the two Ctrl keys), and pad buttons that share keys with them.         *)
EXTENDS HostInput, TLC

MCCodeOf == "F1" :> "F1" @@ "J" :> "J" @@ "LCtrl" :> "Ctrl" @@ "RCtrl" :> "Ctrl"
            @@ "Space" :> "Space"

MCPadKeys == "Start" :> {"Return", "Space"} @@ "East" :> {"Space"} @@ "Left" :> {}

MCPadMouse == "Start" :> {} @@ "East" :> {} @@ "Left" :> {"left"}
=============================================================================
