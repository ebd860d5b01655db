------------------------------ MODULE MCUnits ------------------------------
(* Sprites, PaulaAudio, FramePacer, FloppyDrive and HostInput for TLC.       *)
(* They do not interact: a behaviour is one of one of them, the others keep  *)
(* still.                                                                    *)
(*                                                                         *)
(* One sprite in full, and another whose DMA takes room in the log; one      *)
(* audio channel in full, and one that the CPU feeds itself; two disks.      *)
EXTENDS Sprites, PaulaAudio, FramePacer, FloppyDrive, MCHostInput

VARIABLE unit

Still == [pos |-> [h |-> 0, v |-> 0], ctl |-> [h0 |-> 0, v8 |-> 0, vstop |-> 0, attach |-> FALSE]]
Pos1  == {[h |-> 1, v |-> 1], [h |-> 2, v |-> 1]}
Past  == [h |-> 3, v |-> 1]  \* An HSTART past the line of three clocks.
Ctl1  == [h0 |-> 0, v8 |-> 0, vstop |-> 2, attach |-> FALSE]
Ctl2  == [h0 |-> 1, v8 |-> 1, vstop |-> 3, attach |-> TRUE]
MCPosWords == Pos1 \cup {Past, Still.pos}
MCCtlWords == {Ctl1, Ctl2, Still.ctl}
MCControlPairs == {[n |-> 0, pos |-> [h |-> 1, v |-> 1], ctl |-> Ctl1],
                   [n |-> 0, pos |-> Past, ctl |-> Ctl2]}
                  \cup {[n |-> 1, pos |-> Still.pos, ctl |-> Still.ctl]}
MCSpriteWrites == [n : {0}, reg : {"POS"}, value : Pos1]
                  \cup {[n |-> 0, reg |-> "CTL", value |-> Ctl1],
                        [n |-> 0, reg |-> "DATA", value |-> RamPairs],
                        [n |-> 0, reg |-> "pointer", value |-> 0]}

MCAudioWrites == [x : {0}, reg : {"location"}, value : {0, 2}]
                 \cup [x : {0}, reg : {"length"}, value : {0, 1, 2}]
                 \cup [x : {0}, reg : {"period"}, value : {1, 2}]
                 \cup [x : {0}, reg : {"data"}, value : {[hi |-> 1, lo |-> 0]}]
                 \cup [x : {1}, reg : {"data"}, value : {[hi |-> 0, lo |-> 0]}]
MCDmaSets == {{}, {0}}

\* Of the sprites: the replay reads no pointer of line_start; a line that
\* overflowed the log is not compared; sprite 1 never changes but for its
\* pointer.
Shown(s) == <<s.pos, s.ctl, s.data, s.datb, s.armed>>
SpritesView == <<sprites[0], vpos, hpos, lost, image[0],
                 IF lost THEN <<>> ELSE <<Shown(line_start[0]), events, seen[0]>>>>

\* The units that keep still are in their initial state.
View == <<unit, CASE unit = "sprites" -> SpritesView
                  [] unit = "audio"   -> audioVars
                  [] unit = "pacer"   -> pacerVars
                  [] unit = "drive"   -> driveVars
                  [] unit = "host"    -> vars>>

UnitsInit ==
  /\ unit \in {"sprites", "audio", "pacer", "drive", "host"}
  /\ SpritesInit /\ AudioInit /\ PacerInit /\ DriveInit /\ Init
  /\ unit # "host" => ~joyOn

\* vars are HostInput's.
UnitsNext ==
  /\ UNCHANGED unit
  /\ \/ unit = "sprites" /\ SpritesNext /\ UNCHANGED <<audioVars, pacerVars, driveVars, vars>>
     \/ unit = "audio" /\ AudioNext /\ UNCHANGED <<spriteVars, pacerVars, driveVars, vars>>
     \/ unit = "pacer" /\ PacerNext /\ UNCHANGED <<spriteVars, audioVars, driveVars, vars>>
     \/ unit = "drive" /\ DriveNext /\ UNCHANGED <<spriteVars, audioVars, pacerVars, vars>>
     \/ unit = "host" /\ Next /\ UNCHANGED <<spriteVars, audioVars, pacerVars, driveVars>>

UnitsSpec ==
  UnitsInit /\ [][UnitsNext]_<<unit, spriteVars, audioVars, pacerVars, driveVars, vars>>
=============================================================================
