--------------------------- MODULE MoveFileSystem_MC ---------------------------
(* Every move of a file system of 1 to MaxLength cells inside the device:   *)
(* to the left and to the right, overlapping or not, with each cell         *)
(* different.  The calls are those the moves make and the empty ones of     *)
(* their rollback: lengths below, at and above a multiple of the chunk      *)
(* size.                                                                    *)
EXTENDS MoveFileSystem

CONSTANT MaxLength

MCDisk == [x \in 0 .. DeviceSize - 1 |-> x]
MCData == 0 .. DeviceSize - 1
MCCalls == [source : 0 .. DeviceSize, target : 0 .. DeviceSize, length : 0 .. MaxLength]
MCMoves == { m \in [first : 0 .. DeviceSize - 1, last : 0 .. DeviceSize - 1,
                    newStart : 0 .. DeviceSize - 1] :
                /\ m.first <= m.last
                /\ m.last - m.first < MaxLength
                /\ m.newStart # m.first
                /\ m.newStart + (m.last - m.first) < DeviceSize }
================================================================================
