----------------------------- MODULE BlockTransfer -----------------------------
(***************************************************************************)
(* What a block copy inside one device promises, with no regard to the     *)
(* order in which the blocks are moved: every byte of the target range     *)
(* that changes takes the byte its source position held when the call was  *)
(* accepted, and a call that is answered with success has moved them all.  *)
(* It is the specification of a copy through a snapshot of the source.     *)
(***************************************************************************)
EXTENDS Integers

CONSTANTS DeviceSize,   \* number of cells (bytes) of the device
          Data,         \* what a cell may hold
          Calls,        \* the calls that may be made
          InitialDisk   \* the device's content at the start

VARIABLES disk,         \* [Cells -> Data]
          before,       \* the device's content when the call was accepted
          call,         \* the call being served
          status        \* "idle", "busy", "done" or "failed"

vars == <<disk, before, call, status>>

Cells == 0 .. DeviceSize - 1

Init == /\ disk = InitialDisk
        /\ before = InitialDisk
        /\ call \in Calls
        /\ status = "idle"

\* One call after the other.
Accept(c) == /\ status # "busy"
             /\ status' \in {"busy", "failed"}
             /\ call' = c
             /\ before' = disk
             /\ UNCHANGED disk

\* Some cells of the target range take their final content.
Transfer(S) ==
    disk' = [x \in Cells |-> IF x \in S THEN before[x - call.target + call.source]
                                        ELSE disk[x]]

Move == /\ status = "busy"
        /\ \E S \in SUBSET (Cells \cap call.target .. call.target + call.length - 1) :
              Transfer(S)
        /\ status' \in {"busy", "failed"}
        /\ UNCHANGED <<before, call>>

\* The last cells are moved and success is answered.
Complete == /\ status = "busy"
            /\ \E S \in SUBSET (Cells \cap call.target .. call.target + call.length - 1) :
                  Transfer(S)
            /\ \A i \in 0 .. call.length - 1 :
                  disk'[call.target + i] = before[call.source + i]
            /\ status' = "done"
            /\ UNCHANGED <<before, call>>

Next == \/ \E c \in Calls : Accept(c)
        \/ Move
        \/ Complete

Spec == Init /\ [][Next]_vars
================================================================================
