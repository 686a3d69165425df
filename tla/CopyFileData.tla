------------------------------ MODULE CopyFileData ------------------------------
(***************************************************************************)
(* The privileged helper's CopyFileData: it moves a range of a device in   *)
(* chunks of ChunkSize cells and then moves the remainder.  Source and     *)
(* target lie on the same device and may overlap; the direction of the     *)
(* copy is what keeps a chunk from overwriting source data not yet read.   *)
(* A cell stands for a byte.  Every read and every write may fail, and a   *)
(* failing write may already have stored a prefix of the buffer.           *)
(***************************************************************************)
EXTENDS Integers

CONSTANTS DeviceSize,   \* number of cells (bytes) of the device
          Data,         \* what a cell may hold
          ChunkSize,    \* chunkSize of the call (blockSize in ExternalCommand)
          Calls,        \* the calls that may be made
          InitialDisk   \* the device's content at the start

Cells == 0 .. DeviceSize - 1

ASSUME DeviceAssumption == DeviceSize \in Nat
ASSUME ChunkAssumption  == ChunkSize \in Nat \ {0}
ASSUME CallsAssumption  == Calls \subseteq [source : Nat, target : Nat, length : Nat]
ASSUME DiskAssumption   == InitialDisk \in [Cells -> Data]

VARIABLES disk,         \* [Cells -> Data], the device
          before,       \* history: the device when the call was accepted
          call,         \* the arguments of the call being served
          pc,           \* "idle", "read", "write" or "replied"
          chunksCopied, \* chunks copied so far
          buffer,       \* what readData() returned
          success       \* reply["success"]

vars == <<disk, before, call, pc, chunksCopied, buffer, success>>

EmptyBuffer == [i \in {} |-> InitialDisk[i]]

--------------------------------------------------------------------------------
(* The arithmetic of the call.                                             *)

ChunksToCopy == call.length \div ChunkSize
LastBlock    == call.length % ChunkSize

\* (mutant) The direction is chosen the wrong way round.
RightWhenMovingLeft == call.target < call.source

\* copyDirection = Right: start with the rightmost chunk.
Right == call.target > call.source

InLoop   == chunksCopied < ChunksToCopy
HasBlock == InLoop \/ LastBlock > 0

BlockSize == IF InLoop THEN ChunkSize ELSE LastBlock

\* (mutant) The remainder of a move to the right is placed like one more chunk.
BlockOffsetOfNextChunk ==
    IF Right THEN call.length - ChunkSize - ChunkSize * chunksCopied
             ELSE ChunkSize * chunksCopied

\* Position of the next block relative to the start of source and target.
BlockOffset ==
    IF Right
    THEN IF InLoop THEN call.length - ChunkSize - ChunkSize * chunksCopied ELSE 0
    ELSE ChunkSize * chunksCopied

ReadOffset  == call.source + BlockOffset
WriteOffset == call.target + BlockOffset

Extent(offset, size) == offset .. offset + size - 1

\* The device after the first n cells of the buffer went to offset.
Stored(offset, n) ==
    [x \in Cells |-> IF x \in Extent(offset, n) THEN buffer[x - offset] ELSE disk[x]]

--------------------------------------------------------------------------------
Init == /\ disk = InitialDisk
        /\ before = InitialDisk
        /\ call \in Calls
        /\ pc = "idle"
        /\ chunksCopied = 0
        /\ buffer = EmptyBuffer
        /\ success = FALSE

Reply(rval) == /\ pc' = "replied"
               /\ success' = rval
               /\ buffer' = EmptyBuffer

\* The checks before the copy: authorization, chunk size, paths.
Refuse(c) == /\ call' = c
             /\ before' = disk
             /\ chunksCopied' = 0
             /\ Reply(FALSE)
             /\ UNCHANGED disk

Accept(c) == /\ call' = c
             /\ before' = disk
             /\ chunksCopied' = 0
             /\ buffer' = EmptyBuffer
             /\ pc' = "read"
             /\ success' = TRUE
             /\ UNCHANGED disk

ReadBlock == /\ pc = "read"
             /\ HasBlock
             /\ Extent(ReadOffset, BlockSize) \subseteq Cells
             /\ buffer' = [i \in 0 .. BlockSize - 1 |-> disk[ReadOffset + i]]
             /\ pc' = "write"
             /\ UNCHANGED <<disk, before, call, chunksCopied, success>>

\* (mutant) A failed read ends the loop but is not reported.
ReadFailsUnnoticed == /\ pc = "read"
                      /\ HasBlock
                      /\ Reply(TRUE)
                      /\ UNCHANGED <<disk, before, call, chunksCopied>>

ReadFails == /\ pc = "read"
             /\ HasBlock
             /\ Reply(FALSE)
             /\ UNCHANGED <<disk, before, call, chunksCopied>>

WriteChunk == /\ pc = "write"
              /\ InLoop
              /\ Extent(WriteOffset, BlockSize) \subseteq Cells
              /\ disk' = Stored(WriteOffset, BlockSize)
              /\ chunksCopied' = chunksCopied + 1
              /\ buffer' = EmptyBuffer
              /\ pc' = "read"
              /\ UNCHANGED <<before, call, success>>

WriteRemainder == /\ pc = "write"
                  /\ ~InLoop
                  /\ Extent(WriteOffset, BlockSize) \subseteq Cells
                  /\ disk' = Stored(WriteOffset, BlockSize)
                  /\ Reply(TRUE)
                  /\ UNCHANGED <<before, call, chunksCopied>>

WriteFails == /\ pc = "write"
              /\ \E n \in 0 .. BlockSize - 1 :
                    /\ Extent(WriteOffset, n) \subseteq Cells
                    /\ disk' = Stored(WriteOffset, n)
              /\ Reply(FALSE)
              /\ UNCHANGED <<before, call, chunksCopied>>

\* Every chunk is copied and there is no remainder.
NothingLeft == /\ pc = "read"
               /\ ~HasBlock
               /\ Reply(TRUE)
               /\ UNCHANGED <<disk, before, call, chunksCopied>>

CopyStep == \/ ReadBlock
            \/ ReadFails
            \/ WriteChunk
            \/ WriteRemainder
            \/ WriteFails
            \/ NothingLeft

Next == \/ pc = "idle" /\ \E c \in Calls : Refuse(c) \/ Accept(c)
        \/ CopyStep

\* The helper serves a call in one thread: a copy that runs goes on.
Fairness == WF_vars(CopyStep)

Spec == Init /\ [][Next]_vars /\ Fairness

--------------------------------------------------------------------------------
(* Properties                                                              *)

TypeOK == /\ disk \in [Cells -> Data]
          /\ before \in [Cells -> Data]
          /\ call \in [source : Nat, target : Nat, length : Nat]
          /\ pc \in {"idle", "read", "write", "replied"}
          /\ chunksCopied \in Nat
          /\ success \in BOOLEAN
          /\ pc = "write" => buffer \in [0 .. BlockSize - 1 -> Data]

\* A copy that is answered with success has put every byte of the source range,
\* as it was when the call came in, at its place in the target range, also when
\* the ranges overlap: this is what the copy direction is for.
SuccessMeansMoved ==
    pc = "replied" /\ success =>
        \A i \in 0 .. call.length - 1 :
            disk[call.target + i] = before[call.source + i]

\* Whatever fails, no byte outside the target range changes.
OnlyTargetWritten ==
    \A x \in Cells \ Extent(call.target, call.length) : disk[x] = before[x]

\* The copy as a copy through a snapshot (see BlockTransfer): the refinement
\* mapping hides the position, the buffer and the direction of the copy.
SnapshotStatus == CASE pc = "idle"               -> "idle"
                    [] pc \in {"read", "write"}  -> "busy"
                    [] pc = "replied" /\ success -> "done"
                    [] OTHER                     -> "failed"

Snapshot == INSTANCE BlockTransfer WITH status <- SnapshotStatus

\* Moving the range block by block, in place, with failures at any block, is a
\* copy through a snapshot.
ImplementsSnapshot == Snapshot!Spec
================================================================================
