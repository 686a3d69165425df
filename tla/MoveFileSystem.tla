----------------------------- MODULE MoveFileSystem -----------------------------
(***************************************************************************)
(* MoveFileSystemJob::run() over the privileged helper: the job asks the   *)
(* helper to copy the file system's blocks to their new place (copyBlocks) *)
(* and, when that fails, to copy back what was already written             *)
(* (rollbackCopyBlocks).  The helper's steps are those of CopyFileData;    *)
(* here are the job's steps, and the loss of the helper's reply.           *)
(***************************************************************************)
EXTENDS CopyFileData

CONSTANT Moves   \* the jobs: [first, last, newStart]

ASSUME MovesAssumption ==
    /\ Moves \subseteq [first : Nat, last : Nat, newStart : Nat]
    /\ \A m \in Moves : m.first <= m.last /\ m.last < DeviceSize

VARIABLES move,      \* the job's parameters
          original,  \* history: the device when the job started
          fs,        \* partition().fileSystem(): [first, last]
          step,      \* "start", "copying", "copied", "failed", "rolling", "finished"
          lost,      \* the pending D-Bus call ended in an error
          rollback,  \* what rollbackCopyBlocks() returned
          result     \* what run() returned

jobVars == <<move, original, fs, step, lost, rollback, result>>
allVars == <<vars, jobVars>>

Length == move.last - move.first + 1

\* CopyTarget::bytesWritten(): nothing ever calls setBytesWritten().
BytesWritten == 0

\* CopySourceDevice::overlaps() for source and target of the move.
SourceLast == move.last
TargetLast == move.newStart + (move.last - move.first)
Overlaps == \/ move.first <= move.newStart /\ SourceLast >= move.newStart
            \/ move.first <= TargetLast /\ SourceLast >= TargetLast

\* (mutant) The length is taken one sector too long.
CopyCallTooLong == [source |-> move.first, target |-> move.newStart, length |-> Length + 1]

CopyCall == [source |-> move.first, target |-> move.newStart, length |-> Length]

\* The ranges rollbackCopyBlocks() copies between.
RollbackCall ==
    IF move.newStart > move.first
    THEN [source |-> move.newStart + Length - BytesWritten,
          target |-> move.last - BytesWritten + 1,
          length |-> BytesWritten]
    ELSE [source |-> move.newStart,
          target |-> move.first,
          length |-> BytesWritten]

--------------------------------------------------------------------------------
JobInit == /\ disk = InitialDisk
           /\ before = InitialDisk
           /\ move \in Moves
           /\ call = CopyCall
           /\ pc = "idle"
           /\ chunksCopied = 0
           /\ buffer = EmptyBuffer
           /\ success = FALSE
           /\ original = InitialDisk
           /\ fs = [first |-> move.first, last |-> move.last]
           /\ step = "start"
           /\ lost = FALSE
           /\ rollback = "none"
           /\ result = "none"

Finish(rval) == /\ step' = "finished"
                /\ result' = IF rval THEN "success" ELSE "error"

\* openDeviceExclusive() fails for the source or for the target.
OpenFails == /\ step = "start"
             /\ Finish(FALSE)
             /\ UNCHANGED <<vars, move, original, fs, lost, rollback>>

CopyBlocks == /\ step = "start"
              /\ Refuse(CopyCall) \/ Accept(CopyCall)
              /\ step' = "copying"
              /\ UNCHANGED <<move, original, fs, lost, rollback, result>>

\* The helper goes on with the call it serves.
HelperStep == /\ step \in {"copying", "rolling"}
              /\ CopyStep
              /\ UNCHANGED jobVars

\* The helper process ends, or its connection does: no more blocks are moved
\* and the pending call ends in a D-Bus error.
HelperLost == /\ step \in {"copying", "rolling"}
              /\ pc \in {"read", "write"}
              /\ Reply(FALSE)
              /\ lost' = TRUE
              /\ UNCHANGED <<disk, before, call, chunksCopied, move, original, fs, step,
                             rollback, result>>

\* (mutant) The reply is not looked at.
CopyBlocksIgnoresReply == TRUE

\* rval is true at the start of ExternalCommand::copyBlocks() and is assigned
\* only when a reply arrived.
CopyBlocksReturned == IF lost THEN TRUE ELSE success

CopySucceeds == /\ step = "copying"
                /\ pc = "replied"
                /\ CopyBlocksReturned
                /\ fs' = [first |-> move.newStart,
                          last  |-> move.newStart + (fs.last - fs.first)]
                /\ step' = "copied"
                /\ UNCHANGED <<vars, move, original, lost, rollback, result>>

\* (mutant) The file system object moves although its blocks did not.
CopyFailsButMoves == /\ step = "copying"
                     /\ pc = "replied"
                     /\ ~CopyBlocksReturned
                     /\ fs' = [first |-> move.newStart,
                               last  |-> move.newStart + (fs.last - fs.first)]
                     /\ step' = "failed"
                     /\ UNCHANGED <<vars, move, original, lost, rollback, result>>

CopyFails == /\ step = "copying"
             /\ pc = "replied"
             /\ ~CopyBlocksReturned
             /\ step' = "failed"
             /\ UNCHANGED <<vars, move, original, fs, lost, rollback, result>>

UpdateBootSector == /\ step = "copied"
                    /\ \E rval \in BOOLEAN : Finish(rval)
                    /\ UNCHANGED <<vars, move, original, fs, lost, rollback>>

\* Source and target do not overlap: rollback is not required.
RollbackNotRequired == /\ step = "failed"
                       /\ ~Overlaps
                       /\ rollback' = "true"
                       /\ Finish(FALSE)
                       /\ UNCHANGED <<vars, move, original, fs, lost>>

\* undoSource.open() or undoTarget.open() fails.
RollbackOpenFails == /\ step = "failed"
                     /\ Overlaps
                     /\ rollback' = "false"
                     /\ Finish(FALSE)
                     /\ UNCHANGED <<vars, move, original, fs, lost>>

RollbackCopyBlocks == /\ step = "failed"
                      /\ Overlaps
                      /\ Refuse(RollbackCall) \/ Accept(RollbackCall)
                      /\ lost' = FALSE
                      /\ step' = "rolling"
                      /\ UNCHANGED <<move, original, fs, rollback, result>>

\* (mutant) The job waits for a rollback that succeeds.
RollbackMustSucceed == /\ step = "rolling"
                       /\ pc = "replied"
                       /\ CopyBlocksReturned
                       /\ rollback' = "true"
                       /\ Finish(FALSE)
                       /\ UNCHANGED <<vars, move, original, fs, lost>>

RollbackReturns == /\ step = "rolling"
                   /\ pc = "replied"
                   /\ rollback' = IF CopyBlocksReturned THEN "true" ELSE "false"
                   /\ Finish(FALSE)
                   /\ UNCHANGED <<vars, move, original, fs, lost>>

JobStep == \/ OpenFails
           \/ CopyBlocks
           \/ CopySucceeds
           \/ CopyFails
           \/ UpdateBootSector
           \/ RollbackNotRequired
           \/ RollbackOpenFails
           \/ RollbackCopyBlocks
           \/ RollbackReturns

JobNext == JobStep \/ HelperStep \/ HelperLost

\* run() is one thread; the event loop in copyBlocks() waits for the helper,
\* which serves the call in one thread.
JobFairness == WF_allVars(JobStep) /\ WF_allVars(HelperStep)

JobSpec == JobInit /\ [][JobNext]_allVars /\ JobFairness

--------------------------------------------------------------------------------
(* Properties                                                              *)

JobTypeOK == /\ TypeOK
             /\ move \in Moves
             /\ original \in [Cells -> Data]
             /\ fs \in [first : Nat, last : Nat]
             /\ step \in {"start", "copying", "copied", "failed", "rolling", "finished"}
             /\ lost \in BOOLEAN
             /\ rollback \in {"none", "true", "false"}
             /\ result \in {"none", "success", "error"}

Image(start) == [i \in 0 .. Length - 1 |-> disk[start + i]]
OriginalImage == [i \in 0 .. Length - 1 |-> original[move.first + i]]

\* A move job that returns true has every byte of the file system at its new
\* place (Job::run(): "@return true if successfully run", job.h).
SuccessIsTrue == result = "success" => Image(move.newStart) = OriginalImage

\* The same for the jobs whose helper answered: then the file system object is
\* also at the new place.
AnsweredSuccessIsTrue ==
    result = "success" /\ ~lost =>
        Image(move.newStart) = OriginalImage /\ fs.first = move.newStart

\* A failed job whose file system object stayed at its old place has left the data
\* there intact, unless source and target overlap; if the object went to the new
\* place (only the boot sector could not be updated), the data is complete there.
FailureKeepsData ==
    result = "error" /\ ~lost =>
        \/ fs.first = move.newStart /\ Image(fs.first) = OriginalImage
        \/ fs.first = move.first /\ (Overlaps \/ Image(fs.first) = OriginalImage)

\* Neither the copy nor its rollback, failing or cut off anywhere, changes a byte
\* outside the target range or the source range: the neighbouring partitions.
NeighboursUntouched ==
    \A x \in Cells \ (Extent(move.first, Length) \cup Extent(move.newStart, Length)) :
        disk[x] = original[x]

\* The job ends, whatever fails.
JobEnds == <>(step = "finished")
================================================================================
