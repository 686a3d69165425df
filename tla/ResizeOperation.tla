---------------------------- MODULE ResizeOperation ----------------------------
(***************************************************************************)
(* ResizeOperation::execute(): the jobs that shrink, move and grow a       *)
(* partition and its file system, any of which may fail.  The disk holds   *)
(* the partition's table entry and the file system; the Partition object   *)
(* and its FileSystem object are what the jobs read and write beside it.   *)
(* The front end undoes the previews of all operations before it runs them *)
(* (OperationRunner previews each one after its execution), so that the    *)
(* Partition object has its old sectors when execute() starts.             *)
(***************************************************************************)
EXTENDS Integers

CONSTANT Requests   \* the operations that may be executed

ASSUME RequestsAssumption ==
    /\ Requests \subseteq [first : Nat, last : Nat, newFirst : Nat, newLast : Nat,
                           fsLength : Nat \ {0}, extended : BOOLEAN, checks : BOOLEAN,
                           lvm : BOOLEAN]
    /\ \A r \in Requests : /\ r.first <= r.last
                           /\ r.newFirst <= r.newLast
                           /\ r.fsLength <= r.last - r.first + 1
                           \* A logical volume has a length but no place to be moved from.
                           /\ r.lvm => ~r.extended /\ r.newFirst = r.first

VARIABLES request,      \* the operation
          job,          \* the job that runs next, or the result of execute()
          entry,        \* disk: [first, last], the partition's entry in the table
          content,      \* disk: [first, length, intact], the file system
          part,         \* Partition: [first, last]
          fileSystem,   \* FileSystem: [first, last]
          kept,         \* what move() or grow() remembered to go back to
          moved         \* history: outcome of the move: "no", "yes", "boot" or "failed",
                        \* or "stuck" when moving the partition back failed as well

resizeVars == <<request, job, entry, content, part, fileSystem, kept, moved>>

Span == [first : Nat, last : Nat]
Jobs == {"check", "moveExtended", "shrinkFs", "shrinkGeom", "moveGeom", "moveFs", "moveBack",
         "growGeom", "growFs", "growBack", "checkResized"}

SizeOf(s)          == s.last - s.first + 1
From(first, size)  == [first |-> first, last |-> first + size - 1]
Sectors(s)         == s.first .. s.last

Old == [first |-> request.first, last |-> request.last]
New == [first |-> request.newFirst, last |-> request.newLast]

--------------------------------------------------------------------------------
(* resizeAction(): the jobs that the constructor creates.                  *)

Grow   == SizeOf(New) > SizeOf(Old)
Shrink == SizeOf(New) < SizeOf(Old)
Move   == New.first # Old.first

AfterGrow   == IF request.checks THEN "checkResized" ELSE "success"
AfterMove   == IF Grow THEN "growGeom" ELSE AfterGrow
AfterShrink == IF Move THEN "moveGeom" ELSE AfterMove
AfterCheck  == IF request.extended THEN "moveExtended"
               ELSE IF Shrink THEN "shrinkFs" ELSE AfterShrink

\* m_MoveSetGeomJob's length.
MovedLength == IF Shrink THEN SizeOf(New) ELSE SizeOf(Old)

--------------------------------------------------------------------------------
ResizeInit == /\ request \in Requests
              /\ job = IF request.checks THEN "check" ELSE AfterCheck
              /\ entry = Old
              /\ content = [first |-> Old.first, length |-> request.fsLength, intact |-> TRUE]
              /\ part = Old
              /\ fileSystem = From(Old.first, request.fsLength)
              /\ kept = 0
              /\ moved = "no"

\* CheckFileSystemJob
Check == /\ job \in {"check", "checkResized"}
         /\ \/ job' = IF job = "check" THEN AfterCheck ELSE "success"
            \/ job' = "error"
         /\ UNCHANGED <<request, entry, content, part, fileSystem, kept, moved>>

\* SetPartGeometryJob, which tells a partition of a disk its new sectors once the table
\* has them, and a logical volume before lvresize is asked to.
GeometrySet(new)   == entry' = new /\ part' = new
GeometryFails(new) == UNCHANGED entry /\ part' = IF request.lvm THEN new ELSE part

SetGeometry(new, next, failed) == \/ GeometrySet(new) /\ job' = next
                                  \/ GeometryFails(new) /\ job' = failed

MoveExtended == /\ job = "moveExtended"
                /\ SetGeometry(New, "success", "error")
                /\ UNCHANGED <<request, content, fileSystem, kept, moved>>

\* ResizeFileSystemJob
ResizeFileSystem(next, failed) ==
    \/ /\ SizeOf(New) <= SizeOf(part)
       /\ content' = [content EXCEPT !.length = SizeOf(New)]
       /\ fileSystem' = From(fileSystem.first, SizeOf(New))
       /\ job' = next
    \/ /\ SizeOf(fileSystem) # SizeOf(New) \/ SizeOf(New) > SizeOf(part)
       /\ UNCHANGED <<content, fileSystem>>
       /\ job' = failed

\* (mutant) shrink() goes on when the file system could not be shrunk.
ShrinkIgnoresFileSystem == /\ job = "shrinkFs"
                           /\ ResizeFileSystem("shrinkGeom", "shrinkGeom")
                           /\ UNCHANGED <<request, entry, part, kept, moved>>

ShrinkFileSystem == /\ job = "shrinkFs"
                    /\ ResizeFileSystem("shrinkGeom", "error")
                    /\ UNCHANGED <<request, entry, part, kept, moved>>

ShrinkGeometry == /\ job = "shrinkGeom"
                  /\ SetGeometry(From(Old.first, SizeOf(New)), AfterShrink, "error")
                  /\ UNCHANGED <<request, content, fileSystem, kept, moved>>

\* (mutant) The partition is moved with its old length although it was shrunk.
MoveOldGeometry == /\ job = "moveGeom"
                   /\ kept' = part.first
                   /\ SetGeometry(From(New.first, SizeOf(Old)), "moveFs", "error")
                   /\ UNCHANGED <<request, content, fileSystem, moved>>

\* (mutant) oldStart is read after the job that sets the new one.
MoveForgetsStart == /\ job = "moveGeom"
                    /\ SetGeometry(From(New.first, MovedLength), "moveFs", "error")
                    /\ kept' = part'.first
                    /\ UNCHANGED <<request, content, fileSystem, moved>>

\* oldStart is what the Partition object says.
MoveGeometry == /\ job = "moveGeom"
                /\ kept' = part.first
                /\ SetGeometry(From(New.first, MovedLength), "moveFs", "error")
                /\ UNCHANGED <<request, content, fileSystem, moved>>

\* (mutant) The FileSystem object does not follow its blocks.
MoveBlocksOnly == /\ job = "moveFs"
                  /\ content' = [content EXCEPT !.first = New.first]
                  /\ moved' = "yes"
                  /\ job' = AfterMove
                  /\ UNCHANGED <<request, entry, part, fileSystem, kept>>

\* MoveFileSystemJob (see MoveFileSystem).
MoveSucceeds == /\ job = "moveFs"
                /\ content' = [content EXCEPT !.first = New.first]
                /\ fileSystem' = From(New.first, SizeOf(fileSystem))
                /\ moved' = "yes"
                /\ job' = AfterMove
                /\ UNCHANGED <<request, entry, part, kept>>

\* The blocks are moved but the boot sector is not updated.
BootSectorFails == /\ job = "moveFs"
                   /\ content' = [content EXCEPT !.first = New.first]
                   /\ fileSystem' = From(New.first, SizeOf(fileSystem))
                   /\ moved' = "boot"
                   /\ job' = "moveBack"
                   /\ UNCHANGED <<request, entry, part, kept>>

Overlap(s, t) == Sectors(s) \cap Sectors(t) # {}

\* A copy that stops half way spoils the source it overlaps with.
MoveFails == /\ job = "moveFs"
             /\ \E spoilt \in {FALSE, Overlap(fileSystem, From(New.first, SizeOf(fileSystem)))} :
                   content' = [content EXCEPT !.intact = ~spoilt]
             /\ moved' = "failed"
             /\ job' = "moveBack"
             /\ UNCHANGED <<request, entry, part, fileSystem, kept>>

\* Rolling back: the partition gets the start remembered by move().  Where this fails
\* too, it is only reported.
MoveBack == /\ job = "moveBack"
            /\ \/ GeometrySet(From(kept, SizeOf(part))) /\ UNCHANGED moved
               \/ GeometryFails(From(kept, SizeOf(part))) /\ moved' = "stuck"
            /\ job' = "error"
            /\ UNCHANGED <<request, content, fileSystem, kept>>

\* oldLength is what the Partition object says.
GrowGeometry == /\ job = "growGeom"
                /\ kept' = SizeOf(part)
                /\ SetGeometry(New, "growFs", "error")
                /\ UNCHANGED <<request, content, fileSystem, moved>>

GrowFileSystem == /\ job = "growFs"
                  /\ ResizeFileSystem(AfterGrow, "growBack")
                  /\ UNCHANGED <<request, entry, part, kept, moved>>

GrowBack == /\ job = "growBack"
            /\ SetGeometry(From(part.first, kept), "error", "error")
            /\ UNCHANGED <<request, content, fileSystem, kept, moved>>

ResizeNext == \/ Check \/ MoveExtended
              \/ ShrinkFileSystem \/ ShrinkGeometry
              \/ MoveGeometry \/ MoveSucceeds \/ BootSectorFails \/ MoveFails \/ MoveBack
              \/ GrowGeometry \/ GrowFileSystem \/ GrowBack

\* execute() runs in the runner's thread and waits for each job.
ResizeSpec == ResizeInit /\ [][ResizeNext]_resizeVars /\ WF_resizeVars(ResizeNext)

--------------------------------------------------------------------------------
(* Properties                                                              *)

ResizeTypeOK == /\ request \in Requests
                /\ job \in Jobs \cup {"success", "error"}
                /\ entry \in Span
                /\ content \in [first : Nat, length : Nat, intact : BOOLEAN]
                /\ part \in Span
                /\ fileSystem \in Span
                /\ kept \in Nat
                /\ moved \in {"no", "yes", "boot", "failed", "stuck"}

\* The table entry never gets shorter than the file system in it: the file system is
\* shrunk before its partition and grown after it, also when the step before failed
\* and when the partition gets its old length back.
NeverCut == ~request.extended => content.length <= SizeOf(entry)

\* Whatever fails, the entry only covers sectors of the old or of the new place, so
\* that it cannot run into a neighbour on its way.
NoForeignSectors == Sectors(entry) \subseteq Sectors(Old) \cup Sectors(New)

\* Partition and FileSystem object say what is on the disk whenever a job still runs that
\* takes its places and lengths from them, and at the end; only the Partition object of a
\* logical volume is left with the length that lvresize refused, when execute() has failed.
ObjectsTrackDisk == /\ fileSystem = From(content.first, content.length)
                    /\ part = entry \/ (request.lvm /\ job = "error")

\* An operation that succeeds has entry and file system at the new place.
SuccessIsComplete ==
    job = "success" => /\ entry = New
                       /\ ~request.extended => /\ content.intact
                                               /\ content.first = New.first
                                               /\ Grow \/ Shrink => content.length = SizeOf(New)

\* "We need to move the partition back to its original position if copyBlocks fails"
\* (move(), resizeoperation.cpp): when execute() ends after the blocks were not moved, the
\* whole entry is at the old place again, with the length it was shrunk to, unless the job
\* that moves it back has failed as well.
MovedBack == moved = "failed" /\ job = "error" => entry = From(Old.first, MovedLength)

================================================================================
