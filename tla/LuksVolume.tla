------------------------------ MODULE LuksVolume ------------------------------
(***************************************************************************)
(* A LUKS container (FS::luks) on a partition: unlocking, locking and      *)
(* mounting it, and the jobs of resizes, moves and formats, which act on   *)
(* the partition, on the device mapper's mapping and on the file system    *)
(* inside, one command after the other, each of which may fail.  Lengths   *)
(* are in blocks.                                                          *)
(***************************************************************************)
EXTENDS Integers, Sequences

CONSTANTS Offset,        \* blocks of the LUKS header
          InnerUsed,     \* blocks that the files inside occupy
          Ratios,        \* how many times 512 bytes the logical sectors of a disk may have
          MaxLength,     \* bound: length of the partition
          MaxOperations  \* bound: operations on the stack

ASSUME LuksAssumption == /\ Offset \in Nat \ {0} /\ InnerUsed \in Nat \ {0}
                         /\ MaxLength \in Nat /\ Offset + InnerUsed < MaxLength
                         /\ Ratios \subseteq Nat \ {0} /\ MaxOperations \in Nat

VARIABLES ratio,       \* disk: its logical sectors have this many times 512 bytes
          place,       \* disk: where the partition lies, 0 or 1
          part,        \* disk: its length
          inner,       \* disk: length of the file system inside, 0 when there is none
          mapping,     \* kernel: length of the mapping, 0 when there is none
          mappedPlace, \* kernel: the place the mapping was made for
          inUse,       \* kernel: the file system inside is mounted
          isCryptOpen, isMounted,  \* m_isCryptOpen, m_isMounted
          innerFs,     \* m_innerFs is not nullptr
          mapperName,  \* m_MapperName is not empty
          payload,     \* m_PayloadSize, whatever is in memory until it is set
          length,      \* length() of the file system object
          target,      \* length of the Partition object, previews included
          ops, phase, next, todo, \* the stack and the runner
          steady,      \* history: no change of state behind a pending operation, see MappedAsPlaced
          sound        \* history: each resize found in m_PayloadSize what the partition has room for

disk    == <<ratio, place, part, inner>>
kernel  == <<mapping, mappedPlace, inUse>>
object  == <<isCryptOpen, isMounted, innerFs, mapperName, payload>>
runner  == <<phase, next, todo>>
vars    == <<disk, kernel, object, length, target, ops, runner, steady, sound>>

Room == part - Offset

--------------------------------------------------------------------------------
(* The scan: a new object and initLUKS(), which calls setPayloadSize() with *)
(* the name of the mapping, if there is one, and multiplies the number of   *)
(* 512-byte sectors that dmsetup prints by the logical sector size.         *)

PayloadSize(garbage) == IF mapping # 0 THEN mapping * ratio ELSE garbage

Scanned(garbage) ==
    /\ mapperName' = (mapping # 0)
    /\ payload' = PayloadSize(garbage)
    /\ isCryptOpen' = (mapping # 0)
    /\ innerFs' = (mapping # 0)
    /\ isMounted' = inUse
    /\ length' = part /\ target' = part
    /\ ops' = << >> /\ phase' = "pending" /\ next' = 0 /\ todo' = << >>

Init == /\ ratio \in Ratios /\ place = 0 /\ part \in (Offset + InnerUsed) .. MaxLength /\ inner = part - Offset
        /\ mapping \in {0, part - Offset} /\ mappedPlace = 0 /\ inUse \in {FALSE, mapping # 0}
        /\ mapperName = (mapping # 0)
        /\ payload \in {PayloadSize(garbage) : garbage \in 0 .. MaxLength}
        /\ isCryptOpen = (mapping # 0) /\ innerFs = (mapping # 0) /\ isMounted = inUse
        /\ length = part /\ target = part
        /\ ops = << >> /\ phase = "pending" /\ next = 0 /\ todo = << >>
        /\ steady = TRUE /\ sound = TRUE

\* After an application the front end scans again.
Rescan == /\ phase \in {"success", "error"}
          /\ \E garbage \in 0 .. MaxLength : Scanned(garbage)
          /\ UNCHANGED <<disk, kernel, steady, sound>>

--------------------------------------------------------------------------------
(* Unlocking, locking, mounting and unmounting                             *)

\* Changing the container behind a pending operation is recorded.  A format that is pending has
\* replaced the object, of which there is one here.
FrontEnd == /\ phase = "pending" /\ \A i \in DOMAIN ops : ops[i].name # "create"
            /\ steady' = (steady /\ ops = << >>)
Elsewhere      == UNCHANGED <<disk, length, target, ops, runner, sound>>

CanCryptOpen  == ~isCryptOpen /\ ~isMounted
CanCryptClose == isCryptOpen /\ ~isMounted

\* cryptOpen(): "cryptsetup open" gives the mapping the rest of the partition.
CryptOpen == /\ FrontEnd /\ CanCryptOpen /\ mapping = 0
             /\ mapping' = Room /\ mappedPlace' = place
             /\ innerFs' = TRUE /\ mapperName' = TRUE /\ isCryptOpen' = TRUE
             /\ UNCHANGED <<inUse, isMounted, payload>> /\ Elsewhere

\* The container is open, but lsblk does not show the mapping: cryptOpen() returns false.
CryptOpenUnseen == /\ phase = "pending" /\ CanCryptOpen /\ mapping = 0
                   /\ mapping' = Room /\ mappedPlace' = place /\ steady' = FALSE
                   /\ innerFs' = FALSE /\ mapperName' = FALSE
                   /\ UNCHANGED <<inUse, isCryptOpen, isMounted, payload>> /\ Elsewhere

\* cryptClose(), which keeps the name of the mapping.
CryptClose == /\ FrontEnd /\ CanCryptClose /\ ~inUse
              /\ mapping' = 0 /\ innerFs' = FALSE /\ isCryptOpen' = FALSE
              /\ UNCHANGED <<mappedPlace, inUse, isMounted, mapperName, payload>> /\ Elsewhere

Mount == /\ FrontEnd /\ isCryptOpen /\ ~isMounted /\ innerFs /\ inner # 0 /\ mapping # 0
         /\ isMounted' = TRUE /\ inUse' = TRUE
         /\ UNCHANGED <<mapping, mappedPlace, isCryptOpen, innerFs, mapperName, payload>> /\ Elsewhere

Unmount == /\ FrontEnd /\ isCryptOpen /\ isMounted /\ innerFs
           /\ isMounted' = FALSE /\ inUse' = FALSE
           /\ UNCHANGED <<mapping, mappedPlace, isCryptOpen, innerFs, mapperName, payload>> /\ Elsewhere

--------------------------------------------------------------------------------
(* The operations: what luks supports depends on whether it is open         *)

SupportResize == isCryptOpen /\ innerFs  \* supportGrow(), supportShrink(), supportGrowOnline()

\* supportMove(), and canMove(), which refuses a mounted partition
SupportMove == ~isCryptOpen /\ ~isMounted

Push(o) == /\ phase = "pending" /\ Len(ops) < MaxOperations
           /\ ops' = Append(ops, o) /\ target' = o.to
           /\ UNCHANGED <<disk, kernel, object, length, runner, steady, sound>>

PushResize == \E to \in (Offset + InnerUsed) .. MaxLength \ {target} :
                 /\ SupportResize /\ (to < target => ~isMounted)
                 /\ Push([name |-> "resize", from |-> target, to |-> to])

PushMove == SupportMove /\ Push([name |-> "move", from |-> target, to |-> target])

\* A new container with a new file system inside; whoever pushes it sees to it that the old one
\* is locked.  The file system object of the operation is a new one.
PushCreate == ~isCryptOpen /\ ~isMounted /\ Push([name |-> "create", from |-> target, to |-> target])

\* pop() and undo()
Pop == /\ phase = "pending" /\ ops # << >>
       /\ target' = ops[Len(ops)].from
       /\ ops' = SubSeq(ops, 1, Len(ops) - 1)
       /\ UNCHANGED <<disk, kernel, object, length, runner, steady, sound>>

--------------------------------------------------------------------------------
(* The jobs.  ResizeFileSystemJob calls luks::resize() if there is support  *)
(* and the object has another length; a failing job of a grow is undone.    *)

FileSystemJob(o) ==
    CASE o.to = length                  -> << >>
      [] o.to > length /\ SupportResize -> <<"growMapping", "growInner", "setLastSector">>
      [] o.to < length /\ SupportResize -> <<"shrinkInner", "shrinkMapping", "setLastSector">>
      [] OTHER                          -> <<"unsupported">>

\* (mutant) The partition changes first in any case.
JobsGeometryFirst(o) ==
    CASE o.name = "resize" -> <<"check", "geometry">> \o FileSystemJob(o)
      [] o.name = "move"   -> <<"check", "move">>
      [] o.name = "create" -> <<"luksFormat", "open", "createInner">>

Jobs(o) == CASE o.name = "resize" /\ o.to > o.from -> <<"check", "geometry">> \o FileSystemJob(o)
             [] o.name = "resize" /\ o.to < o.from -> <<"check">> \o FileSystemJob(o) \o <<"geometry">>
             [] o.name = "move"   -> <<"check", "move">>
             [] o.name = "create" -> <<"luksFormat", "open", "createInner">>

Operation == ops[next]

\* (mutant) The header is forgotten.
NewPayloadOfPartition == Operation.to

\* luks::resize(): the payload that was, and what the file system's length changes by.
NewPayload == payload + (Operation.to - length)

Apply == /\ phase = "pending" /\ ops # << >>
         /\ phase' = "executing" /\ next' = 1 /\ todo' = Jobs(ops[1])
         /\ sound' = (sound /\ (ops[1].name = "resize" => payload = Room))
         /\ UNCHANGED <<disk, kernel, object, length, target, ops, steady>>

\* Whether the tools do what they are told: the file system inside keeps what it holds and
\* stays within the mapping, the mapping within the partition, and nobody formats what is open.
Possible(c) ==
    CASE c = "shrinkInner"   -> NewPayload \in InnerUsed .. mapping /\ ~inUse
      [] c = "shrinkMapping" -> NewPayload <= Room
      [] c = "growInner"     -> NewPayload \in inner .. mapping
      [] c = "unsupported"   -> FALSE
      [] c = "luksFormat"    -> mapping = 0
      [] c = "createInner"   -> mapping # 0
      [] OTHER               -> TRUE

CommandSucceeds ==
    /\ phase = "executing" /\ todo # << >> /\ Possible(Head(todo))
    /\ LET c == Head(todo)
       IN  /\ part' = CASE c = "geometry" -> Operation.to
                        [] c = "restore"  -> Operation.from
                        [] OTHER          -> part
           /\ place' = IF c = "move" THEN 1 - place ELSE place
           /\ inner' = CASE c \in {"shrinkInner", "growInner"} -> NewPayload
                         [] c = "luksFormat"  -> 0
                         [] c = "createInner" -> mapping
                         [] OTHER             -> inner
           /\ mapping' = CASE c = "shrinkMapping"        -> NewPayload
                           [] c \in {"growMapping", "open"} -> Room
                           [] OTHER                      -> mapping
           /\ mappedPlace' = IF c = "open" THEN place ELSE mappedPlace
           /\ length' = IF c = "setLastSector" THEN Operation.to ELSE length
           /\ phase' = IF c = "restore" THEN "error" ELSE phase
           \* create() leaves the container open and its object says that it is not.
           /\ steady' = (steady /\ (c = "open" => next = Len(ops)))
    /\ todo' = Tail(todo)
    /\ UNCHANGED <<ratio, inUse, object, target, ops, next, sound>>

\* The runner stops, except that ResizeOperation::grow() first takes the partition back.
CommandFails ==
    /\ phase = "executing" /\ todo # << >> /\ Head(todo) # "setLastSector"
    /\ IF Operation.name = "resize" /\ Operation.to > Operation.from
          /\ Head(todo) \in {"growMapping", "growInner", "unsupported"}
       THEN todo' = <<"restore">> /\ phase' = phase
       ELSE todo' = << >> /\ phase' = "error"
    /\ UNCHANGED <<disk, kernel, object, length, target, ops, next, steady, sound>>

\* CheckOperation::canCheck() for an open container whose file system inside can be checked
CanCheck == isCryptOpen /\ innerFs

\* ResizeOperation::execute() checks the partition once more, with everything done.
CheckResizedFails ==
    /\ phase = "executing" /\ todo = << >> /\ Operation.name \in {"resize", "move"} /\ CanCheck
    /\ phase' = "error"
    /\ UNCHANGED <<disk, kernel, object, length, target, ops, next, todo, steady, sound>>

\* The next operation, if that check, where there is one, succeeds.
EndOperation ==
    /\ phase = "executing" /\ todo = << >>
    /\ IF next = Len(ops)
       THEN phase' = "success" /\ UNCHANGED <<next, todo, sound>>
       ELSE /\ phase' = phase /\ next' = next + 1 /\ todo' = Jobs(ops[next + 1])
            /\ sound' = (sound /\ (ops[next + 1].name = "resize" => payload = Room))
    /\ UNCHANGED <<disk, kernel, object, length, target, ops, steady>>

Run  == CommandSucceeds \/ CommandFails \/ CheckResizedFails \/ EndOperation
Next == \/ Rescan \/ CryptOpen \/ CryptOpenUnseen \/ CryptClose \/ Mount \/ Unmount
        \/ PushResize \/ PushMove \/ PushCreate \/ Pop \/ Apply \/ Run

Spec == Init /\ [][Next]_vars

--------------------------------------------------------------------------------
(* Properties                                                              *)

Lengths    == (Offset + InnerUsed) .. MaxLength
Operations == [name : {"resize", "move", "create"}, from : Lengths, to : Lengths]

\* The types of disk, kernel, objects and stack.
TypeOK ==
    /\ ratio \in Ratios /\ place \in {0, 1} /\ mappedPlace \in {0, 1} /\ part \in Lengths /\ length \in Lengths /\ target \in Lengths
    /\ inner \in Nat /\ mapping \in Nat /\ payload \in Int
    /\ inUse \in BOOLEAN /\ isCryptOpen \in BOOLEAN /\ isMounted \in BOOLEAN /\ innerFs \in BOOLEAN
    /\ mapperName \in BOOLEAN /\ steady \in BOOLEAN /\ sound \in BOOLEAN
    /\ ops \in Seq(Operations) /\ next \in 0 .. Len(ops)
    /\ phase \in {"pending", "executing", "success", "error"}

\* "Resize a FileSystem to a given new length" (filesystem.cpp) on a container means that mapping
\* and file system follow.  As long as m_PayloadSize is what the partition had room for when
\* luks::resize() used it, no resize cuts the file system inside, whatever command of whatever job
\* fails and whatever is unlocked, locked or formatted before or behind the pending operations.
KeptWhole == sound => inner <= Room

\* The blocks of a container are not moved from under its mapping, which would go on writing to
\* the old place: what supportMove() is for.  It is about places, not lengths, and leaves out
\* (steady) containers opened or closed behind a pending operation and the one that create() opens
\* while its object says that it is closed, when another operation follows.
MappedAsPlaced == steady /\ mapping # 0 => mappedPlace = place

\* A resize that succeeds leaves the partition, the mapping and the file system inside with the
\* lengths that were asked for, and the object with that of the partition, so that the next job
\* computes with it.
SuccessFills ==
    phase = "success" /\ sound /\ ops[Len(ops)].name = "resize" =>
        /\ part = target /\ length = part
        /\ inner = Room /\ mapping = Room

\* "Resize a FileSystem to a given new length" (filesystem.cpp), which returns true on success: so a
\* successful resize of a container leaves a file system inside that fills the partition, whatever
\* luks::resize() found in m_PayloadSize.
ResizesToLength ==
    phase = "success" /\ ops[Len(ops)].name = "resize" => inner = Room

\* m_isCryptOpen is the licence to use m_innerFs and mapperName(), which mount(), unmount(), check()
\* and resize() do with no more than an assertion: after any order of unlocking, locking and scans
\* that find or do not find the mapping, an open object has them.
OpenHasInner == isCryptOpen => innerFs /\ mapperName /\ mapping # 0

==============================================================================
