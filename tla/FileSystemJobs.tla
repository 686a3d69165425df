---------------------------- MODULE FileSystemJobs ----------------------------
(***************************************************************************)
(* The operations that work on the file system of one partition: the jobs  *)
(* they consist of, the methods of the file system's class that these call *)
(* and the commands that the methods run, each of which may fail.  A       *)
(* partition may be mounted, through the library or behind its back, while *)
(* operations wait to be applied.  The partition starts at sector 1, so    *)
(* that lengths stand for last sectors.                                    *)
(***************************************************************************)
EXTENDS FileSystemTypes, Naturals, Sequences

CONSTANTS FirstTypes,    \* file systems found on the partition
          OtherTypes,    \* file systems it may be formatted to or copied from
          Length,        \* the partition's length in sectors
          MaxOperations  \* bound: operations pushed, applied at once or one after the other

ASSUME FileSystemJobsAssumption == /\ FirstTypes \subseteq Types /\ OtherTypes \subseteq Types
                                   /\ Length \in Nat \ {0, 1} /\ MaxOperations \in Nat

VARIABLES found,    \* commands that are installed; init() found those it looked for
          device,   \* disk: length of the partition in its table
          content,  \* disk: [type, length, label, online], the file system
          mounts,   \* kernel: where it is mounted: "user", "temp"
          object,   \* Partition and FileSystem: [type, length, label, mounted]
          queue,    \* operations that are pending, with what their constructors remember
          op,       \* the operation that was executed last
          jobs,     \* its jobs that have not run
          job,      \* the job that runs, or "idle"
          todo,     \* commands left of it
          value,    \* what the running job is going to return
          outcome,  \* "none", "running", "failing", "success", "warning" or "error"
          formatted, \* history: a create was executed, which the length in the object does not survive
          steady,   \* history: nobody mounted or unmounted while an operation was pending
          stuck,    \* history: a temporary mount could not be undone
          count     \* operations pushed

disk == <<device, content, mounts>>
run  == <<jobs, job, todo, value>>
vars == <<found, device, content, mounts, object, queue, op, jobs, job, todo, value, outcome,
          formatted, steady, stuck, count>>

Nothing == [type |-> "none", length |-> 0, label |-> "", online |-> TRUE]
Lengths == {Length - 1, Length, Length + 1}
SourceLength == Length - 1   \* of a file system that is copied here

Can(type, operation)       == Support(found, type, operation) # "none"
CanOnline(type, operation) == SupportOnline(found, type, operation) # "none"

\* What preview() of the pending operations shows: the last one that changes it.
Shown(field, names, now) ==
    LET changes == {i \in DOMAIN queue : queue[i].name \in names}
    IN  IF changes = {} THEN now ELSE queue[CHOOSE i \in changes : \A j \in changes : j <= i][field]
ShownType   == Shown("type", {"create", "copy"}, object.type)
ShownDevice == Shown("length", {"shrink", "grow"}, device)
ShownLength == Shown("clone", {"create", "copy"}, object.length)

\* canCheck(), canGrow(), canShrink(): what holds of the partition as it is shown now.
Offered(operation) == IF object.mounted THEN CanOnline(ShownType, operation)
                                        ELSE Can(ShownType, operation)

Idle == outcome \notin {"running", "failing"} \* no operation is being executed

--------------------------------------------------------------------------------
(* Operations and their jobs                                               *)

\* A resize, with a check before and after it.
Resize(first, second) == IF Offered("Check") THEN <<"check", first, second, "check">> ELSE <<first, second>>

JobsOf(name) ==
    CASE name = "shrink" -> Resize("resize", "geometry")
      [] name = "grow"   -> Resize("geometry", "resize")
      [] name = "create" -> <<"delete", "create", "check", "permissions">>
      [] name = "copy"   -> <<"copy", "check", "maximize">>
      [] OTHER           -> <<name>>

Guard(name, type, length) ==
    CASE name = "check"  -> Offered("Check") /\ type = ShownType
      [] name = "shrink" -> Offered("Shrink") /\ type = ShownType /\ length < ShownDevice
      [] name = "grow"   -> Offered("Grow") /\ type = ShownType /\ length > ShownDevice
      [] name = "label"  -> type = ShownType
      [] name = "delete" -> ~object.mounted /\ type = ShownType
      [] name = "create" -> Can(type, "Create")
      [] name = "copy"   -> Can(type, "Copy") /\ ~object.mounted /\ SourceLength <= ShownDevice

\* The length of the file system object that an operation brings: CreateFileSystemOperation
\* clones the one of now, CopyOperation's fills the partition.
Clone(name) == IF name = "copy" THEN ShownDevice ELSE ShownLength

Names == {"check", "shrink", "grow", "label", "delete", "create", "copy"}

\* One of the commands may be missing.
Init == /\ \E type \in FirstTypes, length \in {Length - 1, Length} :
              /\ content = [type |-> type, length |-> length, label |-> "old", online |-> TRUE]
              /\ object = [type |-> type, length |-> length, label |-> "old", mounted |-> FALSE]
              /\ LET all == UNION {Sought(t) : t \in OtherTypes \cup {type}}
                 IN  found \in {all} \cup {all \ {c} : c \in all}
        /\ device = Length
        /\ mounts = {}
        /\ queue = << >> /\ op = [name |-> "none"]
        /\ jobs = << >> /\ job = "idle" /\ todo = << >> /\ value = TRUE
        /\ outcome = "none"
        /\ formatted = FALSE /\ steady = TRUE /\ stuck = FALSE /\ count = 0

\* The constructors of the operations decide which jobs there are.  What is pushed for a
\* partition that a pending operation deletes or copies to merges with it in OperationStack.
\* After an error the front end scans the devices again.
Push == /\ Idle /\ outcome # "error" /\ content.type # "none" /\ count < MaxOperations
        /\ \A i \in DOMAIN queue : queue[i].name \notin {"delete", "copy"}
        /\ \E name \in Names, type \in OtherTypes \cup {ShownType}, length \in Lengths,
              permissions \in BOOLEAN :
              /\ Guard(name, type, length)
              /\ name \notin {"shrink", "grow"} => length = ShownDevice
              /\ permissions => name = "create"
              /\ queue' = Append(queue, [name |-> name, type |-> type, length |-> length,
                                         permissions |-> permissions, before |-> ShownDevice,
                                         clone |-> Clone(name), jobs |-> JobsOf(name)])
        /\ count' = count + 1
        /\ UNCHANGED <<found, disk, object, op, run, outcome, formatted, steady, stuck>>

\* FileSystem::canMount() and linuxswap's, which activates swap.
CanMount == ShownType # "unknown" /\ ~object.mounted

\* Partition::mount() and unmount() do not look at pending operations.
Mount == /\ Idle /\ content.type # "none" /\ CanMount
         /\ mounts' = mounts \cup {"user"}
         /\ object' = [object EXCEPT !.mounted = TRUE]
         /\ steady' = (steady /\ queue = << >>)
         /\ UNCHANGED <<found, device, content, queue, op, run, outcome, formatted, stuck, count>>

Unmount == /\ Idle /\ object.mounted
           /\ mounts' = mounts \ {"user"}
           /\ object' = [object EXCEPT !.mounted = FALSE]
           /\ steady' = (steady /\ queue = << >>)
           /\ UNCHANGED <<found, device, content, queue, op, run, outcome, formatted, stuck, count>>

\* Somebody mounts it without the library.
MountOutside == /\ Idle /\ queue # << >> /\ content.type # "none" /\ "user" \notin mounts
                /\ mounts' = mounts \cup {"user"}
                /\ steady' = FALSE
                /\ UNCHANGED <<found, device, content, object, queue, op, run, outcome, formatted, stuck,
                               count>>

\* execute() of the next operation.  A created or copied file system takes the place of the
\* old one's object.
Execute == /\ Idle /\ queue # << >>
           /\ op' = Head(queue)
           /\ queue' = Tail(queue)
           /\ jobs' = Head(queue).jobs
           /\ outcome' = "running"
           /\ object' = CASE Head(queue).name = "create" ->
                               [object EXCEPT !.type = Head(queue).type, !.length = Head(queue).clone]
                          [] Head(queue).name = "copy" ->
                               [object EXCEPT !.type = Head(queue).type, !.length = Head(queue).clone,
                                              !.label = "source"]
                          [] OTHER -> object
           /\ formatted' = (Head(queue).name # "copy" /\ (formatted \/ Head(queue).name = "create"))
           /\ UNCHANGED <<found, disk, job, todo, value, steady, stuck, count>>

--------------------------------------------------------------------------------
(* The jobs' run(): the commands they come to, or the value they return at *)
(* once                                                                    *)

Method(name) == Steps(found, object.type, name)
Refused      == <<[tool |-> "", does |-> "refuse", lax |-> FALSE]>>

\* (mutant) The partition's length is taken for the file system's.
ResizeStepsOfPartition(length) ==
    IF length > device THEN Refused
    ELSE IF length = device THEN << >>
    ELSE IF object.mounted THEN Method("resizeOnline") ELSE Method("resize")

\* ResizeFileSystemJob
ResizeSteps(length) ==
    LET operation == IF length < object.length THEN "Shrink" ELSE "Grow"
    IN  IF length > device THEN Refused
        ELSE IF length = object.length THEN << >>
        ELSE IF Support(found, object.type, operation) # "tool" THEN Refused
        ELSE IF object.mounted THEN Method("resizeOnline") ELSE Method("resize")

\* SetFileSystemLabelJob
LabelSteps ==
    IF ~Can(object.type, "SetLabel") THEN << >>
    ELSE IF ~object.mounted THEN Method("writeLabel")
    ELSE IF CanOnline(object.type, "SetLabel") THEN Method("writeLabelOnline")
    ELSE Refused

\* (mutant) The mount state that the Partition object remembers is trusted.
DeleteTrustsObject == IF object.mounted THEN Refused ELSE Method("remove") \o <<Cmd("wipefs", "wipe")>>

\* DeleteFileSystemJob asks the kernel whether it is mounted.
DeleteSteps == IF "user" \in mounts THEN Refused
               ELSE Method("remove") \o <<Cmd("wipefs", "wipe")>>

\* CreateFileSystemJob, without a label
CreateSteps ==
    IF object.type = "unformatted" THEN << >>
    ELSE IF Support(found, object.type, "Create") # "tool" THEN Refused
    ELSE (IF Support(found, object.type, "CreateWithLabel") = "tool"
          THEN Method("createWithLabel") ELSE Method("create")) \o <<Cmd("sfdisk", "tag")>>

\* CopyFileSystemJob.  Whether the UUID could be updated does not matter to it.
CopySteps ==
    LET uuid == IF Support(found, object.type, "UpdateUUID") = "tool" THEN Method("updateUUID") ELSE << >>
    IN  IF object.length < SourceLength THEN Refused
        ELSE (IF Support(found, object.type, "Copy") = "tool" THEN Method("copy")
              ELSE <<Write("copy")>>)
             \o [i \in DOMAIN uuid |-> Lax(uuid[i].tool, "anyway")]
             \o Method("updateBootSector")

\* ChangePermissionJob
PermissionSteps == IF ~op.permissions THEN << >>
                   ELSE <<Cmd("mount", "mount"), Cmd("chmod", "chmod"), Cmd("umount", "umount")>>

StepsOf(j) ==
    CASE j = "check"       -> Method("check")
      [] j = "resize"      -> ResizeSteps(op.length)
      [] j = "maximize"    -> ResizeSteps(device)
      [] j = "geometry"    -> <<Cmd("sfdisk", "geometry")>>
      [] j = "restore"     -> <<Cmd("sfdisk", "geometryBack")>>
      [] j = "label"       -> LabelSteps
      [] j = "delete"      -> DeleteSteps
      [] j = "create"      -> CreateSteps
      [] j = "copy"        -> CopySteps
      [] j = "permissions" -> PermissionSteps

\* CheckFileSystemJob succeeds where there is no support.
JobSteps(j) == IF j = "check" /\ Support(found, object.type, "Check") # "tool" THEN << >>
               ELSE StepsOf(j)

StartJob == /\ outcome \in {"running", "failing"} /\ job = "idle" /\ jobs # << >>
            /\ job' = Head(jobs)
            /\ jobs' = Tail(jobs)
            /\ todo' = JobSteps(Head(jobs))
            /\ value' = TRUE
            /\ UNCHANGED <<found, disk, object, queue, op, outcome, formatted, steady, stuck, count>>

--------------------------------------------------------------------------------
(* The commands of a job                                                   *)

Step == Head(todo)

\* What needs the temporary mount cannot succeed without it.
NeedsMount == Step.does \in {"resize", "fill", "chmod"} /\ \E i \in DOMAIN todo : todo[i].does = "umount"
Possible   == /\ Step.does # "refuse"
              /\ Step.tool \in Sought(object.type) => Step.tool \in found
              /\ Step.does \in {"check", "try", "resize", "fill", "label", "uuid"} =>
                    content.type = object.type
              /\ NeedsMount \/ Step.does = "umount" => "temp" \in mounts

Written == CASE Step.does = "format"      -> [type |-> object.type, length |-> device, label |-> "", online |-> TRUE]
             [] Step.does = "formatLabel" -> [type |-> object.type, length |-> device, label |-> "", online |-> TRUE]
             [] Step.does = "wipe"        -> Nothing
             [] Step.does = "copy"        -> [type |-> op.type, length |-> SourceLength, label |-> "source", online |-> TRUE]
             [] Step.does = "fillCopy"    -> [type |-> op.type, length |-> device, label |-> "source", online |-> TRUE]
             [] Step.does = "resize"      -> [content EXCEPT !.length = IF job = "maximize" THEN device ELSE op.length]
             [] Step.does = "fill"        -> [content EXCEPT !.length = device]
             [] Step.does = "label"       -> [content EXCEPT !.label = "new"]
             [] Step.does = "export"      -> [content EXCEPT !.online = FALSE]
             [] Step.does = "import"      -> [content EXCEPT !.online = TRUE, !.label = "new"]
             [] OTHER                     -> content

CommandSucceeds ==
    /\ todo # << >> /\ Possible
    /\ content' = Written
    /\ device' = CASE Step.does = "geometry" -> op.length [] Step.does = "geometryBack" -> op.before
                   [] OTHER -> device
    /\ mounts' = CASE Step.does = "mount" -> mounts \cup {"temp"} [] Step.does = "umount" -> mounts \ {"temp"}
                   [] OTHER -> mounts
    /\ object' = IF Step.does \in {"copy", "fillCopy"} THEN [object EXCEPT !.length = SourceLength] ELSE object
    /\ todo' = Tail(todo)
    /\ UNCHANGED <<found, queue, op, jobs, job, value, outcome, formatted, steady, stuck, count>>

\* (mutant) Without the umount after a failed command.
FailsAndReturns ==
    /\ todo # << >>
    /\ IF Step.lax THEN todo' = Tail(todo) /\ value' = value ELSE todo' = << >> /\ value' = FALSE
    /\ stuck' = (stuck \/ (Step.does = "umount" /\ "temp" \in mounts))
    /\ UNCHANGED <<found, disk, object, queue, op, jobs, job, outcome, formatted, steady, count>>

\* A command that fails changes nothing.  What was mounted for it is unmounted, at the end.
CommandFails ==
    /\ todo # << >>
    /\ IF Step.lax THEN todo' = Tail(todo) /\ value' = value
       ELSE /\ LET last == todo[Len(todo)]
               IN  todo' = IF "temp" \in mounts /\ last.does = "umount" /\ Step.does # "umount"
                           THEN <<last>> ELSE << >>
            /\ value' = FALSE
    /\ stuck' = (stuck \/ (Step.does = "umount" /\ "temp" \in mounts))
    /\ UNCHANGED <<found, disk, object, queue, op, jobs, job, outcome, formatted, steady, count>>

\* A command whose exit code does not matter must at least have run.
CommandDoesNotRun ==
    /\ todo # << >> /\ Step.lax /\ Step.does \in {"mount", "label"}
    /\ todo' = << >>
    /\ value' = FALSE
    /\ UNCHANGED <<found, disk, object, queue, op, jobs, job, outcome, formatted, steady, stuck, count>>

--------------------------------------------------------------------------------
(* The end of a job                                                        *)

\* (mutant) The file system object keeps its length.
KeepsLength == IF job = "label" /\ Can(object.type, "SetLabel")
               THEN object' = [object EXCEPT !.label = "new"] ELSE UNCHANGED object

\* run() updates the file system object when its method returned true.
Updated ==
    IF ~value THEN UNCHANGED object
    ELSE CASE job = "resize"   -> object' = [object EXCEPT !.length = op.length]
           [] job = "maximize" -> object' = [object EXCEPT !.length = device]
           [] job = "label"    -> IF Can(object.type, "SetLabel")
                                  THEN object' = [object EXCEPT !.label = "new"] ELSE UNCHANGED object
           [] OTHER            -> UNCHANGED object

\* execute(): the first job that fails ends the operation, except that a partition that was
\* grown for nothing gets its old length back and that a copy need not fill its partition.
\* The runner executes nothing after an error.
EndJob == /\ job # "idle" /\ todo = << >>
          /\ Updated
          /\ job' = "idle"
          /\ IF value THEN /\ outcome' = IF jobs # << >> THEN outcome
                                         ELSE IF outcome = "failing" THEN "error" ELSE "success"
                           /\ jobs' = jobs
             ELSE IF job = "resize" /\ op.name = "grow"
                  THEN outcome' = "failing" /\ jobs' = <<"restore">>
             ELSE outcome' = (IF job = "maximize" THEN "warning" ELSE "error") /\ jobs' = << >>
          /\ queue' = IF outcome' = "error" THEN << >> ELSE queue
          /\ UNCHANGED <<found, disk, op, todo, value, formatted, steady, stuck, count>>

Work == StartJob \/ CommandSucceeds \/ CommandFails \/ CommandDoesNotRun \/ EndJob
Next == Push \/ Mount \/ Unmount \/ MountOutside \/ Execute \/ Work

Spec == Init /\ [][Next]_vars

--------------------------------------------------------------------------------
(* Properties                                                              *)

\* Swap is made again over the whole device, and FreeBSD swap has no length on the disk.
Sized == content.type \notin {"linuxswap", "freebsdswap"}

\* An operation that reports success has done what it says, with the commands of every class:
\* one whose failure goes unnoticed leaves another length, label or type (the run() functions
\* and what the classes return).  ntfs and bcachefs report labels that they did not write.
SuccessIsTrue ==
    outcome = "success" =>
        /\ op.name \in {"shrink", "grow"} /\ steady /\ ~formatted /\ Sized =>
              content.length = op.length /\ device = op.length
        /\ op.name = "label" /\ Can(object.type, "SetLabel") /\ content.type \notin {"ntfs", "bcachefs"} =>
              content.label = "new" /\ content.online
        /\ op.name = "delete" => content = Nothing
        /\ op.name = "create" /\ object.type \notin {"unformatted", "freebsdswap"} =>
              content.type = op.type /\ content.length = device
        /\ op.name = "copy" => content.type = op.type /\ content.length >= SourceLength

\* The length in the FileSystem object, from which the next operation starts, is the one on
\* the disk when an operation has ended, also when it failed half way.
ObjectTells ==
    Idle /\ steady /\ ~formatted /\ Sized /\ content.type = object.type /\ ~(op.name = "copy" /\ outcome = "error")
        => object.length = content.length

\* A job that mounted the file system for itself has unmounted it when it ends, also when the
\* command in between failed; only a umount that fails leaves it mounted.
NothingLeftMounted == Idle => stuck \/ "temp" \notin mounts

\* No signature is wiped from a file system that is mounted, even if the library did not mount
\* it and the Partition object does not know.
WipesOnlyUnmounted == [][content'.type = "none" /\ content.type # "none" => "user" \notin mounts]_vars

==============================================================================
