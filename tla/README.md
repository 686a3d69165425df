# A TLA+ verification of KPMcore

KPMcore is the library behind KDE Partition Manager and the Calamares
installer: it scans the disks, keeps a *preview* of what they will look like
after a list of pending operations, and executes these operations as jobs that
run external tools and a privileged helper.  This directory holds TLA+ models
of it, TLC configurations that check them on small instances, and proofs
checked by TLAPS.

Paths below are relative to the library's directory (`src/src/` in the paths
of `PROJECT.json`).

## 1. The system

| Component | State | Operations | Hard behaviour |
|---|---|---|---|
| Helper (`util/externalcommandhelper.cpp`) | the device's bytes, position of the copy | `CopyFileData`, `ReadData`, `WriteData`, `WriteFstab`, `RunCommand` | a copy between overlapping ranges, a failure at any block, a helper that dies, a file that is truncated first |
| Client (`util/externalcommand.cpp`) | pending D-Bus call | `start`, `copyBlocks`, `readData`, `writeData`, `writeFstab` | error replies, lost replies, default results |
| Jobs (`jobs/`) | the objects they work on, the disk | `run()` of each | a job that fails half way, rollback |
| Operations (`ops/`) | pointers to partitions, jobs built in the constructor, status | `preview`, `undo`, `execute`, constructor, destructor | ownership of partitions, order of jobs, partial failure |
| Operation stack (`core/operationstack.cpp`) | pending operations, devices | `push` with six merge functions, `pop`, `clearOperations`, device list | merging takes operations out of the middle and retargets others |
| Runner (`core/operationrunner.cpp`) | thread, cancel flag, suspend mutex | `run`, `cancel` | cancel and suspend against a running operation |
| Partition tree (`core/partition*.cpp`) | parents, children, sectors, roles, states, numbers, flags | `insert`, `remove`, destructor, renumbering | who owns a node, numbers that the kernel changes |
| Partition table (`core/partitiontable.cpp`), alignment, widget (`gui/`) | unallocated space, limits of a drag | `updateUnallocated`, `alignedFirstSector`, drags | edges of extended partitions, loops that contradict each other |
| File systems (`fs/`) | object mirrors the disk | check, resize, label, create, copy | thirty classes, tools that are missing or fail, temporary mounts |
| LUKS (`fs/luks*.cpp`) | mapping, inner file system, payload | open, close, resize | state that was read before the container was opened |
| LVM (`core/lvmdevice.cpp`, `ops/*volumegroup*.cpp`) | groups, physical volumes, static lists | create, resize, remove, deactivate | data must leave a physical volume before it leaves the group |
| Scanner (`core/devicescanner.cpp`), sfdisk backend, RAID (`core/raid/`) | device list | scan | thread of its own, devices that come and go between two commands |
| `fstab`, SMART (`core/fstab.cpp`, `core/smart*.cpp`) | entries; attributes and verdict | read and rewrite; decode and assess | lines that are not understood; two verdicts from the same data |
| Reports, capacity, widgets' painting | | formatting, display | none that state machines reach |

They interact like this.  A front end creates operations and calls
`OperationStack::push()`, which merges and previews them on the devices of the
stack.  To apply, the front end undoes all previews and starts the runner's
thread; the runner executes each operation and previews it again.  An operation
runs its jobs, a job asks a backend plugin to change the partition table or
uses `ExternalCommand`, which calls the helper over D-Bus and waits in an event
loop.  Afterwards the scanner's thread clears stack and devices and reads the
disks again.

Two parts of this are the front end's and not in this repository.  The previews
are undone before the run: `ResizeOperation::preview()` expects the sectors an
*execution* left (its comment in `ops/resizeoperation.cpp`),
`CreateFileSystemOperation::execute()` previews itself first, and
`~DeleteOperation()` tells an undone operation (`StatusNone`) from an executed
one.  And operations are pushed when no scan is under way.

## 2. Modules

| Module | Models | Checked by |
|---|---|---|
| `BlockTransfer` | abstract: a call moves a range as it was when the call came in | refinement in `move` |
| `CopyFileData` | the helper's `CopyFileData()`, `readData()`, `writeData()` | `move`, proofs |
| `MoveFileSystem` | `MoveFileSystemJob::run()`, `Job::rollbackCopyBlocks()`, `ExternalCommand::copyBlocks()`; EXTENDS `CopyFileData` | `move`, `move_lost`, proofs |
| `ResizeOperation` | `ResizeOperation::execute()` and the jobs it runs | `resize`, proofs |
| `OperationStack` | the stack, previews, merging and ownership | `stack`, `stack_careless`, proofs |
| `OperationRunner` | the runner's thread, what execution makes of the partition table, destructors of executed operations; EXTENDS `OperationStack` | `runner`, proofs |
| `LogicalNumbers` | numbers of logical partitions and the boot flag, in previews and on the disk | `numbers`, proofs |
| `FileSystemTypes` | what each file system class supports and which commands it runs (tables) | through `FileSystemJobs` |
| `FileSystemJobs` | the operations on one file system: their jobs and commands, mounts; EXTENDS `FileSystemTypes` | `filesystems`, proofs |
| `LuksVolume` | a container: unlocking, mounting, resize, move, format | `luks`, proofs |
| `Volumes` | a volume group, its physical and logical volumes, the four operations | `volumes`, proofs |
| `PartitionGeometry` | unallocated space, alignment, the resizer widget | `geometry`, proofs |
| `Fstab` | reading, editing and rewriting `/etc/fstab` | `session` |
| `Smart` | what is made of smartctl's answer | `session` |
| `DeviceScan` | the scanner's thread, the sfdisk backend's scan, RAID arrays, volume groups; EXTENDS `Fstab`, `Smart` | `session` |
| `Session` | the scan and the fstab editor side by side; EXTENDS `DeviceScan` | `session`, proofs |
| `*_MC` | values of the constants for TLC | |
| `*_proofs` | inductive invariants and theorems | tlapm |

**CopyFileData.**  `disk` is the device, a cell stands for a byte; `call` holds
the arguments, `chunksCopied`, `buffer` and `success` are the function's
variables.  `ReadBlock` and `WriteChunk` are the two calls in the loop's body,
`WriteRemainder` the code behind the loop, `ReadFails` and `WriteFails` their
errors; a failing write may have stored any proper prefix of the buffer.
`Refuse` are the early returns.  The offsets are computed as in the code, with
the direction folded into `BlockOffset`.  `before` is a history variable.  The
progress reports are left out.

**MoveFileSystem** puts the job around it.  `CopyBlocks` is the call over
D-Bus, `HelperStep` lets the helper go on, `HelperLost` is the helper or its
connection gone, which ends the pending call in an error; `CopyBlocksReturned`
is the return value of `ExternalCommand::copyBlocks()`, `true` unless a reply
said otherwise.  `RollbackCall` are the ranges `rollbackCopyBlocks()` computes.

**ResizeOperation.**  `entry` and `content` are the disk (table entry and file
system), `part` and `fileSystem` the objects; `job` names the next job.  A job either
does all of its work or fails, except `MoveFileSystemJob`, whose failures are
those `MoveFileSystem` shows: blocks not moved (the source perhaps spoilt where
it overlaps the target) or boot sector not updated (`BootSectorFails`).
`resizeAction()` is `Grow`, `Shrink`, `Move`.  A request may be for a logical
volume (`lvm`): `SetPartGeometryJob` gives its object the new sectors before
`lvresize` is asked and leaves them there when it fails (`GeometryFails`).  That
a logical volume is not extended and keeps its first sector is the front end's
part.  `kept` is `oldStart` in `move()`; `moved` remembers how the move ended,
"stuck" when moving the partition back failed as well.

**OperationStack.**  Objects are ids, `preview.live` the ones that exist,
`preview.children` the tree below table and extended partitions.  An operation
is a record of the pointers and values it remembers; `jobs` are the partitions
its jobs refer to.  `Preview`, `Undo` and `Destroy` are the virtual functions
and destructors, `Merged` is what the merge functions do, `Pushed` finds the
topmost operation that merges.  The `Push...` actions are what a front end may
offer, under the conditions of the `can...()` functions, on partitions of any
state: those that are on the disk and those that a pending operation creates,
copies or restores.  `Offered` selects kinds and states.  What the library
accepts is more than it can merge, so two conditions are the front end's:
`Careless = FALSE` says that it does not delete or resize a new partition that
another pending operation works on (`UsedElsewhere`), and the MC module does
not offer to copy a new partition over another one.  `CarefulFrontEnd` is the
same as an assumption of the proofs; section 5 shows what goes wrong without
each.  `from` is the partition that the jobs of a copy read, which a merge does
not change along with `source`.  A range may be used when no sibling covers it.

**OperationRunner** applies the stack.  `Edit` is any action of `OperationStack`
while no run is under way, `Apply` the front end's undo of all previews, and
`Begin`, `PassMutex`, `Start`, `Execute`, `Leave` and `Emit` are the lines of
`OperationRunner::run()`.  `Cancel`, `Suspend` and `Resume` are the user's
thread and may come between any two of them; a cancel before `Begin` is lost,
as in the code.  `disk` is the set of entries in the partition table.  `Execute`
takes one of the outcomes the operation's jobs can have: `Successes`, or
`Failures` after each of the jobs that makes a difference (a resize may fail
where `ResizeOperation` shows it can), and previews the operation.  An
operation can only succeed when its jobs find the disk as they need it
(`Feasible`).  `ClearOne` is a turn of `clearOperations()`, with the destructors
of executed and of undone operations in `Destroyed`.

**LogicalNumbers.**  `number` is `Partition::number()`, by which sfdisk is told
what to delete, resize or flag, and `place` the entry the object stands for;
`disk.chain` are the logical entries in the order of their numbers.
`adjustLogicalNumbers` is the function of that name; the kernel's renumbering is
`Without`.  `Start` begins to apply the stack, `UndoNext` undoes one preview
after the other, the last one first, and the `Execute...` actions are the
operations with every failure, each previewed afterwards.  `run.believed`
remembers that sfdisk named a partition that it did not write
(`createPartition()` does not look at the exit code).

**FileSystemTypes** is a translation of `init()` and of the overridden methods
of each class into tables: `...Init` says which commands an operation needs,
`...Online` what can be done while mounted, `...Runs` the commands of a method
and their effect.  A `Lax` command is one whose exit code the code ignores.

**FileSystemJobs.**  `content` is the file system on the disk, `object` the
Partition and FileSystem objects, `found` the installed commands.  `Push`
records the jobs that the operation's constructor chose; `Execute` begins with
the first, `Work` starts a job, runs a command (`CommandSucceeds`, `CommandFails`,
`CommandDoesNotRun` when it could not start) or ends a
job and takes over its result.  `Mount` and `Unmount` are the library's,
`MountOutside` another program's: a partition planned for deletion may be in use
when the plan is applied.

**LuksVolume.**  `part`, `mapping` and `inner` are the lengths of partition,
device mapper's mapping and file system inside; `payload` is `m_PayloadSize`,
from which `luks::resize()` computes, and `PayloadSize` how `setPayloadSize()`
reads it: sectors of 512 bytes times the logical sector size, which is `ratio`
times as long.  `Jobs` lists the commands of an operation, `Run` executes one of
them or lets it fail, and after a resize or move checks once more
(`CheckResizedFails`).  `CryptOpen`, `CryptOpenUnseen`,
`CryptClose`, `Mount`, `Unmount` and `Rescan` change the container before or
behind the pending operations.  `steady` and `sound` are history variables,
explained in section 5.

**Volumes.**  `group`, `used`, `volumes` and `pvs` are what LVM holds, `scanned`
what the last scan found, `table` and `total` the group's device object, `dirty`
and `orphans` the static lists `s_DirtyPVs` and `s_OrphanPVs`.  The commands of
an operation are in `todo` and fail one by one; `pvmove` picks any free extents
of its destinations.  Deleting a partition that holds a physical volume is here,
since that is what the lists are to prevent.

**PartitionGeometry.**  `layout` are the partitions, `dialog` the widget with
the limits it was opened with.  `Unallocated` is `insertUnallocated()` over
`getUnallocatedRange()`; `alignedFirstSector` and `alignedLastSector` run the
code's two loops each, in closed form; `DragFirst`, `DragLast` and `DragAll` are
the widget's slots with `checkConstraints()` and `checkAlignment()`.

**Fstab, Smart, DeviceScan, Session.**  A line of fstab is the number of its
fields, what it names and where that is mounted; one that is dropped leaves an
empty line, so that a line keeps its place.  `HelperOpens` truncates the file
before `HelperWrites`.  `Smart` is a function from an answer to a status.
The scanner's thread is the phases of `scan`: it clears the operations, clears
the devices, scans disks, arrays (`mdadm.conf`, `/proc/mdstat` and each array at
its own time), volume groups, and adds what it found.  The sort of the list is
a step per element that is inserted (`SortDevices`).  Between any two steps
disks are unplugged and arrays stopped or assembled (`world`).  Each device is
scanned with a set of tools that answer.

## 3. Runs

| Run | Instance | Shows |
|---|---|---|
| `move` | 7 cells, chunks of 2, every move of 1 to 5 cells on the device | a successful copy moved every byte, nothing outside the target changed, and the copy refines `BlockTransfer`; result, data and file system object of the job agree when every call was answered; failures leave the data unless the ranges overlap; neighbours keep their bytes; the job ends |
| `move_lost` | the same | **violated**: a D-Bus error counts as success |
| `resize` | every pair of places on 5 sectors, file system as long as the partition or one shorter; logical volumes of any two lengths | entry never shorter than the file system, never in foreign sectors, objects follow the disk, a partition whose blocks were not moved goes back |
| `stack` | 5 sectors; a device with a primary partition on 1, an extended one on 2-4 and a logical one on 3, another with a primary on 1-3 and room for a new extended one; two operations on the stack, one label; everything offered on partitions of every state, but no new one copied over another | whatever is merged, every prefix of the stack is a layout a device can have, undoing leads back to the scan, operations find their operands, each new partition has one owner |
| `stack_careless` | 3 sectors, copies resized and deleted, `Careless` | **violated**: a merge deletes a partition that another operation points to |
| `runner` | 4 sectors, primary on 1, extended on 2-3 with a logical on 2, every pair of operations that touches the layout, one suspension | the signal tells how the run went, each operation finds the disk as it expects, a finished run gives the disk the layout the user saw, clearing the stack afterwards hides nothing but what a restore overwrote, every run ends |
| `filesystems` | each of the types on the partition, btrfs as the other type; length 3; every installed command or all but one; one operation at a time | an operation that reports success did what it says, the object has the length on the disk, no temporary mount is left, nothing mounted is wiped |
| `volumes` | three physical volumes of two extents, one logical volume of up to two, two operations | success is true for groups and volumes, a created group keeps its members, undoing restores table and lists, the table shows what there is |
| `luks` | a partition of three to five blocks, one of them header, one of them used inside; sectors of 512 bytes or eight times that; two operations | no resize cuts the file system inside, and one that succeeds fills the partition |
| `geometry` | 12 sectors, alignment 2, a primary, an extended and two logical partitions (symmetric) | partitions never overlap and leave room for metadata; unallocated space is what is free |
| `session` | a disk, an array, a volume group; six contents of the disk and five answers of smartctl, two fstab files; two scans, one change, one save | no operation outlives its device, the list names nothing twice and is the world if the world stood still, the tree is the table, fstab keeps the lines of others, SMART's two verdicts agree |
| `numbers` | primaries 1 and 3, logicals 5 to 7, one new, one copy; three operations | every object has the number of its own entry before and during a run, the partition that was to be activated is active |

Six more configurations go with the modules and answer a question of their own;
the runs leave them out so that they stay few:

| Configuration | Instance | Shows |
|---|---|---|
| `OperationStack_deep.cfg` | 2 sectors, a partition on 1; four operations on the stack | `RunsInOrder` and `OperandsLive` for chains of copies and restores over each other, merged out of the middle |
| `OperationRunner_deep.cfg` | the same device, every three operations | disk and preview for longer stacks |
| `OperationStack_over.cfg` | 2 sectors, new partitions copied over others | `EveryPrefixConsistent` **violated**: two partitions on the same sectors |
| `OperationRunner_restore.cfg` | the device of `runner`, restores and resizes of what was restored | `ShowsNothingElse` **violated**: a partition that was overwritten is shown again |
| `Volumes_total.cfg` | the instance of `volumes` | `TotalRestored` **violated**: undoing a resize leaves another total |
| `LuksVolume_stale.cfg` | the instance of `luks`, sectors of 512 bytes | `ResizesToLength` **violated**: a successful resize leaves another length inside |

Bounds.  Ranges of 5 with chunks of 2 have whole chunks and a remainder, a
range shorter than a chunk, and overlaps of any amount in both directions.  On
5 sectors a resize can grow, shrink and move in each combination, with old and
new place overlapping and not.  Merging looks at pairs of operations (the
pushed one and one on the stack); with two operations on the stack and a third
pushed, an operation in the middle is merged away and the one above stays.
`LabelsBound` ends a behaviour of `stack` that undid everything and kept a label
(section 5).  `IdsLeft` bounds the objects: an operation is pushed while ids are left for what
its constructor makes.
The second device is there for a new extended partition with new logical ones
in it, whose merge was restricted after bug #232092.  A file system's commands
depend on its type, on the tools and on one operation at a time, so that all
types and one operation give all of them; two types are needed only for a
format or a copy, of which btrfs, with a temporary mount, has the longest list
of commands.  With two-extent volumes a `pvmove` has more than one destination,
and two operations are what the static lists mediate between.  A container of
three to five blocks can be filled, have free space, grow and shrink; two
operations are a resize from a length that a pending one left.  Twelve sectors
hold an extended partition with two logical ones and their metadata, with free
space at either edge.  Three operations on three logical partitions are a
deletion, one that renumbers what it left and a third that uses the number.
The bounds of `session` (`MaxScans`, `MaxChanges`, `MaxSaves`) leave a second
scan that finds less than the first.  `AllowTight` is `FALSE`: an edge is not
dragged where no aligned sector is left (section 5).

Deadlock is checked in `luks`, `geometry` and `numbers`.  It is off where the
modelled program stops: a job or an execution ends, an application is shown, a
helper's device is not read for ever; and in `stack`, `volumes` and `session`
where a bound can leave nothing to do.

Fairness.  `CopyFileData` and `MoveFileSystem` assume weak fairness of the
helper's steps and of the job's: each is a single thread that blocks on nothing
but the other's answer, and a lost helper is answered by D-Bus.  `HelperLost`
has no fairness: it need not happen.  `ResizeOperation` assumes weak fairness
of its next step for the same reason, though no run asks for its liveness.  The
runner's thread goes on unless it waits for the mutex, and the user who
suspended it answers (`Resume`); `MaxSuspends` keeps the user from suspending
for ever.  The other specifications state no fairness and no liveness: what
they do is the user's choice, or a command that may hang (`run(-1)` has no
timeout).  Liveness is checked as `JobEnds` and `RunEnds`.

Every property was tried against a mutated definition that a plausible mistake
would produce (marked `(mutant)` in the modules); the mutants are defined next
to the original and used by no specification.

## 4. Proofs

*Proved for every value of the constants* (`tlapm`):

* `MoveAndResize_proofs`, the copy: `TypeOK`, `SuccessMeansMoved`,
  `OnlyTargetWritten`, and that the copy implements `BlockTransfer`.  Assumptions: a positive chunk
  size and calls over natural numbers.  `SuccessMeansMoved` says nothing before
  the reply, so it is not inductive: the invariant adds that behind the copy's
  position the target holds the snapshot (`Behind`), that ahead of it the
  source still does (`Ahead`) and that the buffer holds the snapshot of the
  block just read (`Loaded`).  `Ahead` survives a write because of the copy's
  direction; the arithmetic of chunks and remainder is in lemmas of its own.
* `MoveAndResize_proofs`, the job: `AnsweredSuccessIsTrue`, `FailureKeepsData` and
  `NeighboursUntouched`, on top of the copy's lemmas, and that the calls which a
  job and its rollback make, lost ones included, implement `BlockTransfer` one
  after the other (`JobImplementsSnapshot`), which the `move` run checks.  The invariant says for
  each step of the job which call is in flight, how the snapshot of that call
  relates to the device when the job started, and what the objects hold.
  Assumption: a file system has at least one sector and ends on the device.
* `MoveAndResize_proofs`, the resize: the four properties of the `resize` run, type
  correctness, and that a resize that succeeds has entry and file system at the
  new place (`SuccessIsComplete`), for every request.  `MovedBack` says where the entry ends
  when the blocks were not moved, and speaks of no state of the objects: that
  `oldStart` is the old place when it is used is part of the invariant.  The invariant says where the entry is before each job
  (`Placed`), how long (`Sized`) and where (`Located`) the file system is; the
  proof has one lemma per action.  Assumption: sectors are ordered and the file
  system fits into its partition.
* `MoveAndResize_proofs`, the sectors: `LayoutSound` and `UnallocatedIsFree` of
  `PartitionGeometry`, for every disk, alignment and set of partitions.
  `LayoutSound` speaks of what has been accepted, so the invariant
  (`GeometryInv`) adds what makes the widget safe: the limits it was opened with
  are clear of every other partition (`DialogClear`), and an extended partition
  around others keeps its start and their ends (`DialogHolds`).  That the limits
  are clear comes from the unallocated space being what is between the
  partitions (`UnallocatedIsClear`, `ResizeLimits`), which needs a sound layout:
  the two properties hold together.  That a drag stays within the limits
  (`NewFirstFits`, `NewLastFits`, `MovedFits`) is arithmetic: the loops of the
  alignment, in closed form, end at an aligned bound (`StepDownFacts`) and do
  not pass one (`AlignDown`, `AlignUp`).  Assumptions: those without which
  section 5 has a counterexample.  A file system may be as long as the disk
  (`TotalSectors <= MaxSectors`), an edge is dragged only where an aligned sector
  is left (`~AllowTight`, as in the run), and a new partition is begun only where
  its file system has room (`NewHasRoom`, which is an assumption on the steps and
  not on the constants).  Where the file system needs no more than an alignment
  unit, as in the run, the last one holds by itself (`SmallFileSystemsFit`).
* `LuksVolume_proofs`: `KeptWhole`, `SuccessFills` and type correctness for
  every length and any number of operations.  The invariant (`IInv`) chains the
  lengths of the pending operations (`Chained`), relates them to the objects
  (`Pending`) and says how far partition, mapping, inner file system and object
  are before each command that is left (`Stage`).  A second invariant
  (`Placed`) proves `MappedAsPlaced`, that an open mapping points at the place
  where the partition lies, under `steady` (section 5), and `OpenHasInner`; no
  run lists the two.
  Assumption: the header and what is used inside leave room in the longest
  partition.
* `OperationStack_proofs`: the five properties of the `stack` run for any device,
  any length of the stack and any offers, partitions of every state included,
  if `CarefulFrontEnd` (section 2).  A merge takes an
  operation out of the middle of the stack or changes the one that is pushed, so
  that nothing said about the preview alone survives it.  The invariant has two
  halves.  `Owned` says which operation created and which removed each partition:
  what an operation creates no other one does, and nothing above points to what
  one removes (`Fresh`, `Gone`), where new partitions lie in the tree (`Rooted`,
  `Placed`), and which partitions the preview shows (`Shows`).  `Layered` says
  that there is a layout between any two operations, each what the operation
  makes of the one below it (`Leads`), without overlaps (`Sound`), from what was
  scanned (`Starts`) to what is shown (`Ends`).  The proof has a lemma for each
  merge that shows which layouts are left when an operation is taken out of the
  middle; `UnwoundLevels` shows that undoing leads through the layouts, from
  which the properties follow.  Assumptions: ids of partitions and tables differ
  (`StackAssumption`), a scan gives a tree whose partitions do not overlap
  (`DevicesAssumption`), and the hypothesis `CarefulFrontEnd` of each theorem,
  without which `stack_careless` and `OperationStack_over.cfg` have counterexamples.  Since a
  copied or restored partition may be resized, copied and deleted again, an
  operation may have its operand made, moved and removed by others below it:
  `Sourced` follows what the jobs of a copy read, which a merge leaves behind
  when it changes the copy's source (`Uses` has it beside `Operands`).
* `OperationRunner_proofs`: `SignalTellsOutcome`, `JobsFindTheirPlaces`,
  `PlanFulfilled` and `ClearKeepsShown` for every device and stack.  For the
  signal the invariant (`IInv`) says that the operations before the current one,
  and no others, were executed (`Progress`), that only the last of them can have
  failed, and what the thread knows where it is (`Where`, `Told`).  The other
  properties need what the stack's invariant said when the user applied it: a
  run goes up the layouts of `Layered` again (`RunOf`), preview and disk
  together, while no operation fails.  The preview is not quite a layout of the
  stack: a partition that a restore overwrites is taken out of the preview in
  the constructor but stays in it when the operation is executed (`Ghosts`).
  So the preview shows all of a layout, and perhaps ghosts (`RunVisible`), which
  is why `PlanFulfilled` says that the disk is as planned and that all of it is
  shown, and `OperationRunner_restore.cfg` refutes that nothing else is.  Clearing frees from
  the preview only what the layout does not show (`DestroyShows`), and what is
  hidden by it is a ghost of a restore still on the stack (`GhostCleared`).  The
  assumptions are the stack's; `SignalTellsOutcome` needs none of them.
* `LogicalNumbers_proofs`: `NumbersTell`, `ActivatedIsActive` and type
  correctness for any primary and logical partitions, any objects to create and
  any length of the stack.  Neither property is inductive.  The invariant says
  which operations can be on the stack together (`Stacked`: no operand twice, a
  new or copied partition only above what made it), that before a run the
  objects of the preview have the numbers that deleting what is to be deleted
  will leave (`Untouched`, by counting the deleted entries below each), that
  during a run each object shown has the number of its own entry
  (`RunNumbers`), and that the flag set last is where it was asked for
  (`Activated`).  The lemmas count entries of a chain before and after one is
  taken out or put in.  Assumptions: the table has at most four primary entries
  and each partition one entry.
* `Session_proofs`: `OthersKept`, `OperationsLive` and `SmartTells` for any
  disks, arrays, volume groups, contents and fstab, and for any number of scans
  and saves.  The scanner's half of the invariant (`ScanInv`) says that nothing
  is pending from the moment the list is cleared until it is complete, and that
  every device on the list or found has a SMART status that tells no lie
  (`Told`); a sort or a concatenation keeps that (`ListInsert`, `ListConcat`).
  `VerdictMatches` is the heart of `SmartTells`: whatever smartctl answers, the
  overall verdict and the table of attributes, computed apart, agree.  The
  editor's half (`FstabInv`) says that the entries of other partitions are those
  of the file that was read (`Keeps`).  Assumptions: finitely many devices,
  attribute bytes that are bytes, a disk of at least 16 KiB (below, the bound of
  many bad sectors is larger than the disk) and a "no count" mark above 65536.
* `Volumes_proofs`: the four properties of the `volumes` run for any physical
  and logical volumes, lengths and number of operations, whatever commands do
  with the extents and whichever fails.  `UndoRestores` is of steps: popping the last operation,
  clearing the stack, and the runner's undo before it executes the first, which
  all lead to what the scan found, but for the total (section 5).  Before a run
  the invariant says that each operation remembers the table it was pushed on,
  so that undoing retraces the pushes (`Remembered`, `Untouched`, with `Undone`
  for one operation), and
  that the lists are what the pending operations made of them (`Listed`).  No
  two operations claim one physical volume or name one logical volume
  (`Apart`): this is why a new group keeps its members (`Created`).  During a
  run the commands that are left belong to the operation that is executed and
  end with the one that it is for (`LeftToDo`), the operations before it have
  done what they are for, which no later one takes back (`AllDone`), and the
  members of a resized group are those it has, what is left to add and without
  what is left to take out (`Members`).  Assumption: finitely many physical
  volumes.
* `FileSystemJobs_proofs`: the four properties of the `filesystems` run for any
  types, partition length and number of operations, whichever commands are
  installed and whichever fails.  What the proof needs of a class is one
  definition (`ClassSound`: the command that resizes is one whose failure counts
  and nothing that can fail follows it, what is mounted is unmounted last, a
  pool that is exported is imported again), and `ClassesSound` looks it up in
  the tables type by type.  The invariant says of the pending operations that
  each recorded what the last one before it that changes the partition will
  leave (`Queued`, `Recorded`), and of the one that is executed that what it is
  for holds or the job and the command for it are still ahead (`Resizing`,
  `Labelling`, `Deleting`, `Creating`, `Copying`, all by `Ahead`).  While a file
  system is resized it has the old length until the command that changes it, and
  after that one nothing can fail that counts (`Halfway`): this is why the
  object's length is right after a failure (`LengthTells`).  A temporary mount
  has its umount as the last command left (`Bracketed`), and a wipe that is left
  to do means that nobody mounted the file system (`WipesUnmounted`).
  Assumption: a partition has at least two units of length, so that it can
  shrink.

*Only model-checked*: liveness (`JobEnds`, `RunEnds`), which the provers do not
handle under fairness; `ListIsWorld` and `TreeIsTable`, whose definitions
fold over the entries of a table or select and sort them.

## 5. Divergences found

Checked as violated properties, by runs or by the further configurations of section 3:

* A lost helper counts as success: `copyBlocks()` returns `true` unless a reply
  said otherwise (`util/externalcommand.cpp:168`), while `jobs/job.h:64` says
  "@return true if successfully run" (`move_lost`).
* Copy s to c, resize c, delete c: the merge deletes the copy operation and c
  with it (`core/operationstack.cpp:244`), and the resize on the stack keeps a
  pointer to c.  `canDelete()`, `canGrow()` and `canMove()` accept a partition
  that is a copy, and `canCopy()` relies on the stack: it "will take care of
  these problematic cases" (`ops/copyoperation.cpp:284`; `stack_careless`).
* Copying a new partition over an existing one forgets the overwrite
  (`core/operationstack.cpp:137`): two partitions are shown on the same sectors
  (`OperationStack_over.cfg`).
* A restore over a partition takes it out of the preview in its constructor,
  against the first rule of `ops/operation.h`, and `preview()` does not repeat
  that (`ops/restoreoperation.cpp:98`).  After a run, the overwritten partition
  is back in the preview beside the restored one, which has its sectors unless a
  later operation resized it (`OperationRunner_restore.cfg`).
* Undoing a resize of a volume group works out the total from its physical
  volumes (`ops/resizevolumegroupoperation.cpp:137`), which need not be what the
  scan took from LVM (`Volumes_total.cfg`); `undo()` is documented as "Undo applying
  the Operation to the current preview".
* `luks::resize()` adds to `m_PayloadSize` (`fs/luks.cpp:496`), which only the
  scan sets: a container that was opened afterwards, or resized twice, is given
  another length, and a shrink may cut the file system inside, while the
  documentation of `resize()` is "Resize a FileSystem to a given new length ...
  @return true on success" (`LuksVolume_stale.cfg`).  On a disk whose logical sectors have
  not 512 bytes the scan, too, computes a wrong payload (`fs/luks.cpp:691`).

Found while modelling.  The properties above are stated so that they hold beside
them; each is a short counterexample of the unrestricted property, or follows
from the lines named.

*Jobs and the stack*

* `rollbackCopyBlocks()` copies `bytesWritten()` bytes, always 0 since the
  helper does the copying, and reports success (`jobs/job.cpp:55`); `jobs/job.h`
  says "Jobs are all-or-nothing and try to be as atomic as possible".
* If only the boot sector of a moved file system cannot be updated, the job
  fails with the file system at its new place, and the caller moves the table
  entry back alone (`jobs/movefilesystemjob.cpp:69`,
  `ops/resizeoperation.cpp:278`).
* Nobody undoes the shrink of the file system when the geometry cannot be set
  (the `@todo` at `ops/resizeoperation.cpp:264`).
* Deleting an overwriting copy leaves jobs with a reference to the freed copy
  (`ops/deleteoperation.h:81`, `core/operationstack.cpp:240`).
* Clearing executed deletes frees an extended partition before its deleted
  logical one (`core/operationstack.cpp:487`, `core/partition.cpp:74`).
* Labels a to b, a format, b to c: merging the labels makes the undo leave
  label b (`core/operationstack.cpp:347`).

*Numbers and flags.*  Giving a partition the boot flag back after another one
got it is skipped as already set, so that the other one stays active and the run
succeeds (`jobs/setpartflagsjob.cpp`); taking the flag from one partition after
giving it to another leaves none active.  `createPartition()` ignores sfdisk's
exit code (`plugins/sfdisk/sfdiskpartitiontable.cpp:78`).

*File systems.*  A formatted file system keeps the length of the old one
(`ops/createfilesystemoperation.cpp:33`), so that a resize to that length is
skipped (`jobs/resizefilesystemjob.cpp:65`): `formatted` excludes it.  ntfs
ignores the exit code of `ntfslabel` (`fs/ntfs.cpp:127`), bcachefs claims labels
and FreeBSD swap lengths it does not write.  A `umount` that fails after btrfs
was resized is not reported (the condition at `fs/btrfs.cpp:184`).

*LUKS.*  `sound` is true while the payload was right whenever `luks::resize()`
used it; `KeptWhole` and `SuccessFills` are stated under it.  `steady` is true
while the object knows whether the container is open: nobody opened or closed
it behind a pending operation, and no operation followed a format, since
`create()` leaves the new container open while its new object says that it is
closed (`fs/luks.cpp:115`); `MappedAsPlaced` is stated under it.

*LVM.*  `isRemovable()` accepts a group whose single logical volume has an
unknown file system, against "@return true if there are no LVM partitions"
(`ops/removevolumegroupoperation.cpp:69`).  `DeactivateVolumeGroupJob` shows the
physical volumes as unmounted when it failed, too
(`jobs/deactivatevolumegroupjob.cpp:35`).  `ResizeVolumeGroupOperation` does not
enter what it adds into `s_DirtyPVs`, and two pending resizes are each computed
from the scanned members.

*Geometry.*  At the maximum length `updateFirstSector()` subtracts the surplus
where it would have to add it (`gui/partresizerwidget.cpp:317`).  The second
loop of `alignedFirstSector()` goes below what the first one established when no
aligned sector is left (`core/partitionalignment.cpp:116`); `AllowTight` shows
it.  A partition shorter than its file system's minimum, begun in a space that
short, is given what it lacks at its start without regard to the lower limit
(`gui/partresizerwidget.cpp:313`), and then lies over what is in front of it.
`maxFirstSector()` leaves no room for the metadata of the first logical
partition.

*Scan, fstab, SMART.*  `ReadData()` refuses every node outside `/dev/shm/`
(`util/externalcommandhelper.cpp:312`), so that the number of GPT entries is
always the default.  `scanWholeDevicePartition()` uses the partition after
deleting its table (`plugins/sfdisk/sfdiskbackend.cpp:339`).
`scanSoftwareRAID()` casts what `scanDevice()` returns, a disk device if the
array stopped in between (`core/raid/softwareraid.cpp:193`).  `deviceLessThan()`
is no strict weak order (`core/operationstack.cpp:546`).  An fstab line without
options becomes a comment although "Options may be omitted in some rare cases
like NixOS generated fstab." (`core/fstab.cpp:96`), lines of fewer fields are
lost; `WriteFstab()` truncates the file before it writes, and a helper lost
then counts as success, and so does an error reply to a helper that never
opened it (`util/externalcommand.cpp:274`): `OthersKept` speaks of saves that
were answered.  The overall verdict counts bad sectors of attributes
whose unit is unknown (`core/smartdiskinformation.cpp:35`).

## 6. Not modelled

* The `geom` plugin: the same scan over FreeBSD's tools, a repetition of
  `DeviceScan`.  The dummy plugin: does nothing by design.  Loading plugins.
* Reports, logging, capacities, descriptions, translations, painting and mouse
  events: formatting without state.
* What another program does inside a job: between the mount check of
  `DeleteFileSystemJob` and its wipe (`jobs/deletefilesystemjob.cpp:50-73`),
  between `ScanArray`'s reads of one array (`core/raid/softwareraid.cpp:188-194`),
  and an operation pushed while a scan runs, which the front end prevents.
* The nested event loop of `ExternalCommand::start()` and of
  `Partition::mount()`: other calls that a front end makes while one is waiting.
* Image files of backup and restore, shredding, usage of file systems, lengths
  of labels; keys, ciphers and passphrases of LUKS; GPT attributes, labels and
  UUIDs of table entries; the caller's authorization in the helper (polkit).
* Creating, growing and stopping RAID arrays: no operation uses them.

What could follow: two labels on the stack; a second physical disk in the session.
