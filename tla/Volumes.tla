------------------------------- MODULE Volumes -------------------------------
(***************************************************************************)
(* A volume group, its physical and logical volumes, and the operations on *)
(* them: preview and undo on the objects of the last scan, the lists of    *)
(* dirty and orphaned physical volumes, and the lvm commands, each of      *)
(* which may fail, when the operations are applied.  There is the group    *)
(* that was scanned and one that an operation creates; lengths are in      *)
(* extents.                                                                *)
(***************************************************************************)
EXTENDS Naturals, SequencesExt

CONSTANTS PVs,           \* partitions that hold a physical volume
          LVs,           \* names of logical volumes
          Size,          \* extents of a physical volume
          Slack,         \* extents' worth of such a partition that metadata takes
          MaxLength,     \* bound: length of a logical volume
          MaxOperations  \* bound: pending operations

ASSUME VolumesAssumption == /\ IsFiniteSet(PVs) /\ IsFiniteSet(LVs)
                            /\ Size \in Nat \ {0} /\ Slack \in Nat
                            /\ MaxLength \in Nat \ {0} /\ MaxOperations \in Nat

VARIABLES group,       \* lvm: physical volumes of the scanned group
          other,       \* lvm: physical volumes of the group that was created
          used,        \* lvm: allocated extents of each physical volume
          volumes,     \* lvm: logical volumes of the group, with their lengths
          pvs,         \* lvm: physical volumes whose signature is still there
          active,      \* lvm: the group is active
          busy,        \* kernel: logical volumes that are mounted
          scanned,     \* objects: [group, used, busy], what the last scan found
          unknown,     \* objects: logical volumes on which no file system was recognised
          mounted,     \* objects: physical volumes shown as mounted, i.e. as members of a group
          table,       \* objects: logical volumes in the group's partition table
          unallocated, \* objects: whether that table shows what is free
          total,       \* objects: totalLogical()
          dirty,       \* LvmDevice::s_DirtyPVs
          orphans,     \* LvmDevice::s_OrphanPVs
          ops,         \* the operations on the stack
          phase,       \* "pending", "undoing", "executing", "success" or "error"
          next,        \* index of the operation that is undone or executed
          todo         \* commands left of it

lvm     == <<group, other, used, volumes, pvs, active>>
objects == <<table, unallocated, total, dirty, orphans>>
runner  == <<phase, next, todo>>
vars    == <<lvm, busy, scanned, unknown, mounted, objects, ops, runner>>

NoVolumes     == << >>  \* the function with an empty domain
Without(v, n) == Restrict(v, DOMAIN v \ {n})
With(v, n, length) == [m \in DOMAIN v \cup {n} |-> IF m \in DOMAIN v THEN v[m] ELSE length]
Used(set)     == SumFunctionOnSet(used, set)
Capacity      == Size + Slack  \* of a partition, as the library computes it from bytes

\* Ways to spread extents over physical volumes.
Allocations == [PVs -> 0 .. Size]

--------------------------------------------------------------------------------
(* LvmDevice's constructor and scanSystemLVM()                             *)

Init == /\ group \in SUBSET PVs \ {{}} /\ other = {}
        /\ volumes \in UNION {[names -> 1 .. MaxLength] : names \in SUBSET LVs}
        /\ used \in Allocations
        /\ \A p \in PVs \ group : used[p] = 0
        /\ SumFunction(used) = SumFunction(volumes)
        /\ pvs = PVs /\ active = TRUE
        /\ busy \in SUBSET DOMAIN volumes
        /\ scanned = [group |-> group, used |-> used, busy |-> busy]
        /\ unknown \in SUBSET (DOMAIN volumes \ busy)
        /\ mounted = group
        /\ table = volumes /\ unallocated = TRUE /\ total = Size * Cardinality(group)
        /\ dirty = {} /\ orphans = {}
        /\ ops = << >> /\ phase = "pending" /\ next = 0 /\ todo = << >>

--------------------------------------------------------------------------------
(* preview() and undo()                                                    *)

\* (mutant) Only the list of dirty physical volumes is kept up to date.
PreviewOfLists(o) ==
    /\ dirty' = IF o.name = "createVG" THEN dirty \cup o.pvs ELSE dirty
    /\ UNCHANGED <<table, unallocated, total, orphans>>

\* What a table shows as free is not worked out again for a volume that it no longer has.
Preview(o) ==
    /\ table' = CASE o.name \in {"removeVG", "deactivateVG"} -> NoVolumes
                  [] o.name = "newLV"    -> With(table, o.lv, o.length)
                  [] o.name = "deleteLV" -> Without(table, o.lv)
                  [] OTHER               -> table
    /\ unallocated' = CASE o.name \in {"removeVG", "deactivateVG"} -> FALSE
                        [] o.name \in {"newLV", "resizeVG"}         -> TRUE
                        [] o.name = "deleteLV" -> unallocated \/ o.lv \in DOMAIN table
                        [] OTHER               -> unallocated
    /\ total' = IF o.name = "resizeVG" THEN Capacity * Cardinality(o.pvs) ELSE total
    /\ dirty' = IF o.name = "createVG" THEN dirty \cup o.pvs ELSE dirty
    /\ orphans' = IF o.name = "removeVG" THEN orphans \cup scanned.group ELSE orphans

\* (mutant) The table is left as it is.
UndoWithoutTable(o) ==
    /\ table' = CASE o.name = "newLV" -> Without(table, o.lv)
                  [] o.name = "deleteLV" -> With(table, o.lv, o.length)
                  [] OTHER -> table
    /\ unallocated' = TRUE /\ total' = total
    /\ dirty' = IF o.name = "createVG" THEN dirty \ o.pvs ELSE dirty
    /\ orphans' = IF o.name = "removeVG" THEN orphans \ scanned.group ELSE orphans

\* The operations that replaced the table remember the one that they found.
Undo(o) ==
    /\ table' = CASE o.name \in {"removeVG", "deactivateVG"} -> o.table
                  [] o.name = "newLV"    -> Without(table, o.lv)
                  [] o.name = "deleteLV" -> With(table, o.lv, o.length)
                  [] OTHER               -> table
    /\ unallocated' = CASE o.name \in {"removeVG", "deactivateVG"}     -> o.unallocated
                        [] o.name \in {"newLV", "deleteLV", "resizeVG"} -> TRUE
                        [] OTHER                                        -> unallocated
    /\ total' = IF o.name = "resizeVG" THEN Capacity * Cardinality(scanned.group) ELSE total
    /\ dirty' = IF o.name = "createVG" THEN dirty \ o.pvs ELSE dirty
    /\ orphans' = IF o.name = "removeVG" THEN orphans \ scanned.group ELSE orphans

--------------------------------------------------------------------------------
(* The operations that can be pushed                                       *)

\* Partitions that a pending operation deletes are not shown any more.
Hidden == UNION {ops[i].pvs : i \in {j \in DOMAIN ops : ops[j].name = "deletePV"}}

\* What a front end offers for a group that is to be created or resized: physical volumes
\* that are in no group or whose group is to be removed, and that no new group will use.
Offered == (PVs \ (scanned.group \ orphans)) \ (dirty \cup Hidden)

\* ResizeVolumeGroupOperation's constructor: whether the extents of what is removed fit
\* into the rest and what is inserted.
Fits(target) ==
    LET stay == target \cap scanned.group
    IN  SumFunctionOnSet(scanned.used, scanned.group \ target) <=
            Size * Cardinality(stay) - SumFunctionOnSet(scanned.used, stay)
            + Capacity * Cardinality(target \ scanned.group)

\* RemoveVolumeGroupOperation::isRemovable(): the table's only child is unallocated or unknown.
IsRemovable ==
    LET free == unallocated /\ SumFunction(table) < total
    IN  CASE Cardinality(DOMAIN table) = 0 -> TRUE
          [] Cardinality(DOMAIN table) = 1 -> ~free /\ DOMAIN table \subseteq unknown
          [] OTHER                         -> FALSE

\* DeactivateVolumeGroupOperation::isDeactivatable()
IsDeactivatable == DOMAIN table \cap scanned.busy = {}

\* (mutant) DeleteOperation::canDelete() without a look at the dirty physical volumes.
CanDeleteUnmounted(p) == p \notin mounted \cup Hidden

\* DeleteOperation::canDelete()
CanDelete(p) == p \notin mounted \cup Hidden \cup dirty

Operation(name, set, lv, length) ==
    [name |-> name, pvs |-> set, lv |-> lv, length |-> length,
     table |-> table, unallocated |-> unallocated]

\* preview() of what is pushed.  A resize without jobs never gets onto the stack.
Push(o) == /\ phase = "pending" /\ Len(ops) < MaxOperations
           /\ ops' = Append(ops, o)
           /\ Preview(o)
           /\ UNCHANGED <<lvm, busy, scanned, unknown, mounted, runner>>

PushResizeVG == \E target \in SUBSET (scanned.group \cup Offered) \ {{}, scanned.group} :
                   Fits(target) /\ Push(Operation("resizeVG", target, "", 0))

PushCreateVG == \E set \in SUBSET Offered \ {{}} : Push(Operation("createVG", set, "", 0))

PushRemoveVG == IsRemovable /\ Push(Operation("removeVG", {}, "", 0))

PushDeactivateVG == IsDeactivatable /\ Push(Operation("deactivateVG", {}, "", 0))

PushNewLV == \E lv \in LVs \ DOMAIN table, length \in 1 .. MaxLength :
                /\ unallocated /\ length + SumFunction(table) <= total
                /\ \A i \in DOMAIN ops : ops[i].lv # lv
                /\ Push(Operation("newLV", {}, lv, length))

PushDeleteLV == \E lv \in DOMAIN table \ scanned.busy :
                   /\ \A i \in DOMAIN ops : ops[i].lv # lv
                   /\ Push(Operation("deleteLV", {}, lv, table[lv]))

PushDeletePV == \E p \in PVs : CanDelete(p) /\ Push(Operation("deletePV", {p}, "", 0))

\* OperationStack::pop()
Pop == /\ phase = "pending" /\ ops # << >>
       /\ Undo(Last(ops))
       /\ ops' = Front(ops)
       /\ UNCHANGED <<lvm, busy, scanned, unknown, mounted, runner>>

\* Somebody mounts a logical volume.
MountVolume == /\ phase = "pending" /\ ops # << >> /\ active
               /\ \E lv \in DOMAIN volumes \ (busy \cup unknown) : busy' = busy \cup {lv}
               /\ UNCHANGED <<lvm, scanned, unknown, mounted, objects, ops, runner>>

--------------------------------------------------------------------------------
(* The jobs and their commands                                             *)

Commands(does, set) == [i \in 1 .. Cardinality(set) |->
                           [does |-> does, pvs |-> {SetToSeq(set)[i]}, lv |-> "", length |-> 0]]
Command(does, o)    == [does |-> does, pvs |-> o.pvs, lv |-> o.lv, length |-> o.length]

Jobs(o) ==
    CASE o.name = "resizeVG"     -> Commands("vgextend", o.pvs \ scanned.group)
                                    \o Commands("pvmove", scanned.group \ o.pvs)
                                    \o Commands("vgreduce", scanned.group \ o.pvs)
      [] o.name = "createVG"     -> <<Command("vgcreate", o)>>
      [] o.name = "removeVG"     -> <<Command("deactivate", o), Command("vgremove", o)>>
      [] o.name = "deactivateVG" -> <<Command("lvchange", o), Command("vgchange", o)>>
      [] o.name = "newLV"        -> <<Command("lvcreate", o)>>
      [] o.name = "deleteLV"     -> <<Command("lvremove", o)>>
      [] o.name = "deletePV"     -> <<Command("pvremove", o)>>

\* MovePhysicalVolumeJob: the members that the scan knew and that stay, if there are any.
Destinations(p) == LET stay == scanned.group \cap ops[next].pvs
                   IN  IF stay = {} THEN group \ {p} ELSE stay \cap group

\* What lvm needs to do what it is told.
Possible(c) ==
    CASE c.does = "vgextend"   -> group # {} /\ c.pvs \subseteq pvs \ (group \cup other)
      [] c.does = "pvmove"     -> \A p \in c.pvs : used[p] = 0 \/
                                    (p \in group /\ used[p] + Used(Destinations(p)) <= Size * Cardinality(Destinations(p)))
      [] c.does = "vgreduce"   -> c.pvs \subseteq group /\ group # c.pvs /\ Used(c.pvs) = 0
      [] c.does = "vgcreate"   -> c.pvs \subseteq pvs \ (group \cup other)
      [] c.does = "lvchange"   -> busy \cap DOMAIN table = {}
      [] c.does \in {"deactivate", "vgchange"} -> group # {} /\ busy = {}
      [] c.does = "vgremove"   -> group # {}
      [] c.does = "lvcreate"   -> group # {} /\ c.lv \notin DOMAIN volumes
                                  /\ c.length + Used(group) <= Size * Cardinality(group)
      [] c.does = "lvremove"   -> c.lv \in DOMAIN volumes \ busy
      [] c.does = "pvremove"   -> \A p \in c.pvs : ~(active /\ used[p] > 0)

\* Where the extents may be afterwards.
Reallocated(c) ==
    CASE c.does = "pvmove" /\ Used(c.pvs) > 0 ->
            {new \in Allocations :
                /\ SumFunction(new) = SumFunction(used)
                /\ \A p \in c.pvs : new[p] = 0
                /\ \A p \in PVs \ c.pvs : new[p] >= used[p] /\ (new[p] = used[p] \/ \E q \in c.pvs : p \in Destinations(q))}
      [] c.does = "lvcreate" -> {new \in Allocations :
                /\ SumFunction(new) = SumFunction(used) + c.length
                /\ \A p \in PVs : new[p] >= used[p] /\ (p \notin group => new[p] = 0)}
      [] c.does = "lvremove" -> {new \in Allocations :
                /\ SumFunction(new) + volumes[c.lv] = SumFunction(used)
                /\ \A p \in PVs : new[p] <= used[p]}
      [] c.does = "vgremove" -> {[p \in PVs |-> 0]}
      [] OTHER -> {used}

Current == Head(todo)

\* OperationRunner::run() first undoes everything.
Apply == /\ phase = "pending" /\ ops # << >>
         /\ phase' = "undoing" /\ next' = Len(ops)
         /\ UNCHANGED <<lvm, busy, scanned, unknown, mounted, objects, ops, todo>>

UndoNext == /\ phase = "undoing"
            /\ Undo(ops[next])
            /\ IF next = 1 THEN phase' = "executing" /\ next' = 1 /\ todo' = Jobs(ops[1])
                           ELSE UNCHANGED <<phase, todo>> /\ next' = next - 1
            /\ UNCHANGED <<lvm, busy, scanned, unknown, mounted, ops>>

CommandSucceeds ==
    /\ phase = "executing" /\ todo # << >> /\ Possible(Current)
    /\ group' = CASE Current.does = "vgextend" -> group \cup Current.pvs
                  [] Current.does = "vgreduce" -> group \ Current.pvs
                  [] Current.does = "vgremove" -> {}
                  [] OTHER -> group
    /\ other' = IF Current.does = "vgcreate" THEN other \cup Current.pvs ELSE other
    /\ used' \in Reallocated(Current)
    /\ volumes' = CASE Current.does = "lvcreate" -> With(volumes, Current.lv, Current.length)
                    [] Current.does = "lvremove" -> Without(volumes, Current.lv)
                    [] Current.does = "vgremove" -> NoVolumes
                    [] OTHER -> volumes
    /\ pvs' = IF Current.does = "pvremove" THEN pvs \ Current.pvs ELSE pvs
    /\ active' = (active /\ Current.does \notin {"deactivate", "vgchange"})
    /\ mounted' = IF Current.does = "vgchange" THEN mounted \ scanned.group ELSE mounted
    /\ table' = IF Current.does = "lvremove" THEN Without(table, Current.lv) ELSE table
    /\ unallocated' = (unallocated /\ Current.does # "lvremove")
    /\ todo' = Tail(todo)
    /\ UNCHANGED <<busy, scanned, unknown, total, dirty, orphans, ops, phase, next>>

\* (mutant) The operation counts as executed although its job failed.
CommandFailsUnnoticed ==
    /\ phase = "executing" /\ todo # << >>
    /\ todo' = << >>
    /\ UNCHANGED <<lvm, busy, scanned, unknown, mounted, objects, ops, phase, next>>

\* The job ends with the command that failed, the operation with the job, the run with the
\* operation.  DeactivateVolumeGroupJob shows the physical volumes as unmounted all the same.
CommandFails ==
    /\ phase = "executing" /\ todo # << >>
    /\ phase' = "error" /\ todo' = << >>
    /\ mounted' = IF Current.does = "vgchange" THEN mounted \ scanned.group ELSE mounted
    /\ Preview(ops[next])
    /\ UNCHANGED <<lvm, busy, scanned, unknown, ops, next>>

EndOperation ==
    /\ phase = "executing" /\ todo = << >>
    /\ Preview(ops[next])
    /\ IF next = Len(ops) THEN phase' = "success" /\ UNCHANGED <<next, todo>>
                          ELSE phase' = phase /\ next' = next + 1 /\ todo' = Jobs(ops[next + 1])
    /\ UNCHANGED <<lvm, busy, scanned, unknown, mounted, ops>>

Run == UndoNext \/ CommandSucceeds \/ CommandFails \/ EndOperation
Next == \/ PushResizeVG \/ PushCreateVG \/ PushRemoveVG \/ PushDeactivateVG
        \/ PushNewLV \/ PushDeleteLV \/ PushDeletePV
        \/ Pop \/ MountVolume \/ Apply \/ Run

Spec == Init /\ [][Next]_vars

--------------------------------------------------------------------------------
(* Properties                                                              *)

Pending(name) == {i \in DOMAIN ops : ops[i].name = name}

\* An application that ends in success did what each operation says: the only resize gave
\* the group its members, every created group has all of its own, a removed group is gone, and
\* deleted logical volumes are no more.
SuccessIsTrue ==
    phase = "success" =>
        /\ \A i \in Pending("resizeVG") :
               Pending("resizeVG") = {i} /\ Pending("removeVG") = {} => group = ops[i].pvs
        /\ \A i \in Pending("createVG") : ops[i].pvs \subseteq other
        /\ Pending("removeVG") # {} => group = {} /\ volumes = NoVolumes
        /\ \A i \in Pending("deleteLV") : ops[i].lv \notin DOMAIN volumes

\* What s_DirtyPVs is for: a physical volume that a pending operation makes a member of a new
\* group is neither given to a second group nor deleted, by an operation that comes before or
\* after, so that the group that was created keeps all its members.
CreatedComplete == other \subseteq pvs

\* The total that the scan found, and the one that undoing a resize works out.
ScannedTotal == Size * Cardinality(scanned.group)
UndoneTotal  == Capacity * Cardinality(scanned.group)

Restored == /\ table = volumes /\ unallocated /\ dirty = {} /\ orphans = {}
            /\ total \in {ScannedTotal, UndoneTotal}

\* Once every operation is undone, one by one or by the runner before it executes the first,
\* table and lists are those of the scan, in whatever order groups were removed, deactivated,
\* created and given logical volumes.  The total is no pending resize's, but it is the scan's
\* only where no resize was undone (see TotalRestored).
UndoRestores ==
    [][(phase = "undoing" /\ phase' = "executing") \/ (phase' = "pending" /\ ops' = << >>) => Restored']_vars

\* "Undo applying the Operation to the current preview" (undo() in operation.h): with nothing
\* pending the group is shown as large as the scan found it.
TotalRestored == phase = "pending" /\ ops = << >> => total = ScannedTotal

\* After a successful application the table shows the logical volumes that there are, unless
\* the group was deactivated or removed.
ShowsWhatIs ==
    phase = "success" /\ Pending("deactivateVG") = {} => table = volumes

==============================================================================
