----------------------------- MODULE OperationStack -----------------------------
(***************************************************************************)
(* The stack of pending operations and the device preview they act on.     *)
(* Pushing an operation first lets the operations already on the stack     *)
(* merge with it, from the top down; what is left of it is appended and    *)
(* its preview() applied.  Popping calls undo() and deletes the operation. *)
(* Operations refer to Partition objects by pointer, and some of them      *)
(* delete these objects with themselves: the objects are modelled by ids   *)
(* and the set of the live ones.                                           *)
(*                                                                         *)
(* One device with sectors 1 .. LastSector, primary, extended and logical  *)
(* partitions; a range is free when no sibling covers it.                  *)
(***************************************************************************)
EXTENDS Integers, FiniteSets, SequencesExt

CONSTANTS LastSector,   \* last usable sector of the device
          PartIds,      \* Partition objects
          FsIds,        \* FileSystem objects
          TableIds,     \* PartitionTable objects
          None,         \* the null pointer
          Labels,       \* file system labels
          FlagSets,     \* values of a partition's active flags
          Devices,      \* the previews a device scan may give
          Offered,      \* pairs <<kind, state>>: the operations the front end
                        \* offers on a partition in that state
          Careless,     \* the front end deletes or resizes new partitions that
                        \* other pending operations work on
          MaxOps        \* bound on the length of the stack

ASSUME StackAssumption ==
    /\ LastSector \in Nat /\ PartIds \cap TableIds = {} /\ None \notin PartIds /\ {} \in FlagSets
    /\ Careless \in BOOLEAN

VARIABLES preview,      \* [live, parts, labels, table, children]
          operations,   \* the stack, the top is the last element
          scanned       \* history: the preview after the scan

vars == <<preview, operations, scanned>>

Sectors == 1 .. LastSector
States  == {"None", "New", "Copy", "Restore"}
Roles   == {"primary", "extended", "logical"}

Nodes   == TableIds \cup PartIds

Partition == [first : Sectors, last : Sectors, role : Roles, parent : Nodes,
              state : States, flags : FlagSets, fs : FsIds]

--------------------------------------------------------------------------------
(* The preview.                                                            *)

\* The partitions reachable from the device's partition table.
Visible(pv) == LET top == pv.children[pv.table]
               IN  top \cup UNION { pv.children[p] : p \in top }

\* insertPreviewPartition(), removePreviewPartition()
InsertPreview(pv, p) == [pv EXCEPT !.children[pv.parts[p].parent] = @ \cup {p}]
RemovePreview(pv, p) == [pv EXCEPT !.children[pv.parts[p].parent] = @ \ {p}]

SetSectors(pv, p, first, last) ==
    [pv EXCEPT !.parts[p].first = first, !.parts[p].last = last]

\* What a freed object holds is never looked at again: it gets the content it had
\* at the scan, so that the state does not depend on it.
FreeFileSystems(pv, freed) ==
    [pv EXCEPT !.labels = [f \in FsIds |-> IF f \in freed THEN scanned.labels[f] ELSE @[f]]]

\* ~Partition() removes the partition from its parent and deletes its children and
\* its file system.
FreePartition(pv, p) ==
    LET freed == {p} \cup pv.children[p]
        rest  == FreeFileSystems(RemovePreview(pv, p), { pv.parts[q].fs : q \in freed })
    IN  [rest EXCEPT !.live = @ \ freed,
                     !.children[p] = {},
                     !.parts = [q \in PartIds |-> IF q \in freed THEN scanned.parts[q] ELSE @[q]]]

Bounds(pv, parent) == IF parent \in TableIds
                      THEN Sectors
                      ELSE pv.parts[parent].first .. pv.parts[parent].last

Extent(pv, p) == pv.parts[p].first .. pv.parts[p].last

\* The range lies inside the parent and outside all of its children but those in except.
IsFree(pv, parent, first, last, except) ==
    /\ first <= last
    /\ first .. last \subseteq Bounds(pv, parent)
    /\ \A q \in pv.children[parent] \ except : (first .. last) \cap Extent(pv, q) = {}

Previews == [live : SUBSET PartIds, parts : [PartIds -> Partition], labels : [FsIds -> Labels \cup {None}],
             table : TableIds, children : [Nodes -> SUBSET PartIds]]

\* What a device scan gives: partitions of one table and of its extended partitions, apart
\* from each other.
IsScan(d) ==
    /\ d \in Previews /\ d.live = Visible(d)
    /\ \A n \in Nodes \ {d.table} : d.children[n] # {} => n \in d.children[d.table] /\ d.parts[n].role = "extended"
    /\ \A n \in Nodes : \A p \in d.children[n] :
           /\ d.parts[p].parent = n /\ d.parts[p].state = "None"
           /\ d.parts[p].role = "logical" <=> n # d.table
           /\ IsFree(d, n, d.parts[p].first, d.parts[p].last, {p})

ASSUME DevicesAssumption == \A d \in Devices : IsScan(d)

--------------------------------------------------------------------------------
(* Operations.  "jobs" are the partitions that the operation's jobs, built *)
(* in its constructor, hold a reference to; "from" is the one among them   *)
(* that a copy reads.                                                      *)

NewOp(p)          == [kind |-> "New", part |-> p, jobs |-> {p}]
DeleteOp(p)       == [kind |-> "Delete", part |-> p, jobs |-> {p}]
CheckOp(kind, p)  == [kind |-> kind, part |-> p, jobs |-> {p}]
CopyOp(p, s, o)   == [kind |-> "Copy", part |-> p, source |-> s, from |-> s, over |-> o, jobs |-> {p, s}]
RestoreOp(p, o)   == [kind |-> "Restore", part |-> p, over |-> o, jobs |-> {p}]
ResizeOp(pv, p, first, last) ==
    [kind |-> "Resize", part |-> p, jobs |-> {p},
     oldFirst |-> pv.parts[p].first, oldLast |-> pv.parts[p].last,
     newFirst |-> first, newLast |-> last]
FlagsOp(pv, p, f) ==
    [kind |-> "Flags", part |-> p, jobs |-> {p}, old |-> pv.parts[p].flags, new |-> f]
LabelOp(pv, p, l) ==
    [kind |-> "Label", part |-> p, jobs |-> {p},
     old |-> pv.labels[pv.parts[p].fs], new |-> l]
FormatOp(pv, p, f) ==
    [kind |-> "Format", part |-> p, jobs |-> {p}, old |-> pv.parts[p].fs, new |-> f]
TableOp(pv, t) == [kind |-> "Table", jobs |-> {}, old |-> pv.table, new |-> t]

NoOp == [kind |-> "NoOp", jobs |-> {}]

Creating == {"New", "Copy", "Restore"}

\* The partitions an operation points to, beside its jobs.
Operands(op) == (IF op.kind = "Table" THEN {} ELSE {op.part})
                \cup (IF op.kind = "Copy" THEN {op.source} ELSE {})
                \cup (IF op.kind \in {"Copy", "Restore"} THEN {op.over} \ {None} ELSE {})

\* Operation::preview()
Preview(op, pv) ==
    CASE op.kind = "New"     -> InsertPreview(pv, op.part)
      [] op.kind = "Delete"  -> RemovePreview(pv, op.part)
      [] op.kind = "Copy"    -> InsertPreview(IF op.over = None THEN pv ELSE RemovePreview(pv, op.over), op.part)
      [] op.kind = "Restore" -> InsertPreview(pv, op.part)
      [] op.kind = "Resize"  -> SetSectors(pv, op.part, op.newFirst, op.newLast)
      [] op.kind = "Flags"   -> [pv EXCEPT !.parts[op.part].flags = op.new]
      [] op.kind = "Label"   -> [pv EXCEPT !.labels[pv.parts[op.part].fs] = op.new]
      [] op.kind = "Format"  -> [pv EXCEPT !.parts[op.part].fs = op.new]
      [] op.kind = "Table"   -> [pv EXCEPT !.table = op.new]
      [] OTHER               -> pv

\* Operation::undo()
Undo(op, pv) ==
    CASE op.kind = "New"     -> RemovePreview(pv, op.part)
      [] op.kind = "Delete"  -> InsertPreview(pv, op.part)
      [] op.kind \in {"Copy", "Restore"} ->
            IF op.over = None THEN RemovePreview(pv, op.part)
                              ELSE InsertPreview(RemovePreview(pv, op.part), op.over)
      [] op.kind = "Resize"  -> SetSectors(pv, op.part, op.oldFirst, op.oldLast)
      [] op.kind = "Flags"   -> [pv EXCEPT !.parts[op.part].flags = op.old]
      [] op.kind = "Label"   -> [pv EXCEPT !.labels[pv.parts[op.part].fs] = op.old]
      [] op.kind = "Format"  -> [pv EXCEPT !.parts[op.part].fs = op.old]
      [] op.kind = "Table"   -> [pv EXCEPT !.table = op.old]
      [] OTHER               -> pv

\* The destructor of an operation that was pending.
Destroy(op, pv) ==
    CASE op.kind \in Creating -> FreePartition(pv, op.part)
      [] op.kind = "Table"    -> [pv EXCEPT !.live = @ \ pv.children[op.new],
                                            !.children[op.new] = {}]
      [] op.kind = "Format"   -> FreeFileSystems(pv, {op.new})
      [] OTHER                -> pv

\* pop(): undo, then delete.
Popped(op, pv) == Destroy(op, Undo(op, pv))

--------------------------------------------------------------------------------
(* Objects.  An id is free for a new object when nothing refers to it.     *)

Referenced == (UNION { operations[i].jobs \cup Operands(operations[i]) : i \in DOMAIN operations })
              \cup (UNION { preview.children[t] : t \in Nodes })
FreeParts  == PartIds \ Referenced
FreeFs     == FsIds \ ({ preview.parts[p].fs : p \in Referenced }
                       \cup UNION { {operations[i].old, operations[i].new} :
                              i \in { j \in DOMAIN operations : operations[j].kind = "Format" } })
FreeTables == TableIds \ ({preview.table}
                       \cup UNION { {operations[i].old, operations[i].new} :
                              i \in { j \in DOMAIN operations : operations[j].kind = "Table" } })

NewPart   == CHOOSE p \in FreeParts : TRUE
SparePart == CHOOSE p \in FreeParts \ {NewPart} : TRUE
NewFs     == CHOOSE f \in FreeFs : TRUE
SpareFs   == CHOOSE f \in FreeFs \ {NewFs} : TRUE
NewTable  == CHOOSE t \in FreeTables : TRUE

\* p becomes a new Partition object with a file system of its own.
WithPartition(pv, p, f, part, label) ==
    [pv EXCEPT !.live = @ \cup {p}, !.parts[p] = [part EXCEPT !.fs = f], !.labels[f] = label]

LabelOf(pv, p) == pv.labels[pv.parts[p].fs]

--------------------------------------------------------------------------------
(* Merging: cur is on the stack, op is being pushed.                       *)

IsExtended(p) == preview.parts[p].role = "extended"

NewDeleted(cur, op) == cur.kind = "New" /\ op.kind = "Delete" /\ cur.part = op.part /\ ~IsExtended(op.part)
\* (mutant) The restriction that fixed #232092 is missing.
NewResizedExtended(cur, op) == cur.kind = "New" /\ op.kind = "Resize" /\ cur.part = op.part

NewResized(cur, op) == cur.kind = "New" /\ op.kind = "Resize" /\ cur.part = op.part /\ ~IsExtended(op.part)
NewCopied(cur, op)  == cur.kind = "New" /\ op.kind = "Copy" /\ cur.part = op.source
NewLabeled(cur, op) == cur.kind = "New" /\ op.kind = "Label" /\ cur.part = op.part
NewFormatted(cur, op) == cur.kind = "New" /\ op.kind = "Format" /\ cur.part = op.part
NewChecked(cur, op) == cur.kind = "New" /\ op.kind = "Check" /\ cur.part = op.part
CopyDeleted(cur, op) == cur.kind = "Copy" /\ op.kind = "Delete" /\ cur.part = op.part
RestoreDeleted(cur, op) == cur.kind = "Restore" /\ op.kind = "Delete" /\ cur.part = op.part
FlagsAgain(cur, op) == cur.kind = "Flags" /\ op.kind = "Flags" /\ cur.part = op.part
LabelAgain(cur, op) == cur.kind = "Label" /\ op.kind = "Label" /\ cur.part = op.part
TableAgain(cur, op) == op.kind = "Table" /\ cur.kind # "Backup"

Merges(cur, op) == \/ NewDeleted(cur, op)   \/ NewResized(cur, op)  \/ NewCopied(cur, op)
                   \/ NewLabeled(cur, op)   \/ NewFormatted(cur, op) \/ NewChecked(cur, op)
                   \/ CopyDeleted(cur, op)  \/ RestoreDeleted(cur, op)
                   \/ FlagsAgain(cur, op)   \/ LabelAgain(cur, op)  \/ TableAgain(cur, op)

\* (mutant) The jobs of the pushed copy read the first source, too.
RetargetsJobs(cur, op) ==
    IF cur.kind = "Copy" /\ op.kind = "Copy" /\ cur.part = op.source
    THEN [op EXCEPT !.source = cur.source, !.from = cur.source, !.jobs = {op.part, cur.source}]
    ELSE op

\* mergeCopyOperation(), case 2: a copy of a copy is made from the first source;
\* the jobs of the pushed operation stay as they were built.
Retargeted(cur, op) ==
    IF cur.kind = "Copy" /\ op.kind = "Copy" /\ cur.part = op.source
    THEN [op EXCEPT !.source = cur.source]
    ELSE op

\* The pushed operation as the operation at position i of the stack sees it.
Seen(op) ==
    LET seen[i \in 0 .. Len(operations)] ==
            IF i = Len(operations) THEN op ELSE Retargeted(operations[i + 1], seen[i + 1])
    IN  seen

\* (mutant) The topmost operation is taken instead of the merged one.
WithoutLast(i) == Front(operations)

Without(i) == SubSeq(operations, 1, i - 1) \o SubSeq(operations, i + 1, Len(operations))

Outcome(ops, pv, op) == [operations |-> ops, preview |-> pv, pushed |-> op]

\* setOldFlags(), setOldLabel(), setOldPartitionTable(), and a mutant that forgets them.
KeepsOld(op, cur) == op
TakesOld(op, cur) == [op EXCEPT !.old = cur.old]

\* (mutants) The last sector, or the state, of the new partition is not set.
NewInsteadOldLast(pv, p, first, last) ==
    WithPartition(pv, SparePart, SpareFs, [pv.parts[p] EXCEPT !.first = first], LabelOf(pv, p))
NewInsteadOnDisk(pv, p, first, last) ==
    WithPartition(pv, SparePart, SpareFs,
                  [pv.parts[p] EXCEPT !.first = first, !.last = last, !.state = "None"],
                  LabelOf(pv, p))

\* Cases 2 and 3 of mergeNewOperation() push a NewOperation with a copy of the
\* new partition p at another place.
NewInstead(pv, p, first, last) ==
    WithPartition(pv, SparePart, SpareFs,
                  [pv.parts[p] EXCEPT !.first = first, !.last = last], LabelOf(pv, p))

\* The CopyOperation is deleted before it is pending, so that nothing deletes its
\* copied partition; nothing refers to it any more either.
Leaked(pv, p) == FreePartition(pv, p)

\* What the merge with the operation at position i makes of stack, preview and op.
Merged(i, op, pv) ==
    LET cur == operations[i] IN
    CASE NewDeleted(cur, op) -> Outcome(Without(i), Popped(cur, pv), NoOp)
      [] NewResized(cur, op) ->
            Outcome(Without(i),
                    Popped(cur, NewInstead(pv, op.part, op.newFirst, op.newLast)),
                    NewOp(SparePart))
      [] NewCopied(cur, op) ->
            Outcome(operations,
                    Leaked(NewInstead(pv, op.source, pv.parts[op.part].first, pv.parts[op.part].last),
                           op.part),
                    NewOp(SparePart))
      [] NewLabeled(cur, op) -> Outcome(operations, Preview(op, pv), NoOp)
      [] NewFormatted(cur, op) \/ NewChecked(cur, op) -> Outcome(operations, pv, NoOp)
      [] CopyDeleted(cur, op) \/ RestoreDeleted(cur, op) ->
            Outcome(Without(i), Popped(cur, pv),
                    IF cur.over = None THEN NoOp ELSE [op EXCEPT !.part = cur.over])
      [] FlagsAgain(cur, op) \/ LabelAgain(cur, op) ->
            Outcome(Without(i), Popped(cur, pv), TakesOld(op, cur))
      [] TableAgain(cur, op) ->
            Outcome(Without(i), Popped(cur, pv),
                    IF cur.kind = "Table" THEN TakesOld(op, cur) ELSE op)

\* push(): the topmost operation that merges ends the search.
Pushed(op, pv) ==
    LET seen == Seen(op)
        hits == { i \in DOMAIN operations : Merges(operations[i], seen[i]) }
        top  == CHOOSE i \in hits : \A j \in hits : j <= i
    IN  IF hits = {} THEN Outcome(operations, pv, seen[0]) ELSE Merged(top, seen[top], pv)

\* Bound: ids are left for the objects that a push makes.
IdsLeft == /\ FreeParts \notin {{}, {NewPart}} /\ FreeFs \notin {{}, {NewFs}}
           /\ FreeTables # {}

\* op is pushed; pv is the preview with the objects op was given.
Push(op, pv) ==
    LET out == Pushed(op, pv) IN
    /\ IdsLeft
    /\ operations' = IF out.pushed = NoOp THEN out.operations
                                          ELSE Append(out.operations, out.pushed)
    /\ Len(operations') <= MaxOps
    /\ preview' = Preview(out.pushed, out.preview)
    /\ UNCHANGED scanned

--------------------------------------------------------------------------------
(* The front end.                                                          *)

Init == preview \in Devices /\ scanned = preview /\ operations = <<>>

Part(p)       == preview.parts[p]
Length(p)     == Part(p).last - Part(p).first + 1
Exists(p)     == p \in Visible(preview)
Unallocated   == "Unallocated"

Offers(kind, p) == Exists(p) /\ <<kind, Part(p).state>> \in Offered

\* A pending operation other than the one that creates p works on p.
UsedElsewhere(p) == \E op \in Range(operations) :
    p \in op.jobs \cup Operands(op) /\ ~(op.kind \in Creating /\ op.part = p)

\* Nodes whose unallocated space is shown.
Parents == {preview.table} \cup { p \in preview.children[preview.table] : IsExtended(p) }

PushNew ==
    /\ <<"New", Unallocated>> \in Offered
    /\ \E parent \in Parents, first, last \in Sectors, role \in Roles :
        /\ IsFree(preview, parent, first, last, {})
        /\ role = "logical" <=> parent # preview.table
        /\ role = "extended" => ~\E p \in Parents \ {preview.table} : TRUE
        /\ Push(NewOp(NewPart),
                WithPartition(preview, NewPart, NewFs,
                    [first |-> first, last |-> last, role |-> role, parent |-> parent,
                     state |-> "New", flags |-> {}, fs |-> NewFs], None))

\* DeleteOperation::canDelete()
PushDelete == \E p \in PartIds :
    /\ Offers("Delete", p)
    /\ IsExtended(p) => preview.children[p] = {}
    /\ Part(p).state # "None" /\ ~IsExtended(p) => Careless \/ ~UsedElsewhere(p)
    /\ Push(DeleteOp(p), preview)

\* ResizeOperation::canGrow(), canShrink(), canMove()
PushResize == \E p \in PartIds, first, last \in Sectors :
    /\ Offers("Resize", p)
    /\ <<first, last>> # <<Part(p).first, Part(p).last>>
    /\ IsFree(preview, Part(p).parent, first, last, {p})
    /\ last - first + 1 < Length(p) => Part(p).state # "Copy"
    /\ \A q \in preview.children[p] : Extent(preview, q) \subseteq first .. last
    /\ Part(p).state = "New" /\ ~IsExtended(p) => Careless \/ ~UsedElsewhere(p)
    /\ Push(ResizeOp(preview, p, first, last), preview)

\* CopyOperation::createCopy(), canCopy(), canPaste() on unallocated space.
PushCopyToFree == \E s \in PartIds, first, last \in Sectors :
    /\ Offers("CopyFrom", s)
    /\ <<"Copy", Unallocated>> \in Offered
    /\ ~IsExtended(s)
    /\ IsFree(preview, Part(s).parent, first, last, {})
    /\ Length(s) <= last - first + 1
    /\ Push(CopyOp(NewPart, s, None),
            WithPartition(preview, NewPart, NewFs,
                [Part(s) EXCEPT !.first = first, !.last = last, !.state = "Copy", !.flags = {}],
                LabelOf(preview, s)))

\* The same over an existing partition: the copy takes its place and its parent.
PushCopyOver == \E s, p \in PartIds :
    /\ Offers("CopyOverFrom", s) /\ Offers("Copy", p)
    /\ ~IsExtended(s) /\ ~IsExtended(p)
    /\ p # s
    /\ Length(s) <= Length(p)
    /\ Push(CopyOp(NewPart, s, p),
            WithPartition(preview, NewPart, NewFs,
                [Part(p) EXCEPT !.state = "Copy", !.flags = {}], LabelOf(preview, s)))

\* RestoreOperation::createRestorePartition() in unallocated space.
PushRestoreToFree == \E parent \in Parents, first, last \in Sectors :
    /\ <<"Restore", Unallocated>> \in Offered
    /\ IsFree(preview, parent, first, last, {})
    /\ Push(RestoreOp(NewPart, None),
            WithPartition(preview, NewPart, NewFs,
                [first |-> first, last |-> last, parent |-> parent,
                 role |-> IF parent = preview.table THEN "primary" ELSE "logical",
                 state |-> "Restore", flags |-> {}, fs |-> NewFs], None))

\* Restore over p: the constructor already removes p from the preview.
PushRestoreOver == \E p \in PartIds :
    /\ Offers("Restore", p)
    /\ ~IsExtended(p)
    /\ Push(RestoreOp(NewPart, p),
            WithPartition(RemovePreview(preview, p), NewPart, NewFs,
                [Part(p) EXCEPT !.state = "Restore", !.flags = {},
                                !.role = IF Part(p).parent = preview.table THEN "primary" ELSE "logical"],
                None))

PushFlags == \E p \in PartIds, f \in FlagSets :
    /\ Offers("Flags", p)
    /\ Push(FlagsOp(preview, p, f), preview)

PushLabel == \E p \in PartIds, l \in Labels :
    /\ Offers("Label", p)
    /\ ~IsExtended(p)
    /\ Push(LabelOp(preview, p, l), preview)

\* The new file system is a clone of the old one, its label included.
PushFormat == \E p \in PartIds :
    /\ Offers("Format", p)
    /\ ~IsExtended(p)
    /\ Push(FormatOp(preview, p, NewFs),
            [preview EXCEPT !.labels[NewFs] = LabelOf(preview, p)])

PushCheck == \E p \in PartIds :
    /\ Offers("Check", p)
    /\ ~IsExtended(p)
    /\ Push(CheckOp("Check", p), preview)

\* BackupOperation::canBackup()
PushBackup == \E p \in PartIds :
    /\ Offers("Backup", p)
    /\ Part(p).state = "None"
    /\ ~IsExtended(p)
    /\ Push(CheckOp("Backup", p), preview)

PushTable == /\ <<"Table", "Device">> \in Offered
             /\ Push(TableOp(preview, NewTable), preview)

Pop == /\ operations # <<>>
       /\ preview' = Popped(Last(operations), preview)
       /\ operations' = Front(operations)
       /\ UNCHANGED scanned

\* clearOperations()
Clear == /\ Len(operations) > 1
         /\ preview' = LET popped[k \in 0 .. Len(operations)] ==
                             IF k = Len(operations) THEN preview
                             ELSE Popped(operations[k + 1], popped[k + 1])
                       IN  popped[0]
         /\ operations' = <<>>
         /\ UNCHANGED scanned

Next == \/ PushNew \/ PushDelete \/ PushResize \/ PushCopyToFree \/ PushCopyOver
        \/ PushRestoreToFree \/ PushRestoreOver \/ PushFlags \/ PushLabel
        \/ PushFormat \/ PushCheck \/ PushBackup \/ PushTable \/ Pop \/ Clear

Spec == Init /\ [][Next]_vars

--------------------------------------------------------------------------------
(* Properties                                                              *)

\* The preview below each operation: Unwound[k] has operations k + 1 and above undone.
Unwound ==
    LET unwound[k \in 0 .. Len(operations)] ==
            IF k = Len(operations) THEN preview ELSE Undo(operations[k + 1], unwound[k + 1])
    IN  unwound

\* Partitions lie within their parents and apart from their siblings, and a partition
\* shown is an object that exists.
Consistent(pv) ==
    \A node \in {pv.table} \cup Visible(pv) : \A p \in pv.children[node] :
        /\ p \in pv.live
        /\ pv.parts[p].parent = node
        /\ IsFree(pv, node, pv.parts[p].first, pv.parts[p].last, {p})

\* Merging takes operations out of the middle of the stack and changes others: after
\* any pushes and pops the layout each remaining operation was pushed on is still
\* one a device can have (operationstack.cpp: push() and the merge functions).
EveryPrefixConsistent ==
    \A k \in 0 .. Len(operations) : Consistent(Unwound[k])

Layout(pv) ==
    <<pv.table, [p \in Visible(pv) |-> [pv.parts[p] EXCEPT !.state = "None"]]>>

\* Undoing what is on the stack leads back to what was scanned (operation.h: undo()),
\* whatever was merged.
UndoRestoresLayout == Layout(Unwound[0]) = Layout(scanned)

\* The partitions an operation works on are there when its turn comes, where it
\* expects them, and the one it creates is not: the operations can be executed in
\* the order of the stack.
Executable(op, pv) ==
    IF op.kind = "Table" THEN op.old = pv.table
    ELSE /\ op.part \in Visible(pv) <=> op.kind \notin Creating
         /\ op.kind = "Copy" => op.from \in Visible(pv)
         /\ op.kind \in {"Copy", "Restore"} /\ op.over # None =>
                op.over \in Visible(pv) /\ Extent(pv, op.part) = Extent(pv, op.over)
         /\ op.kind = "Resize" =>
                pv.parts[op.part].first = op.oldFirst /\ pv.parts[op.part].last = op.oldLast
         /\ op.kind = "Flags"  => pv.parts[op.part].flags = op.old
         /\ op.kind = "Format" => pv.parts[op.part].fs = op.old

RunsInOrder == \A i \in DOMAIN operations : Executable(operations[i], Unwound[i - 1])

\* A partition shown that is not on the disk yet is owned by exactly one pending
\* operation, which deletes it when it is undone (operation.h: "Operations own the
\* objects they deal with").
OwnedOnce ==
    \A p \in Visible(preview) :
        Cardinality({ i \in DOMAIN operations :
                        operations[i].kind \in Creating /\ operations[i].part = p })
          = IF preview.parts[p].state = "None" THEN 0 ELSE 1

\* No operation points to a partition that was deleted.
OperandsLive == \A i \in DOMAIN operations : Operands(operations[i]) \subseteq preview.live

================================================================================
