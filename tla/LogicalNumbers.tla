--------------------------- MODULE LogicalNumbers ---------------------------
(***************************************************************************)
(* Jobs address partitions by number, and the logical partitions of an     *)
(* msdos table are numbered from 5 on without a gap: deleting one changes  *)
(* the numbers of those behind it, on the disk and, in the preview, by     *)
(* adjustLogicalNumbers().  The preview is undone before a run and redone, *)
(* operation by operation, while sfdisk changes the disk.  The boot flag,  *)
(* which the disk has at most once, is set by number, too.                 *)
(***************************************************************************)
EXTENDS Integers, SequencesExt

CONSTANTS Primaries,  \* the primary partitions, with their numbers
          Logicals,   \* the logical partitions on the disk, in the order of their numbers
          Created,    \* partition objects that the user may create
          Copies,     \* partition objects that hold a copy
          None,
          MaxOps      \* bound on the length of the stack

VARIABLES shown,      \* the partitions in the preview
          number,     \* Partition::number() of each partition object
          place,      \* the entry of the table that an object stands for, or None
          flags,      \* the partition objects with the boot flag
          disk,       \* [primaries, chain, active]: the table on the disk
          operations, \* the stack, the top is the last element
          run         \* [phase, next, believed, was], see below

vars == <<shown, number, place, flags, disk, operations, run>>

Existing == DOMAIN Primaries \cup Range(Logicals)
Objects  == Existing \cup Created \cup Copies

ASSUME NumbersAssumption ==
    /\ \A p \in DOMAIN Primaries : Primaries[p] \in 1 .. 4
    /\ Logicals \in Seq(Range(Logicals)) /\ IsInjective(Primaries) /\ IsInjective(Logicals)
    /\ DOMAIN Primaries \cap Range(Logicals) = {} /\ Existing \cap (Created \cup Copies) = {}
    /\ None \notin Objects /\ MaxOps \in Nat

(* A run is idle, undoing, running, finished or failed.  "next" is the      *)
(* operation to undo or to execute, "believed" is set when sfdisk named a   *)
(* new partition that it did not write, and "was" has the active partition  *)
(* before the run.                                                          *)

EntryNumber(chain, entry) ==
    IF entry \in DOMAIN Primaries THEN Primaries[entry] ELSE 4 + CHOOSE i \in DOMAIN chain : chain[i] = entry

Init == /\ shown = Existing /\ place = [x \in Objects |-> IF x \in Existing THEN x ELSE None]
        /\ number = [x \in Objects |-> IF x \in Existing THEN EntryNumber(Logicals, x) ELSE -1]
        /\ \E active \in DOMAIN Primaries \cup {None} :
               /\ flags = {active} \ {None}
               /\ disk = [primaries |-> DOMAIN Primaries, chain |-> Logicals, active |-> active]
        /\ operations = <<>> /\ run = [phase |-> "idle", next |-> 1, believed |-> FALSE, was |-> None]

--------------------------------------------------------------------------------
(* Operations: preview and undo                                            *)

New(n)        == [kind |-> "New", part |-> n]
Delete(p)     == [kind |-> "Delete", part |-> p]
Resize(p)     == [kind |-> "Resize", part |-> p]
Copy(c, s, o) == [kind |-> "Copy", part |-> c, source |-> s, over |-> o]
Flags(p, old, new) == [kind |-> "Flags", part |-> p, old |-> old, new |-> new]

\* A preview is [shown, number, flags].
preview == [shown |-> shown, number |-> number, flags |-> flags]

adjustLogicalNumbers(pv, deleted, inserted) ==
    [pv EXCEPT !.number = [x \in Objects |->
        CASE x \in pv.shown \ DOMAIN Primaries /\ deleted > 4 /\ @[x] > deleted -> @[x] - 1
          [] x \in pv.shown \ DOMAIN Primaries /\ deleted <= 4 /\ inserted > 4 /\ @[x] >= inserted -> @[x] + 1
          [] OTHER -> @[x]]]

\* checkAdjustLogicalNumbers(): only when an extended partition is the parent.
checkAdjustLogicalNumbers(pv, p, undo) ==
    IF p \in DOMAIN Primaries THEN pv
    ELSE IF undo THEN adjustLogicalNumbers(pv, -1, pv.number[p]) ELSE adjustLogicalNumbers(pv, pv.number[p], -1)

SetFlags(pv, p, on) == [pv EXCEPT !.flags = IF on THEN @ \cup {p} ELSE @ \ {p}]

Preview(op, pv) ==
    CASE op.kind = "New"    -> [pv EXCEPT !.shown = @ \cup {op.part}]
      [] op.kind = "Delete" -> checkAdjustLogicalNumbers([pv EXCEPT !.shown = @ \ {op.part}], op.part, FALSE)
      [] op.kind = "Copy"   -> [pv EXCEPT !.shown = (@ \ {op.over}) \cup {op.part}]
      [] op.kind = "Flags"  -> SetFlags(pv, op.part, op.new)
      [] OTHER              -> pv

\* (mutant) The partition is inserted before the numbers are adjusted.
UndoInsertsFirst(op, pv) ==
    CASE op.kind = "New"    -> [pv EXCEPT !.shown = @ \ {op.part}]
      [] op.kind = "Delete" -> checkAdjustLogicalNumbers([pv EXCEPT !.shown = @ \cup {op.part}], op.part, TRUE)
      [] op.kind = "Copy"   -> [pv EXCEPT !.shown = (@ \ {op.part}) \cup ({op.over} \ {None})]
      [] op.kind = "Flags"  -> SetFlags(pv, op.part, op.old)
      [] OTHER              -> pv

\* (mutant) The flags stay as they were previewed.
UndoKeepsFlags(op, pv) ==
    CASE op.kind = "New"    -> [pv EXCEPT !.shown = @ \ {op.part}]
      [] op.kind = "Delete" -> LET adjusted == checkAdjustLogicalNumbers(pv, op.part, TRUE)
                               IN  [adjusted EXCEPT !.shown = @ \cup {op.part}]
      [] op.kind = "Copy"   -> [pv EXCEPT !.shown = (@ \ {op.part}) \cup ({op.over} \ {None})]
      [] OTHER              -> pv

Undo(op, pv) ==
    CASE op.kind = "New"    -> [pv EXCEPT !.shown = @ \ {op.part}]
      [] op.kind = "Delete" -> LET adjusted == checkAdjustLogicalNumbers(pv, op.part, TRUE)
                               IN  [adjusted EXCEPT !.shown = @ \cup {op.part}]
      [] op.kind = "Copy"   -> [pv EXCEPT !.shown = (@ \ {op.part}) \cup ({op.over} \ {None})]
      [] op.kind = "Flags"  -> SetFlags(pv, op.part, op.old)
      [] OTHER              -> pv

Show(pv) == shown' = pv.shown /\ number' = pv.number /\ flags' = pv.flags

--------------------------------------------------------------------------------
(* The stack                                                               *)

Editing == run.phase = "idle" /\ UNCHANGED <<place, disk, run>>
Used    == {operations[i].part : i \in DOMAIN operations}

AppendOp(ops, op, pv) == operations' = Append(ops, op) /\ Show(Preview(op, pv))

PushNew == /\ Editing /\ Len(operations) < MaxOps
           /\ \E n \in Created \ Used : AppendOp(operations, New(n), preview)

\* createCopy() gives the copy the path, and so the number, of its source.
PushCopy ==
    /\ Editing /\ Len(operations) < MaxOps
    /\ \E c \in Copies \ Used, s \in shown \cap Existing, o \in (shown \cap Range(Logicals)) \cup {None} :
           s # o /\ AppendOp(operations, Copy(c, s, o), [preview EXCEPT !.number[c] = number[s]])

PushResize == /\ Editing /\ Len(operations) < MaxOps
              /\ \E p \in shown \cap Existing : AppendOp(operations, Resize(p), preview)

PushDelete == /\ Editing /\ Len(operations) < MaxOps
              /\ \E p \in shown \cap Existing : AppendOp(operations, Delete(p), preview)

\* Deleting what was only to be created takes the New or Copy operation off the stack and undoes it,
\* wherever it is.  (After a copy over a partition the delete goes on with jobs that refer to the
\* freed copy: that is not modelled here.)
PushDeleteOfNew ==
    /\ Editing
    /\ \E i \in DOMAIN operations :
           /\ \/ operations[i].kind = "New"
              \/ operations[i].kind = "Copy" /\ operations[i].over = None
           /\ \A j \in DOMAIN operations : j # i => operations[j].part # operations[i].part
           /\ operations' = RemoveAt(operations, i)
           /\ Show(Undo(operations[i], preview))

\* A flags operation replaces the one of the same partition and takes over its old flags.
PushFlags ==
    /\ Editing
    /\ \E p \in shown \cap DOMAIN Primaries :
           LET op == Flags(p, p \in flags, p \notin flags)
               at == {i \in DOMAIN operations : operations[i].kind = "Flags" /\ operations[i].part = p}
           IN  IF at = {} THEN Len(operations) < MaxOps /\ AppendOp(operations, op, preview)
               ELSE LET i == CHOOSE i \in at : TRUE
                    IN  AppendOp(RemoveAt(operations, i), [op EXCEPT !.old = operations[i].old],
                                Undo(operations[i], preview))

Pop == /\ Editing /\ operations # <<>>
       /\ operations' = Front(operations) /\ Show(Undo(Last(operations), preview))

--------------------------------------------------------------------------------
(* The run                                                                 *)

\* Before the run all operations are undone, the last one first.
Start == /\ run.phase = "idle" /\ operations # <<>>
         /\ run' = [run EXCEPT !.phase = "undoing", !.next = Len(operations), !.was = disk.active]
         /\ UNCHANGED <<shown, number, flags, place, disk, operations>>

UndoNext == /\ run.phase = "undoing"
            /\ Show(Undo(operations[run.next], preview))
            /\ run' = IF run.next = 1 THEN [run EXCEPT !.phase = "running"] ELSE [run EXCEPT !.next = @ - 1]
            /\ UNCHANGED <<place, disk, operations>>

\* The entry that sfdisk finds under a number, or None.
EntryAt(n) == LET logical == {disk.chain[i] : i \in {k \in DOMAIN disk.chain : 4 + k = n}}
                  found   == {p \in disk.primaries : Primaries[p] = n} \cup logical
              IN  IF found = {} THEN None ELSE CHOOSE e \in found : TRUE

\* sfdisk --delete: the disk renumbers the logical partitions.
Without(entry) == [primaries |-> disk.primaries \ {entry},
                   chain |-> IF entry \in DOMAIN Primaries THEN disk.chain
                             ELSE RemoveAt(disk.chain, EntryNumber(disk.chain, entry) - 4),
                   active |-> IF disk.active = entry THEN None ELSE disk.active]

\* The operation is done, with or without success, and previewed; a failure ends the run.
Finished(ok, pv, believed) ==
    /\ Show(Preview(operations[run.next], pv))
    /\ run' = [run EXCEPT !.next = @ + 1, !.believed = @ \/ believed,
                          !.phase = IF ~ok THEN "failed" ELSE IF run.next = Len(operations) THEN "finished" ELSE @]
    /\ UNCHANGED operations
Executed(ok, pv) == Finished(ok, pv, FALSE)

Running(kind) == run.phase = "running" /\ operations[run.next].kind = kind

ExecuteDelete ==
    /\ Running("Delete")
    /\ LET entry == EntryAt(number[operations[run.next].part])
       IN  \/ entry # None /\ disk' = Without(entry) /\ Executed(TRUE, preview)
           \/ UNCHANGED disk /\ Executed(FALSE, preview)
    /\ UNCHANGED place

\* CreatePartitionJob: sfdisk --append names the number of the new partition, but may fail to write
\* the table: its exit code is not looked at.
CreateWith(p, ok) ==
    LET named == [preview EXCEPT !.number[p] = 5 + Len(disk.chain)]
    IN  \/ disk' = [disk EXCEPT !.chain = Append(@, p)] /\ place' = [place EXCEPT ![p] = p] /\ Executed(ok, named)
        \/ UNCHANGED <<disk, place>> /\ Finished(ok, named, TRUE)

\* The jobs after the creation may fail: the partition stays on the disk.
ExecuteNew == /\ Running("New")
              /\ \/ \E ok \in BOOLEAN : CreateWith(operations[run.next].part, ok)
                 \/ UNCHANGED <<place, disk>> /\ Executed(FALSE, preview)

\* A copy takes the path of what it overwrites, or is created.  If copying fails, what was created
\* is deleted again, as in the first case below, unless that fails, too.
ExecuteCopy ==
    /\ Running("Copy")
    /\ LET op == operations[run.next]
       IN  \/ UNCHANGED <<place, disk>> /\ Executed(FALSE, preview)
           \/ op.over = None /\ \E ok \in BOOLEAN : CreateWith(op.part, ok)
           \/ /\ op.over # None /\ UNCHANGED disk
              /\ place' = [place EXCEPT ![op.part] = place[op.over]]
              /\ \E ok \in BOOLEAN : Executed(ok, [preview EXCEPT !.number[op.part] = number[op.over]])

\* sfdisk -N: the geometry of the entry with the partition's number.
ExecuteResize == /\ Running("Resize") /\ UNCHANGED <<place, disk>>
                 /\ \E ok \in BOOLEAN : /\ ok => EntryAt(number[operations[run.next].part]) # None
                                        /\ Executed(ok, preview)

\* setFlag(): one partition is activated, or none.
setFlag(p, on) == [disk EXCEPT !.active = IF on THEN EntryAt(number[p]) ELSE None]

\* SetPartFlagsJob sets what differs from the object's flags.
ExecuteFlags ==
    /\ Running("Flags") /\ UNCHANGED place
    /\ LET op == operations[run.next]
       IN  \/ disk' = (IF (op.part \in flags) = op.new THEN disk ELSE setFlag(op.part, op.new)) /\ Executed(TRUE, preview)
           \/ UNCHANGED disk /\ Executed(FALSE, preview)

\* The front end shows the result and scans the devices anew.
Rescan == run.phase \in {"finished", "failed"} /\ UNCHANGED vars

Next == \/ PushNew \/ PushCopy \/ PushResize \/ PushDelete \/ PushDeleteOfNew \/ PushFlags \/ Pop
        \/ Start \/ UndoNext \/ ExecuteDelete \/ ExecuteNew \/ ExecuteCopy \/ ExecuteResize \/ ExecuteFlags \/ Rescan

Spec == Init /\ [][Next]_vars

--------------------------------------------------------------------------------
(* Properties                                                              *)

\* The logical partitions that the operations in the preview delete.
Deleted == LET count == CASE run.phase = "idle"    -> Len(operations)
                          [] run.phase = "undoing" -> run.next
                          [] OTHER                 -> 0
           IN  {e \in Range(disk.chain) : \E i \in 1 .. count : operations[i] = Delete(e)}

\* The number of an entry once those are gone.
Predicted(entry) ==
    LET at   == EntryNumber(disk.chain, entry)
        gone == {i \in DOMAIN disk.chain : 4 + i < at /\ disk.chain[i] \in Deleted}
    IN  IF entry \in DOMAIN Primaries THEN at ELSE at - Cardinality(gone)

(* "We have to adjust to that so the next Job still finds the Partition it wants to deal with":     *)
(* before the run a partition is shown with the number it will have, and during the run, between    *)
(* any two operations, each partition object has the number of its own entry in the table, so that  *)
(* sfdisk deletes, resizes or flags no other one.  Only a creation that sfdisk announced and did    *)
(* not write breaks this.                                                                           *)
NumbersTell == run.phase # "failed" /\ ~run.believed =>
                   \A x \in shown : place[x] # None => number[x] = Predicted(place[x])

(* When a run finished, the partition that was to be activated last is the active one, if it was    *)
(* not before: SetPartFlagsJob compares with the flags of the object, which must be those before    *)
(* the preview by then.  (One that was active before the run and to which the user gave the flag    *)
(* back is not set again, though another operation may have activated another partition.)           *)
ActivatedIsActive ==
    run.phase = "finished" /\ ~run.believed =>
        \A i \in DOMAIN operations :
            /\ operations[i].kind = "Flags" /\ operations[i].new
            /\ run.was # operations[i].part /\ operations[i].part \in shown
            /\ \A j \in i + 1 .. Len(operations) : operations[j].kind # "Flags"
            => disk.active = operations[i].part
==============================================================================
