--------------------------- MODULE OperationStack_MC ---------------------------
(***************************************************************************)
(* Two devices of five sectors: one with a primary partition on 1 and an   *)
(* extended one on 2 to 4 that holds a logical partition on 3, and one     *)
(* with room for a new extended partition.  For longer stacks, a device of *)
(* two sectors with a partition on 1.                                      *)
(***************************************************************************)
EXTENDS OperationStack

MCPartIds  == 1 .. 8
MCFsIds    == 1 .. 8
MCTableIds == 11 .. 15
MCFlagSets == {{}, {"boot"}}

Blank == [first |-> 1, last |-> 1, role |-> "primary", parent |-> 11,
          state |-> "None", flags |-> {}, fs |-> 1]

\* The first device.
Logical ==
    [live     |-> {1, 2, 3},
     parts    |-> [p \in MCPartIds |->
                     CASE p = 2 -> [Blank EXCEPT !.first = 2, !.last = 4, !.role = "extended", !.fs = 2]
                       [] p = 3 -> [Blank EXCEPT !.first = 3, !.last = 3, !.role = "logical",
                                                 !.parent = 2, !.fs = 3]
                       [] OTHER -> Blank],
     labels   |-> [f \in MCFsIds |-> None],
     table    |-> 11,
     children |-> [n \in MCTableIds \cup MCPartIds |->
                     CASE n = 11 -> {1, 2} [] n = 2 -> {3} [] OTHER -> {}]]

\* The second device: a primary partition on 1 to 3.
Primary ==
    [Logical EXCEPT !.live = {1},
                    !.parts = [p \in MCPartIds |-> IF p = 1 THEN [Blank EXCEPT !.last = 3] ELSE Blank],
                    !.children = [n \in MCTableIds \cup MCPartIds |-> IF n = 11 THEN {1} ELSE {}]]

MCDevices   == {Logical, Primary}

\* Everything but copying a new partition over another one (section 5 of the README).
MCOffered ==
    ({"New", "Copy", "Restore"} \X {"Unallocated"})
    \cup ({"Copy", "Restore", "Delete", "CopyFrom", "Resize", "Label", "Check", "Format", "Flags", "Backup"} \X States)
    \cup ({"CopyOverFrom"} \X (States \ {"New"}))
    \cup {<<"Table", "Device">>}

\* The third device, what is offered on it, and what a front end offers that does not know the
\* stack's merges.
DeepDevices == {[Primary EXCEPT !.parts = [p \in MCPartIds |-> Blank]]}

DeepOffered ==
    ({"New", "Copy", "Restore"} \X {"Unallocated"})
    \cup ({"Copy", "Restore", "Delete", "CopyFrom", "Resize", "Flags"} \X States)
    \cup ({"CopyOverFrom"} \X (States \ {"New"}))
    \cup {<<"Table", "Device">>}

CopiesOffered == {<<"CopyFrom", "None">>, <<"Copy", "Unallocated">>, <<"Resize", "Copy">>, <<"Delete", "Copy">>}

OverOffered   == {<<"New", "Unallocated">>, <<"CopyOverFrom", "New">>, <<"Copy", "None">>}

\* Bound: a label that the undo left behind (section 5 of the README) is not built on once
\* the stack is empty; each such label doubles the states.
LabelsBound == operations = <<>> => preview.labels = scanned.labels

================================================================================
