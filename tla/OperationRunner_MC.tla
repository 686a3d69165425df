--------------------------- MODULE OperationRunner_MC ---------------------------
(***************************************************************************)
(* A device of four sectors with a primary partition on 1 and an extended  *)
(* one on 2 and 3 that holds a logical partition on 2; for longer stacks,  *)
(* a device of two sectors with a partition on 1.                          *)
(***************************************************************************)
EXTENDS OperationRunner

MCPartIds  == 1 .. 7
MCFsIds    == 1 .. 7
MCTableIds == 11 .. 14
MCFlagSets == {{}}

Blank == [first |-> 1, last |-> 1, role |-> "primary", parent |-> 11,
          state |-> "None", flags |-> {}, fs |-> 1]

MCDevice ==
    [live     |-> {1, 2, 3},
     parts    |-> [p \in MCPartIds |->
                     CASE p = 2 -> [Blank EXCEPT !.first = 2, !.last = 3, !.role = "extended", !.fs = 2]
                       [] p = 3 -> [Blank EXCEPT !.first = 2, !.last = 2, !.role = "logical",
                                                 !.parent = 2, !.fs = 3]
                       [] OTHER -> Blank],
     labels   |-> [f \in MCFsIds |-> None],
     table    |-> 11,
     children |-> [n \in MCTableIds \cup MCPartIds |->
                     CASE n = 11 -> {1, 2} [] n = 2 -> {3} [] OTHER -> {}]]

MCDevices    == {MCDevice}
SmallDevices == {[MCDevice EXCEPT !.live = {1}, !.parts = [p \in MCPartIds |-> Blank],
                                  !.children = [n \in MCTableIds \cup MCPartIds |-> IF n = 11 THEN {1} ELSE {}]]}

\* Everything but labels, flags, checks and backups, which change no entry, and copying a new
\* partition over another one (section 5 of the README).
MCOffered ==
    ({"New", "Copy", "Restore"} \X {"Unallocated"})
    \cup ({"Copy", "Restore", "Delete", "CopyFrom", "Resize", "Format"} \X States)
    \cup ({"CopyOverFrom"} \X (States \ {"New"}))
    \cup {<<"Table", "Device">>}

RestoreOffered == {<<"Restore", "None">>, <<"Resize", "Restore">>}

================================================================================
