------------------------------- MODULE Fstab -------------------------------
(***************************************************************************)
(* /etc/fstab: how a front end reads it, changes the mount point of one    *)
(* partition and has the helper write it (fstab.cpp, writeFstab() of the   *)
(* client, WriteFstab() of the helper).  A line is its number of fields,   *)
(* what it names, where that is mounted and whether it is swap space; a    *)
(* line without fields is a comment.  A line that is dropped leaves an     *)
(* empty one, which counts as a comment, so that a line keeps its place.   *)
(***************************************************************************)
EXTENDS Integers, SequencesExt, TLC

CONSTANTS Edited,     \* the partition whose mount point is edited
          Points,     \* mount points
          NoPoint,    \* "none", or no mount point at all
          Files,      \* what /etc/fstab may be at first
          MaxSaves    \* bound: how often the editor saves

Line(fields, spec, point, swap) == [fields |-> fields, spec |-> spec, point |-> point, swap |-> swap]

ASSUME FstabAssumption ==
    /\ NoPoint \notin Points /\ MaxSaves \in Nat
    /\ \A f \in Files : /\ f \in Seq(Range(f))
                         /\ \A i \in DOMAIN f : f[i] = Line(f[i].fields, f[i].spec, f[i].point, f[i].swap)
                                                /\ f[i].fields \in Nat /\ f[i].swap \in BOOLEAN

VARIABLES fstab,   \* the lines of the file
          editor,  \* [phase, entries, read]: the front end's list of entries and the file it is from
          saves    \* bound

fstabVars == <<fstab, editor, saves>>

IsComment(e) == e.fields = 0
Dropped      == Line(0, NoPoint, NoPoint, FALSE)

\* (mutant) Only a complete line is an entry, the dump frequency may not be left out.
EntryIfComplete(line) ==
    IF line.fields = 0 \/ line.fields >= 5 THEN line
    ELSE IF line.fields < 3 THEN Dropped ELSE [line EXCEPT !.fields = 0]

\* One line of the file as an entry: less than three fields are ignored; a line that has neither
\* four, five nor six of them becomes a comment.
Entry(line) ==
    IF line.fields = 0 \/ line.fields \in 4..6 THEN line
    ELSE IF line.fields < 3 THEN Dropped ELSE [line EXCEPT !.fields = 0]

readFstabEntries(file) == [i \in DOMAIN file |-> Entry(file[i])]

\* writeEntry(): "none" is only valid as mount point for swap partitions.
Written(e) ==
    IF IsComment(e) THEN e
    ELSE IF e.point = NoPoint /\ ~e.swap THEN Dropped ELSE [e EXCEPT !.fields = 6]

generateFstab(entries) == [i \in DOMAIN entries |-> Written(entries[i])]

possibleMountPoints(node) ==
    LET found == SelectSeq(readFstabEntries(fstab), LAMBDA e : ~IsComment(e) /\ e.spec = node)
    IN  [i \in DOMAIN found |-> found[i].point]

--------------------------------------------------------------------------------
FstabInit == /\ fstab \in Files
             /\ editor = [phase |-> "closed", entries |-> <<>>, read |-> <<>>]
             /\ saves = 0

OpenEditor == /\ editor.phase = "closed" /\ saves < MaxSaves
              /\ editor' = [phase |-> "open", entries |-> readFstabEntries(fstab), read |-> fstab]
              /\ UNCHANGED <<fstab, saves>>

\* setMountPoint() of the partition's entries, or a new entry at the end.
Edit == /\ editor.phase = "open"
        /\ \E point \in Points \cup {NoPoint} :
               LET all  == editor.entries
                   mine == {i \in DOMAIN all : ~IsComment(all[i]) /\ all[i].spec = Edited}
               IN  editor' = [editor EXCEPT
                       !.phase = "edited",
                       !.entries = IF mine = {} THEN Append(all, Line(6, Edited, point, FALSE))
                                   ELSE [i \in DOMAIN all |-> IF i \in mine THEN [all[i] EXCEPT !.point = point]
                                                              ELSE all[i]]]
        /\ UNCHANGED <<fstab, saves>>

\* writeMountpoints(): there is no bus, or the helper answers that it refuses the caller or cannot
\* open the file.
SaveRefused == /\ editor.phase = "edited"
               /\ editor' = [editor EXCEPT !.phase = "failed"]
               /\ UNCHANGED <<fstab, saves>>

\* Opening the file to write truncates it.
HelperOpens == /\ editor.phase = "edited"
               /\ fstab' = <<>>
               /\ editor' = [editor EXCEPT !.phase = "writing"]
               /\ UNCHANGED saves

HelperWrites == /\ editor.phase = "writing"
                /\ fstab' = generateFstab(editor.entries)
                /\ editor' = [editor EXCEPT !.phase = "saved"]
                /\ UNCHANGED saves

\* The disk is full: some of the lines are written and the caller is told.
HelperFails == /\ editor.phase = "writing"
               /\ \E n \in 0 .. Len(generateFstab(editor.entries)) - 1 :
                      fstab' = SubSeq(generateFstab(editor.entries), 1, n)
               /\ editor' = [editor EXCEPT !.phase = "failed"]
               /\ UNCHANGED saves

\* The call ends in an error: no helper was started, or it is lost with the file as it was or
\* truncated.  waitForDbusReply() logs that and returns true.
CallErrs == /\ editor.phase \in {"edited", "writing"}
            /\ editor' = [editor EXCEPT !.phase = "believed"]
            /\ UNCHANGED <<fstab, saves>>

CloseEditor == /\ editor.phase \in {"open", "saved", "believed", "failed"}
               /\ editor' = [phase |-> "closed", entries |-> <<>>, read |-> <<>>]
               /\ saves' = saves + 1
               /\ UNCHANGED fstab

FstabNext == \/ OpenEditor \/ Edit \/ SaveRefused \/ HelperOpens \/ HelperWrites \/ HelperFails
             \/ CallErrs \/ CloseEditor

--------------------------------------------------------------------------------
\* A line that kpmcore understands and that mounts something else than the edited partition.
Other(line) == line.fields \in 4..6 /\ line.spec # Edited /\ (line.point # NoPoint \/ line.swap)

\* Editing one partition's mount point keeps every other line that mounts something, in its place,
\* and adds none: what a save that the helper answered with success left in the file.
OthersKept ==
    editor.phase = "saved" =>
        /\ \A i \in DOMAIN editor.read : Other(editor.read[i]) =>
               i \in DOMAIN fstab /\ fstab[i] = [editor.read[i] EXCEPT !.fields = 6]
        /\ \A i \in DOMAIN fstab : Other(fstab[i]) => i \in DOMAIN editor.read /\ Other(editor.read[i])
==============================================================================
