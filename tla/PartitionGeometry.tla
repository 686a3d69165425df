-------------------------- MODULE PartitionGeometry --------------------------
(***************************************************************************)
(* The sectors of a disk: partitions, the unallocated space that the       *)
(* partition table shows between them (PartitionTable), and the widget     *)
(* with which a partition is created in such a space, resized or moved     *)
(* (PartResizerWidget), with or without alignment (PartitionAlignment).    *)
(***************************************************************************)
EXTENDS Integers, FiniteSetsExt, TLC

CONSTANTS Primaries, Logicals,  \* names of the partitions there may be
          Extended,             \* the name of the extended one
          None,                 \* no partition
          TotalSectors,         \* of the disk
          Alignment,            \* sectorAlignment()
          MinSectors,           \* what a partition's file system needs
          MaxSectors,           \* what a partition's file system can have
          AllowTight            \* bound: whether an edge is dragged where no aligned sector is left

ASSUME GeometryAssumption ==
    /\ None \notin Primaries \cup Logicals \cup {Extended} /\ Extended \notin Logicals
    /\ Alignment \in Nat \ {0} /\ TotalSectors \in Nat /\ TotalSectors > Alignment
    /\ MinSectors \in Nat \ {0} /\ MaxSectors \in Nat /\ AllowTight \in BOOLEAN

VARIABLES layout,  \* the partitions: name -> [first, last]
          dialog   \* the widget: [on, first, last, minFirst, maxLast, minLast, align, move]

geometryVars == <<layout, dialog>>

Stretch(f, l) == [first |-> f, last |-> l]
LengthOf(r)    == r.last - r.first + 1

FirstUsable == Alignment
LastUsable  == TotalSectors - 1

--------------------------------------------------------------------------------
(* PartitionTable: children, unallocated space                             *)

Present        == DOMAIN layout
Roots          == Present \ Logicals
Children(node) == IF node = None THEN Roots ELSE Present \cap Logicals
Start(node)    == IF node = None THEN FirstUsable ELSE layout[node].first
End(node)      == IF node = None THEN LastUsable ELSE layout[node].last

\* Where insertUnallocated() looks on after the children in front of sector s.
LastEnd(node, s) ==
    Max({Start(node)} \cup {layout[c].last + 1 : c \in {d \in Children(node) : layout[d].first < s}})

\* (mutant) No room is left for the metadata of the partition that follows.
UnallocatedRangeToTheEnd(node, r) ==
    IF node = None THEN r ELSE Stretch(r.first + Alignment, r.last)

\* getUnallocatedRange(): in an extended partition there is to be room for the metadata of a
\* new partition and of the one that follows.
UnallocatedRange(node, r) ==
    IF node = None THEN r
    ELSE Stretch(r.first + Alignment, IF r.last < End(node) THEN r.last - Alignment ELSE r.last)

\* (mutant) A range as long as an alignment unit is not shown.
UnallocatedIfLonger(node) ==
    LET gaps == {Stretch(LastEnd(node, layout[c].first), layout[c].first - 1) : c \in Children(node)}
                \cup {Stretch(LastEnd(node, End(node) + 1), End(node))}
    IN  {r \in {UnallocatedRange(node, g) : g \in gaps} : LengthOf(r) > Alignment}

\* insertUnallocated(): in front of each child and behind the last one.
Unallocated(node) ==
    LET gaps == {Stretch(LastEnd(node, layout[c].first), layout[c].first - 1) : c \in Children(node)}
                \cup {Stretch(LastEnd(node, End(node) + 1), End(node))}
    IN  {r \in {UnallocatedRange(node, g) : g \in gaps} : LengthOf(r) >= Alignment}

Parent(name) == IF name \in Logicals THEN Extended ELSE None

\* The unallocated neighbours of a partition, predecessor() and successor() in the sorted list.
Before(name) == {u \in Unallocated(Parent(name)) :
                    u.last < layout[name].first /\ u.first >= LastEnd(Parent(name), layout[name].first)}
After(name)  == {u \in Unallocated(Parent(name)) :
                    /\ u.first > layout[name].last
                    /\ \A c \in Children(Parent(name)) :
                           layout[c].first < u.first => layout[c].first <= layout[name].first}

\* freeSectorsBefore() and freeSectorsAfter() as the limits they are used for.
FirstFree(name) == Min({layout[name].first} \cup {u.first : u \in Before(name)})
LastFree(name)  == Max({layout[name].last} \cup {u.last : u \in After(name)})

--------------------------------------------------------------------------------
(* PartitionAlignment                                                      *)

firstDelta(s) == s % Alignment
lastDelta(s)  == (s + 1) % Alignment

\* The loops: whole steps up to a bound, whole steps down to a bound.
StepUp(s, low)    == IF s >= low THEN s ELSE s + Alignment * ((low - s + Alignment - 1) \div Alignment)
StepDown(s, high) == IF s <= high THEN s ELSE s - Alignment * ((s - high + Alignment - 1) \div Alignment)

alignedFirstSector(last, s, minFirst, minLength, maxLength) ==
    IF firstDelta(s) = 0 THEN s
    ELSE LET low  == Max({FirstUsable, minFirst} \cup IF maxLength > -1 THEN {last - maxLength + 1} ELSE {})
             high == Min({LastUsable, last - minLength + 1})
         IN  StepDown(StepUp(s - firstDelta(s), low), high)

\* "keep" says that the length was aligned and is to be retained.
alignedLastSector(first, s, minLast, maxLast, minLength, maxLength, keep) ==
    IF lastDelta(s) = 0 THEN s
    ELSE LET up   == s + Alignment - lastDelta(s)
             from == IF keep THEN up - Alignment ELSE up
             low  == Max({FirstUsable, minLast, first + minLength - 1})
             high == Min({LastUsable, maxLast} \cup IF maxLength > -1 THEN {first + maxLength - 1} ELSE {})
         IN  StepDown(StepUp(from, low), high)

--------------------------------------------------------------------------------
(* PartResizerWidget                                                       *)

Total     == dialog.maxLast - dialog.minFirst + 1
Bounded(s) == Max({0, Min({s, Total})})
MinLength == Bounded(MinSectors)
MaxLength == Bounded(MaxSectors)

MinimumFirstSector ==
    IF ~dialog.align \/ firstDelta(dialog.minFirst) = 0 THEN dialog.minFirst
    ELSE dialog.minFirst - firstDelta(dialog.minFirst) + Alignment
\* An end counts as aligned here when its delta is 1.
MinimumLastSector ==
    IF ~dialog.align \/ lastDelta(dialog.minLast) = 1 THEN dialog.minLast
    ELSE dialog.minLast - lastDelta(dialog.minLast) + 1 + Alignment
MaximumLastSector ==
    IF dialog.align THEN dialog.maxLast - lastDelta(dialog.maxLast) ELSE dialog.maxLast

\* updateFirstSector()
NewFirst(s) ==
    LET inside == IF MinimumFirstSector > 0 THEN Max({s, MinimumFirstSector}) ELSE s
        length == dialog.last - inside + 1
        long   == inside - Max({0, MinLength - length}) - Max({0, length - MaxLength})
    IN  IF dialog.align THEN alignedFirstSector(dialog.last, long, MinimumFirstSector, MinLength, MaxLength)
                        ELSE long

\* updateLastSector()
NewLast(s) ==
    LET above  == IF MinimumLastSector > -1 THEN Max({s, MinimumLastSector}) ELSE s
        inside == IF MaximumLastSector > 0 THEN Min({above, MaximumLastSector}) ELSE above
        length == inside - dialog.first + 1
        long   == inside + Max({0, MinLength - length}) - Max({0, length - MaxLength})
    IN  IF dialog.align
        THEN alignedLastSector(dialog.first, long, MinimumLastSector, MaximumLastSector, MinLength, MaxLength, FALSE)
        ELSE long

\* movePartition(): where the partition goes when its first sector is dragged to s.
MovedFirst(s) ==
    LET inside == IF MinimumFirstSector > 0 THEN Max({s, MinimumFirstSector}) ELSE s
    IN  IF dialog.align THEN alignedFirstSector(dialog.last, inside, MinimumFirstSector, -1, -1) ELSE inside
Moved(s) ==
    LET last  == dialog.last + (MovedFirst(s) - dialog.first)
        below == IF MinimumLastSector > -1 THEN Max({0, MinimumLastSector - last}) ELSE 0
        above == IF MaximumLastSector > 0 THEN Max({0, last + below - MaximumLastSector}) ELSE 0
        end   == last + below - above
    IN  Stretch(MovedFirst(s) + below - above,
              IF dialog.align
              THEN alignedLastSector(dialog.first, end, MinimumLastSector, MaximumLastSector, -1, -1,
                                     LengthOf(dialog) % Alignment = 0)
              ELSE end)

\* What movePartition() does not give up: checkConstraints(), alignment, an aligned length.
Acceptable(r) ==
    /\ r.last # dialog.last
    /\ LengthOf(dialog) % Alignment = 0 => LengthOf(r) = LengthOf(dialog)
    /\ dialog.minFirst = 0 \/ r.first >= dialog.minFirst
    /\ dialog.minLast = -1 \/ r.last >= dialog.minLast
    /\ dialog.maxLast = 0 \/ r.last <= dialog.maxLast
    /\ dialog.align => firstDelta(r.first) = 0 /\ lastDelta(r.last) = 0

--------------------------------------------------------------------------------
(* What a front end does                                                   *)

Closed == [on |-> None, first |-> 0, last |-> 0, minFirst |-> 0, maxLast |-> 0, minLast |-> -1,
           align |-> FALSE, move |-> FALSE]

\* minLastSector() is a limit for an extended partition.
Open(name, r, minFirst, maxLast, move) ==
    \E align \in BOOLEAN :
        dialog' = [on |-> name, first |-> r.first, last |-> r.last, minFirst |-> minFirst, maxLast |-> maxLast,
                   minLast |-> IF name = Extended /\ name \in Present /\ Children(name) # {}
                               THEN Max({layout[c].last : c \in Children(name)}) ELSE -1,
                   align |-> align, move |-> move]

GeometryInit == layout = [n \in {} |-> Stretch(0, 0)] /\ dialog = Closed

\* NewOperation::createNew(): at first the new partition is all of the unallocated space.
OpenNew == /\ dialog.on = None /\ UNCHANGED layout
           /\ \E name \in (Primaries \cup Logicals \cup {Extended}) \ Present :
                  /\ name \in Logicals => Extended \in Present
                  /\ \E u \in Unallocated(Parent(name)) : Open(name, u, u.first, u.last, TRUE)

\* ResizeOperation::canMove(): an extended partition with logical ones stays where it is.
OpenResize == /\ dialog.on = None /\ UNCHANGED layout
              /\ \E name \in Present :
                    Open(name, layout[name], FirstFree(name), LastFree(name),
                         name # Extended \/ Children(name) = {})

\* An aligned sector is left for the edge.
RoomForFirst == ~dialog.align \/ MinimumFirstSector + MinLength - 1 <= dialog.last
RoomForLast  == ~dialog.align \/ MaximumLastSector >= Max({dialog.first + MinLength - 1, MinimumLastSector})

DragFirst == \E s \in FirstUsable .. LastUsable :
                /\ dialog.on # None /\ dialog.move /\ (AllowTight \/ RoomForFirst)
                /\ dialog' = [dialog EXCEPT !.first = NewFirst(s)]
                /\ UNCHANGED layout

\* checkAlignment(): the end of an extended partition whose last child is no unallocated space
\* moves by an alignment unit at least.
CheckAlignment(delta) ==
    dialog.minLast = -1 \/ dialog.last - dialog.minLast - Alignment >= Alignment
    \/ delta >= Alignment \/ -delta >= Alignment

DragLast == \E s \in FirstUsable .. LastUsable :
               /\ dialog.on # None /\ (AllowTight \/ RoomForLast)
               /\ CheckAlignment(NewLast(s) - dialog.last)
               /\ dialog' = [dialog EXCEPT !.last = NewLast(s)]
               /\ UNCHANGED layout

DragAll == \E s \in FirstUsable .. LastUsable :
              /\ dialog.on # None /\ dialog.move
              /\ MovedFirst(s) # dialog.first /\ Acceptable(Moved(s))
              /\ dialog' = [dialog EXCEPT !.first = Moved(s).first, !.last = Moved(s).last]
              /\ UNCHANGED layout

\* The operation is pushed: its preview sets the sectors and updates the unallocated space.
AcceptSectors ==
    /\ dialog.on # None
    /\ layout' = [n \in Present \cup {dialog.on} |->
                     IF n = dialog.on THEN Stretch(dialog.first, dialog.last) ELSE layout[n]]
    /\ dialog' = Closed

Cancel == dialog.on # None /\ dialog' = Closed /\ UNCHANGED layout

Delete == /\ dialog.on = None /\ UNCHANGED dialog
          /\ \E name \in Present :
                 /\ name = Extended => Children(name) = {}
                 /\ layout' = [n \in Present \ {name} |-> layout[n]]

GeometryNext == \/ OpenNew \/ OpenResize \/ DragFirst \/ DragLast \/ DragAll
                \/ AcceptSectors \/ Cancel \/ Delete

GeometrySpec == GeometryInit /\ [][GeometryNext]_geometryVars

--------------------------------------------------------------------------------
(* Properties                                                              *)

SectorsOf(r) == r.first .. r.last

\* After any sequence of creating, resizing, moving and deleting, aligned or not: no two partitions
\* share a sector, all lie in the usable part of the disk, and logical ones lie in the extended
\* one, each with room for its metadata in front of it.
LayoutSound ==
    /\ \A n \in Present : /\ layout[n].first <= layout[n].last
                           /\ SectorsOf(layout[n]) \subseteq Start(Parent(n)) .. End(Parent(n))
    /\ \A node \in {None} \cup (Present \cap {Extended}) : \A m, n \in Children(node) :
           m # n => SectorsOf(layout[m]) \cap SectorsOf(layout[n]) = {}
    /\ \A n \in Present \cap Logicals :
           LET metadata == (layout[n].first - Alignment) .. (layout[n].first - 1)
           IN  /\ metadata \subseteq SectorsOf(layout[Extended])
               /\ \A m \in Present \cap Logicals : metadata \cap SectorsOf(layout[m]) = {}

\* The unallocated space is what is free, stretch by stretch, less the room for metadata on
\* either side in an extended partition, and stretches shorter than the alignment left out.
UnallocatedIsFree ==
    \A node \in {None} \cup (Present \cap {Extended}) :
        LET free == (Start(node) .. End(node)) \ UNION {SectorsOf(layout[c]) : c \in Children(node)}
            ends == {l \in free : l + 1 \notin free}
            StretchTo(l) == Stretch(Min({f \in free : f .. l \subseteq free}), l)
            Usable(l)  == IF node = None THEN StretchTo(l)
                          ELSE Stretch(StretchTo(l).first + Alignment, IF l = End(node) THEN l ELSE l - Alignment)
        IN  Unallocated(node) = {u \in {Usable(l) : l \in ends} : LengthOf(u) >= Alignment}

==============================================================================
