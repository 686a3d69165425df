---------------------------- MODULE Volumes_proofs ----------------------------
(***************************************************************************)
(* Proofs about volume groups: for any physical and logical volumes and    *)
(* any number of operations, however many of them are pushed, popped,      *)
(* undone and executed, a created group keeps its members, undoing leads   *)
(* back to the scan, and a success is one.                                 *)
(***************************************************************************)
EXTENDS Volumes, FiniteSetTheorems, SequenceTheorems, TLAPS

--------------------------------------------------------------------------------
(* The invariant                                                           *)

Sequence(s) == \E S : s \in Seq(S)
IsTable(t)  == t = [n \in DOMAIN t |-> t[n]]

Names == {"resizeVG", "createVG", "removeVG", "deactivateVG", "newLV", "deleteLV", "deletePV"}

Empties(o) == o.name \in {"removeVG", "deactivateVG"}
Claims(o)  == o.name \in {"createVG", "deletePV"}

\* The group's table after the preview of an operation that finds the table t.
TableAfter(o, t) ==
    IF Empties(o) THEN NoVolumes
    ELSE IF o.name = "newLV" THEN With(t, o.lv, o.length)
    ELSE IF o.name = "deleteLV" THEN Without(t, o.lv) ELSE t

\* The table that operation i was pushed on, by the operations below.
Found(i) == IF i = 1 THEN volumes ELSE TableAfter(ops[i - 1], ops[i - 1].table)

Types ==
    /\ Sequence(ops) /\ Sequence(todo) /\ Len(ops) \in Nat /\ DOMAIN ops = 1 .. Len(ops)
    /\ phase \in {"pending", "undoing", "executing", "success", "error"}
    /\ unallocated \in BOOLEAN
    /\ scanned.group \subseteq PVs
    /\ \A i \in DOMAIN ops :
           ops[i].name \in Names /\ ops[i].unallocated \in BOOLEAN /\ ops[i].pvs \subseteq PVs
    /\ phase = "undoing" => next \in 1 .. Len(ops)
    /\ phase = "executing" => next \in 1 .. Len(ops)

\* No two operations have the same volume.
Apart ==
    \A i, j \in DOMAIN ops : i # j =>
        /\ Claims(ops[i]) /\ Claims(ops[j]) => ops[i].pvs \cap ops[j].pvs = {}
        /\ ops[i].name \in {"newLV", "deleteLV"} /\ ops[j].name \in {"newLV", "deleteLV"} => ops[i].lv # ops[j].lv

\* Each operation remembers the table that it was pushed on.
Remembered ==
    phase \in {"pending", "undoing"} =>
        \A i \in DOMAIN ops :
            /\ ops[i].table = Found(i) /\ IsTable(ops[i].table)
            /\ ops[i].name = "newLV" => ops[i].lv \notin DOMAIN ops[i].table
            /\ ops[i].name = "deleteLV" => ops[i].lv \in DOMAIN ops[i].table /\ ops[i].length = ops[i].table[ops[i].lv]

\* Nothing was done before the run.
Untouched ==
    phase \in {"pending", "undoing"} =>
        /\ group = scanned.group /\ other = {} /\ IsTable(volumes) /\ IsTable(table)
        /\ LET i == IF phase = "pending" THEN Len(ops) ELSE next
           IN  table = IF i = 0 THEN volumes ELSE TableAfter(ops[i], ops[i].table)

\* The lists and the table's free space are what the pending operations made of them.
Listed ==
    phase = "pending" =>
        /\ dirty = UNION {ops[i].pvs : i \in {j \in DOMAIN ops : ops[j].name = "createVG"}}
        /\ orphans \subseteq scanned.group
        /\ orphans # {} => \E i \in DOMAIN ops : ops[i].name = "removeVG"
        /\ ~unallocated => \E i \in DOMAIN ops : Empties(ops[i])
        /\ \A i \in DOMAIN ops : ~ops[i].unallocated => \E j \in 1 .. i - 1 : Empties(ops[j])

\* What is left to do belongs to the operation that is executed.
Belongs(c, o) ==
    /\ c.does \in {"vgextend", "pvmove", "vgreduce"} => o.name = "resizeVG"
    /\ c.does = "vgextend" => c.pvs \subseteq o.pvs
    /\ c.does = "vgreduce" => c.pvs \cap o.pvs = {}
    /\ c.does = "vgcreate" => o.name = "createVG" /\ c.pvs = o.pvs
    /\ c.does \in {"deactivate", "vgremove"} => o.name = "removeVG"
    /\ c.does \in {"lvchange", "vgchange"} => o.name = "deactivateVG"
    /\ c.does = "lvcreate" => o.name = "newLV" /\ c.lv = o.lv /\ c.length = o.length
    /\ c.does = "lvremove" => o.name = "deleteLV" /\ c.lv = o.lv
    /\ c.does = "pvremove" => o.name = "deletePV" /\ c.pvs = o.pvs

Closing(o) ==
    CASE o.name = "createVG" -> "vgcreate" [] o.name = "removeVG" -> "vgremove"
      [] o.name = "newLV" -> "lvcreate" [] o.name = "deleteLV" -> "lvremove" [] OTHER -> "none"

Assigned(commands, o) ==
    /\ \A k \in DOMAIN commands : Belongs(commands[k], o)
    /\ commands # << >> /\ o.name \in {"createVG", "removeVG", "newLV", "deleteLV"} =>
           /\ commands[Len(commands)].does = Closing(o)
           /\ \A k \in 1 .. Len(commands) - 1 : commands[k].does # Closing(o)

LeftToDo == phase = "executing" => Assigned(todo, ops[next])

\* The operations that have done what they are for, and what that was.
Completed(i) == \/ phase = "success"
                \/ phase = "executing" /\ (i < next \/ (i = next /\ todo = << >>))
Done(o) == /\ o.name = "createVG" => o.pvs \subseteq other
           /\ o.name = "removeVG" => group = {} /\ volumes = NoVolumes
           /\ o.name = "deleteLV" => o.lv \notin DOMAIN volumes
AllDone == \A i \in DOMAIN ops : Completed(i) => Done(ops[i])

\* Only physical volumes of created groups are in one.
Created == /\ other \subseteq UNION {ops[i].pvs : i \in {j \in DOMAIN ops : ops[j].name = "createVG"}}
           /\ other \subseteq pvs

\* The table in a run without a deactivation.
Shown ==
    Pending("deactivateVG") = {} =>
        /\ phase = "success" => table = volumes
        /\ phase = "executing" => volumes = IF todo = << >> THEN TableAfter(ops[next], table) ELSE table

\* What is left to add to the group and to take from it.
Left(does, commands) ==
    UNION {commands[k].pvs : k \in {l \in DOMAIN commands : commands[l].does = does}}

\* The group's members in a run with one resize.
Members ==
    \A i \in Pending("resizeVG") : Pending("resizeVG") = {i} /\ Pending("removeVG") = {} =>
        /\ phase = "success" => group = ops[i].pvs
        /\ phase = "executing" =>
               /\ next < i => group = scanned.group
               /\ next > i => group = ops[i].pvs
               /\ next = i => (group \cup Left("vgextend", todo)) \ Left("vgreduce", todo) = ops[i].pvs

\* What the objects show when all operations after the n-th are undone.
UpTo(n) ==
    /\ dirty = UNION {ops[i].pvs : i \in {j \in 1 .. n : ops[j].name = "createVG"}}
    /\ orphans \subseteq scanned.group
    /\ orphans # {} => \E i \in 1 .. n : ops[i].name = "removeVG"
    /\ ~unallocated => \E i \in 1 .. n : Empties(ops[i])

TotalUpTo(n) == total \in {ScannedTotal, UndoneTotal} \/ \E i \in 1 .. n : ops[i].name = "resizeVG"

\* While the runner undoes the operations, they show what those that are left have done.
UndoInv ==
    /\ phase = "pending" => TotalUpTo(Len(ops))
    /\ phase = "undoing" =>
          /\ UpTo(next) /\ TotalUpTo(next)
          /\ \A i \in DOMAIN ops : ~ops[i].unallocated => \E j \in 1 .. i - 1 : Empties(ops[j])

IInv == /\ Types /\ Apart /\ Remembered /\ Untouched /\ Listed
        /\ LeftToDo /\ AllDone /\ Created /\ Shown /\ Members

--------------------------------------------------------------------------------
(* Tables and sequences                                                    *)

\* A logical volume that is added and taken away again leaves the table as it was.
LEMMA WithWithout ==
    ASSUME NEW t, IsTable(t), NEW n, n \notin DOMAIN t, NEW length
    PROVE  Without(With(t, n, length), n) = t
<1> DEFINE w == With(t, n, length)
<1>1. DOMAIN w = DOMAIN t \cup {n} /\ \A m \in DOMAIN t : w[m] = t[m] BY DEF With
<1> HIDE DEF w
<1>2. DOMAIN w \ {n} = DOMAIN t BY <1>1
<1>3. [m \in DOMAIN w \ {n} |-> w[m]] = [m \in DOMAIN t |-> t[m]] BY <1>1, <1>2
<1>4. Without(w, n) = [m \in DOMAIN w \ {n} |-> w[m]] BY DEF Without, Restrict
<1> QED BY <1>3, <1>4 DEF IsTable, w

\* So does one that is deleted and restored with its length.
LEMMA WithoutWith ==
    ASSUME NEW t, IsTable(t), NEW n \in DOMAIN t
    PROVE  With(Without(t, n), n, t[n]) = t
<1> DEFINE w == Without(t, n)
<1>1. DOMAIN w = DOMAIN t \ {n} /\ \A m \in DOMAIN t \ {n} : w[m] = t[m] BY DEF Without, Restrict
<1> HIDE DEF w
<1>2. DOMAIN w \cup {n} = DOMAIN t BY <1>1
<1>3. \A m \in DOMAIN t : (IF m \in DOMAIN w THEN w[m] ELSE t[n]) = t[m] BY <1>1
<1>4. [m \in DOMAIN w \cup {n} |-> IF m \in DOMAIN w THEN w[m] ELSE t[n]] = [m \in DOMAIN t |-> t[m]] BY <1>2, <1>3
<1>5. With(w, n, t[n]) = [m \in DOMAIN w \cup {n} |-> IF m \in DOMAIN w THEN w[m] ELSE t[n]] BY DEF With
<1> QED BY <1>4, <1>5 DEF IsTable, w

\* Deleting a logical volume twice is deleting it once.
LEMMA WithoutTwice ==
    ASSUME NEW t, NEW n
    PROVE  Without(Without(t, n), n) = Without(t, n) /\ n \notin DOMAIN Without(t, n)
<1> DEFINE w == Without(t, n)
<1>1. w = [m \in DOMAIN t \ {n} |-> t[m]] BY DEF Without, Restrict
<1>2. DOMAIN w = DOMAIN t \ {n} /\ \A m \in DOMAIN t \ {n} : w[m] = t[m] BY <1>1
<1> HIDE DEF w
<1>3. DOMAIN w \ {n} = DOMAIN t \ {n} BY <1>2
<1>4. [m \in DOMAIN w \ {n} |-> w[m]] = [m \in DOMAIN t \ {n} |-> t[m]] BY <1>2, <1>3
<1>5. Without(w, n) = [m \in DOMAIN w \ {n} |-> w[m]] BY DEF Without, Restrict
<1> QED BY <1>1, <1>2, <1>4, <1>5 DEF w

\* What the preview of an operation makes of the table can be undone.
LEMMA Undone ==
    ASSUME NEW o, IsTable(o.table), table = TableAfter(o, o.table), Undo(o),
           o.name = "newLV" => o.lv \notin DOMAIN o.table,
           o.name = "deleteLV" => o.lv \in DOMAIN o.table /\ o.length = o.table[o.lv]
    PROVE  table' = o.table
<1>1. CASE Empties(o) BY <1>1 DEF Undo, Empties
<1>2. CASE o.name = "newLV"
  <2>1. table' = Without(table, o.lv) BY <1>2 DEF Undo
  <2>2. table = With(o.table, o.lv, o.length) BY <1>2 DEF TableAfter, Empties
  <2> QED BY <1>2, <2>1, <2>2, WithWithout
<1>3. CASE o.name = "deleteLV"
  <2>1. table' = With(table, o.lv, o.length) BY <1>3 DEF Undo
  <2>2. table = Without(o.table, o.lv) BY <1>3 DEF TableAfter, Empties
  <2> QED BY <1>3, <2>1, <2>2, WithoutWith
<1>4. CASE ~Empties(o) /\ o.name # "newLV" /\ o.name # "deleteLV" BY <1>4 DEF Undo, Empties, TableAfter
<1> QED BY <1>1, <1>2, <1>3, <1>4

\* What the preview does.
LEMMA Previewed ==
    ASSUME NEW o, Preview(o), unallocated \in BOOLEAN
    PROVE  /\ table' = TableAfter(o, table) /\ unallocated' \in BOOLEAN
           /\ ~unallocated' => Empties(o) \/ ~unallocated
           /\ dirty' = IF o.name = "createVG" THEN dirty \cup o.pvs ELSE dirty
           /\ orphans' = IF o.name = "removeVG" THEN orphans \cup scanned.group ELSE orphans
<1>1. table' = TableAfter(o, table) BY DEF Preview, TableAfter, Empties
<1>2. unallocated' \in BOOLEAN BY DEF Preview
<1>3. ~unallocated' => Empties(o) \/ ~unallocated
  BY DEF Preview, Empties
<1> QED BY <1>1, <1>2, <1>3 DEF Preview

\* The elements of a sequence that loses its last.
LEMMA Shorter ==
    ASSUME NEW s, Sequence(s), s # << >>
    PROVE  /\ Sequence(Front(s)) /\ Len(s) \in Nat /\ Len(s) >= 1 /\ Len(Front(s)) = Len(s) - 1
           /\ DOMAIN s = 1 .. Len(s) /\ DOMAIN Front(s) = 1 .. Len(s) - 1
           /\ Last(s) = s[Len(s)] /\ \A i \in 1 .. Len(s) - 1 : Front(s)[i] = s[i]
<1>1. PICK S : s \in Seq(S) BY DEF Sequence
<1>2. Len(s) \in Nat /\ Len(s) >= 1 /\ DOMAIN s = 1 .. Len(s) BY <1>1
<1>3. Front(s) = SubSeq(s, 1, Len(s) - 1) BY DEF Front
<1>4. SubSeq(s, 1, Len(s) - 1) \in Seq(S) /\ Len(SubSeq(s, 1, Len(s) - 1)) = Len(s) - 1
      /\ \A i \in 1 .. Len(s) - 1 : SubSeq(s, 1, Len(s) - 1)[i] = s[i]
  BY <1>1, <1>2
<1>5. Last(s) = s[Len(s)] BY DEF Last
<1> DEFINE f == Front(s)
<1>6. f \in Seq(S) /\ Len(f) = Len(s) - 1 /\ \A i \in 1 .. Len(s) - 1 : f[i] = s[i] BY <1>3, <1>4
<1> HIDE DEF f
<1>7. DOMAIN f = 1 .. Len(s) - 1 BY <1>6
<1> QED BY <1>2, <1>5, <1>6, <1>7 DEF Sequence, f

\* The elements of a sequence that loses its first.
LEMMA Rest ==
    ASSUME NEW s, Sequence(s), s # << >>
    PROVE  /\ Sequence(Tail(s)) /\ Len(s) \in Nat /\ Len(s) >= 1 /\ Len(Tail(s)) = Len(s) - 1
           /\ DOMAIN s = 1 .. Len(s) /\ DOMAIN Tail(s) = 1 .. Len(s) - 1
           /\ Head(s) = s[1] /\ \A i \in 1 .. Len(s) - 1 : Tail(s)[i] = s[i + 1]
           /\ Tail(s) = << >> <=> Len(s) = 1
<1>1. PICK S : s \in Seq(S) BY DEF Sequence
<1>2. Len(s) \in Nat /\ Len(s) >= 1 /\ DOMAIN s = 1 .. Len(s) /\ Head(s) = s[1] BY <1>1
<1>3. Tail(s) \in Seq(S) /\ Len(Tail(s)) = Len(s) - 1 /\ \A i \in 1 .. Len(s) - 1 : Tail(s)[i] = s[i + 1]
  BY <1>1, <1>2
<1>4. Tail(s) = << >> <=> Len(Tail(s)) = 0 BY <1>3, EmptySeq
<1> QED BY <1>2, <1>3, <1>4 DEF Sequence

\* The elements of two sequences behind one another.
LEMMA Joined ==
    ASSUME NEW s, Sequence(s), NEW t, Sequence(t)
    PROVE  /\ Sequence(s \o t) /\ Len(s) \in Nat /\ Len(t) \in Nat /\ Len(s \o t) = Len(s) + Len(t)
           /\ DOMAIN s = 1 .. Len(s) /\ DOMAIN t = 1 .. Len(t) /\ DOMAIN (s \o t) = 1 .. Len(s) + Len(t)
           /\ \A i \in 1 .. Len(s) : (s \o t)[i] = s[i]
           /\ \A i \in 1 .. Len(t) : (s \o t)[Len(s) + i] = t[i]
<1>1. PICK S : s \in Seq(S) BY DEF Sequence
<1>2. PICK T : t \in Seq(T) BY DEF Sequence
<1> DEFINE U == S \cup T
           j == s \o t
<1>0. j = s \o t OBVIOUS
<1>3. s \in Seq(U) /\ t \in Seq(U) BY <1>1, <1>2
<1> HIDE DEF U, j
<1>4. /\ j \in Seq(U) /\ Len(j) = Len(s) + Len(t)
      /\ \A i \in 1 .. Len(s) + Len(t) : j[i] = IF i <= Len(s) THEN s[i] ELSE t[i - Len(s)]
  BY ONLY <1>3, <1>0, ConcatProperties
<1>5. Len(s) \in Nat /\ Len(t) \in Nat /\ DOMAIN s = 1 .. Len(s) /\ DOMAIN t = 1 .. Len(t) /\ DOMAIN j = 1 .. Len(s) + Len(t)
  BY <1>3, <1>4
<1>6. ASSUME NEW i \in 1 .. Len(s) PROVE j[i] = s[i] BY <1>4, <1>5
<1>7. ASSUME NEW i \in 1 .. Len(t) PROVE j[Len(s) + i] = t[i]
  <2>1. Len(s) + i \in 1 .. Len(s) + Len(t) /\ ~(Len(s) + i <= Len(s)) /\ Len(s) + i - Len(s) = i BY <1>5
  <2> QED BY <1>4, <2>1
<1> QED BY <1>4, <1>5, <1>6, <1>7 DEF Sequence, j

\* What is left of two parts.
LEMMA LeftJoined ==
    ASSUME NEW s, Sequence(s), NEW t, Sequence(t), NEW does
    PROVE  Left(does, s \o t) = Left(does, s) \cup Left(does, t)
<1> DEFINE j == s \o t
<1>1. /\ Len(s) \in Nat /\ Len(t) \in Nat
      /\ DOMAIN s = 1 .. Len(s) /\ DOMAIN t = 1 .. Len(t) /\ DOMAIN j = 1 .. Len(s) + Len(t)
      /\ \A i \in 1 .. Len(s) : j[i] = s[i]
      /\ \A i \in 1 .. Len(t) : j[Len(s) + i] = t[i]
  BY Joined
<1> HIDE DEF j
<1>2. \A i \in 1 .. Len(s) : i \in 1 .. Len(s) + Len(t) BY <1>1
<1>3. \A i \in 1 .. Len(t) : Len(s) + i \in 1 .. Len(s) + Len(t) BY <1>1
<1>4. \A i \in 1 .. Len(s) + Len(t) : i \in 1 .. Len(s) \/ \E k \in 1 .. Len(t) : i = Len(s) + k
  <2>1. ASSUME NEW i \in 1 .. Len(s) + Len(t), i \notin 1 .. Len(s) PROVE \E k \in 1 .. Len(t) : i = Len(s) + k
    <3>1. i - Len(s) \in 1 .. Len(t) /\ i = Len(s) + (i - Len(s)) BY <1>1, <2>1
    <3> QED BY <3>1
  <2> QED BY <2>1
<1>5. ASSUME NEW p \in Left(does, j) PROVE p \in Left(does, s) \cup Left(does, t)
  <2>1. PICK i \in DOMAIN j : j[i].does = does /\ p \in j[i].pvs BY DEF Left
  <2>2. CASE i \in 1 .. Len(s) BY <1>1, <2>1, <2>2 DEF Left
  <2>3. CASE \E k \in 1 .. Len(t) : i = Len(s) + k BY <1>1, <2>1, <2>3 DEF Left
  <2> QED BY <1>1, <1>4, <2>2, <2>3
<1>6. ASSUME NEW p \in Left(does, s) PROVE p \in Left(does, j)
  <2>1. PICK i \in DOMAIN s : s[i].does = does /\ p \in s[i].pvs BY DEF Left
  <2> QED BY <1>1, <1>2, <2>1 DEF Left
<1>7. ASSUME NEW p \in Left(does, t) PROVE p \in Left(does, j)
  <2>1. PICK i \in DOMAIN t : t[i].does = does /\ p \in t[i].pvs BY DEF Left
  <2>2. Len(s) + i \in DOMAIN j /\ j[Len(s) + i] = t[i] BY <1>1, <1>3, <2>1
  <2> QED BY <2>1, <2>2 DEF Left
<1> QED BY <1>5, <1>6, <1>7 DEF j

\* A command takes its physical volumes from what is left.
LEMMA LeftRest ==
    ASSUME NEW s, Sequence(s), s # << >>, NEW does
    PROVE  Left(does, s) = Left(does, Tail(s)) \cup (IF Head(s).does = does THEN Head(s).pvs ELSE {})
<1> DEFINE r == Tail(s)
           h == Head(s)
<1>1. /\ Len(s) \in Nat /\ Len(s) >= 1 /\ DOMAIN s = 1 .. Len(s) /\ DOMAIN r = 1 .. Len(s) - 1
      /\ h = s[1] /\ \A i \in 1 .. Len(s) - 1 : r[i] = s[i + 1]
  BY Rest
<1> HIDE DEF r, h
<1>2. 1 \in DOMAIN s /\ \A i \in 1 .. Len(s) - 1 : i + 1 \in DOMAIN s BY <1>1
<1>3. \A i \in DOMAIN s : i = 1 \/ \E k \in 1 .. Len(s) - 1 : i = k + 1
  <2>1. ASSUME NEW i \in DOMAIN s, i # 1 PROVE \E k \in 1 .. Len(s) - 1 : i = k + 1
    <3>1. i - 1 \in 1 .. Len(s) - 1 /\ i = (i - 1) + 1 BY <1>1, <2>1
    <3> QED BY <3>1
  <2> QED BY <2>1
<1>4. ASSUME NEW p \in Left(does, s) PROVE p \in Left(does, r) \/ (h.does = does /\ p \in h.pvs)
  <2>1. PICK i \in DOMAIN s : s[i].does = does /\ p \in s[i].pvs BY DEF Left
  <2>2. CASE i = 1 BY <1>1, <2>1, <2>2
  <2>3. CASE \E k \in 1 .. Len(s) - 1 : i = k + 1
    <3>1. PICK k \in 1 .. Len(s) - 1 : i = k + 1 BY <2>3
    <3>2. k \in DOMAIN r /\ r[k] = s[i] BY <1>1, <3>1
    <3> QED BY <2>1, <3>2 DEF Left
  <2> QED BY <1>3, <2>2, <2>3
<1>5. ASSUME NEW p \in Left(does, r) PROVE p \in Left(does, s)
  <2>1. PICK i \in DOMAIN r : r[i].does = does /\ p \in r[i].pvs BY DEF Left
  <2>2. i + 1 \in DOMAIN s /\ s[i + 1] = r[i] BY <1>1, <1>2, <2>1
  <2> QED BY <2>1, <2>2 DEF Left
<1>6. h.does = does => h.pvs \subseteq Left(does, s) BY <1>1, <1>2 DEF Left
<1> QED BY <1>4, <1>5, <1>6 DEF r, h

\* Nothing is left when there is no command.
LEMMA LeftNothing == ASSUME NEW does PROVE Left(does, << >>) = {}
BY DEF Left

\* The commands of a job that goes through a set of physical volumes.
LEMMA OneByOne ==
    ASSUME NEW S, IsFiniteSet(S), NEW does, NEW l, l = Commands(does, S)
    PROVE  /\ Sequence(l) /\ (l = << >> <=> S = {})
           /\ \A k \in DOMAIN l : l[k].does = does /\ l[k].pvs \subseteq S
           /\ \A e : Left(e, l) = IF e = does THEN S ELSE {}
<1> DEFINE n == Cardinality(S)
           f == SetToSeq(S)
           Single(p) == [does |-> does, pvs |-> {p}, lv |-> "", length |-> 0]
           C == {Single(f[i]) : i \in 1 .. n}
<1>1. n \in Nat /\ ExistsBijection(1 .. n, S) BY FS_CardinalityType
<1>2. PICK g \in [1 .. n -> S] : IsInjective(g)
  BY <1>1 DEF ExistsBijection, Bijection, Injection, IsInjective
<1>3. f \in [1 .. n -> S] /\ IsInjective(f) BY <1>2 DEF SetToSeq
<1>4. \A p \in S : \E k \in 1 .. n : f[k] = p
  <2>1. f \in Injection(1 .. n, S) BY <1>3 DEF Injection, IsInjective
  <2>2. Cardinality(1 .. n) = n
    <3> HIDE DEF n, f
    <3>1. n \in Int BY <1>1
    <3> QED BY ONLY <1>1, 1 \in Int, <3>1, FS_Interval
  <2>3. f \in Surjection(1 .. n, S) BY ONLY <2>1, <2>2, IsFiniteSet(S), FS_Injection DEF n
  <2> QED BY <2>3 DEF Surjection
<1>5. l = [k \in 1 .. n |-> Single(f[k])] BY DEF Commands
<1>6. \A p : Single(p).does = does /\ Single(p).pvs = {p} OBVIOUS
<1> HIDE DEF n, f, Single
<1>7. DOMAIN l = 1 .. n /\ \A k \in 1 .. n : l[k].does = does /\ l[k].pvs = {f[k]} BY <1>5, <1>6
<1>8. l \in [1 .. n -> C] BY <1>5
<1> HIDE DEF C
<1>9. l \in Seq(C) BY <1>1, <1>8
<1>10. l = << >> <=> S = {}
  <2>1. Len(l) = n /\ (l = << >> <=> n = 0) BY <1>1, <1>7, <1>9
  <2>2. n = 0 <=> 1 .. n = {} BY <1>1
  <2> QED BY <1>3, <1>4, <2>1, <2>2
<1>11. \A k \in DOMAIN l : l[k].does = does /\ l[k].pvs \subseteq S BY <1>3, <1>7
<1>12. \A e : Left(e, l) = IF e = does THEN S ELSE {}
  <2>1. ASSUME NEW p \in S PROVE p \in Left(does, l) BY <1>4, <1>7 DEF Left
  <2>2. ASSUME NEW e, NEW p \in Left(e, l) PROVE e = does /\ p \in S BY <1>7, <1>11 DEF Left
  <2> QED BY <2>1, <2>2
<1> QED BY <1>9, <1>10, <1>11, <1>12 DEF Sequence

\* What the commands of an operation that has one are.
LEMMA CommandFields ==
    ASSUME NEW does, NEW o
    PROVE  LET c == Command(does, o) IN c.does = does /\ c.pvs = o.pvs /\ c.lv = o.lv /\ c.length = o.length
BY DEF Command

\* A job of one command, or of two.
LEMMA OneOrTwo ==
    ASSUME NEW c, NEW d
    PROVE  /\ \A l : l = <<c>> => Sequence(l) /\ Len(l) = 1 /\ DOMAIN l = 1 .. 1 /\ l # << >> /\ l[1] = c
           /\ \A l : l = <<c, d>> => /\ Sequence(l) /\ Len(l) = 2 /\ DOMAIN l = 1 .. 2 /\ l # << >>
                                     /\ l[1] = c /\ l[2] = d
<1>1. ASSUME NEW l, l = <<c>> PROVE Sequence(l) /\ Len(l) = 1 /\ DOMAIN l = 1 .. 1 /\ l # << >> /\ l[1] = c
  <2>1. l \in Seq({c}) BY <1>1
  <2>2. Len(l) = 1 /\ l[1] = c BY <1>1
  <2>3. DOMAIN l = 1 .. 1 /\ l # << >> BY <2>1, <2>2
  <2> QED BY <2>1, <2>2, <2>3 DEF Sequence
<1>2. ASSUME NEW l, l = <<c, d>>
      PROVE  Sequence(l) /\ Len(l) = 2 /\ DOMAIN l = 1 .. 2 /\ l # << >> /\ l[1] = c /\ l[2] = d
  <2>1. l \in Seq({c, d}) BY <1>2
  <2>2. Len(l) = 2 /\ l[1] = c /\ l[2] = d BY <1>2
  <2>3. DOMAIN l = 1 .. 2 BY <2>1, <2>2
  <2>4. l # << >> BY <2>2
  <2> QED BY <2>1, <2>2, <2>3, <2>4 DEF Sequence
<1> QED BY <1>1, <1>2

\* The commands of a resize bring in what is new and take out what goes.
LEMMA ResizeJobs ==
    ASSUME NEW o, o.name = "resizeVG", o.pvs \subseteq PVs, scanned.group \subseteq PVs
    PROVE  /\ Sequence(Jobs(o)) /\ Assigned(Jobs(o), o)
           /\ Left("vgextend", Jobs(o)) = o.pvs \ scanned.group
           /\ Left("vgreduce", Jobs(o)) = scanned.group \ o.pvs
<1> DEFINE add == o.pvs \ scanned.group
           take == scanned.group \ o.pvs
           a == Commands("vgextend", add)
           m == Commands("pvmove", take)
           r == Commands("vgreduce", take)
           am == a \o m
           j == am \o r
<1>1. Jobs(o) = j BY DEF Jobs
<1>2. IsFiniteSet(add) /\ IsFiniteSet(take)
  <2>1. add \subseteq PVs /\ take \subseteq PVs OBVIOUS
  <2> QED BY <2>1, VolumesAssumption, FS_Subset
<1> HIDE DEF add, take
<1>3. /\ Sequence(a) /\ (\A k \in DOMAIN a : a[k].does = "vgextend" /\ a[k].pvs \subseteq add)
      /\ \A e : Left(e, a) = IF e = "vgextend" THEN add ELSE {}
  BY <1>2, OneByOne
<1>4. /\ Sequence(m) /\ (\A k \in DOMAIN m : m[k].does = "pvmove" /\ m[k].pvs \subseteq take)
      /\ \A e : Left(e, m) = IF e = "pvmove" THEN take ELSE {}
  BY <1>2, OneByOne
<1>5. /\ Sequence(r) /\ (\A k \in DOMAIN r : r[k].does = "vgreduce" /\ r[k].pvs \subseteq take)
      /\ \A e : Left(e, r) = IF e = "vgreduce" THEN take ELSE {}
  BY <1>2, OneByOne
<1> HIDE DEF a, m, r
<1>0. am = a \o m /\ j = am \o r OBVIOUS
<1> HIDE DEF am, j
<1>6. /\ Sequence(am) /\ DOMAIN a = 1 .. Len(a) /\ DOMAIN m = 1 .. Len(m) /\ Len(a) \in Nat /\ Len(m) \in Nat
      /\ DOMAIN am = 1 .. Len(a) + Len(m)
      /\ (\A i \in 1 .. Len(a) : am[i] = a[i]) /\ (\A i \in 1 .. Len(m) : am[Len(a) + i] = m[i])
  <2>1. Sequence(a) /\ Sequence(m) BY <1>3, <1>4
  <2> QED BY ONLY <1>0, <2>1, Joined
<1>7. \A e : Left(e, am) = Left(e, a) \cup Left(e, m) BY <1>0, <1>3, <1>4, LeftJoined
<1>8. ASSUME NEW k \in DOMAIN am
      PROVE (am[k].does = "vgextend" /\ am[k].pvs \subseteq add) \/ am[k].does = "pvmove"
  <2>1. CASE k \in 1 .. Len(a) BY <1>3, <1>6, <2>1
  <2>2. CASE k \notin 1 .. Len(a)
    <3>1. k - Len(a) \in 1 .. Len(m) /\ Len(a) + (k - Len(a)) = k BY <1>6, <2>2
    <3>2. am[k] = m[k - Len(a)] BY <1>6, <3>1
    <3> QED BY <1>4, <1>6, <3>1, <3>2
  <2> QED BY <2>1, <2>2
<1>9. /\ Sequence(j) /\ DOMAIN am = 1 .. Len(am) /\ DOMAIN r = 1 .. Len(r) /\ Len(am) \in Nat /\ Len(r) \in Nat
      /\ DOMAIN j = 1 .. Len(am) + Len(r)
      /\ (\A i \in 1 .. Len(am) : j[i] = am[i]) /\ (\A i \in 1 .. Len(r) : j[Len(am) + i] = r[i])
  <2>1. Sequence(am) /\ Sequence(r) BY <1>5, <1>6
  <2>2. j = am \o r BY <1>0
  <2> QED BY ONLY <2>1, <2>2, Joined
<1>10. \A e : Left(e, j) = Left(e, am) \cup Left(e, r) BY <1>0, <1>5, <1>6, LeftJoined
<1>11. ASSUME NEW k \in DOMAIN j
       PROVE  \/ j[k].does = "vgextend" /\ j[k].pvs \subseteq add
              \/ j[k].does = "pvmove"
              \/ j[k].does = "vgreduce" /\ j[k].pvs \subseteq take
  <2>1. CASE k \in 1 .. Len(am) BY <1>8, <1>9, <2>1
  <2>2. CASE k \notin 1 .. Len(am)
    <3>1. k - Len(am) \in 1 .. Len(r) /\ Len(am) + (k - Len(am)) = k BY <1>9, <2>2
    <3>2. j[k] = r[k - Len(am)] BY <1>9, <3>1
    <3> QED BY <1>5, <1>9, <3>1, <3>2
  <2> QED BY <2>1, <2>2
<1>12. ASSUME NEW k \in DOMAIN j PROVE Belongs(j[k], o)
  <2> DEFINE c == j[k]
  <2>1. \/ c.does = "vgextend" /\ c.pvs \subseteq add
        \/ c.does = "pvmove"
        \/ c.does = "vgreduce" /\ c.pvs \subseteq take
    BY <1>11
  <2> HIDE DEF c
  <2>2. Belongs(c, o) BY <2>1 DEF Belongs, add, take
  <2> QED BY <2>2 DEF c
<1>13. Assigned(j, o) BY <1>12 DEF Assigned
<1>14. Left("vgextend", j) = add /\ Left("vgreduce", j) = take
  <2>1. Left("vgextend", a) = add /\ Left("vgextend", m) = {} /\ Left("vgextend", r) = {} BY <1>3, <1>4, <1>5
  <2>2. Left("vgreduce", a) = {} /\ Left("vgreduce", m) = {} /\ Left("vgreduce", r) = take BY <1>3, <1>4, <1>5
  <2> QED BY <1>7, <1>10, <2>1, <2>2
<1> QED BY <1>1, <1>9, <1>13, <1>14 DEF add, take

\* The jobs of an operation belong to it, and only those of a resize may be none.
LEMMA JobsOf ==
    ASSUME NEW o, o.name \in Names, o.pvs \subseteq PVs, scanned.group \subseteq PVs
    PROVE  /\ Sequence(Jobs(o)) /\ Assigned(Jobs(o), o) /\ (Jobs(o) = << >> => o.name = "resizeVG")
           /\ o.name = "resizeVG" => /\ Left("vgextend", Jobs(o)) = o.pvs \ scanned.group
                                     /\ Left("vgreduce", Jobs(o)) = scanned.group \ o.pvs
<1>1. ASSUME NEW does, NEW l, l = <<Command(does, o)>>,
             \/ does = "vgcreate" /\ o.name = "createVG"
             \/ does = "lvcreate" /\ o.name = "newLV"
             \/ does = "lvremove" /\ o.name = "deleteLV"
             \/ does = "pvremove" /\ o.name = "deletePV"
      PROVE  Sequence(l) /\ Assigned(l, o) /\ l # << >>
  <2> DEFINE c == Command(does, o)
  <2>1. c.does = does /\ c.pvs = o.pvs /\ c.lv = o.lv /\ c.length = o.length BY CommandFields
  <2>2. Sequence(l) /\ Len(l) = 1 /\ DOMAIN l = 1 .. 1 /\ l # << >> /\ l[1] = c BY <1>1, OneOrTwo
  <2> HIDE DEF c
  <2>3. Belongs(c, o) BY <1>1, <2>1 DEF Belongs
  <2>4. o.name \in {"createVG", "removeVG", "newLV", "deleteLV"} => c.does = Closing(o) BY <1>1, <2>1 DEF Closing
  <2>5. \A k \in DOMAIN l : k = 1 BY <2>2
  <2>6. \A k \in 1 .. Len(l) - 1 : FALSE BY <2>2
  <2> QED BY <2>2, <2>3, <2>4, <2>5, <2>6 DEF Assigned
<1>2. ASSUME NEW d1, NEW d2, NEW l, l = <<Command(d1, o), Command(d2, o)>>,
             \/ d1 = "deactivate" /\ d2 = "vgremove" /\ o.name = "removeVG"
             \/ d1 = "lvchange" /\ d2 = "vgchange" /\ o.name = "deactivateVG"
      PROVE  Sequence(l) /\ Assigned(l, o) /\ l # << >>
  <2> DEFINE c == Command(d1, o)
             d == Command(d2, o)
  <2>1. c.does = d1 /\ c.pvs = o.pvs /\ c.lv = o.lv /\ c.length = o.length BY CommandFields
  <2>2. d.does = d2 /\ d.pvs = o.pvs /\ d.lv = o.lv /\ d.length = o.length BY CommandFields
  <2>3. Sequence(l) /\ Len(l) = 2 /\ DOMAIN l = 1 .. 2 /\ l # << >> /\ l[1] = c /\ l[2] = d BY <1>2, OneOrTwo
  <2> HIDE DEF c, d
  <2>4. Belongs(c, o) /\ Belongs(d, o) BY <1>2, <2>1, <2>2 DEF Belongs
  <2>5. o.name \in {"createVG", "removeVG", "newLV", "deleteLV"} => d.does = Closing(o) /\ c.does # Closing(o)
    BY <1>2, <2>1, <2>2 DEF Closing
  <2>6. \A k \in DOMAIN l : k = 1 \/ k = 2 BY <2>3
  <2>7. \A k \in 1 .. Len(l) - 1 : k = 1 BY <2>3
  <2> QED BY <2>3, <2>4, <2>5, <2>6, <2>7 DEF Assigned
<1>3. CASE o.name = "resizeVG" BY <1>3, ResizeJobs
<1>4. CASE o.name # "resizeVG"
  <2>1. \/ o.name = "createVG" /\ Jobs(o) = <<Command("vgcreate", o)>>
        \/ o.name = "newLV" /\ Jobs(o) = <<Command("lvcreate", o)>>
        \/ o.name = "deleteLV" /\ Jobs(o) = <<Command("lvremove", o)>>
        \/ o.name = "deletePV" /\ Jobs(o) = <<Command("pvremove", o)>>
        \/ o.name = "removeVG" /\ Jobs(o) = <<Command("deactivate", o), Command("vgremove", o)>>
        \/ o.name = "deactivateVG" /\ Jobs(o) = <<Command("lvchange", o), Command("vgchange", o)>>
    BY <1>4 DEF Jobs, Names
  <2> QED BY <1>1, <1>2, <1>4, <2>1
<1> QED BY <1>3, <1>4

--------------------------------------------------------------------------------
(* The operations are pushed, popped and undone                            *)

\* Every operation leaves a table behind.
LEMMA TableKept ==
    ASSUME NEW o, NEW t, IsTable(t)
    PROVE  IsTable(TableAfter(o, t))
<1>1. IsTable(NoVolumes)
  <2>1. DOMAIN NoVolumes = {} BY DEF NoVolumes
  <2>2. NoVolumes = [n \in {} |-> NoVolumes[n]] BY DEF NoVolumes
  <2> QED BY <2>1, <2>2 DEF IsTable
<1>2. \A n, length : IsTable(With(t, n, length)) BY DEF IsTable, With
<1>3. \A n : IsTable(Without(t, n)) BY DEF IsTable, Without, Restrict
<1> QED BY <1>1, <1>2, <1>3 DEF TableAfter

\* The parts of the invariant that are about a run hold when there is none.
LEMMA NoRun ==
    ASSUME phase' \in {"pending", "undoing", "error"}
    PROVE  LeftToDo' /\ AllDone' /\ Shown' /\ Members'
BY DEF LeftToDo, AllDone, Completed, Shown, Members

\* After a scan nothing is pending, and the table is that of the group.
LEMMA InitInv == Init => IInv
<1> SUFFICES ASSUME Init PROVE IInv OBVIOUS
<1>1. ops = << >> /\ todo = << >> /\ Len(ops) = 0 /\ DOMAIN ops = {} /\ 1 .. 0 = {} BY DEF Init
<1>2. Sequence(<< >>)
  <2>1. << >> \in Seq({}) OBVIOUS
  <2> QED BY <2>1 DEF Sequence
<1>3. Types BY <1>1, <1>2 DEF Init, Types
<1>4. IsTable(volumes) BY DEF Init, IsTable
<1>5. Untouched BY <1>1, <1>4 DEF Init, Untouched
<1>6. Listed BY <1>1 DEF Init, Listed
<1>7. Apart /\ Remembered /\ LeftToDo /\ AllDone BY <1>1 DEF Init, Apart, Remembered, LeftToDo, AllDone
<1>8. Created /\ Shown /\ Members BY <1>1 DEF Init, Created, Shown, Members, Pending
<1> QED BY <1>3, <1>5, <1>6, <1>7, <1>8 DEF IInv

\* The preview of an operation that is pushed.
LEMMA Pushed ==
    ASSUME IInv, NEW o, Push(o), o.name \in Names, o.pvs \subseteq PVs, o.table = table, o.unallocated = unallocated,
           \A i \in DOMAIN ops : Claims(o) /\ Claims(ops[i]) => o.pvs \cap ops[i].pvs = {},
           \A i \in DOMAIN ops : o.name \in {"newLV", "deleteLV"} /\ ops[i].name \in {"newLV", "deleteLV"} => o.lv # ops[i].lv,
           o.name = "newLV" => o.lv \notin DOMAIN table,
           o.name = "deleteLV" => o.lv \in DOMAIN table /\ o.length = table[o.lv]
    PROVE  IInv'
<1>0. PICK n : n = Len(ops) OBVIOUS
<1>1. /\ phase = "pending" /\ phase' = phase /\ ops' = Append(ops, o) /\ Preview(o)
      /\ group' = group /\ other' = other /\ volumes' = volumes /\ pvs' = pvs /\ scanned' = scanned
      /\ next' = next /\ todo' = todo
  BY DEF Push, lvm, runner
<1>2. /\ Types /\ Apart /\ Remembered /\ Untouched /\ Listed BY DEF IInv
<1>3. /\ Sequence(ops') /\ n \in Nat /\ Len(ops') = n + 1
      /\ DOMAIN ops = 1 .. n /\ DOMAIN ops' = 1 .. n + 1
      /\ ops'[n + 1] = o /\ \A i \in 1 .. n : ops'[i] = ops[i]
  <2>1. PICK S : ops \in Seq(S) BY <1>2 DEF Types, Sequence
  <2> DEFINE T == S \cup {o}
  <2>2. ops \in Seq(T) /\ o \in T BY <2>1
  <2> HIDE DEF T
  <2>3. ops' \in Seq(T) BY <1>1, <2>2
  <2>4. Sequence(ops') BY <2>3 DEF Sequence
  <2>5. n \in Nat /\ Len(ops') = n + 1 /\ DOMAIN ops = 1 .. n BY <1>0, <1>1, <2>2
  <2>6. DOMAIN ops' = 1 .. n + 1 BY <2>3, <2>5
  <2>7. ops'[n + 1] = o /\ \A i \in 1 .. n : ops'[i] = ops[i] BY <1>0, <1>1, <2>2, <2>5
  <2> QED BY <2>4, <2>5, <2>6, <2>7
<1>4. /\ table' = TableAfter(o, table) /\ unallocated' \in BOOLEAN
      /\ ~unallocated' => Empties(o) \/ ~unallocated
      /\ dirty' = IF o.name = "createVG" THEN dirty \cup o.pvs ELSE dirty
      /\ orphans' = IF o.name = "removeVG" THEN orphans \cup scanned.group ELSE orphans
  <2>1. unallocated \in BOOLEAN BY <1>2 DEF Types
  <2> QED BY <1>1, <2>1, Previewed
<1>5. (\A i \in 1 .. n + 1 : i \in 1 .. n \/ i = n + 1) /\ n + 1 \in 1 .. n + 1 /\ \A i \in 1 .. n : i \in 1 .. n + 1
  BY <1>3
<1>6. Types' BY <1>1, <1>2, <1>3, <1>4, <1>5 DEF Types
<1>7. Apart' BY <1>2, <1>3, <1>5 DEF Apart
<1>8. table = (IF n = 0 THEN volumes ELSE TableAfter(ops[n], ops[n].table)) /\ IsTable(table) /\ IsTable(volumes)
      /\ group = scanned.group /\ other = {}
  BY <1>0, <1>1, <1>2 DEF Untouched
<1>9. Remembered'
  <2>1. \A i \in 1 .. n : Found(i)' = Found(i)
    <3>1. \A i \in 1 .. n : i # 1 => i - 1 \in 1 .. n BY <1>3
    <3> QED BY <1>1, <1>3, <3>1 DEF Found
  <2>2. ASSUME NEW k, k = n + 1 PROVE Found(k)' = table
    <3>1. CASE n = 0
      <4>1. k = 1 BY <2>2, <3>1
      <4> QED BY <1>1, <1>8, <3>1, <4>1 DEF Found
    <3>2. CASE n # 0
      <4>1. k # 1 /\ n \in 1 .. n /\ k - 1 = n BY <1>3, <2>2, <3>2
      <4>2. table = TableAfter(ops[n], ops[n].table) BY <1>8, <3>2
      <4>3. ops'[k - 1] = ops[n] BY <1>3, <4>1
      <4> QED BY <4>1, <4>2, <4>3 DEF Found
    <3> QED BY <3>1, <3>2
  <2>3. ASSUME NEW i \in DOMAIN ops'
        PROVE  /\ ops'[i].table = Found(i)' /\ IsTable(ops'[i].table)
               /\ ops'[i].name = "newLV" => ops'[i].lv \notin DOMAIN ops'[i].table
               /\ ops'[i].name = "deleteLV" => ops'[i].lv \in DOMAIN ops'[i].table /\ ops'[i].length = ops'[i].table[ops'[i].lv]
    <3>1. CASE i \in 1 .. n
      <4>1. ops'[i] = ops[i] /\ Found(i)' = Found(i) /\ i \in DOMAIN ops BY <1>3, <2>1, <3>1
      <4>2. phase = "pending" BY <1>1
      <4> QED BY ONLY <1>2, <4>1, <4>2 DEF Remembered
    <3>2. CASE i = n + 1
      <4>1. ops'[i] = o /\ Found(i)' = table BY <1>3, <2>2, <3>2
      <4> QED BY <1>8, <4>1
    <3> QED BY <1>3, <1>5, <3>1, <3>2
  <2> QED BY <2>3 DEF Remembered
<1>10. Untouched'
  <2>1. IsTable(table') BY <1>4, <1>8, TableKept
  <2>2. n + 1 # 0 BY <1>3
  <2> QED BY <1>1, <1>3, <1>4, <1>8, <2>1, <2>2 DEF Untouched
<1>11. Listed'
  <2>1. dirty' = UNION {ops'[i].pvs : i \in {j \in DOMAIN ops' : ops'[j].name = "createVG"}}
    <3>1. dirty = UNION {ops[i].pvs : i \in {j \in DOMAIN ops : ops[j].name = "createVG"}} BY <1>1, <1>2 DEF Listed
    <3>2. ASSUME NEW p PROVE p \in dirty <=> \E i \in 1 .. n : ops[i].name = "createVG" /\ p \in ops[i].pvs
      BY <1>3, <3>1
    <3>3. ASSUME NEW p
          PROVE  p \in dirty' <=> \E i \in 1 .. n + 1 : ops'[i].name = "createVG" /\ p \in ops'[i].pvs
      <4>1. p \in dirty' <=> p \in dirty \/ (o.name = "createVG" /\ p \in o.pvs) BY <1>4
      <4> QED BY <1>3, <1>5, <3>2, <4>1
    <3> QED BY <1>3, <3>3
  <2>2. orphans' \subseteq scanned'.group BY <1>1, <1>2, <1>4 DEF Listed
  <2>3. orphans' # {} => \E i \in DOMAIN ops' : ops'[i].name = "removeVG"
    BY <1>1, <1>2, <1>3, <1>4, <1>5 DEF Listed
  <2>4. ~unallocated' => \E i \in DOMAIN ops' : Empties(ops'[i]) BY <1>1, <1>2, <1>3, <1>4, <1>5 DEF Listed
  <2>5. ASSUME NEW i \in DOMAIN ops', ~ops'[i].unallocated PROVE \E j \in 1 .. i - 1 : Empties(ops'[j])
    <3>1. CASE i \in 1 .. n
      <4>1. PICK j \in 1 .. i - 1 : Empties(ops[j]) BY <1>1, <1>2, <1>3, <2>5, <3>1 DEF Listed
      <4>2. j \in 1 .. n BY <1>3, <3>1
      <4> QED BY <1>3, <4>1, <4>2
    <3>2. CASE i = n + 1
      <4>1. PICK j \in 1 .. n : Empties(ops[j]) BY <1>1, <1>2, <1>3, <2>5, <3>2 DEF Listed
      <4>2. j \in 1 .. i - 1 BY <1>3, <3>2
      <4> QED BY <1>3, <4>1, <4>2
    <3> QED BY <1>3, <1>5, <3>1, <3>2
  <2> QED BY <2>1, <2>2, <2>3, <2>4, <2>5 DEF Listed
<1>12. Created' BY <1>1, <1>8 DEF Created
<1>13. LeftToDo' /\ AllDone' /\ Shown' /\ Members' BY <1>1, NoRun
<1> QED BY <1>6, <1>7, <1>9, <1>10, <1>11, <1>12, <1>13 DEF IInv

\* The physical volumes that an operation makes members of a new group are dirty, and those
\* that one deletes are not shown.
LEMMA ClaimedSeen ==
    ASSUME IInv, phase = "pending", NEW i \in DOMAIN ops, Claims(ops[i])
    PROVE  ops[i].pvs \subseteq dirty \cup Hidden
<1>1. dirty = UNION {ops[k].pvs : k \in {j \in DOMAIN ops : ops[j].name = "createVG"}} BY DEF IInv, Listed
<1>2. CASE ops[i].name = "createVG" BY <1>1, <1>2
<1>3. CASE ops[i].name = "deletePV" BY <1>3 DEF Hidden
<1> QED BY <1>2, <1>3 DEF Claims

\* Whatever is pushed takes none of the volumes of another operation.
LEMMA PushInv ==
    ASSUME IInv,
           \/ PushResizeVG \/ PushCreateVG \/ PushRemoveVG \/ PushDeactivateVG
           \/ PushNewLV \/ PushDeleteLV \/ PushDeletePV
    PROVE  IInv'
<1>1. scanned.group \subseteq PVs /\ Offered \subseteq PVs BY DEF IInv, Types, Offered
<1>2. CASE PushResizeVG
  <2>1. PICK target \in SUBSET (scanned.group \cup Offered) : Push(Operation("resizeVG", target, "", 0))
    BY <1>2 DEF PushResizeVG
  <2> DEFINE o == Operation("resizeVG", target, "", 0)
  <2>2. o.name = "resizeVG" /\ o.pvs = target /\ o.table = table /\ o.unallocated = unallocated BY DEF Operation
  <2>3. Push(o) BY <2>1
  <2> HIDE DEF o
  <2>4. o.name \in Names /\ o.pvs \subseteq PVs /\ ~Claims(o) BY <1>1, <2>2 DEF Names, Claims
  <2> QED BY <2>2, <2>3, <2>4, Pushed
<1>3. CASE PushCreateVG
  <2>1. PICK set \in SUBSET Offered : Push(Operation("createVG", set, "", 0)) BY <1>3 DEF PushCreateVG
  <2> DEFINE o == Operation("createVG", set, "", 0)
  <2>2. o.name = "createVG" /\ o.pvs = set /\ o.table = table /\ o.unallocated = unallocated BY DEF Operation
  <2>3. Push(o) BY <2>1
  <2> HIDE DEF o
  <2>4. o.name \in Names /\ o.pvs \subseteq PVs BY <1>1, <2>2 DEF Names
  <2>5. phase = "pending" BY <2>3 DEF Push
  <2>6. ASSUME NEW i \in DOMAIN ops, Claims(ops[i]) PROVE o.pvs \cap ops[i].pvs = {}
    <3>1. ops[i].pvs \subseteq dirty \cup Hidden BY <2>5, <2>6, ClaimedSeen
    <3>2. set \cap (dirty \cup Hidden) = {} BY <2>1 DEF Offered
    <3> QED BY <2>2, <3>1, <3>2
  <2> QED BY <2>2, <2>3, <2>4, <2>6, Pushed
<1>4. CASE PushRemoveVG \/ PushDeactivateVG
  <2>1. PICK name \in {"removeVG", "deactivateVG"} : Push(Operation(name, {}, "", 0))
    BY <1>4 DEF PushRemoveVG, PushDeactivateVG
  <2> DEFINE o == Operation(name, {}, "", 0)
  <2>2. o.name = name /\ o.pvs = {} /\ o.table = table /\ o.unallocated = unallocated BY DEF Operation
  <2>3. Push(o) BY <2>1
  <2> HIDE DEF o
  <2>4. o.name \in Names /\ o.pvs \subseteq PVs /\ o.name \notin {"newLV", "deleteLV"} BY <2>2 DEF Names
  <2>5. ~Claims(o) BY <2>2 DEF Claims
  <2> QED BY <2>2, <2>3, <2>4, <2>5, Pushed
<1>5. CASE PushNewLV
  <2>1. PICK lv \in LVs \ DOMAIN table, length \in 1 .. MaxLength :
            (\A i \in DOMAIN ops : ops[i].lv # lv) /\ Push(Operation("newLV", {}, lv, length))
    BY <1>5 DEF PushNewLV
  <2> DEFINE o == Operation("newLV", {}, lv, length)
  <2>2. o.name = "newLV" /\ o.pvs = {} /\ o.lv = lv /\ o.table = table /\ o.unallocated = unallocated BY DEF Operation
  <2>3. Push(o) BY <2>1
  <2> HIDE DEF o
  <2>4. o.name \in Names /\ o.pvs \subseteq PVs /\ ~Claims(o) BY <2>2 DEF Names, Claims
  <2>5. o.lv \notin DOMAIN table /\ \A i \in DOMAIN ops : o.lv # ops[i].lv BY <2>1, <2>2
  <2> QED BY <2>2, <2>3, <2>4, <2>5, Pushed
<1>6. CASE PushDeleteLV
  <2>1. PICK lv \in DOMAIN table :
            (\A i \in DOMAIN ops : ops[i].lv # lv) /\ Push(Operation("deleteLV", {}, lv, table[lv]))
    BY <1>6 DEF PushDeleteLV
  <2> DEFINE o == Operation("deleteLV", {}, lv, table[lv])
  <2>2. /\ o.name = "deleteLV" /\ o.pvs = {} /\ o.lv = lv /\ o.length = table[lv]
        /\ o.table = table /\ o.unallocated = unallocated
    BY DEF Operation
  <2>3. Push(o) BY <2>1
  <2> HIDE DEF o
  <2>4. o.name \in Names /\ o.pvs \subseteq PVs /\ ~Claims(o) BY <2>2 DEF Names, Claims
  <2>5. o.lv \in DOMAIN table /\ o.length = table[o.lv] /\ \A i \in DOMAIN ops : o.lv # ops[i].lv BY <2>1, <2>2
  <2> QED BY <2>2, <2>3, <2>4, <2>5, Pushed
<1>7. CASE PushDeletePV
  <2>1. PICK p \in PVs : CanDelete(p) /\ Push(Operation("deletePV", {p}, "", 0)) BY <1>7 DEF PushDeletePV
  <2> DEFINE o == Operation("deletePV", {p}, "", 0)
  <2>2. o.name = "deletePV" /\ o.pvs = {p} /\ o.table = table /\ o.unallocated = unallocated BY DEF Operation
  <2>3. Push(o) BY <2>1
  <2> HIDE DEF o
  <2>4. o.name \in Names /\ o.pvs \subseteq PVs BY <2>2 DEF Names
  <2>5. phase = "pending" BY <2>3 DEF Push
  <2>6. ASSUME NEW i \in DOMAIN ops, Claims(ops[i]) PROVE o.pvs \cap ops[i].pvs = {}
    <3>1. ops[i].pvs \subseteq dirty \cup Hidden BY <2>5, <2>6, ClaimedSeen
    <3>2. p \notin dirty \cup Hidden BY <2>1 DEF CanDelete
    <3> QED BY <2>2, <3>1, <3>2
  <2> QED BY <2>2, <2>3, <2>4, <2>6, Pushed
<1> QED BY <1>2, <1>3, <1>4, <1>5, <1>6, <1>7

\* The last operation is undone and forgotten.
LEMMA PopInv == IInv /\ Pop => IInv'
<1> SUFFICES ASSUME IInv, Pop PROVE IInv' OBVIOUS
<1>0. PICK n : n = Len(ops) OBVIOUS
<1>1. PICK o : o = ops[n] OBVIOUS
<1>2. /\ Types /\ Apart /\ Remembered /\ Untouched /\ Listed BY DEF IInv
<1>3. /\ Sequence(ops') /\ n \in Nat /\ n >= 1 /\ Len(ops') = n - 1 /\ Last(ops) = o
      /\ DOMAIN ops = 1 .. n /\ DOMAIN ops' = 1 .. n - 1
      /\ \A i \in 1 .. n - 1 : ops'[i] = ops[i]
  <2>1. Sequence(ops) /\ ops # << >> /\ ops' = Front(ops) BY <1>2 DEF Types, Pop
  <2> QED BY <1>0, <1>1, <2>1, Shorter
<1>4. /\ phase = "pending" /\ phase' = phase /\ Undo(o)
      /\ group' = group /\ other' = other /\ volumes' = volumes /\ pvs' = pvs /\ scanned' = scanned
      /\ next' = next /\ todo' = todo
  BY <1>3 DEF Pop, lvm, runner
<1>5. n \in 1 .. n /\ \A i \in 1 .. n - 1 : i \in 1 .. n /\ i # n BY <1>3
<1>6. table' = o.table
  <2>1. n # 0 BY <1>3
  <2>2. table = TableAfter(o, o.table) BY <1>0, <1>1, <1>2, <1>4, <2>1 DEF Untouched
  <2>3. /\ IsTable(o.table) /\ (o.name = "newLV" => o.lv \notin DOMAIN o.table)
        /\ o.name = "deleteLV" => o.lv \in DOMAIN o.table /\ o.length = o.table[o.lv]
    BY <1>1, <1>2, <1>3, <1>4, <1>5 DEF Remembered
  <2> QED BY <1>4, <2>2, <2>3, Undone
<1>7. o.unallocated \in BOOLEAN /\ unallocated \in BOOLEAN BY <1>1, <1>2, <1>3, <1>5 DEF Types
<1>8. /\ unallocated' \in BOOLEAN
      /\ ~unallocated' => \/ Empties(o) /\ ~o.unallocated
                          \/ ~Empties(o) /\ ~unallocated
      /\ dirty' = IF o.name = "createVG" THEN dirty \ o.pvs ELSE dirty
      /\ orphans' = IF o.name = "removeVG" THEN orphans \ scanned.group ELSE orphans
  BY <1>4, <1>7 DEF Undo, Empties
<1>9. Types' BY <1>2, <1>3, <1>4, <1>5, <1>8 DEF Types
<1>10. Apart' BY <1>2, <1>3, <1>5 DEF Apart
<1>11. ASSUME NEW i \in 1 .. n - 1 PROVE Found(i)' = Found(i)
  <2>1. i # 1 => i - 1 \in 1 .. n - 1 BY <1>3
  <2> QED BY <1>3, <1>4, <2>1 DEF Found
<1>12. Remembered'
  <2>1. ASSUME NEW i \in DOMAIN ops'
        PROVE  /\ ops'[i].table = Found(i)' /\ IsTable(ops'[i].table)
               /\ ops'[i].name = "newLV" => ops'[i].lv \notin DOMAIN ops'[i].table
               /\ ops'[i].name = "deleteLV" => ops'[i].lv \in DOMAIN ops'[i].table /\ ops'[i].length = ops'[i].table[ops'[i].lv]
    <3>1. ops'[i] = ops[i] /\ Found(i)' = Found(i) /\ i \in DOMAIN ops BY <1>3, <1>5, <1>11
    <3>2. phase = "pending" BY <1>4
    <3> QED BY ONLY <1>2, <3>1, <3>2 DEF Remembered
  <2> QED BY <2>1 DEF Remembered
<1>13. Untouched'
  <2>1. o.table = Found(n) /\ IsTable(o.table) BY <1>1, <1>2, <1>3, <1>4, <1>5 DEF Remembered
  <2>2. group = scanned.group /\ other = {} /\ IsTable(volumes) BY <1>2, <1>4 DEF Untouched
  <2>3. table' = IF n - 1 = 0 THEN volumes ELSE TableAfter(ops'[n - 1], ops'[n - 1].table)
    <3>1. n - 1 # 0 => n - 1 \in 1 .. n - 1 BY <1>3
    <3>2. n - 1 = 0 <=> n = 1 BY <1>3
    <3> QED BY <1>3, <1>6, <2>1, <3>1, <3>2 DEF Found
  <2> QED BY <1>3, <1>4, <1>6, <2>1, <2>2, <2>3 DEF Untouched
<1>14. Listed'
  <2>1. dirty' = UNION {ops'[i].pvs : i \in {j \in DOMAIN ops' : ops'[j].name = "createVG"}}
    <3>1. dirty = UNION {ops[i].pvs : i \in {j \in DOMAIN ops : ops[j].name = "createVG"}} BY <1>2, <1>4 DEF Listed
    <3>2. ASSUME NEW p PROVE p \in dirty <=> \E i \in 1 .. n : ops[i].name = "createVG" /\ p \in ops[i].pvs
      BY <1>3, <3>1
    <3>3. \A i \in 1 .. n - 1 : o.name = "createVG" /\ ops[i].name = "createVG" => ops[i].pvs \cap o.pvs = {}
      BY <1>1, <1>2, <1>3, <1>5 DEF Apart, Claims
    <3>4. ASSUME NEW p
          PROVE  p \in dirty' <=> \E i \in 1 .. n - 1 : ops[i].name = "createVG" /\ p \in ops[i].pvs
      <4>1. p \in dirty' <=> p \in dirty /\ ~(o.name = "createVG" /\ p \in o.pvs) BY <1>8
      <4>2. \A i \in 1 .. n : i \in 1 .. n - 1 \/ i = n BY <1>3
      <4> QED BY <1>1, <1>5, <3>2, <3>3, <4>1, <4>2
    <3> QED BY <1>3, <3>4
  <2>2. orphans' \subseteq scanned'.group BY <1>2, <1>4, <1>8 DEF Listed
  <2>3. ASSUME orphans' # {} PROVE \E i \in DOMAIN ops' : ops'[i].name = "removeVG"
    <3>1. orphans \subseteq scanned.group /\ (orphans # {} => \E i \in DOMAIN ops : ops[i].name = "removeVG")
      BY <1>2, <1>4 DEF Listed
    <3>2. o.name # "removeVG" /\ orphans # {} BY <1>8, <2>3, <3>1
    <3>3. PICK i \in 1 .. n : ops[i].name = "removeVG" BY <1>3, <3>1, <3>2
    <3>4. i \in 1 .. n - 1 BY <1>1, <1>3, <3>2, <3>3
    <3> QED BY <1>3, <3>3, <3>4
  <2>4. ASSUME ~unallocated' PROVE \E i \in DOMAIN ops' : Empties(ops'[i])
    <3>1. CASE Empties(o) /\ ~o.unallocated
      <4>1. PICK j \in 1 .. n - 1 : Empties(ops[j]) BY <1>1, <1>2, <1>3, <1>4, <1>5, <3>1 DEF Listed
      <4> QED BY <1>3, <4>1
    <3>2. CASE ~Empties(o) /\ ~unallocated
      <4>1. PICK j \in 1 .. n : Empties(ops[j]) BY <1>2, <1>3, <1>4, <3>2 DEF Listed
      <4>2. j \in 1 .. n - 1 BY <1>1, <1>3, <3>2, <4>1
      <4> QED BY <1>3, <4>1, <4>2
    <3> QED BY <1>8, <2>4, <3>1, <3>2
  <2>5. ASSUME NEW i \in DOMAIN ops', ~ops'[i].unallocated PROVE \E j \in 1 .. i - 1 : Empties(ops'[j])
    <3>1. PICK j \in 1 .. i - 1 : Empties(ops[j]) BY <1>2, <1>3, <1>4, <1>5, <2>5 DEF Listed
    <3>2. j \in 1 .. n - 1 BY <1>3
    <3> QED BY <1>3, <3>1, <3>2
  <2> QED BY <2>1, <2>2, <2>3, <2>4, <2>5 DEF Listed
<1>15. Created' BY <1>2, <1>4 DEF Created, Untouched
<1>16. LeftToDo' /\ AllDone' /\ Shown' /\ Members' BY <1>4, NoRun
<1> QED BY <1>9, <1>10, <1>12, <1>13, <1>14, <1>15, <1>16 DEF IInv

\* Nothing that the invariant is about changes.
LEMMA SameInv ==
    ASSUME IInv, UNCHANGED <<group, other, volumes, pvs, scanned, table, unallocated, dirty, orphans, ops, phase, next, todo>>
    PROVE  IInv'
<1>1. Types' /\ Apart' BY DEF IInv, Types, Apart
<1>2. Remembered'
  <2>1. \A i \in DOMAIN ops : Found(i)' = Found(i) BY DEF Found
  <2> QED BY <2>1 DEF IInv, Remembered
<1>3. Untouched' /\ Listed' BY DEF IInv, Untouched, Listed
<1>4. LeftToDo' /\ AllDone' BY DEF IInv, LeftToDo, AllDone, Completed, Done
<1>5. Created' /\ Shown' BY DEF IInv, Created, Shown, Pending
<1>6. Members' BY DEF IInv, Members, Pending
<1> QED BY <1>1, <1>2, <1>3, <1>4, <1>5, <1>6 DEF IInv

\* Mounting a volume changes nothing that the invariant is about.
LEMMA MountVolumeInv == IInv /\ MountVolume => IInv'
<1> SUFFICES ASSUME IInv, MountVolume PROVE IInv' OBVIOUS
<1>1. UNCHANGED <<group, other, volumes, pvs, scanned, table, unallocated, dirty, orphans, ops, phase, next, todo>>
  BY DEF MountVolume, lvm, objects, runner
<1> QED BY <1>1, SameInv

--------------------------------------------------------------------------------
(* The runner: everything is undone, then executed                         *)

\* The run starts with the last operation, on whose table nothing else was pushed.
LEMMA ApplyInv == IInv /\ Apply => IInv'
<1> SUFFICES ASSUME IInv, Apply PROVE IInv' OBVIOUS
<1>1. /\ phase = "pending" /\ phase' = "undoing" /\ next' = Len(ops) /\ ops # << >>
      /\ group' = group /\ other' = other /\ volumes' = volumes /\ pvs' = pvs /\ scanned' = scanned
      /\ table' = table /\ unallocated' = unallocated /\ ops' = ops /\ todo' = todo
  BY DEF Apply, lvm, objects
<1>2. Types /\ Apart /\ Remembered /\ Untouched BY DEF IInv
<1>3. Len(ops) \in 1 .. Len(ops)
  <2>1. PICK S : ops \in Seq(S) BY <1>2 DEF Types, Sequence
  <2> QED BY <1>1, <2>1
<1>4. Types' /\ Apart' BY <1>1, <1>2, <1>3 DEF Types, Apart
<1>5. Remembered'
  <2>1. \A i \in DOMAIN ops : Found(i)' = Found(i) BY <1>1 DEF Found
  <2> QED BY <1>1, <1>2, <2>1 DEF Remembered
<1>6. Untouched' BY <1>1, <1>2 DEF Untouched
<1>7. Listed' BY <1>1 DEF Listed
<1>8. Created' BY <1>1 DEF IInv, Created
<1>9. LeftToDo' /\ AllDone' /\ Shown' /\ Members' BY <1>1, NoRun
<1> QED BY <1>2, <1>4, <1>5, <1>6, <1>7, <1>8, <1>9 DEF IInv

\* An operation is started when those before it have done what they are for.
LEMMA StartInv ==
    ASSUME IInv, NEW k \in DOMAIN ops,
           phase' = "executing", next' = k, todo' = Jobs(ops[k]), unallocated' \in BOOLEAN,
           UNCHANGED <<group, other, volumes, pvs, scanned, ops>>,
           Pending("deactivateVG") = {} => table' = volumes,
           \A i \in DOMAIN ops : i < k => Done(ops[i]),
           \A i \in Pending("resizeVG") : Pending("resizeVG") = {i} /\ Pending("removeVG") = {} =>
               (k <= i => group = scanned.group) /\ (k > i => group = ops[i].pvs)
    PROVE  IInv'
<1>1. Types /\ Apart /\ Created BY DEF IInv
<1>2. ops[k].name \in Names /\ ops[k].pvs \subseteq PVs /\ scanned.group \subseteq PVs BY <1>1 DEF Types
<1>3. /\ Sequence(todo') /\ Assigned(todo', ops[k]) /\ (todo' = << >> => ops[k].name = "resizeVG")
      /\ ops[k].name = "resizeVG" => /\ Left("vgextend", todo') = ops[k].pvs \ scanned.group
                                     /\ Left("vgreduce", todo') = scanned.group \ ops[k].pvs
  BY <1>2, JobsOf
<1>4. k \in 1 .. Len(ops) BY <1>1 DEF Types
<1>5. Types' /\ Apart' BY <1>1, <1>3, <1>4 DEF Types, Apart
<1>6. Remembered' /\ Untouched' /\ Listed' BY DEF Remembered, Untouched, Listed
<1>7. LeftToDo' BY <1>3 DEF LeftToDo
<1>8. AllDone'
  <2>1. ASSUME NEW i \in DOMAIN ops, Completed(i)' PROVE Done(ops[i])'
    <3>1. i < k \/ (i = k /\ todo' = << >>) BY <2>1 DEF Completed
    <3>2. CASE i < k
      <4>1. Done(ops[i]) BY <3>2
      <4> QED BY <4>1 DEF Done
    <3>3. CASE i = k /\ todo' = << >>
      <4>1. ops[i].name = "resizeVG" BY <1>3, <3>3
      <4> QED BY <4>1 DEF Done
    <3> QED BY <3>1, <3>2, <3>3
  <2> QED BY <2>1 DEF AllDone
<1>9. Created' BY <1>1 DEF Created
<1>10. Shown'
  <2>1. ASSUME Pending("deactivateVG") = {}
        PROVE  volumes = IF todo' = << >> THEN TableAfter(ops[k], table') ELSE table'
    <3>1. ops[k].name = "resizeVG" => TableAfter(ops[k], table') = table' BY DEF TableAfter, Empties
    <3> QED BY <1>3, <2>1, <3>1
  <2> QED BY <2>1 DEF Shown, Pending
<1>11. Members'
  <2>1. ASSUME NEW i \in Pending("resizeVG"), Pending("resizeVG") = {i}, Pending("removeVG") = {}
        PROVE  /\ k < i => group = scanned.group
               /\ k > i => group = ops[i].pvs
               /\ k = i => (group \cup Left("vgextend", todo')) \ Left("vgreduce", todo') = ops[i].pvs
    <3>1. (k <= i => group = scanned.group) /\ (k > i => group = ops[i].pvs) BY <2>1
    <3>2. i \in 1 .. Len(ops) /\ ops[i].name = "resizeVG" BY <1>1 DEF Types, Pending
    <3>3. k < i => k <= i BY <1>4, <3>2
    <3>4. CASE k = i
      <4>1. group = scanned.group BY <1>4, <3>1, <3>4
      <4> QED BY <1>3, <1>4, <3>2, <3>4, <4>1
    <3> QED BY <3>1, <3>3, <3>4
  <2> QED BY <2>1 DEF Members, Pending
<1> QED BY <1>5, <1>6, <1>7, <1>8, <1>9, <1>10, <1>11 DEF IInv

\* Undoing leads to the table that the operation was pushed on, and in the end to the scan's.
LEMMA UndoNextInv == IInv /\ UndoNext => IInv'
<1> SUFFICES ASSUME IInv, UndoNext PROVE IInv' OBVIOUS
<1>0. PICK o : o = ops[next] OBVIOUS
<1>1. /\ phase = "undoing" /\ Undo(o)
      /\ IF next = 1 THEN phase' = "executing" /\ next' = 1 /\ todo' = Jobs(ops[1])
                     ELSE phase' = phase /\ todo' = todo /\ next' = next - 1
      /\ group' = group /\ other' = other /\ volumes' = volumes /\ pvs' = pvs /\ scanned' = scanned /\ ops' = ops
  BY <1>0 DEF UndoNext, lvm
<1>2. Types /\ Apart /\ Remembered /\ Untouched /\ Created BY DEF IInv
<1>3. next \in 1 .. Len(ops) /\ next \in DOMAIN ops /\ Len(ops) \in Nat /\ DOMAIN ops = 1 .. Len(ops)
  BY <1>1, <1>2 DEF Types
<1>4. /\ o.table = Found(next) /\ IsTable(o.table) /\ (o.name = "newLV" => o.lv \notin DOMAIN o.table)
      /\ o.name = "deleteLV" => o.lv \in DOMAIN o.table /\ o.length = o.table[o.lv]
  BY <1>0, <1>1, <1>2, <1>3 DEF Remembered
<1>5. table' = Found(next)
  <2>1. next # 0 BY <1>3
  <2>2. table = TableAfter(o, o.table) BY <1>0, <1>1, <1>2, <2>1 DEF Untouched
  <2> QED BY <1>1, <1>4, <2>2, Undone
<1>6. unallocated' \in BOOLEAN
  <2>1. unallocated \in BOOLEAN /\ o.unallocated \in BOOLEAN BY <1>0, <1>2, <1>3 DEF Types
  <2> QED BY <1>1, <2>1 DEF Undo
<1>7. group = scanned.group /\ other = {} /\ IsTable(volumes) BY <1>1, <1>2 DEF Untouched
<1>8. CASE next = 1
  <2>1. table' = volumes BY <1>5, <1>8 DEF Found
  <2>2. \A i \in DOMAIN ops : ~(i < 1) /\ ~(1 > i) BY <1>3
  <2>3. 1 \in DOMAIN ops /\ phase' = "executing" /\ next' = 1 /\ todo' = Jobs(ops[1]) BY <1>1, <1>3, <1>8
  <2>4. Pending("resizeVG") \subseteq DOMAIN ops BY DEF Pending
  <2>5. \A i \in Pending("resizeVG") : Pending("resizeVG") = {i} /\ Pending("removeVG") = {} =>
               (1 <= i => group = scanned.group) /\ (1 > i => group = ops[i].pvs)
    BY <1>7, <2>2, <2>4
  <2> QED BY <1>1, <1>6, <2>1, <2>2, <2>3, <2>5, StartInv
<1>9. CASE next # 1
  <2>1. phase' = "undoing" /\ todo' = todo /\ next' = next - 1 BY <1>1, <1>9
  <2>2. next - 1 \in 1 .. Len(ops) BY <1>3, <1>9
  <2>3. Types' /\ Apart' BY <1>1, <1>2, <1>6, <2>1, <2>2 DEF Types, Apart
  <2>4. Remembered'
    <3>1. \A i \in DOMAIN ops : Found(i)' = Found(i) BY <1>1 DEF Found
    <3> QED BY <1>1, <1>2, <3>1 DEF Remembered
  <2>5. Untouched'
    <3>1. table' = TableAfter(ops[next - 1], ops[next - 1].table) BY <1>5, <1>9 DEF Found
    <3>2. IsTable(table') BY <1>1, <1>2, <1>3, <1>4, <1>5
    <3>3. next - 1 # 0 BY <2>2
    <3> QED BY <1>1, <1>7, <2>1, <3>1, <3>2, <3>3 DEF Untouched
  <2>6. Listed' BY <2>1 DEF Listed
  <2>7. Created' BY <1>1, <1>2 DEF Created
  <2>8. LeftToDo' /\ AllDone' /\ Shown' /\ Members' BY <2>1, NoRun
  <2> QED BY <2>3, <2>4, <2>5, <2>6, <2>7, <2>8 DEF IInv
<1> QED BY <1>8, <1>9

\* After a failure nothing more is executed.
LEMMA CommandFailsInv == IInv /\ CommandFails => IInv'
<1> SUFFICES ASSUME IInv, CommandFails PROVE IInv' OBVIOUS
<1>1. /\ phase' = "error" /\ todo' = << >> /\ Preview(ops[next])
      /\ group' = group /\ other' = other /\ volumes' = volumes /\ pvs' = pvs /\ scanned' = scanned /\ ops' = ops
  BY DEF CommandFails, lvm
<1>2. Types /\ Apart /\ Created BY DEF IInv
<1>3. unallocated' \in BOOLEAN
  <2>1. unallocated \in BOOLEAN BY <1>2 DEF Types
  <2> QED BY <1>1, <2>1, Previewed
<1>4. Sequence(todo')
  <2>1. << >> \in Seq({}) OBVIOUS
  <2> QED BY <1>1, <2>1 DEF Sequence
<1>5. Types' /\ Apart' BY <1>1, <1>2, <1>3, <1>4 DEF Types, Apart
<1>6. Remembered' /\ Untouched' /\ Listed' BY <1>1 DEF Remembered, Untouched, Listed
<1>7. Created' BY <1>1, <1>2 DEF Created
<1>8. LeftToDo' /\ AllDone' /\ Shown' /\ Members' BY <1>1, NoRun
<1> QED BY <1>5, <1>6, <1>7, <1>8 DEF IInv

\* An operation whose commands are all done has done what it is for.
LEMMA EndOperationInv == IInv /\ EndOperation => IInv'
<1> SUFFICES ASSUME IInv, EndOperation PROVE IInv' OBVIOUS
<1>1. /\ phase = "executing" /\ todo = << >> /\ Preview(ops[next])
      /\ IF next = Len(ops) THEN phase' = "success" /\ next' = next /\ todo' = todo
                            ELSE phase' = phase /\ next' = next + 1 /\ todo' = Jobs(ops[next + 1])
      /\ group' = group /\ other' = other /\ volumes' = volumes /\ pvs' = pvs /\ scanned' = scanned /\ ops' = ops
  BY DEF EndOperation, lvm
<1>2. Types /\ Apart /\ AllDone /\ Created /\ Shown /\ Members BY DEF IInv
<1>3. next \in 1 .. Len(ops) /\ Len(ops) \in Nat /\ DOMAIN ops = 1 .. Len(ops) BY <1>1, <1>2 DEF Types
<1>4. table' = TableAfter(ops[next], table) /\ unallocated' \in BOOLEAN
  <2>1. unallocated \in BOOLEAN BY <1>2 DEF Types
  <2> QED BY <1>1, <2>1, Previewed
<1>5. Pending("deactivateVG") = {} => table' = volumes BY <1>1, <1>2, <1>4 DEF Shown
<1>6. \A i \in DOMAIN ops : i <= next => Done(ops[i])
  <2>1. ASSUME NEW i \in DOMAIN ops, i <= next PROVE Done(ops[i])
    <3>1. i < next \/ i = next BY <1>3, <2>1
    <3>2. Completed(i) BY <1>1, <3>1 DEF Completed
    <3> QED BY <1>2, <3>2 DEF AllDone
  <2> QED BY <2>1
<1>7. ASSUME NEW i \in Pending("resizeVG"), Pending("resizeVG") = {i}, Pending("removeVG") = {}
      PROVE  /\ next < i => group = scanned.group
             /\ next >= i => group = ops[i].pvs
  <2>1. /\ next < i => group = scanned.group
        /\ next > i => group = ops[i].pvs
        /\ next = i => (group \cup Left("vgextend", todo)) \ Left("vgreduce", todo) = ops[i].pvs
    BY <1>1, <1>2, <1>7 DEF Members
  <2>2. Left("vgextend", todo) = {} /\ Left("vgreduce", todo) = {} BY <1>1, LeftNothing
  <2>3. i \in DOMAIN ops BY DEF Pending
  <2>4. next >= i => next > i \/ next = i BY <1>3, <2>3
  <2> QED BY <2>1, <2>2, <2>4
<1>8. CASE next = Len(ops)
  <2>1. phase' = "success" /\ next' = next /\ todo' = todo BY <1>1, <1>8
  <2>2. Types' /\ Apart' BY <1>1, <1>2, <1>4, <2>1 DEF Types, Apart
  <2>3. Remembered' /\ Untouched' /\ Listed' /\ LeftToDo' BY <2>1 DEF Remembered, Untouched, Listed, LeftToDo
  <2>4. AllDone'
    <3>1. \A i \in DOMAIN ops : i <= next BY <1>3, <1>8
    <3>2. \A i \in DOMAIN ops : Done(ops[i]) BY <1>6, <3>1
    <3> QED BY <1>1, <3>2 DEF AllDone, Done
  <2>5. Created' BY <1>1, <1>2 DEF Created
  <2>6. Shown' BY <1>1, <1>5, <2>1 DEF Shown, Pending
  <2>7. Members'
    <3>1. ASSUME NEW i \in Pending("resizeVG"), Pending("resizeVG") = {i}, Pending("removeVG") = {}
          PROVE  group = ops[i].pvs
      <4>1. i \in DOMAIN ops BY DEF Pending
      <4>2. next >= i BY <1>3, <1>8, <4>1
      <4> QED BY <1>7, <3>1, <4>2
    <3> QED BY <1>1, <2>1, <3>1 DEF Members, Pending
  <2> QED BY <2>2, <2>3, <2>4, <2>5, <2>6, <2>7 DEF IInv
<1>9. CASE next # Len(ops)
  <2>0. PICK k : k = next + 1 OBVIOUS
  <2>1. phase' = "executing" /\ next' = k /\ todo' = Jobs(ops[k]) BY <1>1, <1>9, <2>0
  <2>2. k \in DOMAIN ops /\ \A i \in DOMAIN ops : (i < k <=> i <= next) /\ (k <= i <=> next < i) /\ (k > i <=> next >= i)
    <3>1. k \in 1 .. Len(ops)
      <4>1. \A l \in Nat : \A m \in 1 .. l : m # l => m + 1 \in 1 .. l OBVIOUS
      <4> QED BY ONLY <1>3, <1>9, <2>0, <4>1
    <3>2. \A i \in 1 .. Len(ops) : (i < k <=> i <= next) /\ (k <= i <=> next < i) /\ (k > i <=> next >= i)
      BY <1>3, <2>0
    <3> QED BY <1>3, <3>1, <3>2
  <2>3. \A i \in DOMAIN ops : i < k => Done(ops[i]) BY <1>6, <2>2
  <2>4. Pending("resizeVG") \subseteq DOMAIN ops BY DEF Pending
  <2>5. \A i \in Pending("resizeVG") : Pending("resizeVG") = {i} /\ Pending("removeVG") = {} =>
               (k <= i => group = scanned.group) /\ (k > i => group = ops[i].pvs)
    BY <1>7, <2>2, <2>4
  <2> QED BY <1>1, <1>4, <1>5, <2>1, <2>2, <2>3, <2>5, StartInv
<1> QED BY <1>8, <1>9

\* A command that is done is one of the operation that is executed.
LEMMA CommandSucceedsInv == IInv /\ CommandSucceeds => IInv'
<1> SUFFICES ASSUME IInv, CommandSucceeds PROVE IInv' OBVIOUS
<1>0. PICK c, o : c = Head(todo) /\ o = ops[next] OBVIOUS
<1>1. /\ phase = "executing" /\ phase' = phase /\ next' = next /\ todo # << >> /\ todo' = Tail(todo) /\ Possible(c)
      /\ scanned' = scanned /\ ops' = ops /\ unallocated' = (unallocated /\ c.does # "lvremove")
  BY <1>0 DEF CommandSucceeds, Current
<1>2. /\ group' = CASE c.does = "vgextend" -> group \cup c.pvs
                    [] c.does = "vgreduce" -> group \ c.pvs
                    [] c.does = "vgremove" -> {}
                    [] OTHER -> group
      /\ other' = IF c.does = "vgcreate" THEN other \cup c.pvs ELSE other
      /\ volumes' = CASE c.does = "lvcreate" -> With(volumes, c.lv, c.length)
                      [] c.does = "lvremove" -> Without(volumes, c.lv)
                      [] c.does = "vgremove" -> NoVolumes
                      [] OTHER -> volumes
      /\ pvs' = IF c.does = "pvremove" THEN pvs \ c.pvs ELSE pvs
      /\ table' = IF c.does = "lvremove" THEN Without(table, c.lv) ELSE table
  BY <1>0 DEF CommandSucceeds, Current
<1>3. Types /\ Apart /\ LeftToDo /\ AllDone /\ Created /\ Shown /\ Members BY DEF IInv
<1>4. next \in 1 .. Len(ops) /\ Len(ops) \in Nat /\ DOMAIN ops = 1 .. Len(ops) BY <1>1, <1>3 DEF Types
<1>5. /\ Sequence(todo') /\ Len(todo) \in Nat /\ Len(todo) >= 1 /\ Len(todo') = Len(todo) - 1
      /\ DOMAIN todo = 1 .. Len(todo) /\ DOMAIN todo' = 1 .. Len(todo) - 1
      /\ c = todo[1] /\ \A i \in 1 .. Len(todo) - 1 : todo'[i] = todo[i + 1]
      /\ todo' = << >> <=> Len(todo) = 1
  <2>1. Sequence(todo) BY <1>3 DEF Types
  <2> QED BY <1>0, <1>1, <2>1, Rest
<1>6. Types' /\ Apart'
  <2>1. unallocated' \in BOOLEAN BY <1>1, <1>3 DEF Types
  <2> QED BY <1>1, <1>3, <1>5, <2>1 DEF Types, Apart
<1>7. Remembered' /\ Untouched' /\ Listed' BY <1>1 DEF Remembered, Untouched, Listed
<1>8. Assigned(todo, o) BY <1>0, <1>1, <1>3 DEF LeftToDo
<1>9. Belongs(c, o) BY <1>5, <1>8 DEF Assigned
<1>10. o.name \in {"createVG", "removeVG", "newLV", "deleteLV"} =>
           (c.does = Closing(o) <=> todo' = << >>)
  <2>1. Len(todo) # 1 => 1 \in 1 .. Len(todo) - 1 BY <1>5
  <2> QED BY <1>1, <1>5, <1>8, <2>1 DEF Assigned
<1>11. LeftToDo'
  <2>1. \A k \in DOMAIN todo' : k + 1 \in DOMAIN todo BY <1>5
  <2>2. \A k \in DOMAIN todo' : Belongs(todo'[k], o) BY <1>5, <1>8, <2>1 DEF Assigned
  <2>3. ASSUME todo' # << >>, o.name \in {"createVG", "removeVG", "newLV", "deleteLV"}
        PROVE  /\ todo'[Len(todo')].does = Closing(o)
               /\ \A k \in 1 .. Len(todo') - 1 : todo'[k].does # Closing(o)
    <3>1. Len(todo') \in 1 .. Len(todo) - 1 /\ Len(todo') + 1 = Len(todo) BY <1>5, <2>3
    <3>2. todo'[Len(todo')] = todo[Len(todo)] BY <1>5, <3>1
    <3>3. \A k \in 1 .. Len(todo') - 1 : k \in 1 .. Len(todo) - 1 /\ k + 1 \in 1 .. Len(todo) - 1 BY <1>5
    <3> QED BY <1>1, <1>5, <1>8, <2>3, <3>2, <3>3 DEF Assigned
  <2> QED BY <1>0, <1>1, <2>2, <2>3 DEF LeftToDo, Assigned
<1>12. Created'
  <2>1. CASE c.does = "vgcreate"
    <3>1. o.name = "createVG" /\ c.pvs = o.pvs BY <1>9, <2>1 DEF Belongs
    <3>2. c.pvs \subseteq pvs BY <1>1, <2>1 DEF Possible
    <3>3. other' = other \cup o.pvs /\ pvs' = pvs BY <1>2, <2>1, <3>1
    <3> QED BY <1>0, <1>1, <1>3, <1>4, <3>1, <3>2, <3>3 DEF Created
  <2>2. CASE c.does = "pvremove"
    <3>1. o.name = "deletePV" /\ c.pvs = o.pvs BY <1>9, <2>2 DEF Belongs
    <3>2. other' = other /\ pvs' = pvs \ o.pvs BY <1>2, <2>2, <3>1
    <3>3. \A i \in DOMAIN ops : ops[i].name = "createVG" => ops[i].pvs \cap o.pvs = {}
      BY <1>0, <1>3, <1>4, <3>1 DEF Apart, Claims
    <3> QED BY <1>1, <1>3, <3>2, <3>3 DEF Created
  <2>3. CASE c.does # "vgcreate" /\ c.does # "pvremove"
    <3>1. other' = other /\ pvs' = pvs BY <1>2, <2>3
    <3> QED BY <1>1, <1>3, <3>1 DEF Created
  <2> QED BY <2>1, <2>2, <2>3
<1>13. AllDone'
  <2>1. other \subseteq other' BY <1>2
  <2>2. ASSUME group = {}, volumes = NoVolumes PROVE group' = {} /\ volumes' = NoVolumes
    <3>1. DOMAIN volumes = {} BY <2>2 DEF NoVolumes
    <3>2. c.does # "vgextend" /\ c.does # "lvcreate" /\ c.does # "lvremove" BY <1>1, <2>2, <3>1 DEF Possible
    <3>3. group' = {} BY <1>2, <2>2, <3>2
    <3>4. volumes' = NoVolumes BY <1>2, <2>2, <3>2
    <3> QED BY <3>3, <3>4
  <2>3. ASSUME NEW i \in DOMAIN ops, i < next PROVE Done(ops[i])'
    <3>1. Done(ops[i])
      <4>1. Completed(i) BY <1>1, <2>3 DEF Completed
      <4> QED BY <1>3, <4>1 DEF AllDone
    <3>2. ASSUME ops[i].name = "deleteLV" PROVE ops[i].lv \notin DOMAIN volumes'
      <4>1. ops[i].lv \notin DOMAIN volumes BY <3>1, <3>2 DEF Done
      <4>2. CASE c.does = "lvcreate"
        <5>1. o.name = "newLV" /\ c.lv = o.lv BY <1>9, <4>2 DEF Belongs
        <5>2. i # next BY <1>4, <2>3
        <5>3. o.lv # ops[i].lv BY <1>0, <1>3, <1>4, <3>2, <5>1, <5>2 DEF Apart
        <5>4. volumes' = With(volumes, c.lv, c.length) BY <1>2, <4>2
        <5> QED BY <4>1, <5>1, <5>3, <5>4 DEF With
      <4>3. CASE c.does = "lvremove"
        <5>1. volumes' = Without(volumes, c.lv) BY <1>2, <4>3
        <5> QED BY <4>1, <5>1 DEF Without, Restrict
      <4>4. CASE c.does = "vgremove"
        <5>1. volumes' = NoVolumes BY <1>2, <4>4
        <5> QED BY <5>1 DEF NoVolumes
      <4>5. CASE c.does \notin {"lvcreate", "lvremove", "vgremove"}
        <5>1. volumes' = volumes BY <1>2, <4>5
        <5> QED BY <4>1, <5>1
      <4> QED BY <4>2, <4>3, <4>4, <4>5
    <3> QED BY <1>1, <2>1, <2>2, <3>1, <3>2 DEF Done
  <2>4. ASSUME todo' = << >> PROVE Done(o)'
    <3>1. CASE o.name = "createVG"
      <4>1. c.does = "vgcreate" BY <1>10, <2>4, <3>1 DEF Closing
      <4>2. c.pvs = o.pvs BY <1>9, <4>1 DEF Belongs
      <4>3. o.pvs \subseteq other' BY <1>2, <4>1, <4>2
      <4> QED BY <3>1, <4>3 DEF Done
    <3>2. CASE o.name = "removeVG"
      <4>1. c.does = "vgremove" BY <1>10, <2>4, <3>2 DEF Closing
      <4>2. group' = {} /\ volumes' = NoVolumes BY <1>2, <4>1
      <4> QED BY <3>2, <4>2 DEF Done
    <3>3. CASE o.name = "deleteLV"
      <4>1. c.does = "lvremove" BY <1>10, <2>4, <3>3 DEF Closing
      <4>2. c.lv = o.lv BY <1>9, <4>1 DEF Belongs
      <4>3. volumes' = Without(volumes, o.lv) BY <1>2, <4>1, <4>2
      <4>4. o.lv \notin DOMAIN volumes' BY <4>3, WithoutTwice
      <4> QED BY <3>3, <4>4 DEF Done
    <3>4. CASE o.name \notin {"createVG", "removeVG", "deleteLV"} BY <3>4 DEF Done
    <3> QED BY <3>1, <3>2, <3>3, <3>4
  <2>5. ASSUME NEW i \in DOMAIN ops, Completed(i)' PROVE Done(ops[i])'
    <3>1. i < next \/ (i = next /\ todo' = << >>) BY <1>1, <2>5 DEF Completed
    <3>2. CASE i < next BY <2>3, <3>2
    <3>3. CASE i = next /\ todo' = << >>
      <4>1. ops[i] = o BY <1>0, <3>3
      <4>2. ops'[i] = o BY <1>1, <4>1
      <4>3. Done(o)' BY <2>4, <3>3
      <4> QED BY <4>2, <4>3 DEF Done
    <3> QED BY <3>1, <3>2, <3>3
  <2> QED BY <1>1, <2>5 DEF AllDone, Done
<1>14. Shown'
  <2>1. ASSUME Pending("deactivateVG") = {}
        PROVE  volumes' = IF todo' = << >> THEN TableAfter(o, table') ELSE table'
    <3>1. volumes = table BY <1>1, <1>3, <2>1 DEF Shown
    <3>2. o.name # "deactivateVG" BY <1>0, <1>4, <2>1 DEF Pending
    <3>3. CASE c.does = "lvcreate"
      <4>1. o.name = "newLV" /\ c.lv = o.lv /\ c.length = o.length BY <1>9, <3>3 DEF Belongs
      <4>2. todo' = << >> BY <1>10, <3>3, <4>1 DEF Closing
      <4>3. volumes' = With(volumes, o.lv, o.length) /\ table' = table BY <1>2, <3>3, <4>1
      <4>4. TableAfter(o, table) = With(table, o.lv, o.length) BY <4>1 DEF TableAfter, Empties
      <4> QED BY <3>1, <4>2, <4>3, <4>4
    <3>4. CASE c.does = "lvremove"
      <4>1. o.name = "deleteLV" /\ c.lv = o.lv BY <1>9, <3>4 DEF Belongs
      <4>2. todo' = << >> BY <1>10, <3>4, <4>1 DEF Closing
      <4>3. volumes' = Without(volumes, o.lv) /\ table' = Without(table, o.lv) BY <1>2, <3>4, <4>1
      <4>4. TableAfter(o, table') = Without(table', o.lv) BY <4>1 DEF TableAfter, Empties
      <4>5. Without(Without(table, o.lv), o.lv) = Without(table, o.lv) BY WithoutTwice
      <4> QED BY <3>1, <4>2, <4>3, <4>4, <4>5
    <3>5. CASE c.does = "vgremove"
      <4>1. o.name = "removeVG" BY <1>9, <3>5 DEF Belongs
      <4>2. todo' = << >> BY <1>10, <3>5, <4>1 DEF Closing
      <4>3. volumes' = NoVolumes BY <1>2, <3>5
      <4>4. TableAfter(o, table') = NoVolumes BY <4>1 DEF TableAfter, Empties
      <4> QED BY <4>2, <4>3, <4>4
    <3>6. CASE c.does \notin {"lvcreate", "lvremove", "vgremove"}
      <4>1. volumes' = volumes /\ table' = table BY <1>2, <3>6
      <4>2. ASSUME todo' = << >> PROVE TableAfter(o, table) = table
        <5>1. o.name \notin {"removeVG", "newLV", "deleteLV"} BY <1>10, <3>6, <4>2 DEF Closing
        <5> QED BY <3>2, <5>1 DEF TableAfter, Empties
      <4> QED BY <3>1, <4>1, <4>2
    <3> QED BY <3>3, <3>4, <3>5, <3>6
  <2> QED BY <1>0, <1>1, <2>1 DEF Shown, Pending
<1>15. Members'
  <2>1. ASSUME NEW i \in Pending("resizeVG"), Pending("resizeVG") = {i}, Pending("removeVG") = {}
        PROVE  /\ next < i => group' = scanned.group
               /\ next > i => group' = ops[i].pvs
               /\ next = i => (group' \cup Left("vgextend", todo')) \ Left("vgreduce", todo') = ops[i].pvs
    <3>1. /\ next < i => group = scanned.group
          /\ next > i => group = ops[i].pvs
          /\ next = i => (group \cup Left("vgextend", todo)) \ Left("vgreduce", todo) = ops[i].pvs
      BY <1>1, <1>3, <2>1 DEF Members
    <3>2. i \in 1 .. Len(ops) BY <1>4 DEF Pending
    <3>3. c.does # "vgremove"
      <4>1. o.name # "removeVG" BY <1>0, <1>4, <2>1 DEF Pending
      <4> QED BY <1>9, <4>1 DEF Belongs
    <3>4. CASE next # i
      <4>1. o.name # "resizeVG" BY <1>0, <1>4, <2>1, <3>4 DEF Pending
      <4>2. c.does # "vgextend" /\ c.does # "vgreduce" BY <1>9, <4>1 DEF Belongs
      <4>3. group' = group BY <1>2, <3>3, <4>2
      <4> QED BY <3>1, <3>4, <4>3
    <3>5. CASE next = i
      <4>1. /\ Left("vgextend", todo) = Left("vgextend", todo') \cup (IF c.does = "vgextend" THEN c.pvs ELSE {})
            /\ Left("vgreduce", todo) = Left("vgreduce", todo') \cup (IF c.does = "vgreduce" THEN c.pvs ELSE {})
        <5>1. Sequence(todo) BY <1>3 DEF Types
        <5> QED BY <1>0, <1>1, <5>1, LeftRest
      <4>2. (group \cup Left("vgextend", todo)) \ Left("vgreduce", todo) = o.pvs BY <1>0, <3>1, <3>5
      <4>3. Left("vgextend", todo') \subseteq o.pvs
        <5>1. \A k \in DOMAIN todo' : todo'[k].does = "vgextend" => todo'[k].pvs \subseteq o.pvs
          BY <1>0, <1>1, <1>11 DEF LeftToDo, Assigned, Belongs
        <5> QED BY <5>1 DEF Left
      <4>4. CASE c.does = "vgextend"
        <5>1. group' = group \cup c.pvs BY <1>2, <4>4
        <5>2. Left("vgextend", todo) = Left("vgextend", todo') \cup c.pvs /\ Left("vgreduce", todo) = Left("vgreduce", todo')
          BY <4>1, <4>4
        <5>3. (group' \cup Left("vgextend", todo')) \ Left("vgreduce", todo') = o.pvs BY ONLY <4>2, <5>1, <5>2
        <5> QED BY <1>0, <3>2, <3>5, <5>3
      <4>5. CASE c.does = "vgreduce"
        <5>1. group' = group \ c.pvs BY <1>2, <4>5
        <5>2. Left("vgextend", todo) = Left("vgextend", todo') /\ Left("vgreduce", todo) = Left("vgreduce", todo') \cup c.pvs
          BY <4>1, <4>5
        <5>3. c.pvs \cap o.pvs = {} BY <1>9, <4>5 DEF Belongs
        <5>4. (group' \cup Left("vgextend", todo')) \ Left("vgreduce", todo') = o.pvs
          BY ONLY <4>2, <4>3, <5>1, <5>2, <5>3
        <5> QED BY <1>0, <3>2, <3>5, <5>4
      <4>6. CASE c.does # "vgextend" /\ c.does # "vgreduce"
        <5>1. group' = group BY <1>2, <3>3, <4>6
        <5>2. Left("vgextend", todo) = Left("vgextend", todo') /\ Left("vgreduce", todo) = Left("vgreduce", todo')
          BY <4>1, <4>6
        <5> QED BY <1>0, <3>2, <3>5, <4>2, <5>1, <5>2
      <4> QED BY <4>4, <4>5, <4>6
    <3> QED BY <3>4, <3>5
  <2> QED BY <1>1, <2>1 DEF Members, Pending
<1> QED BY <1>6, <1>7, <1>11, <1>12, <1>13, <1>14, <1>15 DEF IInv

--------------------------------------------------------------------------------
(* The theorems                                                            *)

\* The invariant holds in every state.
THEOREM InvariantHolds == Spec => []IInv
<1>1. Init => IInv BY InitInv
<1>2. IInv /\ [Next]_vars => IInv'
  <2> SUFFICES ASSUME IInv, [Next]_vars PROVE IInv' OBVIOUS
  <2>1. CASE PushResizeVG \/ PushCreateVG \/ PushRemoveVG \/ PushDeactivateVG \/ PushNewLV \/ PushDeleteLV \/ PushDeletePV
    BY <2>1, PushInv
  <2>2. CASE Pop BY <2>2, PopInv
  <2>3. CASE MountVolume BY <2>3, MountVolumeInv
  <2>4. CASE Apply BY <2>4, ApplyInv
  <2>5. CASE UndoNext BY <2>5, UndoNextInv
  <2>6. CASE CommandSucceeds BY <2>6, CommandSucceedsInv
  <2>7. CASE CommandFails BY <2>7, CommandFailsInv
  <2>8. CASE EndOperation BY <2>8, EndOperationInv
  <2>9. CASE UNCHANGED vars
    <3>1. UNCHANGED <<group, other, volumes, pvs, scanned, table, unallocated, dirty, orphans, ops, phase, next, todo>>
      BY <2>9 DEF vars, lvm, objects, runner
    <3> QED BY <3>1, SameInv
  <2> QED BY <2>1, <2>2, <2>3, <2>4, <2>5, <2>6, <2>7, <2>8, <2>9 DEF Next, Run
<1> QED BY <1>1, <1>2, PTL DEF Spec

\* An application that ends in success did what each operation says.
THEOREM SuccessIsTrueHolds == Spec => []SuccessIsTrue
<1>1. IInv => SuccessIsTrue
  <2> SUFFICES ASSUME IInv, phase = "success" PROVE SuccessIsTrue BY DEF SuccessIsTrue
  <2>1. \A i \in Pending("resizeVG") : Pending("resizeVG") = {i} /\ Pending("removeVG") = {} => group = ops[i].pvs
    BY DEF IInv, Members
  <2>2. \A i \in DOMAIN ops : Done(ops[i]) BY DEF IInv, AllDone, Completed
  <2>3. \A i \in Pending("createVG") : ops[i].pvs \subseteq other BY <2>2 DEF Pending, Done
  <2>4. Pending("removeVG") # {} => group = {} /\ volumes = NoVolumes BY <2>2 DEF Pending, Done
  <2>5. \A i \in Pending("deleteLV") : ops[i].lv \notin DOMAIN volumes BY <2>2 DEF Pending, Done
  <2> QED BY <2>1, <2>3, <2>4, <2>5 DEF SuccessIsTrue
<1> QED BY <1>1, InvariantHolds, PTL

\* No physical volume of a created group is given to another one or deleted.
THEOREM CreatedCompleteHolds == Spec => []CreatedComplete
<1>1. IInv => CreatedComplete BY DEF IInv, Created, CreatedComplete
<1> QED BY <1>1, InvariantHolds, PTL

\* After a success the table shows the logical volumes that there are.
THEOREM ShowsWhatIsHolds == Spec => []ShowsWhatIs
<1>1. IInv => ShowsWhatIs BY DEF IInv, Shown, ShowsWhatIs
<1> QED BY <1>1, InvariantHolds, PTL

--------------------------------------------------------------------------------
(* What is left when everything is undone                                  *)

\* Undoing the n-th operation leaves what the ones before it have done.
LEMMA UndoneUpTo ==
    ASSUME Types, Apart, NEW n \in DOMAIN ops, UpTo(n), Undo(ops[n]), scanned' = scanned,
           \A i \in 1 .. n - 1 : ops'[i] = ops[i],
           ~ops[n].unallocated => \E j \in 1 .. n - 1 : Empties(ops[j])
    PROVE  UpTo(n - 1)'
<1>0. PICK o : o = ops[n] OBVIOUS
<1>1. /\ n \in 1 .. n /\ \A i \in 1 .. n : i \in 1 .. n - 1 \/ i = n
      /\ \A i \in 1 .. n - 1 : i \in 1 .. n /\ i \in DOMAIN ops /\ i # n
  <2>1. n \in 1 .. Len(ops) /\ Len(ops) \in Nat /\ DOMAIN ops = 1 .. Len(ops) BY DEF Types
  <2> QED BY <2>1
<1>2. o.unallocated \in BOOLEAN /\ unallocated \in BOOLEAN BY <1>0 DEF Types
<1>3. /\ ~unallocated' => \/ Empties(o) /\ ~o.unallocated
                          \/ ~Empties(o) /\ ~unallocated
      /\ dirty' = IF o.name = "createVG" THEN dirty \ o.pvs ELSE dirty
      /\ orphans' = IF o.name = "removeVG" THEN orphans \ scanned.group ELSE orphans
  BY <1>0, <1>2 DEF Undo, Empties
<1>4. dirty' = UNION {ops'[i].pvs : i \in {j \in 1 .. n - 1 : ops'[j].name = "createVG"}}
  <2>1. ASSUME NEW p PROVE p \in dirty <=> \E i \in 1 .. n : ops[i].name = "createVG" /\ p \in ops[i].pvs
    BY DEF UpTo
  <2>2. \A i \in 1 .. n - 1 : o.name = "createVG" /\ ops[i].name = "createVG" => ops[i].pvs \cap o.pvs = {}
    BY <1>0, <1>1 DEF Apart, Claims
  <2>3. ASSUME NEW p
        PROVE  p \in dirty' <=> \E i \in 1 .. n - 1 : ops[i].name = "createVG" /\ p \in ops[i].pvs
    <3>1. p \in dirty' <=> p \in dirty /\ ~(o.name = "createVG" /\ p \in o.pvs) BY <1>3
    <3> QED BY <1>0, <1>1, <2>1, <2>2, <3>1
  <2> QED BY <2>3
<1>5. orphans' \subseteq scanned'.group BY <1>3 DEF UpTo
<1>6. ASSUME orphans' # {} PROVE \E i \in 1 .. n - 1 : ops'[i].name = "removeVG"
  <2>1. o.name # "removeVG" /\ orphans # {} BY <1>3, <1>6 DEF UpTo
  <2>2. PICK i \in 1 .. n : ops[i].name = "removeVG" BY <2>1 DEF UpTo
  <2>3. i \in 1 .. n - 1 BY <1>0, <1>1, <2>1, <2>2
  <2> QED BY <2>2, <2>3
<1>7. ASSUME ~unallocated' PROVE \E i \in 1 .. n - 1 : Empties(ops'[i])
  <2>1. CASE Empties(o) /\ ~o.unallocated BY <1>0, <2>1
  <2>2. CASE ~Empties(o) /\ ~unallocated
    <3>1. PICK j \in 1 .. n : Empties(ops[j]) BY <2>2 DEF UpTo
    <3>2. j \in 1 .. n - 1 BY <1>0, <1>1, <2>2, <3>1
    <3> QED BY <3>1, <3>2
  <2> QED BY <1>3, <1>7, <2>1, <2>2
<1> QED BY <1>4, <1>5, <1>6, <1>7 DEF UpTo

\* No total of a resize is left once it is undone.
LEMMA UndoneTotalUpTo ==
    ASSUME Types, NEW n \in DOMAIN ops, TotalUpTo(n), Undo(ops[n]), scanned' = scanned,
           \A i \in 1 .. n - 1 : ops'[i] = ops[i]
    PROVE  TotalUpTo(n - 1)'
<1>1. \A i \in 1 .. n : i \in 1 .. n - 1 \/ i = n
  <2>1. n \in 1 .. Len(ops) /\ Len(ops) \in Nat BY DEF Types
  <2> QED BY <2>1
<1>2. ScannedTotal' = ScannedTotal /\ UndoneTotal' = UndoneTotal BY DEF ScannedTotal, UndoneTotal
<1>3. CASE ops[n].name = "resizeVG"
  <2>1. total' = UndoneTotal BY <1>3 DEF Undo, UndoneTotal
  <2> QED BY <1>2, <2>1 DEF TotalUpTo
<1>4. CASE ops[n].name # "resizeVG"
  <2>1. total' = total BY <1>4 DEF Undo
  <2> QED BY <1>1, <1>2, <1>4, <2>1 DEF TotalUpTo
<1> QED BY <1>3, <1>4

\* Every step keeps it.
LEMMA UndoStepInv == IInv /\ UndoInv /\ [Next]_vars => UndoInv'
<1> SUFFICES ASSUME IInv, UndoInv, [Next]_vars PROVE UndoInv' OBVIOUS
<1>1. Types /\ Apart BY DEF IInv
<1>2. ASSUME NEW o, Push(o) PROVE UndoInv'
  <2>1. /\ phase = "pending" /\ phase' = "pending" /\ ops' = Append(ops, o) /\ Preview(o) /\ scanned' = scanned
    BY <1>2 DEF Push, runner
  <2>2. PICK n : n = Len(ops) OBVIOUS
  <2>3. n \in Nat /\ Len(ops') = n + 1 /\ ops'[n + 1] = o /\ \A i \in 1 .. n : ops'[i] = ops[i]
    <3>1. PICK S : ops \in Seq(S) BY <1>1 DEF Types, Sequence
    <3>2. ops \in Seq(S \cup {o}) /\ o \in S \cup {o} BY <3>1
    <3> HIDE DEF Preview
    <3> QED BY <2>1, <2>2, <3>2
  <2>4. n + 1 \in 1 .. n + 1 /\ \A i \in 1 .. n : i \in 1 .. n + 1 BY <2>3
  <2>5. ScannedTotal' = ScannedTotal /\ UndoneTotal' = UndoneTotal BY <2>1 DEF ScannedTotal, UndoneTotal
  <2>6. TotalUpTo(n + 1)'
    <3>1. CASE o.name = "resizeVG" BY <2>3, <2>4, <3>1 DEF TotalUpTo
    <3>2. CASE o.name # "resizeVG"
      <4>1. total' = total BY <2>1, <3>2 DEF Preview
      <4>2. TotalUpTo(n) BY <2>1, <2>2 DEF UndoInv
      <4> QED BY <2>3, <2>4, <2>5, <4>1, <4>2 DEF TotalUpTo
    <3> QED BY <3>1, <3>2
  <2> QED BY <2>1, <2>3, <2>6 DEF UndoInv, TotalUpTo
<1>3. CASE \E o : Push(o) BY <1>2, <1>3
<1>4. CASE Pop
  <2>0. PICK n : n = Len(ops) OBVIOUS
  <2>1. /\ n \in Nat /\ n >= 1 /\ Len(ops') = n - 1 /\ Last(ops) = ops[n]
        /\ DOMAIN ops = 1 .. n /\ \A i \in 1 .. n - 1 : ops'[i] = ops[i]
    <3>1. Sequence(ops) /\ ops # << >> /\ ops' = Front(ops) BY <1>1, <1>4 DEF Types, Pop
    <3> QED BY <2>0, <3>1, Shorter
  <2>2. phase = "pending" /\ phase' = "pending" /\ Undo(ops[n]) /\ scanned' = scanned BY <1>4, <2>1 DEF Pop, runner
  <2>3. n \in DOMAIN ops /\ TotalUpTo(n) BY <2>0, <2>1, <2>2 DEF UndoInv
  <2>4. TotalUpTo(n - 1)' BY <1>1, <2>1, <2>2, <2>3, UndoneTotalUpTo
  <2> QED BY <2>1, <2>2, <2>4 DEF UndoInv, TotalUpTo
<1>5. CASE Apply
  <2>1. /\ phase = "pending" /\ phase' = "undoing" /\ next' = Len(ops)
        /\ UNCHANGED <<scanned, dirty, orphans, unallocated, total, ops>>
    BY <1>5 DEF Apply, objects
  <2>2. DOMAIN ops = 1 .. Len(ops) BY <1>1 DEF Types
  <2>3. Listed BY DEF IInv
  <2>4. UpTo(Len(ops)) BY <2>1, <2>2, <2>3 DEF UpTo, Listed
  <2>5. TotalUpTo(Len(ops)) BY <2>1 DEF UndoInv
  <2>6. \A i \in DOMAIN ops : ~ops[i].unallocated => \E j \in 1 .. i - 1 : Empties(ops[j]) BY <2>1, <2>3 DEF Listed
  <2>7. UpTo(next)' BY <2>1, <2>4 DEF UpTo
  <2>8. TotalUpTo(next)' BY <2>1, <2>5 DEF TotalUpTo, ScannedTotal, UndoneTotal
  <2> QED BY <2>1, <2>6, <2>7, <2>8 DEF UndoInv
<1>6. CASE UndoNext
  <2>0. PICK n : n = next OBVIOUS
  <2>1. /\ phase = "undoing" /\ Undo(ops[n]) /\ ops' = ops /\ scanned' = scanned
        /\ IF n = 1 THEN phase' = "executing" ELSE phase' = phase /\ next' = n - 1
    BY <1>6, <2>0 DEF UndoNext
  <2>2. n \in DOMAIN ops BY <1>1, <2>0, <2>1 DEF Types
  <2>3. UpTo(n) /\ TotalUpTo(n) /\ \A i \in DOMAIN ops : ~ops[i].unallocated => \E j \in 1 .. i - 1 : Empties(ops[j])
    BY <2>0, <2>1 DEF UndoInv
  <2>4. UpTo(n - 1)' /\ TotalUpTo(n - 1)' BY <1>1, <2>1, <2>2, <2>3, UndoneUpTo, UndoneTotalUpTo
  <2>5. CASE n = 1 BY <2>1, <2>5 DEF UndoInv
  <2>6. CASE n # 1 BY <2>1, <2>3, <2>4, <2>6 DEF UndoInv, UpTo, TotalUpTo
  <2> QED BY <2>5, <2>6
<1>7. CASE CommandSucceeds \/ CommandFails \/ EndOperation
  <2>1. phase' \in {"executing", "success", "error"}
    BY <1>7 DEF CommandSucceeds, CommandFails, EndOperation
  <2> QED BY <2>1 DEF UndoInv
<1>8. CASE MountVolume \/ UNCHANGED vars
  <2>1. UNCHANGED <<scanned, dirty, orphans, unallocated, total, ops, phase, next>>
    BY <1>8 DEF MountVolume, vars, lvm, objects, runner
  <2> QED BY <2>1 DEF UndoInv, UpTo, TotalUpTo, ScannedTotal, UndoneTotal
<1>9. CASE \/ PushResizeVG \/ PushCreateVG \/ PushRemoveVG \/ PushDeactivateVG
           \/ PushNewLV \/ PushDeleteLV \/ PushDeletePV
  BY <1>3, <1>9 DEF PushResizeVG, PushCreateVG, PushRemoveVG, PushDeactivateVG, PushNewLV, PushDeleteLV, PushDeletePV
<1> QED BY <1>4, <1>5, <1>6, <1>7, <1>8, <1>9 DEF Next, Run

\* Undoing every operation, by pop() or by the runner before it executes the first, leads back
\* to the tables and lists of the scan, and to no total that a pending resize has shown.
THEOREM UndoRestoresHolds == Spec => UndoRestores
<1>1. Init => UndoInv BY DEF Init, UndoInv, TotalUpTo, ScannedTotal
<1>2. ASSUME IInv, IInv', UndoInv, UndoInv', [Next]_vars, ~(UNCHANGED vars),
             (phase = "undoing" /\ phase' = "executing") \/ (phase' = "pending" /\ ops' = << >>)
      PROVE  Restored'
  <2>1. CASE phase' = "pending" /\ ops' = << >>
    <3>1. Len(ops') = 0 /\ DOMAIN ops' = {} /\ 1 .. 0 = {} BY <2>1
    <3>2. table' = volumes' BY <1>2, <2>1, <3>1 DEF IInv, Untouched
    <3>3. unallocated' /\ dirty' = {} /\ orphans' = {} BY <1>2, <2>1, <3>1 DEF IInv, Listed
    <3>4. total' \in {ScannedTotal', UndoneTotal'} BY <1>2, <2>1, <3>1 DEF UndoInv, TotalUpTo
    <3> QED BY <3>2, <3>3, <3>4 DEF Restored
  <2>2. CASE phase = "undoing" /\ phase' = "executing"
    <3>1. UndoNext
      BY <1>2, <2>2 DEF Next, Run, PushResizeVG, PushCreateVG, PushRemoveVG, PushDeactivateVG, PushNewLV,
         PushDeleteLV, PushDeletePV, Push, Pop, MountVolume, Apply, CommandSucceeds, CommandFails, EndOperation
    <3>2. /\ next = 1 /\ Undo(ops[next]) /\ ops' = ops /\ scanned' = scanned /\ volumes' = volumes
      BY <2>2, <3>1 DEF UndoNext, lvm
    <3>3. Types /\ Apart /\ Remembered /\ Untouched BY <1>2 DEF IInv
    <3>4. 1 \in DOMAIN ops /\ 1 .. 1 - 1 = {} BY <2>2, <3>2, <3>3 DEF Types
    <3>5. UpTo(1 - 1)' /\ TotalUpTo(1 - 1)'
      <4>1. UpTo(1) /\ TotalUpTo(1) /\ \A i \in DOMAIN ops : ~ops[i].unallocated => \E j \in 1 .. i - 1 : Empties(ops[j])
        BY <1>2, <2>2, <3>2 DEF UndoInv
      <4> QED BY <3>2, <3>3, <3>4, <4>1, UndoneUpTo, UndoneTotalUpTo
    <3>6. table' = volumes'
      <4>1. ops[1].table = volumes BY <2>2, <3>3, <3>4 DEF Remembered, Found
      <4>2. table = TableAfter(ops[1], ops[1].table) BY <2>2, <3>2, <3>3 DEF Untouched
      <4>3. /\ IsTable(ops[1].table) /\ (ops[1].name = "newLV" => ops[1].lv \notin DOMAIN ops[1].table)
            /\ ops[1].name = "deleteLV" => ops[1].lv \in DOMAIN ops[1].table /\ ops[1].length = ops[1].table[ops[1].lv]
        BY <2>2, <3>3, <3>4 DEF Remembered
      <4> QED BY <3>2, <4>1, <4>2, <4>3, Undone
    <3> QED BY <3>4, <3>5, <3>6 DEF Restored, UpTo, TotalUpTo
  <2> QED BY <1>2, <2>1, <2>2
<1>3. IInv /\ IInv' /\ UndoInv /\ UndoInv' /\ [Next]_vars
      => [(phase = "undoing" /\ phase' = "executing") \/ (phase' = "pending" /\ ops' = << >>) => Restored']_vars
  BY <1>2
<1> QED BY <1>1, <1>3, UndoStepInv, InvariantHolds, PTL DEF Spec, UndoRestores
==============================================================================
