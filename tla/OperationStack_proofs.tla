------------------------- MODULE OperationStack_proofs -------------------------
(***************************************************************************)
(* Proofs about the stack, for every device, every offer and every length  *)
(* of the stack: whatever is pushed, merged, popped and cleared.           *)
(*                                                                         *)
(* A merge takes an operation out of the middle of the stack, or changes   *)
(* the one that is pushed, so that an invariant about the preview alone    *)
(* does not survive it.  The invariant (StackInv) says who created and     *)
(* removed what (Owned) and that there is a layout between any two         *)
(* operations of the stack, each what the operation below makes of the one *)
(* before (Layered).                                                       *)
(***************************************************************************)
EXTENDS OperationStack, SequenceTheorems, FiniteSetTheorems, WellFoundedInduction, TLAPS

\* The stack is a sequence.
Stacked == \E S : operations \in Seq(S)

--------------------------------------------------------------------------------
(* Sequences of operations.                                                *)

\* The length and the domain of a sequence over anything.
LEMMA Lengths ==
    ASSUME NEW s, \E S : s \in Seq(S)
    PROVE  Len(s) \in Nat /\ DOMAIN s = 1 .. Len(s) /\ (s # <<>> => Len(s) >= 1)
<1>1. PICK S : s \in Seq(S)
  OBVIOUS
<1> QED
  BY <1>1, LenProperties, EmptySeq

\* A sequence without its last element.
LEMMA FrontOfSeq ==
    ASSUME NEW S, NEW s \in Seq(S), s # <<>>
    PROVE  /\ Front(s) \in Seq(S) /\ Len(Front(s)) = Len(s) - 1
           /\ \A i \in 1 .. Len(s) - 1 : Front(s)[i] = s[i]
<1> DEFINE n == Len(s) - 1
<1>1. n \in Nat /\ n \in Int /\ 1 \in Int /\ \A i \in 1 .. n : s[i] \in S
  BY LenProperties, EmptySeq
<1>2. /\ SubSeq(s, 1, n) \in Seq(S)
      /\ Len(SubSeq(s, 1, n)) = IF 1 <= n THEN n - 1 + 1 ELSE 0
      /\ \A i \in 1 .. n - 1 + 1 : SubSeq(s, 1, n)[i] = s[1 + i - 1]
  BY ONLY <1>1, SubSeqProperties
<1>3. Front(s) = SubSeq(s, 1, n)
  BY DEF Front
<1> HIDE DEF n
<1>4. Len(Front(s)) = n
  <2> DEFINE size == Len(Front(s))
  <2>1. size = IF 1 <= n THEN n - 1 + 1 ELSE 0
    BY <1>2, <1>3
  <2> HIDE DEF size
  <2>2. size = n
    BY <1>1, <2>1
  <2> QED
    BY <2>2 DEF size
<1>5. ASSUME NEW i \in 1 .. n PROVE Front(s)[i] = s[i]
  <2>1. i \in 1 .. n - 1 + 1 /\ 1 + i - 1 = i
    BY <1>1, <1>5
  <2> QED
    BY <1>2, <1>3, <2>1
<1>6. n = Len(s) - 1
  BY DEF n
<1> QED
  BY <1>2, <1>3, <1>4, <1>5, <1>6

\* An operation appended to a sequence of operations.
LEMMA Appended ==
    ASSUME NEW s, \E S : s \in Seq(S), NEW o
    PROVE  \E S : Append(s, o) \in Seq(S)
<1>1. PICK S : s \in Seq(S)
  OBVIOUS
<1>2. s \in Seq(S \cup {o})
  BY <1>1, SeqMonotonic
<1>3. Append(s, o) \in Seq(S \cup {o})
  BY <1>2
<1> QED
  BY <1>3

\* A sequence of operations from which one was taken out.
LEMMA WithoutOne ==
    ASSUME Stacked, NEW i \in DOMAIN operations
    PROVE  \E S : Without(i) \in Seq(S)
<1>1. PICK S : operations \in Seq(S)
  BY DEF Stacked
<1>2. Len(operations) \in Nat /\ i \in 1 .. Len(operations)
  BY <1>1, LenProperties
<1>3. SubSeq(operations, 1, i - 1) \in Seq(S)
  <2>1. 1 \in Int /\ i - 1 \in Int /\ \A k \in 1 .. i - 1 : operations[k] \in S
    BY <1>1, <1>2
  <2> QED
    BY ONLY <2>1, SubSeqProperties
<1>4. SubSeq(operations, i + 1, Len(operations)) \in Seq(S)
  <2>1. i + 1 \in Int /\ Len(operations) \in Int /\ \A k \in i + 1 .. Len(operations) : operations[k] \in S
    BY <1>1, <1>2
  <2> QED
    BY ONLY <2>1, SubSeqProperties
<1>5. Without(i) \in Seq(S)
  BY <1>3, <1>4, ConcatProperties DEF Without
<1> QED
  BY <1>5

\* A merge leaves the stack or takes one operation out of it.
LEMMA MergedOperations ==
    ASSUME NEW i, NEW op, NEW pv, Merges(operations[i], op)
    PROVE  Merged(i, op, pv).operations \in {operations, Without(i)}
<1>1. ASSUME NEW ops, NEW p, NEW o PROVE Outcome(ops, p, o).operations = ops
  BY DEF Outcome
<1> QED
  BY <1>1 DEF Merged, Merges

\* A set of positions has a largest one, the top of the stack among them.
LEMMA Largest ==
    ASSUME NEW n \in Nat, NEW T, T \subseteq 1 .. n, T # {}
    PROVE  \E x \in T : \A y \in T : y <= x
<1> DEFINE R == OpToRel(<, Nat)
           D == { n - x : x \in T }
<1>1. D \subseteq Nat /\ D # {}
  <2>1. ASSUME NEW x \in T PROVE n - x \in Nat
    BY <2>1
  <2>2. PICK x \in T : TRUE
    OBVIOUS
  <2>3. n - x \in D
    BY <2>2
  <2> QED
    BY <2>1, <2>3
<1>2. PICK d \in D : \A e \in D : ~ (<<e, d>> \in R)
  <2>1. IsWellFoundedOn(R, Nat)
    BY NatLessThanWellFounded
  <2> HIDE DEF R, D
  <2> QED
    BY ONLY <1>1, <2>1, WFMin
<1>3. ASSUME NEW e \in D PROVE d <= e
  <2>1. d \in Nat /\ e \in Nat
    BY <1>1, <1>2
  <2>2. <<e, d>> \in R <=> e < d
    BY <2>1 DEF OpToRel
  <2>3. ~ (<<e, d>> \in R)
    BY <1>2, <1>3
  <2> HIDE DEF R, D
  <2> QED
    BY <2>1, <2>2, <2>3
<1>4. PICK x \in T : d = n - x
  BY <1>2
<1>5. ASSUME NEW y \in T PROVE y <= x
  <2>1. n - y \in D
    OBVIOUS
  <2>2. n - x <= n - y
    BY <1>3, <1>4, <2>1
  <2>3. x \in Int /\ y \in Int /\ n \in Int
    BY <1>4, <1>5
  <2> HIDE DEF R, D
  <2> QED
    BY ONLY <2>2, <2>3
<1> QED
  BY <1>5

\* Whatever merges, the stack is a sequence.
LEMMA PushStacked ==
    ASSUME Stacked, NEW op, NEW pv, Push(op, pv)
    PROVE  Stacked'
<1> DEFINE out == Pushed(op, pv)
<1>1. \E S : out.operations \in Seq(S)
  <2> DEFINE seen == Seen(op)
             hits == { i \in DOMAIN operations : Merges(operations[i], seen[i]) }
             top  == CHOOSE i \in hits : \A j \in hits : j <= i
  <2>1. CASE hits = {}
    BY <2>1 DEF Pushed, Outcome, Stacked
  <2>2. CASE hits # {}
    <3>1. out = Merged(top, seen[top], pv)
      BY <2>2 DEF Pushed
    <3>2. top \in DOMAIN operations /\ Merges(operations[top], seen[top])
      <4>1. hits \subseteq 1 .. Len(operations) /\ Len(operations) \in Nat
        BY Lengths DEF Stacked
      <4>2. \A i \in hits : Merges(operations[i], seen[i])
        OBVIOUS
      <4> HIDE DEF hits, seen
      <4>3. \E i \in hits : \A j \in hits : j <= i
        BY <2>2, <4>1, Largest
      <4>4. top \in hits
        BY <4>3
      <4> QED
        BY <4>1, <4>2, <4>4, Lengths DEF Stacked
    <3>3. out.operations \in {operations, Without(top)}
      <4> HIDE DEF top, seen
      <4> QED
        BY <3>1, <3>2, MergedOperations
    <3> HIDE DEF top
    <3> QED
      BY <3>2, <3>3, WithoutOne DEF Stacked
  <2> QED
    BY <2>1, <2>2
<1>2. operations' = out.operations \/ operations' = Append(out.operations, out.pushed)
  BY DEF Push
<1> HIDE DEF out
<1> QED
  BY <1>1, <1>2, Appended DEF Stacked

\* Whatever the user does, the stack is a sequence.
LEMMA NextStacked == ASSUME Stacked, Next PROVE Stacked'
<1>1. CASE \E op, pv : Push(op, pv)
  BY <1>1, PushStacked
<1>2. CASE Pop
  <2>1. PICK S : operations \in Seq(S)
    BY DEF Stacked
  <2>2. operations' = Front(operations) /\ operations # <<>>
    BY <1>2 DEF Pop
  <2> QED
    BY <2>1, <2>2, FrontOfSeq DEF Stacked
<1>3. CASE Clear
  <2>1. operations' = <<>> /\ <<>> \in Seq({})
    BY <1>3 DEF Clear
  <2> QED
    BY <2>1 DEF Stacked
<1>4. ASSUME PushNew \/ PushDelete \/ PushResize \/ PushCopyToFree \/ PushCopyOver
      PROVE  \E op, pv : Push(op, pv)
  <2>1. CASE PushNew
    BY <2>1, Zenon DEF PushNew
  <2>2. CASE PushDelete
    BY <2>2, Zenon DEF PushDelete
  <2>3. CASE PushResize
    BY <2>3, Zenon DEF PushResize
  <2>4. CASE PushCopyToFree
    BY <2>4, Zenon DEF PushCopyToFree
  <2>5. CASE PushCopyOver
    BY <2>5, Zenon DEF PushCopyOver
  <2> QED
    BY <1>4, <2>1, <2>2, <2>3, <2>4, <2>5
<1>5. ASSUME PushRestoreToFree \/ PushRestoreOver \/ PushFlags \/ PushLabel
             \/ PushFormat \/ PushCheck \/ PushBackup \/ PushTable
      PROVE  \E op, pv : Push(op, pv)
  <2>1. CASE PushRestoreToFree
    BY <2>1, Zenon DEF PushRestoreToFree
  <2>2. CASE PushRestoreOver
    BY <2>2, Zenon DEF PushRestoreOver
  <2>3. CASE PushFlags
    BY <2>3, Zenon DEF PushFlags
  <2>4. CASE PushLabel
    BY <2>4, Zenon DEF PushLabel
  <2>5. CASE PushFormat
    BY <2>5, Zenon DEF PushFormat
  <2>6. CASE PushCheck
    BY <2>6, Zenon DEF PushCheck
  <2>7. CASE PushBackup
    BY <2>7, Zenon DEF PushBackup
  <2>8. CASE PushTable
    BY <2>8, Zenon DEF PushTable
  <2> QED
    BY <1>5, <2>1, <2>2, <2>3, <2>4, <2>5, <2>6, <2>7, <2>8
<1> QED
  BY <1>1, <1>2, <1>3, <1>4, <1>5 DEF Next

--------------------------------------------------------------------------------
(* The stack: what its operations were pushed on.                          *)
(*                                                                         *)
(* The invariant says what each operation of the stack created and removed *)
(* and on which objects the others may still work, so that what is in the  *)
(* tree below the k-th operation is a function of the stack; and that      *)
(* there are tables and partitions on k levels, each what the operation    *)
(* makes of those below it, the lowest ones those that were scanned, where *)
(* the partitions in the tree lie apart.                                   *)

Kinds == Creating \cup {"Delete", "Resize", "Flags", "Label", "Format", "Check", "Backup", "Table"}

\* What an operation holds.
IsOp(op) ==
    /\ op.kind \in Kinds
    /\ op.kind # "Table" => op.part \in PartIds
    /\ op.kind = "Copy" => {op.source, op.from} \subseteq PartIds \ {op.part} /\ op.from \in op.jobs
    /\ op.kind \in {"Copy", "Restore"} => op.over \in PartIds \cup {None}
    /\ op.kind = "Resize" => {op.oldFirst, op.oldLast, op.newFirst, op.newLast} \subseteq Sectors
    /\ op.kind = "Flags" => {op.old, op.new} \subseteq FlagSets
    /\ op.kind = "Label" => {op.old, op.new} \subseteq Labels \cup {None}
    /\ op.kind = "Format" => {op.old, op.new} \subseteq FsIds
    /\ op.kind = "Table" => {op.old, op.new} \subseteq TableIds

\* The partitions that an operation works on: a copy that merged with another one reads a
\* partition that is not the one it names as its source.
Uses(op) == (IF op.kind = "Table" THEN {} ELSE {op.part})
            \cup (IF op.kind = "Copy" THEN {op.from} ELSE {})
            \cup (IF op.kind \in {"Copy", "Restore"} THEN {op.over} \ {None} ELSE {})

Replacing(op) == op.kind \in {"Copy", "Restore"} /\ op.over # None

\* The partitions that an operation puts into the tree and takes out of it.
Creates(op) == IF op.kind \in Creating THEN {op.part} ELSE {}
Removes(op) == IF op.kind = "Delete" THEN {op.part} ELSE IF Replacing(op) THEN {op.over} ELSE {}

\* The partitions that were scanned or that an operation of the stack creates.
Known(sc, ops) == sc.live \cup UNION { Creates(ops[i]) : i \in DOMAIN ops }

\* The partitions in the tree below any table when k operations are applied.
Present(sc, ops, k) == { p \in Known(sc, ops) :
    /\ p \in sc.live \/ \E i \in 1 .. k : p \in Creates(ops[i])
    /\ \A i \in 1 .. k : p \notin Removes(ops[i]) }

Below(v, n) == { p \in PartIds : v.parts[p].parent = n }

\* The table that a partition belongs to.
Root(v, p) == IF v.parts[p].parent \in TableIds THEN v.parts[p].parent ELSE v.parts[v.parts[p].parent].parent

--------------------------------------------------------------------------------
(* Who created and who removed what.                                       *)

Typed(sc, ops, pv) ==
    /\ \E S : ops \in Seq(S)
    /\ \A i \in DOMAIN ops : IsOp(ops[i]) /\ Uses(ops[i]) \subseteq Known(sc, ops)
    /\ pv \in Previews
    /\ Known(sc, ops) \subseteq pv.live

\* No operation changes state, role and parent of a partition.
Kept(sc, pv) == \A p \in sc.live :
    /\ pv.parts[p].state = "None"
    /\ pv.parts[p].role = sc.parts[p].role /\ pv.parts[p].parent = sc.parts[p].parent

\* What an operation creates is new.
Fresh(sc, ops, pv) == \A i \in DOMAIN ops : \A p \in Creates(ops[i]) :
    /\ p \notin sc.live /\ pv.parts[p].state = ops[i].kind /\ p \notin Removes(ops[i])
    /\ \A j \in DOMAIN ops : j # i => p \notin Creates(ops[j])
    /\ \A j \in 1 .. i - 1 : p \notin Uses(ops[j])

\* What an operation removes is not looked at afterwards, and was empty.
Gone(sc, ops, pv) == \A i \in DOMAIN ops : \A p \in Removes(ops[i]) :
    /\ \A j \in i + 1 .. Len(ops) : p \notin Uses(ops[j])
    /\ \A q \in Known(sc, ops) : pv.parts[q].parent = p => \E j \in 1 .. i - 1 : q \in Removes(ops[j])

\* Logical partitions, and no others, lie in extended ones, which were there before.
Rooted(sc, ops, pv) == \A q \in Known(sc, ops) :
    /\ pv.parts[q].role = "logical" <=> pv.parts[q].parent \in PartIds
    /\ pv.parts[q].parent \in PartIds =>
           pv.parts[q].parent \in Known(sc, ops) /\ pv.parts[pv.parts[q].parent].role = "extended"
    /\ \A j \in DOMAIN ops : q \in Creates(ops[j]) =>
           \A i \in j .. Len(ops) : pv.parts[q].parent \notin Creates(ops[i])

\* What a partition overwrites lies in the same parent; extended partitions are neither
\* copied nor restored, and only what was scanned is backed up.
Placed(sc, ops, pv) == \A i \in DOMAIN ops :
    /\ Replacing(ops[i]) => /\ pv.parts[ops[i].part].parent = pv.parts[ops[i].over].parent
                            /\ pv.parts[ops[i].part].role = pv.parts[ops[i].over].role
                            /\ pv.parts[ops[i].over].role # "extended"
    /\ ops[i].kind \in {"Copy", "Restore"} => pv.parts[ops[i].part].role # "extended"
    /\ ops[i].kind = "Backup" => ops[i].part \in sc.live

\* The source that a copy names was there before it, and is not a new partition: copies of
\* these are new partitions too.
Sourced(sc, ops, pv) == \A i \in DOMAIN ops : ops[i].kind = "Copy" =>
    /\ ops[i].source \in Known(sc, ops) /\ pv.parts[ops[i].source].state \in {"None", "Restore"}
    /\ \A j \in i .. Len(ops) : ops[i].source \notin Creates(ops[j])

\* The tables that are created are different ones.
Tabled(sc, ops) == \A i \in DOMAIN ops : ops[i].kind = "Table" =>
    /\ ops[i].new # sc.table
    /\ \A j \in DOMAIN ops : ops[j].kind = "Table" /\ ops[j].new = ops[i].new => j = i

\* The tree of the preview.
Shows(sc, ops, pv) == \A n \in Nodes : pv.children[n] = Present(sc, ops, Len(ops)) \cap Below(pv, n)

Owned(sc, ops, pv) ==
    /\ Typed(sc, ops, pv) /\ Kept(sc, pv) /\ Fresh(sc, ops, pv) /\ Gone(sc, ops, pv)
    /\ Rooted(sc, ops, pv) /\ Placed(sc, ops, pv) /\ Sourced(sc, ops, pv) /\ Tabled(sc, ops)
    /\ Shows(sc, ops, pv)

--------------------------------------------------------------------------------
(* The levels.                                                             *)

Levels(ops) == [0 .. Len(ops) -> [table : TableIds, parts : [PartIds -> Partition]]]

\* What an operation makes of the partition p: x below it and y above it.
Alters(op, p, x, y) ==
    IF op.kind = "Resize" /\ op.part = p
    THEN x.first = op.oldFirst /\ x.last = op.oldLast /\ y = [x EXCEPT !.first = op.newFirst, !.last = op.newLast]
    ELSE IF op.kind = "Flags" /\ op.part = p THEN x.flags = op.old /\ y = [x EXCEPT !.flags = op.new]
    ELSE IF op.kind = "Format" /\ op.part = p THEN x.fs = op.old /\ y = [x EXCEPT !.fs = op.new]
    ELSE y = x

\* An operation that was pushed on v leads to w, where K are the partitions known.
Leads(K, op, v, w) ==
    /\ IF op.kind = "Table" THEN op.old = v.table /\ op.new = w.table
       ELSE w.table = v.table /\ \A p \in Uses(op) : Root(v, p) = v.table
    /\ \A p \in K : Alters(op, p, v.parts[p], w.parts[p])
    /\ Replacing(op) => Extent(v, op.part) = Extent(v, op.over)

\* The partitions of P lie within their parents and apart from each other.
Sound(v, P) == \A p \in P :
    /\ v.parts[p].first <= v.parts[p].last
    /\ Extent(v, p) \subseteq Bounds(v, v.parts[p].parent)
    /\ \A q \in P : q # p /\ v.parts[q].parent = v.parts[p].parent => Extent(v, p) \cap Extent(v, q) = {}

Starts(sc, l) == l[0].table = sc.table /\ \A p \in sc.live : l[0].parts[p] = sc.parts[p]
Ends(sc, ops, pv, l) ==
    l[Len(ops)].table = pv.table /\ \A p \in Known(sc, ops) : l[Len(ops)].parts[p] = pv.parts[p]

Layered(sc, ops, pv, l) ==
    /\ l \in Levels(ops) /\ Starts(sc, l) /\ Ends(sc, ops, pv, l)
    /\ \A i \in DOMAIN ops : Leads(Known(sc, ops), ops[i], l[i - 1], l[i])
    /\ \A k \in 0 .. Len(ops) : Sound(l[k], Present(sc, ops, k))

Good(sc, ops, pv) == Owned(sc, ops, pv) /\ \E l : Layered(sc, ops, pv, l)

\* What the library asks of its front end: neither deletes nor resizes a new partition that another
\* pending operation works on, and copies no new partition over another one.
CarefulFrontEnd == ~Careless /\ <<"CopyOverFrom", "New">> \notin Offered

StackInv == CarefulFrontEnd /\ scanned \in Devices /\ Good(scanned, operations, preview)

--------------------------------------------------------------------------------
(* Induction over the stack, and what is scanned.                          *)

\* From the top of the stack down.
LEMMA Downwards ==
    ASSUME NEW n \in Nat, NEW S, n \in S, \A k \in 1 .. n : k \in S => k - 1 \in S
    PROVE  \A k \in 0 .. n : k \in S
<1>1. SUFFICES ASSUME NEW b \in 0 .. n, b \notin S PROVE FALSE
  OBVIOUS
<1> DEFINE T == { k \in 1 .. n + 1 : k - 1 \notin S }
<1>2. n + 1 \in Nat /\ T \subseteq 1 .. n + 1 /\ b + 1 \in T
  BY <1>1
<1>3. PICK x \in T : \A y \in T : y <= x
  <2> HIDE DEF T
  <2> QED
    BY <1>2, Largest
<1>4. x \in 1 .. n + 1 /\ x - 1 \notin S
  BY <1>3
<1>5. x # n + 1
  BY <1>4
<1>6. x \in 1 .. n /\ x + 1 \in 1 .. n + 1 /\ x + 1 - 1 = x
  BY <1>4, <1>5
<1>7. x \notin S
  BY <1>4, <1>6
<1>8. x + 1 \in T
  BY <1>6, <1>7
<1>9. x + 1 <= x
  BY <1>3, <1>8
<1> HIDE DEF T
<1> QED
  BY <1>6, <1>9

\* From below up.
LEMMA Upwards ==
    ASSUME NEW n \in Nat, NEW S, 0 \in S, \A k \in 1 .. n : k - 1 \in S => k \in S
    PROVE  \A k \in 0 .. n : k \in S
<1> DEFINE T == { k \in 0 .. n : n - k \in S }
<1>1. n \in T
  OBVIOUS
<1>2. \A k \in 1 .. n : k \in T => k - 1 \in T
  <2> SUFFICES ASSUME NEW k \in 1 .. n, n - k \in S PROVE n - (k - 1) \in S /\ k - 1 \in 0 .. n
    OBVIOUS
  <2>1. n - (k - 1) \in 1 .. n /\ n - (k - 1) - 1 = n - k
    OBVIOUS
  <2> QED
    BY <2>1
<1>3. \A k \in 0 .. n : k \in T
  <2> HIDE DEF T
  <2> QED
    BY <1>1, <1>2, Downwards
<1>4. SUFFICES ASSUME NEW k \in 0 .. n PROVE k \in S
  OBVIOUS
<1>5. n - k \in 0 .. n /\ n - (n - k) = k
  OBVIOUS
<1> QED
  BY <1>3, <1>5

\* A function that is defined from the top down.
Descends(f, n, V, top, step) ==
    f \in [0 .. n -> V] /\ f[n] = top /\ \A k \in 0 .. n : k # n => f[k] = step[k + 1][f[k + 1]]

\* There is one.
LEMMA Descent ==
    ASSUME NEW n \in Nat, NEW V, NEW top \in V, NEW step \in [1 .. n -> [V -> V]]
    PROVE  \E f : Descends(f, n, V, top, step)
<1> DEFINE Is(f, k) == f \in [k .. n -> V] /\ f[n] = top /\ \A j \in k .. n : j # n => f[j] = step[j + 1][f[j + 1]]
           S == { k \in 0 .. n : \E f : Is(f, k) }
<1>1. n \in S
  <2> DEFINE g == [j \in n .. n |-> top]
  <2>1. Is(g, n)
    OBVIOUS
  <2> HIDE DEF g, Is
  <2> QED
    BY <2>1
<1>2. ASSUME NEW k \in 1 .. n, k \in S PROVE k - 1 \in S
  <2>1. PICK f : Is(f, k)
    BY <1>2
  <2> DEFINE g == [j \in k - 1 .. n |-> IF j = k - 1 THEN step[k][f[k]] ELSE f[j]]
  <2>2. \A j \in k .. n : g[j] = f[j] /\ f[j] \in V
    BY <2>1
  <2>3. g[k - 1] = step[k][f[k]] /\ step[k][f[k]] \in V
    <3>1. k \in k .. n /\ k - 1 \in k - 1 .. n
      OBVIOUS
    <3> QED
      BY <2>2, <3>1
  <2>4. g \in [k - 1 .. n -> V]
    <3>1. ASSUME NEW j \in k - 1 .. n PROVE g[j] \in V
      <4>1. j = k - 1 \/ j \in k .. n
        OBVIOUS
      <4> HIDE DEF g
      <4> QED
        BY <2>2, <2>3, <4>1
    <3>2. g = [j \in k - 1 .. n |-> g[j]]
      OBVIOUS
    <3> HIDE DEF g
    <3> QED
      BY <3>1, <3>2
  <2>5. ASSUME NEW j \in k - 1 .. n, j # n PROVE g[j] = step[j + 1][g[j + 1]]
    <3>1. CASE j = k - 1
      BY <2>2, <2>3, <3>1
    <3>2. CASE j # k - 1
      <4>1. j \in k .. n /\ j + 1 \in k .. n
        BY <2>5, <3>2
      <4>2. f[j] = step[j + 1][f[j + 1]]
        BY <2>1, <2>5, <4>1
      <4> HIDE DEF g
      <4> QED
        BY <2>2, <4>1, <4>2
    <3> QED
      BY <3>1, <3>2
  <2>6. g[n] = top
    BY <2>1, <2>2
  <2>7. Is(g, k - 1)
    <3> HIDE DEF g
    <3> QED
      BY <2>4, <2>5, <2>6
  <2>8. \E h : Is(h, k - 1)
    <3> HIDE DEF g, Is
    <3> QED
      BY <2>7
  <2> HIDE DEF g, Is
  <2> QED
    BY <2>8
<1>3. 0 \in S
  <2>1. \A k \in 0 .. n : k \in S
    <3> HIDE DEF S
    <3> QED
      BY <1>1, <1>2, Downwards
  <2>2. 0 \in 0 .. n
    OBVIOUS
  <2> HIDE DEF S
  <2> QED
    BY <2>1, <2>2
<1>4. PICK f : Is(f, 0)
  BY <1>3
<1> QED
  BY <1>4 DEF Descends

\* What is known of a device that was scanned.
LEMMA ScanFacts ==
    ASSUME NEW sc \in Devices
    PROVE  /\ sc \in Previews /\ sc.live \subseteq PartIds /\ sc.table \in TableIds
           /\ \A n \in Nodes : sc.children[n] = sc.live \cap Below(sc, n)
           /\ \A p \in sc.live : /\ sc.parts[p].state = "None"
                                 /\ sc.parts[p].role = "logical" <=> sc.parts[p].parent \in PartIds
                                 /\ sc.parts[p].parent \in PartIds =>
                                        sc.parts[p].parent \in sc.live /\ sc.parts[sc.parts[p].parent].role = "extended"
                                 /\ Root(sc, p) = sc.table
           /\ Sound(sc, sc.live)
<1>1. IsScan(sc) /\ sc \in Previews
  BY DevicesAssumption DEF IsScan
<1>2. /\ sc.live \subseteq PartIds /\ sc.table \in TableIds /\ sc.children \in [Nodes -> SUBSET PartIds]
      /\ PartIds \cap TableIds = {} /\ TableIds \subseteq Nodes /\ PartIds \subseteq Nodes /\ Nodes \subseteq TableIds \cup PartIds
  BY <1>1, StackAssumption DEF Previews, Nodes
<1>3. \A n \in Nodes \ {sc.table} : sc.children[n] # {} => n \in sc.children[sc.table] /\ sc.parts[n].role = "extended"
  BY <1>1 DEF IsScan
<1>4. \A n \in Nodes : \A p \in sc.children[n] :
         /\ sc.parts[p].parent = n /\ sc.parts[p].state = "None"
         /\ sc.parts[p].role = "logical" <=> n # sc.table
         /\ IsFree(sc, n, sc.parts[p].first, sc.parts[p].last, {p})
  BY <1>1 DEF IsScan
<1>5. sc.live = sc.children[sc.table] \cup UNION { sc.children[p] : p \in sc.children[sc.table] }
  BY <1>1 DEF IsScan, Visible
<1>6. \A p \in sc.live : sc.parts[p].parent \in Nodes /\ p \in sc.children[sc.parts[p].parent]
                         /\ (sc.parts[p].parent = sc.table \/ sc.parts[p].parent \in sc.children[sc.table])
  <2>1. TAKE p \in sc.live
  <2>2. p \in sc.children[sc.table] \/ \E n \in sc.children[sc.table] : p \in sc.children[n]
    BY <1>5
  <2>3. sc.table \in Nodes /\ sc.children[sc.table] \subseteq Nodes
    BY <1>2
  <2>4. PICK n \in Nodes : p \in sc.children[n] /\ (n = sc.table \/ n \in sc.children[sc.table])
    BY <2>2, <2>3
  <2>5. sc.parts[p].parent = n
    BY <1>4, <2>4
  <2> QED
    BY <2>4, <2>5
<1>7. ASSUME NEW n \in Nodes PROVE sc.children[n] = sc.live \cap Below(sc, n)
  <2>1. ASSUME NEW p \in sc.children[n] PROVE p \in sc.live /\ p \in PartIds /\ sc.parts[p].parent = n
    <3>1. n = sc.table \/ n \in sc.children[sc.table]
      BY <1>3, <2>1
    <3>2. p \in sc.live /\ p \in PartIds
      BY <1>2, <1>5, <2>1, <3>1
    <3> QED
      BY <1>4, <2>1, <3>2
  <2>2. ASSUME NEW p \in sc.live, sc.parts[p].parent = n PROVE p \in sc.children[n]
    BY <1>6, <2>2
  <2> QED
    BY <2>1, <2>2 DEF Below
<1>8. ASSUME NEW p \in sc.live
      PROVE  /\ sc.parts[p].state = "None"
             /\ sc.parts[p].role = "logical" <=> sc.parts[p].parent \in PartIds
             /\ sc.parts[p].parent \in PartIds =>
                    sc.parts[p].parent \in sc.live /\ sc.parts[sc.parts[p].parent].role = "extended"
             /\ Root(sc, p) = sc.table
  <2> DEFINE n == sc.parts[p].parent
  <2>1. n \in Nodes /\ p \in sc.children[n] /\ (n = sc.table \/ n \in sc.children[sc.table])
    BY <1>6
  <2>2. sc.parts[p].state = "None" /\ (sc.parts[p].role = "logical" <=> n # sc.table)
    BY <1>4, <2>1
  <2>3. CASE n = sc.table
    BY <1>2, <2>1, <2>2, <2>3 DEF Root
  <2>4. CASE n # sc.table
    <3>1. n \in sc.children[sc.table] /\ n \in PartIds /\ n \in sc.live
      BY <1>2, <1>5, <2>1, <2>4
    <3>2. sc.parts[n].role = "extended"
      <4>1. n \in Nodes \ {sc.table} /\ sc.children[n] # {}
        BY <2>1, <2>4
      <4> HIDE DEF n
      <4> QED
        BY <1>3, <4>1
    <3>3. sc.parts[n].parent = sc.table
      <4>1. sc.table \in Nodes
        BY <1>2
      <4> HIDE DEF n
      <4> QED
        BY <1>4, <3>1, <4>1
    <3> QED
      BY <1>2, <2>2, <2>4, <3>1, <3>2, <3>3 DEF Root
  <2> QED
    BY <2>3, <2>4
<1>9. Sound(sc, sc.live)
  <2>1. ASSUME NEW p \in sc.live, NEW q \in sc.live, q # p, sc.parts[q].parent = sc.parts[p].parent
        PROVE Extent(sc, p) \cap Extent(sc, q) = {}
    <3> DEFINE n == sc.parts[p].parent
    <3>1. n \in Nodes /\ p \in sc.children[n] /\ q \in sc.children[n] \ {p}
      BY <1>6, <2>1
    <3>2. IsFree(sc, n, sc.parts[p].first, sc.parts[p].last, {p})
      BY <1>4, <3>1
    <3> QED
      BY <3>1, <3>2 DEF IsFree, Extent
  <2>2. ASSUME NEW p \in sc.live
        PROVE sc.parts[p].first <= sc.parts[p].last /\ Extent(sc, p) \subseteq Bounds(sc, sc.parts[p].parent)
    BY <1>4, <1>6 DEF IsFree, Extent
  <2> QED
    BY <2>1, <2>2 DEF Sound
<1> QED
  BY <1>1, <1>2, <1>7, <1>8, <1>9

\* A device without operations.
LEMMA GoodInit ==
    ASSUME NEW sc \in Devices
    PROVE  Good(sc, <<>>, sc)
<1>1. Len(<<>>) = 0 /\ DOMAIN <<>> = {} /\ <<>> \in Seq({}) /\ 0 .. 0 = {0}
  OBVIOUS
<1>2. Known(sc, <<>>) = sc.live /\ Present(sc, <<>>, 0) = sc.live
  BY <1>1 DEF Known, Present
<1>3. Owned(sc, <<>>, sc)
  BY <1>1, <1>2, ScanFacts DEF Owned, Typed, Kept, Fresh, Gone, Rooted, Placed, Sourced, Tabled, Shows
<1> DEFINE l == [k \in 0 .. 0 |-> [table |-> sc.table, parts |-> sc.parts]]
<1>4. l[0].table = sc.table /\ l[0].parts = sc.parts
  OBVIOUS
<1>5. l \in Levels(<<>>)
  BY <1>1, ScanFacts DEF Levels, Previews
<1>6. Sound(l[0], sc.live)
  <2> HIDE DEF l
  <2> QED
    BY <1>4, ScanFacts DEF Sound, Extent, Bounds
<1>7. Layered(sc, <<>>, sc, l)
  <2> HIDE DEF l
  <2> QED
    BY <1>1, <1>2, <1>4, <1>5, <1>6 DEF Layered, Starts, Ends
<1> HIDE DEF l
<1> QED
  BY <1>3, <1>7 DEF Good

--------------------------------------------------------------------------------
(* What the parts of the invariant say together.                           *)

\* The partitions of an operation.
LEMMA OperandFacts ==
    ASSUME NEW op, IsOp(op)
    PROVE  /\ Creates(op) \subseteq Uses(op) /\ Removes(op) \subseteq Uses(op)
           /\ Uses(op) \subseteq PartIds
           /\ op.kind = "Table" => Uses(op) = {} /\ Creates(op) = {} /\ Removes(op) = {}
           /\ op.kind = "Backup" => Uses(op) = {op.part} /\ Creates(op) = {} /\ Removes(op) = {}
           /\ op.kind # "Table" => op.part \in Uses(op)
           /\ Replacing(op) => op.over \in Uses(op) /\ Removes(op) = {op.over} /\ Creates(op) = {op.part}
           /\ Operands(op) \subseteq Uses(op) \cup (IF op.kind = "Copy" THEN {op.source} ELSE {})
  BY DEF IsOp, Kinds, Creates, Removes, Uses, Operands, Replacing, Creating

\* Types of what the invariant speaks of.
LEMMA GoodTypes ==
    ASSUME NEW sc \in Devices, NEW ops, NEW pv, Typed(sc, ops, pv)
    PROVE  /\ Len(ops) \in Nat /\ DOMAIN ops = 1 .. Len(ops) /\ \E S : ops \in Seq(S)
           /\ Known(sc, ops) \subseteq PartIds /\ sc.live \subseteq Known(sc, ops)
           /\ \A i \in 1 .. Len(ops) : /\ IsOp(ops[i]) /\ Uses(ops[i]) \subseteq Known(sc, ops)
                                       /\ Creates(ops[i]) \subseteq Uses(ops[i])
                                       /\ Removes(ops[i]) \subseteq Uses(ops[i])
           /\ \A p \in Known(sc, ops) : p \in sc.live \/ \E i \in 1 .. Len(ops) : p \in Creates(ops[i])
           /\ \A k : Present(sc, ops, k) \subseteq Known(sc, ops)
           /\ pv.live \subseteq PartIds /\ pv.parts \in [PartIds -> Partition] /\ pv.table \in TableIds
           /\ pv.children \in [Nodes -> SUBSET PartIds]
           /\ Nodes = TableIds \cup PartIds /\ PartIds \cap TableIds = {}
<1>1. Len(ops) \in Nat /\ DOMAIN ops = 1 .. Len(ops) /\ \E S : ops \in Seq(S)
  BY Lengths DEF Typed
<1>2. sc.live \subseteq PartIds
  BY ScanFacts
<1>3. \A i \in 1 .. Len(ops) : /\ IsOp(ops[i]) /\ Uses(ops[i]) \subseteq Known(sc, ops)
                               /\ Creates(ops[i]) \subseteq Uses(ops[i])
                               /\ Removes(ops[i]) \subseteq Uses(ops[i])
                               /\ Uses(ops[i]) \subseteq PartIds
  BY <1>1, OperandFacts DEF Typed
<1>4. \A p \in Known(sc, ops) : p \in sc.live \/ \E i \in 1 .. Len(ops) : p \in Creates(ops[i])
  BY <1>1 DEF Known
<1>5. Known(sc, ops) \subseteq PartIds
  BY <1>2, <1>3, <1>4
<1>6. sc.live \subseteq Known(sc, ops) /\ \A k : Present(sc, ops, k) \subseteq Known(sc, ops)
  BY DEF Known, Present
<1>7. pv \in Previews
  BY DEF Typed
<1>8. /\ pv.live \subseteq PartIds /\ pv.parts \in [PartIds -> Partition] /\ pv.table \in TableIds
      /\ pv.children \in [Nodes -> SUBSET PartIds]
  BY <1>7 DEF Previews
<1> QED
  BY <1>1, <1>3, <1>4, <1>5, <1>6, <1>8, StackAssumption DEF Nodes

\* What an operation works on is in the tree below it, and what it creates is not.
LEMMA OperandsPresent ==
    ASSUME NEW sc \in Devices, NEW ops, NEW pv, Owned(sc, ops, pv), NEW i \in 1 .. Len(ops)
    PROVE  /\ \A p \in Uses(ops[i]) \ Creates(ops[i]) : p \in Present(sc, ops, i - 1)
           /\ \A p \in Creates(ops[i]) : p \notin Present(sc, ops, i - 1)
<1>1. Typed(sc, ops, pv) /\ Fresh(sc, ops, pv) /\ Gone(sc, ops, pv)
  BY DEF Owned
<1>2. Len(ops) \in Nat /\ DOMAIN ops = 1 .. Len(ops)
  BY <1>1, GoodTypes
<1>3. ASSUME NEW p \in Uses(ops[i]) \ Creates(ops[i]) PROVE p \in Present(sc, ops, i - 1)
  <2>1. p \in Known(sc, ops)
    BY <1>1, GoodTypes
  <2>2. p \in sc.live \/ \E j \in 1 .. i - 1 : p \in Creates(ops[j])
    <3>1. SUFFICES ASSUME NEW j \in 1 .. Len(ops), p \in Creates(ops[j]) PROVE j \in 1 .. i - 1
      BY <1>1, <2>1, GoodTypes
    <3>2. \A k \in 1 .. j - 1 : p \notin Uses(ops[k])
      BY <1>1, <1>2, <3>1 DEF Fresh
    <3>3. ~ (i \in 1 .. j - 1)
      BY <1>3, <3>2
    <3>4. i # j
      BY <1>3, <3>1
    <3> QED
      BY <1>2, <3>3, <3>4
  <2>3. ASSUME NEW j \in 1 .. i - 1, p \in Removes(ops[j]) PROVE FALSE
    <3>1. j \in DOMAIN ops /\ i \in j + 1 .. Len(ops)
      BY <1>2
    <3> QED
      BY <1>1, <1>3, <2>3, <3>1 DEF Gone
  <2> QED
    BY <2>1, <2>2, <2>3 DEF Present
<1>4. ASSUME NEW p \in Creates(ops[i]), p \in Present(sc, ops, i - 1) PROVE FALSE
  <2>1. p \notin sc.live
    BY <1>1, <1>2, <1>4 DEF Fresh
  <2>2. PICK j \in 1 .. i - 1 : p \in Creates(ops[j])
    BY <1>4, <2>1 DEF Present
  <2>3. j \in 1 .. Len(ops) /\ j # i
    BY <1>2
  <2> QED
    BY <1>1, <1>2, <1>4, <2>2, <2>3 DEF Fresh
<1> QED
  BY <1>3, <1>4

\* The extended partition around a logical one is in the tree as long as that one.
LEMMA ParentPresent ==
    ASSUME NEW sc \in Devices, NEW ops, NEW pv, Owned(sc, ops, pv), NEW k \in 0 .. Len(ops),
           NEW q \in Present(sc, ops, k), pv.parts[q].parent \in PartIds
    PROVE  pv.parts[q].parent \in Present(sc, ops, k)
<1> DEFINE p == pv.parts[q].parent
<1>1. Typed(sc, ops, pv) /\ Fresh(sc, ops, pv) /\ Gone(sc, ops, pv) /\ Rooted(sc, ops, pv) /\ Kept(sc, pv)
  BY DEF Owned
<1>2. Len(ops) \in Nat /\ DOMAIN ops = 1 .. Len(ops) /\ q \in Known(sc, ops)
  BY <1>1, GoodTypes
<1>3. p \in Known(sc, ops)
  BY <1>1, <1>2 DEF Rooted
<1>4. p \in sc.live \/ \E i \in 1 .. k : p \in Creates(ops[i])
  <2>1. CASE q \in sc.live
    BY <1>1, <2>1, ScanFacts DEF Kept
  <2>2. CASE q \notin sc.live
    <3>1. PICK j \in 1 .. k : q \in Creates(ops[j])
      BY <2>2 DEF Present
    <3>2. SUFFICES ASSUME NEW i \in 1 .. Len(ops), p \in Creates(ops[i]) PROVE i \in 1 .. k
      BY <1>1, <1>3, GoodTypes
    <3>3. j \in DOMAIN ops /\ ~ (i \in j .. Len(ops))
      BY <1>1, <1>2, <3>1, <3>2 DEF Rooted
    <3> QED
      BY <1>2, <3>3
  <2> QED
    BY <2>1, <2>2
<1>5. ASSUME NEW i \in 1 .. k, p \in Removes(ops[i]) PROVE FALSE
  <2>1. i \in DOMAIN ops
    BY <1>2
  <2>2. PICK j \in 1 .. i - 1 : q \in Removes(ops[j])
    BY <1>1, <1>2, <1>5, <2>1 DEF Gone
  <2>3. j \in 1 .. k
    BY <1>2
  <2> QED
    BY <2>2, <2>3 DEF Present
<1> QED
  BY <1>3, <1>4, <1>5 DEF Present

\* State, role and parent of a partition are the same on every level.
LEMMA LevelsKeep ==
    ASSUME NEW sc \in Devices, NEW ops, NEW pv, NEW l, Typed(sc, ops, pv), Layered(sc, ops, pv, l)
    PROVE  /\ \A k \in 0 .. Len(ops) : /\ l[k].table \in TableIds /\ l[k].parts \in [PartIds -> Partition]
                                       /\ DOMAIN l[k] = {"table", "parts"}
           /\ \A k \in 0 .. Len(ops), p \in Known(sc, ops) :
                 /\ l[k].parts[p].state = pv.parts[p].state
                 /\ l[k].parts[p].role = pv.parts[p].role
                 /\ l[k].parts[p].parent = pv.parts[p].parent
<1>1. Len(ops) \in Nat /\ DOMAIN ops = 1 .. Len(ops) /\ Known(sc, ops) \subseteq PartIds
  BY GoodTypes
<1>2. \A k \in 0 .. Len(ops) : /\ l[k].table \in TableIds /\ l[k].parts \in [PartIds -> Partition]
                               /\ DOMAIN l[k] = {"table", "parts"}
  BY DEF Layered, Levels
<1>3. \A p \in Known(sc, ops) : l[Len(ops)].parts[p] = pv.parts[p]
  BY DEF Layered, Ends
<1>4. ASSUME NEW i \in 1 .. Len(ops), NEW p \in Known(sc, ops)
      PROVE  /\ l[i].parts[p].state = l[i - 1].parts[p].state
             /\ l[i].parts[p].role = l[i - 1].parts[p].role
             /\ l[i].parts[p].parent = l[i - 1].parts[p].parent
  <2>1. Alters(ops[i], p, l[i - 1].parts[p], l[i].parts[p])
    BY <1>1 DEF Layered, Leads
  <2>2. l[i - 1].parts[p] \in Partition
    BY <1>1, <1>2
  <2> DEFINE x == l[i - 1].parts[p]
             y == l[i].parts[p]
  <2> HIDE DEF x, y
  <2>3. Alters(ops[i], p, x, y) => y.state = x.state /\ y.role = x.role /\ y.parent = x.parent
    BY <2>2 DEF Alters, Partition, x
  <2> QED
    BY <2>1, <2>3 DEF x, y
<1> DEFINE T == { k \in 0 .. Len(ops) : \A p \in Known(sc, ops) :
                     /\ l[k].parts[p].state = pv.parts[p].state
                     /\ l[k].parts[p].role = pv.parts[p].role
                     /\ l[k].parts[p].parent = pv.parts[p].parent }
<1>5. Len(ops) \in T
  BY <1>1, <1>3
<1>6. \A k \in 1 .. Len(ops) : k \in T => k - 1 \in T
  BY <1>1, <1>4
<1>7. \A k \in 0 .. Len(ops) : k \in T
  <2> HIDE DEF T
  <2> QED
    BY <1>1, <1>5, <1>6, Downwards
<1> QED
  BY <1>2, <1>7

\* Each level has the table that was scanned or one that an operation below created; when
\* it is another one, an operation below replaced the one that was scanned.
LEMMA LevelTables ==
    ASSUME NEW sc \in Devices, NEW ops, NEW pv, NEW l, Typed(sc, ops, pv), Layered(sc, ops, pv, l),
           NEW k \in 0 .. Len(ops)
    PROVE  \/ l[k].table = sc.table
           \/ /\ \E i \in 1 .. k : ops[i].kind = "Table" /\ ops[i].new = l[k].table
              /\ \E i \in 1 .. k : ops[i].kind = "Table" /\ ops[i].old = sc.table
<1>1. Len(ops) \in Nat /\ DOMAIN ops = 1 .. Len(ops)
  BY GoodTypes
<1> DEFINE New(m) == \E i \in 1 .. m : ops[i].kind = "Table" /\ ops[i].new = l[m].table
           Old(m) == \E i \in 1 .. m : ops[i].kind = "Table" /\ ops[i].old = sc.table
           T == { m \in 0 .. Len(ops) : l[m].table = sc.table \/ (New(m) /\ Old(m)) }
<1>2. 0 \in T
  BY <1>1 DEF Layered, Starts
<1>3. ASSUME NEW m \in 1 .. Len(ops), m - 1 \in T PROVE m \in T
  <2>1. /\ ops[m].kind = "Table" => ops[m].old = l[m - 1].table /\ ops[m].new = l[m].table
        /\ ops[m].kind # "Table" => l[m].table = l[m - 1].table
    BY <1>1 DEF Layered, Leads
  <2>2. \A i \in 1 .. m - 1 : i \in 1 .. m
    BY <1>1
  <2>3. CASE ops[m].kind = "Table"
    <3>1. m \in 1 .. m
      BY <1>1
    <3>2. New(m)
      BY <2>1, <2>3, <3>1
    <3>3. Old(m)
      <4>1. CASE l[m - 1].table = sc.table
        BY <2>1, <2>3, <3>1, <4>1
      <4>2. CASE Old(m - 1)
        BY <2>2, <4>2
      <4> QED
        BY <1>3, <4>1, <4>2
    <3> QED
      BY <3>2, <3>3
  <2>4. CASE ops[m].kind # "Table"
    <3>1. CASE l[m - 1].table = sc.table
      BY <2>1, <2>4, <3>1
    <3>2. CASE New(m - 1) /\ Old(m - 1)
      BY <2>1, <2>2, <2>4, <3>2
    <3> QED
      BY <1>3, <3>1, <3>2
  <2> QED
    BY <2>3, <2>4
<1>4. \A m \in 0 .. Len(ops) : m \in T
  <2> HIDE DEF T
  <2> QED
    BY <1>1, <1>2, <1>3, Upwards
<1> QED
  BY <1>4

\* What is in the tree of a new table was created after it.
LEMMA RootsCreated ==
    ASSUME NEW sc \in Devices, NEW ops, NEW pv, Good(sc, ops, pv), NEW q \in Known(sc, ops),
           NEW i \in 1 .. Len(ops), ops[i].kind = "Table", Root(pv, q) = ops[i].new
    PROVE  \E j \in i + 1 .. Len(ops) : q \in Creates(ops[j])
<1>1. PICK l : Layered(sc, ops, pv, l)
  BY DEF Good
<1>2. Owned(sc, ops, pv) /\ Typed(sc, ops, pv) /\ Kept(sc, pv) /\ Rooted(sc, ops, pv) /\ Tabled(sc, ops)
  BY DEF Good, Owned
<1>3. Len(ops) \in Nat /\ DOMAIN ops = 1 .. Len(ops)
  BY <1>2, GoodTypes
<1>4. ops[i].new # sc.table
  BY <1>2, <1>3 DEF Tabled
<1>5. q \notin sc.live
  <2>1. ASSUME q \in sc.live PROVE Root(pv, q) = sc.table
    <3>1. pv.parts[q].parent = sc.parts[q].parent /\ Root(sc, q) = sc.table
      BY <1>2, <2>1, ScanFacts DEF Kept
    <3>2. CASE sc.parts[q].parent \in TableIds
      BY <3>1, <3>2 DEF Root
    <3>3. CASE sc.parts[q].parent \notin TableIds
      <4>1. sc.parts[q].parent \in sc.live
        <5>1. sc \in Previews /\ q \in PartIds
          BY <2>1, ScanFacts
        <5>2. sc.parts[q].parent \in Nodes
          BY <5>1 DEF Previews, Partition
        <5> QED
          BY <2>1, <3>3, <5>2, ScanFacts DEF Nodes
      <4> QED
        BY <1>2, <3>1, <3>3, <4>1 DEF Root, Kept
    <3> QED
      BY <3>2, <3>3
  <2> QED
    BY <1>4, <2>1
<1>6. PICK j \in 1 .. Len(ops) : q \in Creates(ops[j])
  BY <1>2, <1>5, GoodTypes
<1>7. Root(l[j - 1], q) = l[j - 1].table
  <2>1. IsOp(ops[j]) /\ q \in Uses(ops[j])
    BY <1>2, <1>6, GoodTypes
  <2>2. ops[j].kind # "Table"
    BY <1>6, <2>1, OperandFacts
  <2> QED
    BY <1>1, <1>3, <2>1, <2>2 DEF Layered, Leads
<1>8. Root(l[j - 1], q) = Root(pv, q)
  <2>1. j - 1 \in 0 .. Len(ops)
    BY <1>3
  <2>2. l[j - 1].parts[q].parent = pv.parts[q].parent
    BY <1>1, <1>2, <2>1, LevelsKeep
  <2>3. CASE pv.parts[q].parent \in TableIds
    BY <2>2, <2>3 DEF Root
  <2>4. CASE pv.parts[q].parent \notin TableIds
    <3>1. q \in PartIds /\ pv.parts \in [PartIds -> Partition]
      BY <1>2, GoodTypes
    <3>2. pv.parts[q].parent \in PartIds
      BY <2>4, <3>1 DEF Partition, Nodes
    <3>3. pv.parts[q].parent \in Known(sc, ops)
      BY <1>2, <3>2 DEF Rooted
    <3>4. l[j - 1].parts[pv.parts[q].parent].parent = pv.parts[pv.parts[q].parent].parent
      BY <1>1, <1>2, <2>1, <3>3, LevelsKeep
    <3> QED
      BY <2>2, <3>4 DEF Root
  <2> QED
    BY <2>3, <2>4
<1>9. \E m \in 1 .. j - 1 : ops[m].kind = "Table" /\ ops[m].new = ops[i].new
  <2> DEFINE k == j - 1
  <2>1. k \in 0 .. Len(ops) /\ l[k].table = ops[i].new
    BY <1>3, <1>7, <1>8
  <2> HIDE DEF k
  <2>2. \E m \in 1 .. k : ops[m].kind = "Table" /\ ops[m].new = l[k].table
    BY <1>1, <1>2, <1>4, <2>1, LevelTables
  <2> QED
    BY <2>1, <2>2 DEF k
<1>10. i \in 1 .. j - 1
  BY <1>2, <1>3, <1>9 DEF Tabled
<1> QED
  BY <1>3, <1>6, <1>10

\* What the objects hold that no operation knows does not matter.
LEMMA Irrelevant ==
    ASSUME NEW sc \in Devices, NEW ops, NEW pv, NEW w, Good(sc, ops, pv), w \in Previews,
           Known(sc, ops) \subseteq w.live, w.table = pv.table, w.children = pv.children,
           \A p \in Known(sc, ops) : w.parts[p] = pv.parts[p]
    PROVE  Good(sc, ops, w)
<1>1. /\ Typed(sc, ops, pv) /\ Kept(sc, pv) /\ Fresh(sc, ops, pv) /\ Gone(sc, ops, pv)
      /\ Rooted(sc, ops, pv) /\ Placed(sc, ops, pv) /\ Tabled(sc, ops) /\ Shows(sc, ops, pv)
  BY DEF Good, Owned
<1>2. /\ Len(ops) \in Nat /\ DOMAIN ops = 1 .. Len(ops) /\ sc.live \subseteq Known(sc, ops) /\ Known(sc, ops) \subseteq PartIds
      /\ \A i \in 1 .. Len(ops) : /\ IsOp(ops[i]) /\ Uses(ops[i]) \subseteq Known(sc, ops)
                                  /\ Creates(ops[i]) \subseteq Known(sc, ops)
                                  /\ Removes(ops[i]) \subseteq Known(sc, ops)
      /\ \A k : Present(sc, ops, k) \subseteq Known(sc, ops)
  BY <1>1, GoodTypes
<1>3. Typed(sc, ops, w)
  BY <1>1 DEF Typed
<1>4. Kept(sc, w)
  BY <1>1, <1>2 DEF Kept
<1>5. Fresh(sc, ops, w)
  BY <1>1, <1>2 DEF Fresh
<1>6. Gone(sc, ops, w)
  BY <1>1, <1>2 DEF Gone
<1>7. Rooted(sc, ops, w)
  BY <1>1, <1>2 DEF Rooted
<1>8. Placed(sc, ops, w)
  <2>1. ASSUME NEW i \in DOMAIN ops, Replacing(ops[i])
        PROVE ops[i].part \in Known(sc, ops) /\ ops[i].over \in Known(sc, ops)
    <3>1. Creates(ops[i]) = {ops[i].part} /\ ops[i].over \in Uses(ops[i])
      BY <1>2, <2>1, OperandFacts
    <3> QED
      BY <1>2, <3>1
  <2>2. ASSUME NEW i \in DOMAIN ops, ops[i].kind \in {"Copy", "Restore"} PROVE ops[i].part \in Known(sc, ops)
    BY <1>2, <2>2, OperandFacts
  <2> QED
    BY <1>1, <2>1, <2>2 DEF Placed
<1>9. Shows(sc, ops, w)
  <2>1. ASSUME NEW n \in Nodes PROVE Present(sc, ops, Len(ops)) \cap Below(w, n) = Present(sc, ops, Len(ops)) \cap Below(pv, n)
    BY <1>2 DEF Below
  <2> QED
    BY <1>1, <2>1 DEF Shows
<1>9a. Sourced(sc, ops, w)
  <2>1. Sourced(sc, ops, pv)
    BY DEF Good, Owned
  <2> QED
    BY <2>1 DEF Sourced
<1>10. Owned(sc, ops, w)
  BY <1>1, <1>3, <1>4, <1>5, <1>6, <1>7, <1>8, <1>9, <1>9a DEF Owned
<1>11. ASSUME NEW l, Layered(sc, ops, pv, l) PROVE Layered(sc, ops, w, l)
  BY <1>11 DEF Layered, Ends
<1> QED
  BY <1>10, <1>11 DEF Good

--------------------------------------------------------------------------------
(* An operation is pushed.                                                 *)

\* What an operation may be that is pushed on ops and pv: w is the preview with what it creates.
Pushable(sc, ops, pv, op, w) ==
    /\ IsOp(op) /\ (Uses(op) \ Creates(op)) \cup Removes(op) \subseteq Present(sc, ops, Len(ops))
    /\ \A p \in Creates(op) :
          /\ p \notin Known(sc, ops) /\ w.parts[p].state = op.kind
          /\ w.parts[p].role = "logical" <=> w.parts[p].parent \in PartIds
          /\ w.parts[p].parent \in PartIds =>
                 /\ w.parts[p].parent \in Present(sc, ops, Len(ops))
                 /\ pv.parts[w.parts[p].parent].role = "extended"
    /\ op.kind = "Copy" =>
           op.source \in Known(sc, ops) /\ pv.parts[op.source].state \in {"None", "Restore"}
    /\ \A p \in Removes(op) : pv.children[p] = {}
    /\ Replacing(op) => /\ w.parts[op.part].parent = pv.parts[op.over].parent
                        /\ w.parts[op.part].role = pv.parts[op.over].role
                        /\ pv.parts[op.over].role # "extended"
    /\ op.kind \in {"Copy", "Restore"} => w.parts[op.part].role # "extended"
    /\ op.kind = "Backup" => op.part \in sc.live
    /\ op.kind = "Table" =>
           op.new # sc.table /\ \A i \in DOMAIN ops : ops[i].kind = "Table" => ops[i].new # op.new

\* pv with what op creates in w.
Prepared(pv, op, w) ==
    [table |-> pv.table, parts |-> [p \in PartIds |-> IF p \in Creates(op) THEN w.parts[p] ELSE pv.parts[p]]]

\* w is what op makes of the preview pv.
Becomes(sc, ops, pv, op, w) ==
    /\ w \in Previews /\ Known(sc, ops) \cup Creates(op) \subseteq w.live
    /\ \A n \in Nodes : w.children[n] = (pv.children[n] \ Removes(op)) \cup (Creates(op) \cap Below(w, n))
    /\ Leads(Known(sc, ops) \cup Creates(op), op, Prepared(pv, op, w), w)
    /\ Sound(w, (Present(sc, ops, Len(ops)) \ Removes(op)) \cup Creates(op))

\* Partitions lie apart on any level where their sectors, and those of their parents, are the same.
LEMMA SoundSame ==
    ASSUME NEW v, NEW w, NEW P, NEW Q, Sound(v, P), Q \subseteq P,
           \A p \in Q : LET n == v.parts[p].parent
                        IN  /\ w.parts[p].first = v.parts[p].first /\ w.parts[p].last = v.parts[p].last
                            /\ w.parts[p].parent = n
                            /\ n \in TableIds \/ (w.parts[n].first = v.parts[n].first /\ w.parts[n].last = v.parts[n].last)
    PROVE  Sound(w, Q)
<1>1. \A p \in Q : Extent(w, p) = Extent(v, p) /\ Bounds(w, w.parts[p].parent) = Bounds(v, v.parts[p].parent)
  BY DEF Extent, Bounds
<1> QED
  BY <1>1 DEF Sound

\* What is in the tree when an operation was appended.
LEMMA AppendPresent ==
    ASSUME NEW sc \in Devices, NEW ops, NEW pv, Typed(sc, ops, pv), NEW op, IsOp(op),
           Creates(op) \cap Known(sc, ops) = {}, Removes(op) \subseteq Known(sc, ops)
    PROVE  LET ops2 == Append(ops, op)
               n    == Len(ops)
           IN  /\ \E S : ops2 \in Seq(S)
               /\ Len(ops2) = n + 1 /\ DOMAIN ops2 = 1 .. n + 1
               /\ ops2[n + 1] = op /\ \A i \in 1 .. n : ops2[i] = ops[i]
               /\ Known(sc, ops2) = Known(sc, ops) \cup Creates(op)
               /\ \A k \in 0 .. n : Present(sc, ops2, k) = Present(sc, ops, k)
               /\ Present(sc, ops2, n + 1) = (Present(sc, ops, n) \ Removes(op)) \cup Creates(op)
<1> DEFINE ops2 == Append(ops, op)
           n == Len(ops)
<1>1. n \in Nat /\ DOMAIN ops = 1 .. n /\ \E S : ops \in Seq(S)
  BY GoodTypes
<1>2. /\ \E S : ops2 \in Seq(S)
      /\ Len(ops2) = n + 1 /\ DOMAIN ops2 = 1 .. n + 1
      /\ ops2[n + 1] = op /\ \A i \in 1 .. n : ops2[i] = ops[i]
  <2>1. \E S : ops2 \in Seq(S)
    BY <1>1, Appended
  <2>2. PICK S : ops \in Seq(S)
    BY <1>1
  <2>3. ops \in Seq(S \cup {op}) /\ op \in S \cup {op}
    BY <2>2, SeqMonotonic
  <2> QED
    BY <2>1, <2>3, AppendProperties
<1> HIDE DEF ops2, n
<1>3. Known(sc, ops2) = Known(sc, ops) \cup Creates(op)
  <2>1. \A p : p \in Known(sc, ops2) <=> p \in sc.live \/ \E i \in 1 .. n + 1 : p \in Creates(ops2[i])
    BY <1>2 DEF Known
  <2>2. \A p : p \in Known(sc, ops) <=> p \in sc.live \/ \E i \in 1 .. n : p \in Creates(ops[i])
    BY <1>1 DEF Known
  <2>3. \A i \in 1 .. n + 1 : i = n + 1 \/ i \in 1 .. n
    BY <1>1
  <2>4. n + 1 \in 1 .. n + 1 /\ \A i \in 1 .. n : i \in 1 .. n + 1
    BY <1>1
  <2> QED
    BY <1>2, <2>1, <2>2, <2>3, <2>4
<1>4. ASSUME NEW k \in 0 .. n PROVE Present(sc, ops2, k) = Present(sc, ops, k)
  <2>1. \A i \in 1 .. k : i \in 1 .. n /\ ops2[i] = ops[i]
    BY <1>1, <1>2
  <2>2. \A p \in Creates(op) : p \notin sc.live /\ \A i \in 1 .. n : p \notin Creates(ops[i])
    BY <1>1 DEF Known
  <2> QED
    BY <1>3, <2>1, <2>2 DEF Present
<1>5. Present(sc, ops2, n + 1) = (Present(sc, ops, n) \ Removes(op)) \cup Creates(op)
  <2>1. /\ \A i \in 1 .. n + 1 : (i = n + 1 /\ ops2[i] = op) \/ (i \in 1 .. n /\ ops2[i] = ops[i])
        /\ n + 1 \in 1 .. n + 1 /\ \A i \in 1 .. n : i \in 1 .. n + 1
    BY <1>1, <1>2
  <2>2. \A i \in 1 .. n : Removes(ops[i]) \subseteq Known(sc, ops)
    BY <1>1, GoodTypes DEF n
  <2>3. \A p : p \in Present(sc, ops2, n + 1) <=>
            /\ p \in Known(sc, ops) \cup Creates(op)
            /\ p \in sc.live \/ p \in Creates(op) \/ \E i \in 1 .. n : p \in Creates(ops[i])
            /\ p \notin Removes(op) /\ \A i \in 1 .. n : p \notin Removes(ops[i])
    BY <1>2, <1>3, <2>1 DEF Present
  <2>4. \A p \in Creates(op) : p \notin Removes(op) /\ \A i \in 1 .. n : p \notin Removes(ops[i])
    BY <2>2
  <2> QED
    BY <2>3, <2>4 DEF Present
<1> QED
  BY <1>2, <1>3, <1>4, <1>5 DEF ops2, n

\* A pushed operation keeps the order of what was created and removed.
LEMMA AppendOwned ==
    ASSUME NEW sc \in Devices, NEW ops, NEW pv, Owned(sc, ops, pv), NEW op, NEW w,
           Pushable(sc, ops, pv, op, w), Becomes(sc, ops, pv, op, w)
    PROVE  Owned(sc, Append(ops, op), w)
<1> DEFINE ops2 == Append(ops, op)
           n == Len(ops)
           K == Known(sc, ops)
<1>1. /\ Typed(sc, ops, pv) /\ Kept(sc, pv) /\ Fresh(sc, ops, pv) /\ Gone(sc, ops, pv)
      /\ Rooted(sc, ops, pv) /\ Placed(sc, ops, pv) /\ Sourced(sc, ops, pv) /\ Tabled(sc, ops)
      /\ Shows(sc, ops, pv)
  BY DEF Owned
<1>2. /\ n \in Nat /\ DOMAIN ops = 1 .. n /\ sc.live \subseteq K /\ K \subseteq PartIds
      /\ \A i \in 1 .. n : /\ IsOp(ops[i]) /\ Uses(ops[i]) \subseteq K
                           /\ Creates(ops[i]) \subseteq Uses(ops[i]) /\ Creates(ops[i]) \subseteq K
                           /\ Removes(ops[i]) \subseteq Uses(ops[i]) /\ Removes(ops[i]) \subseteq K
      /\ \A k : Present(sc, ops, k) \subseteq K
      /\ pv.parts \in [PartIds -> Partition] /\ PartIds \cap TableIds = {} /\ Nodes = TableIds \cup PartIds
  BY <1>1, GoodTypes
<1>3. /\ IsOp(op) /\ Creates(op) \cap K = {} /\ Creates(op) \subseteq Uses(op) /\ Uses(op) \subseteq PartIds
      /\ Removes(op) \subseteq Uses(op) \ Creates(op) /\ Uses(op) \ Creates(op) \subseteq Present(sc, ops, n)
      /\ Uses(op) \subseteq K \cup Creates(op) /\ Removes(op) \subseteq K
  <2>1. IsOp(op) /\ Creates(op) \cap K = {} /\ Uses(op) \ Creates(op) \subseteq Present(sc, ops, n)
    BY DEF Pushable
  <2>2. /\ Creates(op) \subseteq Uses(op) /\ Uses(op) \subseteq PartIds /\ Removes(op) \subseteq Uses(op)
    BY <2>1, OperandFacts
  <2>3. Removes(op) \cap Creates(op) = {}
    BY <1>2, <2>1 DEF Pushable
  <2> QED
    BY <1>2, <2>1, <2>2, <2>3
<1>4. /\ \E S : ops2 \in Seq(S)
      /\ Len(ops2) = n + 1 /\ DOMAIN ops2 = 1 .. n + 1
      /\ ops2[n + 1] = op /\ \A i \in 1 .. n : ops2[i] = ops[i]
      /\ Known(sc, ops2) = K \cup Creates(op)
      /\ Present(sc, ops2, n + 1) = (Present(sc, ops, n) \ Removes(op)) \cup Creates(op)
  BY <1>1, <1>3, AppendPresent
<1>5. /\ \A i \in DOMAIN ops2 : i \in 1 .. n + 1 /\ ((i = n + 1 /\ ops2[i] = op) \/ (i \in 1 .. n /\ ops2[i] = ops[i] /\ i \in DOMAIN ops2))
      /\ \A j : j \in 1 .. n + 1 - 1 => j \in 1 .. n
      /\ \A i \in 1 .. n : \A j \in 1 .. i - 1 : j \in 1 .. n
  BY <1>2, <1>4
<1>6. /\ w \in Previews /\ K \cup Creates(op) \subseteq w.live
      /\ \A m \in Nodes : w.children[m] = (pv.children[m] \ Removes(op)) \cup (Creates(op) \cap Below(w, m))
      /\ \A p \in K : /\ w.parts[p].state = pv.parts[p].state
                      /\ w.parts[p].role = pv.parts[p].role
                      /\ w.parts[p].parent = pv.parts[p].parent
  <2>1. ASSUME NEW p \in K
        PROVE  /\ w.parts[p].state = pv.parts[p].state
               /\ w.parts[p].role = pv.parts[p].role
               /\ w.parts[p].parent = pv.parts[p].parent
    <3> DEFINE x == pv.parts[p]
               y == w.parts[p]
    <3>1. Prepared(pv, op, w).parts[p] = x
      BY <1>2, <1>3, <2>1 DEF Prepared
    <3>2. Alters(op, p, x, y)
      BY <2>1, <3>1 DEF Becomes, Leads
    <3>3. x \in Partition
      BY <1>2, <2>1
    <3> HIDE DEF x, y
    <3>4. y.state = x.state /\ y.role = x.role /\ y.parent = x.parent
      BY <3>2, <3>3 DEF Alters, Partition
    <3> QED
      BY <3>4 DEF x, y
  <2> QED
    BY <2>1 DEF Becomes
<1>7. \A p \in Creates(op) :
          /\ p \notin K /\ w.parts[p].state = op.kind
          /\ w.parts[p].role = "logical" <=> w.parts[p].parent \in PartIds
          /\ w.parts[p].parent \in PartIds =>
                 /\ w.parts[p].parent \in K /\ w.parts[p].parent \in Present(sc, ops, n)
                 /\ pv.parts[w.parts[p].parent].role = "extended"
  BY <1>2 DEF Pushable
<1> HIDE DEF ops2, n, K
<1>8. Typed(sc, ops2, w)
  BY <1>2, <1>3, <1>4, <1>5, <1>6 DEF Typed
<1>9. Kept(sc, w)
  BY <1>1, <1>2, <1>6 DEF Kept
<1>10. Fresh(sc, ops2, w)
  <2>1. ASSUME NEW i \in DOMAIN ops2, NEW p \in Creates(ops2[i])
        PROVE  /\ p \notin sc.live /\ w.parts[p].state = ops2[i].kind /\ p \notin Removes(ops2[i])
               /\ \A j \in DOMAIN ops2 : j # i => p \notin Creates(ops2[j])
               /\ \A j \in 1 .. i - 1 : p \notin Uses(ops2[j])
    <3>1. CASE i = n + 1
      <4>1. ops2[i] = op /\ p \in Creates(op) /\ p \notin K
        BY <1>4, <1>7, <2>1, <3>1
      <4>2. ASSUME NEW j \in DOMAIN ops2, j # i PROVE p \notin Uses(ops2[j]) /\ p \notin Creates(ops2[j])
        BY <1>2, <1>5, <3>1, <4>1, <4>2
      <4>3. \A j \in 1 .. i - 1 : j \in DOMAIN ops2 /\ j # i
        BY <1>2, <1>4, <3>1
      <4>4. p \notin sc.live /\ w.parts[p].state = ops2[i].kind /\ p \notin Removes(ops2[i])
        BY <1>2, <1>3, <1>7, <4>1
      <4> QED
        BY <4>2, <4>3, <4>4
    <3>2. CASE i \in 1 .. n
      <4>1. ops2[i] = ops[i] /\ p \in Creates(ops[i]) /\ p \in K
        BY <1>2, <1>4, <2>1, <3>2
      <4>2. /\ p \notin sc.live /\ pv.parts[p].state = ops[i].kind /\ p \notin Removes(ops[i])
            /\ \A j \in DOMAIN ops : j # i => p \notin Creates(ops[j])
            /\ \A j \in 1 .. i - 1 : p \notin Uses(ops[j])
        BY <1>1, <1>2, <3>2, <4>1 DEF Fresh
      <4>3. p \notin Creates(op)
        BY <1>3, <4>1
      <4>5. /\ p \notin sc.live /\ w.parts[p].state = ops2[i].kind /\ p \notin Removes(ops2[i])
            /\ \A j \in DOMAIN ops2 : j # i => p \notin Creates(ops2[j])
        BY <1>2, <1>5, <1>6, <4>1, <4>2, <4>3
      <4>6. \A j \in 1 .. i - 1 : p \notin Uses(ops2[j])
        BY <1>4, <1>5, <3>2, <4>2
      <4> QED
        BY <4>5, <4>6
    <3> QED
      BY <1>5, <3>1, <3>2
  <2> QED
    BY <2>1 DEF Fresh
<1>11. Gone(sc, ops2, w)
  <2>1. ASSUME NEW i \in DOMAIN ops2, NEW p \in Removes(ops2[i]), NEW j \in i + 1 .. Len(ops2)
        PROVE p \notin Uses(ops2[j])
    <3>1. i \in 1 .. n /\ ops2[i] = ops[i] /\ j \in 1 .. n + 1
      BY <1>2, <1>4, <1>5
    <3>2. CASE j \in 1 .. n
      <4>1. j \in i + 1 .. Len(ops) /\ ops2[j] = ops[j]
        BY <1>2, <1>4, <3>2 DEF n
      <4> QED
        BY <1>1, <1>2, <2>1, <3>1, <4>1 DEF Gone
    <3>3. CASE j = n + 1
      <4>1. p \notin Present(sc, ops, n)
        BY <2>1, <3>1 DEF Present
      <4>2. p \in K
        BY <1>2, <2>1, <3>1
      <4> QED
        BY <1>3, <1>4, <3>3, <4>1, <4>2
    <3> QED
      BY <1>2, <3>1, <3>2, <3>3
  <2>2. ASSUME NEW i \in DOMAIN ops2, NEW p \in Removes(ops2[i]), NEW q \in K, w.parts[q].parent = p
        PROVE \E j \in 1 .. i - 1 : q \in Removes(ops2[j])
    <3>1. pv.parts[q].parent = p
      BY <1>6, <2>2
    <3>2. CASE i \in 1 .. n
      <4>1. \E j \in 1 .. i - 1 : q \in Removes(ops[j])
        BY <1>1, <1>2, <1>4, <2>2, <3>1, <3>2 DEF Gone, K
      <4> QED
        BY <1>4, <1>5, <3>2, <4>1
    <3>3. CASE i = n + 1
      <4>1. p \in Removes(op) /\ pv.children[p] = {} /\ p \in Nodes
        BY <1>2, <1>3, <1>4, <2>2, <3>3 DEF Pushable
      <4>2. q \notin Present(sc, ops, n)
        BY <1>1, <1>2, <2>2, <3>1, <4>1 DEF Shows, Below, n
      <4>3. q \in sc.live \/ \E j \in 1 .. n : q \in Creates(ops[j])
        BY <1>1, <2>2, GoodTypes DEF K, n
      <4>4. \E j \in 1 .. n : q \in Removes(ops[j])
        BY <2>2, <4>2, <4>3 DEF Present, K
      <4>5. i - 1 = n
        BY <1>2, <3>3
      <4> QED
        BY <1>4, <4>4, <4>5
    <3> QED
      BY <1>5, <3>2, <3>3
  <2>3. ASSUME NEW i \in DOMAIN ops2, NEW p \in Removes(ops2[i]), NEW q \in Creates(op), w.parts[q].parent = p
        PROVE FALSE
    <3>1. p \in PartIds
      BY <1>2, <1>3, <1>5, <2>3
    <3>2. p \in Present(sc, ops, n) /\ pv.parts[p].role = "extended"
      BY <1>7, <2>3, <3>1
    <3>3. CASE i \in 1 .. n
      BY <1>4, <2>3, <3>2, <3>3 DEF Present
    <3>4. CASE i = n + 1
      <4>1. p \in Removes(op)
        BY <1>4, <2>3, <3>4
      <4>2. Replacing(op) /\ p = op.over
        BY <2>3, <4>1 DEF Removes, Creates, Creating
      <4> QED
        BY <3>2, <4>2 DEF Pushable
    <3> QED
      BY <1>5, <3>3, <3>4
  <2> QED
    BY <1>4, <2>1, <2>2, <2>3 DEF Gone, K
<1>12. Rooted(sc, ops2, w)
  <2>1. ASSUME NEW q \in Creates(op), NEW j \in DOMAIN ops2, q \in Creates(ops2[j]), NEW i \in j .. Len(ops2)
        PROVE w.parts[q].parent \notin Creates(ops2[i])
    <3>1. j = n + 1 /\ i = n + 1
      BY <1>2, <1>4, <1>5, <1>7, <2>1
    <3>2. Creates(op) \subseteq PartIds
      BY <1>3
    <3> QED
      BY <1>2, <1>4, <1>7, <3>1, <3>2
  <2>2. ASSUME NEW q \in K, NEW j \in DOMAIN ops2, q \in Creates(ops2[j]), NEW i \in j .. Len(ops2)
        PROVE w.parts[q].parent \notin Creates(ops2[i])
    <3>1. j \in 1 .. n /\ q \in Creates(ops[j])
      BY <1>4, <1>5, <1>7, <2>2
    <3>2. CASE i = n + 1
      <4>1. pv.parts[q].parent \in PartIds => pv.parts[q].parent \in K
        BY <1>1, <2>2 DEF Rooted, K
      <4> QED
        BY <1>3, <1>4, <1>6, <1>7, <2>2, <3>2, <4>1
    <3>3. CASE i \in 1 .. n
      <4>1. i \in j .. Len(ops) /\ ops2[i] = ops[i]
        BY <1>2, <1>4, <2>2, <3>3 DEF n
      <4> QED
        BY <1>1, <1>2, <1>6, <2>2, <3>1, <4>1 DEF Rooted, K
    <3> QED
      BY <1>2, <1>4, <3>1, <3>2, <3>3
  <2>3. ASSUME NEW q \in K
        PROVE  /\ w.parts[q].role = "logical" <=> w.parts[q].parent \in PartIds
               /\ w.parts[q].parent \in PartIds => w.parts[q].parent \in K /\ w.parts[w.parts[q].parent].role = "extended"
    BY <1>1, <1>6 DEF Rooted, K
  <2>4. ASSUME NEW q \in Creates(op)
        PROVE  /\ w.parts[q].role = "logical" <=> w.parts[q].parent \in PartIds
               /\ w.parts[q].parent \in PartIds => w.parts[q].parent \in K /\ w.parts[w.parts[q].parent].role = "extended"
    BY <1>6, <1>7
  <2> QED
    BY <1>4, <2>1, <2>2, <2>3, <2>4 DEF Rooted
<1>13. Placed(sc, ops2, w)
  <2>1. ASSUME NEW i \in DOMAIN ops2, Replacing(ops2[i])
        PROVE  /\ w.parts[ops2[i].part].parent = w.parts[ops2[i].over].parent
               /\ w.parts[ops2[i].part].role = w.parts[ops2[i].over].role
               /\ w.parts[ops2[i].over].role # "extended"
    <3>1. Creates(ops2[i]) = {ops2[i].part} /\ ops2[i].over \in Removes(ops2[i])
      BY <1>2, <1>3, <1>5, <2>1, OperandFacts
    <3>2. CASE i = n + 1
      <4>1. op.over \in K
        BY <1>3, <1>4, <3>1, <3>2
      <4>2. /\ w.parts[op.part].parent = pv.parts[op.over].parent
            /\ w.parts[op.part].role = pv.parts[op.over].role
            /\ pv.parts[op.over].role # "extended"
        BY <1>4, <2>1, <3>2 DEF Pushable
      <4> QED
        BY <1>4, <1>6, <3>2, <4>1, <4>2
    <3>3. CASE i \in 1 .. n
      <4>1. ops[i].part \in K /\ ops[i].over \in K /\ ops2[i] = ops[i]
        BY <1>2, <1>4, <3>1, <3>3
      <4> QED
        BY <1>1, <1>2, <1>6, <2>1, <3>3, <4>1 DEF Placed
    <3> QED
      BY <1>5, <3>2, <3>3
  <2>2. ASSUME NEW i \in DOMAIN ops2, ops2[i].kind = "Backup" PROVE ops2[i].part \in sc.live
    BY <1>1, <1>2, <1>5, <2>2 DEF Placed, Pushable
  <2>3. ASSUME NEW i \in DOMAIN ops2, ops2[i].kind \in {"Copy", "Restore"} PROVE w.parts[ops2[i].part].role # "extended"
    <3>1. CASE i = n + 1
      BY <1>4, <2>3, <3>1 DEF Pushable
    <3>2. CASE i \in 1 .. n
      <4>1. ops[i].part \in K /\ ops2[i] = ops[i]
        BY <1>2, <1>4, <2>3, <3>2, OperandFacts
      <4> QED
        BY <1>1, <1>2, <1>6, <2>3, <3>2, <4>1 DEF Placed
    <3> QED
      BY <1>5, <3>1, <3>2
  <2> QED
    BY <2>1, <2>2, <2>3 DEF Placed
<1>14. Tabled(sc, ops2)
  <2>1. ASSUME NEW i \in DOMAIN ops2, ops2[i].kind = "Table" PROVE ops2[i].new # sc.table
    BY <1>1, <1>2, <1>5, <2>1 DEF Tabled, Pushable
  <2>2. ASSUME NEW i \in DOMAIN ops2, ops2[i].kind = "Table",
               NEW j \in DOMAIN ops2, ops2[j].kind = "Table", ops2[j].new = ops2[i].new
        PROVE j = i
    <3>1. op.kind = "Table" => \A m \in 1 .. n : ops[m].kind = "Table" => ops[m].new # op.new
      BY <1>2 DEF Pushable
    <3> QED
      BY <1>1, <1>2, <1>5, <2>2, <3>1 DEF Tabled
  <2> QED
    BY <2>1, <2>2 DEF Tabled
<1>15. Shows(sc, ops2, w)
  <2>1. ASSUME NEW m \in Nodes PROVE w.children[m] = Present(sc, ops2, n + 1) \cap Below(w, m)
    <3>1. pv.children[m] = Present(sc, ops, n) \cap Below(pv, m)
      BY <1>1 DEF Shows, n
    <3>2. \A p \in Present(sc, ops, n) : p \in Below(w, m) <=> p \in Below(pv, m)
      BY <1>2, <1>6 DEF Below
    <3> QED
      BY <1>4, <1>6, <3>1, <3>2
  <2> QED
    BY <1>4, <2>1 DEF Shows
<1>16. Sourced(sc, ops2, w)
  <2>1. ASSUME NEW i \in DOMAIN ops2, ops2[i].kind = "Copy"
        PROVE  /\ ops2[i].source \in K /\ w.parts[ops2[i].source].state \in {"None", "Restore"}
               /\ \A j \in i .. n + 1 : ops2[i].source \notin Creates(ops2[j])
    <3>1. CASE i = n + 1
      <4>1. ops2[i] = op /\ op.source \in K /\ pv.parts[op.source].state \in {"None", "Restore"}
        BY <1>4, <2>1, <3>1 DEF Pushable, K
      <4>2. \A j \in i .. n + 1 : j = n + 1
        BY <1>2, <3>1
      <4> QED
        BY <1>4, <1>6, <1>7, <4>1, <4>2
    <3>2. CASE i \in 1 .. n
      <4>1. ops2[i] = ops[i] /\ ops[i].kind = "Copy"
        BY <1>4, <2>1, <3>2
      <4>2. /\ ops[i].source \in K /\ pv.parts[ops[i].source].state \in {"None", "Restore"}
            /\ \A j \in i .. n : ops[i].source \notin Creates(ops[j])
        BY <1>1, <1>2, <3>2, <4>1 DEF Sourced, K, n
      <4>3. ASSUME NEW j \in i .. n + 1 PROVE ops[i].source \notin Creates(ops2[j])
        <5>1. j = n + 1 \/ (j \in i .. n /\ j \in 1 .. n)
          BY <1>2, <3>2
        <5> QED
          BY <1>4, <1>7, <4>2, <5>1
      <4> QED
        BY <1>6, <4>1, <4>2, <4>3
    <3> QED
      BY <1>5, <3>1, <3>2
  <2> QED
    BY <1>4, <2>1 DEF Sourced
<1> QED
  BY <1>8, <1>9, <1>10, <1>11, <1>12, <1>13, <1>14, <1>15, <1>16 DEF Owned, ops2

\* What an operation does depends on the partitions it knows only.
LEMMA LeadsSame ==
    ASSUME NEW K, NEW op, IsOp(op), Uses(op) \subseteq K, NEW v, NEW w, NEW v2, NEW w2,
           Leads(K, op, v, w), v2.table = v.table, w2.table = w.table,
           \A p \in K : /\ v2.parts[p] = v.parts[p] /\ w2.parts[p] = w.parts[p]
                        /\ v.parts[p].parent \in TableIds \/ v2.parts[v.parts[p].parent] = v.parts[v.parts[p].parent]
    PROVE  Leads(K, op, v2, w2)
<1>1. \A p \in K : Root(v2, p) = Root(v, p) /\ Extent(v2, p) = Extent(v, p)
  BY DEF Root, Extent
<1>2. Replacing(op) => op.part \in K /\ op.over \in K
  BY DEF Replacing, Uses
<1> QED
  BY <1>1, <1>2 DEF Leads

\* The parent of a known partition is known or a table.
LEMMA KnownParents ==
    ASSUME NEW sc \in Devices, NEW ops, NEW pv, Owned(sc, ops, pv), NEW q \in Known(sc, ops)
    PROVE  pv.parts[q].parent \in TableIds \/ pv.parts[q].parent \in Known(sc, ops)
<1>1. Typed(sc, ops, pv) /\ Rooted(sc, ops, pv)
  BY DEF Owned
<1>2. pv.parts[q].parent \in Nodes
  BY <1>1, GoodTypes DEF Partition
<1> QED
  BY <1>1, <1>2 DEF Rooted, Nodes

\* A pushed operation is one more level.
LEMMA AppendLayered ==
    ASSUME NEW sc \in Devices, NEW ops, NEW pv, NEW l, Owned(sc, ops, pv), Layered(sc, ops, pv, l), NEW op, NEW w,
           Pushable(sc, ops, pv, op, w), Becomes(sc, ops, pv, op, w)
    PROVE  Layered(sc, Append(ops, op), w,
                   [k \in 0 .. Len(ops) + 1 |-> IF k <= Len(ops) THEN Prepared(l[k], op, w)
                                                ELSE [table |-> w.table, parts |-> w.parts]])
<1> DEFINE ops2 == Append(ops, op)
           n == Len(ops)
           K == Known(sc, ops)
           l2 == [k \in 0 .. n + 1 |-> IF k <= n THEN Prepared(l[k], op, w) ELSE [table |-> w.table, parts |-> w.parts]]
<1>1. Typed(sc, ops, pv)
  BY DEF Owned
<1>2. /\ n \in Nat /\ DOMAIN ops = 1 .. n /\ sc.live \subseteq K /\ K \subseteq PartIds
      /\ \A i \in 1 .. n : IsOp(ops[i]) /\ Uses(ops[i]) \subseteq K
      /\ \A k : Present(sc, ops, k) \subseteq K
      /\ PartIds \cap TableIds = {}
  BY <1>1, GoodTypes
<1>3. /\ IsOp(op) /\ Creates(op) \cap K = {} /\ Removes(op) \subseteq K /\ Uses(op) \subseteq K \cup Creates(op)
      /\ Creates(op) \subseteq PartIds
  BY <1>2, OperandFacts DEF Pushable
<1>4. /\ Len(ops2) = n + 1 /\ DOMAIN ops2 = 1 .. n + 1
      /\ ops2[n + 1] = op /\ \A i \in 1 .. n : ops2[i] = ops[i]
      /\ Known(sc, ops2) = K \cup Creates(op)
      /\ \A k \in 0 .. n : Present(sc, ops2, k) = Present(sc, ops, k)
      /\ Present(sc, ops2, n + 1) = (Present(sc, ops, n) \ Removes(op)) \cup Creates(op)
  BY <1>1, <1>3, AppendPresent
<1>5. w \in Previews /\ w.parts \in [PartIds -> Partition] /\ w.table \in TableIds
  BY DEF Becomes, Previews
<1>6. \A k \in 0 .. n : /\ l[k].table \in TableIds /\ l[k].parts \in [PartIds -> Partition]
                        /\ \A p \in K : /\ l[k].parts[p].parent = pv.parts[p].parent
                                        /\ pv.parts[p].parent \in TableIds \/ pv.parts[p].parent \in K
  BY <1>1, LevelsKeep, KnownParents
<1>7. \A k \in 0 .. n : /\ l2[k] = Prepared(l[k], op, w)
                        /\ l2[k].table = l[k].table /\ l2[k].parts \in [PartIds -> Partition]
                        /\ \A p \in K : l2[k].parts[p] = l[k].parts[p]
                        /\ \A p \in Creates(op) : l2[k].parts[p] = w.parts[p]
  <2>1. SUFFICES ASSUME NEW k \in 0 .. n
                 PROVE  /\ l2[k] = Prepared(l[k], op, w)
                        /\ l2[k].table = l[k].table /\ l2[k].parts \in [PartIds -> Partition]
                        /\ \A p \in K : l2[k].parts[p] = l[k].parts[p]
                        /\ \A p \in Creates(op) : l2[k].parts[p] = w.parts[p]
    OBVIOUS
  <2>2. l2[k] = Prepared(l[k], op, w)
    BY <1>2
  <2>3. /\ l2[k].table = l[k].table
        /\ l2[k].parts = [p \in PartIds |-> IF p \in Creates(op) THEN w.parts[p] ELSE l[k].parts[p]]
    BY <2>2 DEF Prepared
  <2> HIDE DEF l2
  <2> QED
    BY <1>2, <1>3, <1>5, <1>6, <2>2, <2>3
<1>8. l2[n + 1].table = w.table /\ l2[n + 1].parts = w.parts /\ l2[n + 1] = [table |-> w.table, parts |-> w.parts]
  BY <1>2
<1>9. l2 \in Levels(ops2)
  <2>1. \A k \in 0 .. n : l2[k] \in [table : TableIds, parts : [PartIds -> Partition]]
    <3>1. SUFFICES ASSUME NEW k \in 0 .. n PROVE Prepared(l[k], op, w) \in [table : TableIds, parts : [PartIds -> Partition]]
      BY <1>7
    <3>2. [p \in PartIds |-> IF p \in Creates(op) THEN w.parts[p] ELSE l[k].parts[p]] \in [PartIds -> Partition]
      BY <1>5, <1>6
    <3> QED
      BY <1>6, <3>2 DEF Prepared
  <2>2. l2[n + 1] \in [table : TableIds, parts : [PartIds -> Partition]]
    BY <1>5, <1>8
  <2>3. l2 = [k \in 0 .. n + 1 |-> l2[k]]
    OBVIOUS
  <2>4. \A k \in 0 .. n + 1 : k \in 0 .. n \/ k = n + 1
    BY <1>2
  <2> HIDE DEF l2
  <2> QED
    BY <1>4, <2>1, <2>2, <2>3, <2>4 DEF Levels
<1> HIDE DEF l2, ops2, n, K
<1>10. Starts(sc, l2)
  <2>1. 0 \in 0 .. n
    BY <1>2
  <2> QED
    BY <1>2, <1>7, <2>1 DEF Layered, Starts
<1>11. Ends(sc, ops2, w, l2)
  BY <1>4, <1>8 DEF Ends
<1>12. ASSUME NEW i \in 1 .. n PROVE Leads(K \cup Creates(op), ops2[i], l2[i - 1], l2[i])
  <2>1. i \in 0 .. n /\ i - 1 \in 0 .. n /\ i \in 1 .. n
    BY <1>2
  <2>2. Leads(K, ops[i], l[i - 1], l[i])
    BY <1>2 DEF Layered, K
  <2>3. Leads(K, ops[i], l2[i - 1], l2[i])
    BY <1>2, <1>6, <1>7, <2>1, <2>2, LeadsSame
  <2>4. ASSUME NEW p \in Creates(op) PROVE Alters(ops[i], p, l2[i - 1].parts[p], l2[i].parts[p])
    <3>1. p \notin Uses(ops[i]) /\ l2[i].parts[p] = l2[i - 1].parts[p]
      BY <1>2, <1>3, <1>7, <2>1, <2>4
    <3>2. ~ (ops[i].kind \in {"Resize", "Flags", "Format"} /\ ops[i].part = p)
      BY <3>1 DEF Uses
    <3> QED
      BY <3>1, <3>2 DEF Alters
  <2> QED
    BY <1>4, <2>3, <2>4 DEF Leads
<1>13. Leads(K \cup Creates(op), op, l2[n], l2[n + 1])
  <2> DEFINE v == Prepared(pv, op, w)
  <2>1. Leads(K \cup Creates(op), op, v, w)
    BY DEF Becomes, K
  <2>2. v.table = pv.table /\ v.parts = [p \in PartIds |-> IF p \in Creates(op) THEN w.parts[p] ELSE pv.parts[p]]
    BY DEF Prepared
  <2>3. n \in 0 .. n /\ l[n].table = pv.table /\ \A p \in K : l[n].parts[p] = pv.parts[p]
    BY <1>2 DEF Layered, Ends, n, K
  <2> HIDE DEF v
  <2>4. \A p \in K \cup Creates(op) : l2[n].parts[p] = v.parts[p]
    BY <1>2, <1>3, <1>7, <2>2, <2>3
  <2>5. \A p \in K \cup Creates(op) : v.parts[p].parent \in TableIds \/ v.parts[p].parent \in K
    <3>1. ASSUME NEW p \in Creates(op) PROVE w.parts[p].parent \in TableIds \/ w.parts[p].parent \in K
      <4>1. w.parts[p].parent \in Nodes
        BY <1>3, <1>5 DEF Partition
      <4> QED
        BY <1>2, <4>1 DEF Pushable, Nodes
    <3> QED
      BY <1>2, <1>3, <1>6, <2>2, <2>3, <3>1
  <2>6. l2[n].table = v.table /\ l2[n + 1].table = w.table /\ l2[n + 1].parts = w.parts
    BY <1>7, <1>8, <2>2, <2>3
  <2> QED
    BY <1>3, <2>1, <2>4, <2>5, <2>6, LeadsSame
<1>14. ASSUME NEW k \in 0 .. n PROVE Sound(l2[k], Present(sc, ops2, k))
  <2>1. Sound(l[k], Present(sc, ops, k))
    BY <1>14 DEF Layered, n
  <2>2. \A p \in Present(sc, ops, k) : p \in K
    BY <1>2
  <2>3. Sound(l2[k], Present(sc, ops, k))
    BY <1>6, <1>7, <2>1, <2>2, SoundSame
  <2> QED
    BY <1>4, <2>3
<1>15. Sound(l2[n + 1], Present(sc, ops2, n + 1))
  <2>1. Sound(w, Present(sc, ops2, n + 1))
    BY <1>4 DEF Becomes, n
  <2> QED
    BY <1>8, <2>1 DEF Sound, Extent, Bounds
<1>16. \A i \in DOMAIN ops2 : Leads(Known(sc, ops2), ops2[i], l2[i - 1], l2[i])
  <2>1. SUFFICES ASSUME NEW i \in 1 .. n + 1 PROVE Leads(K \cup Creates(op), ops2[i], l2[i - 1], l2[i])
    BY <1>4
  <2>2. CASE i \in 1 .. n
    BY <1>12, <2>2
  <2>3. CASE i = n + 1
    <3>1. i - 1 = n
      BY <1>2, <2>3
    <3> QED
      BY <1>4, <1>13, <2>3, <3>1
  <2> QED
    BY <1>2, <2>2, <2>3
<1>17. \A k \in 0 .. Len(ops2) : Sound(l2[k], Present(sc, ops2, k))
  <2>1. \A k \in 0 .. n + 1 : k \in 0 .. n \/ k = n + 1
    BY <1>2
  <2> QED
    BY <1>4, <1>14, <1>15, <2>1
<1>18. Layered(sc, ops2, w, l2)
  BY <1>9, <1>10, <1>11, <1>16, <1>17 DEF Layered
<1> QED
  BY <1>18 DEF l2, ops2, n

\* A pushed operation keeps the invariant.
LEMMA AppendGood ==
    ASSUME NEW sc \in Devices, NEW ops, NEW pv, Good(sc, ops, pv), NEW op, NEW w,
           Pushable(sc, ops, pv, op, w), Becomes(sc, ops, pv, op, w)
    PROVE  Good(sc, Append(ops, op), w)
<1>1. Owned(sc, ops, pv)
  BY DEF Good
<1>2. PICK l : Layered(sc, ops, pv, l)
  BY DEF Good
<1>3. Owned(sc, Append(ops, op), w)
  BY <1>1, AppendOwned
<1>4. \E l2 : Layered(sc, Append(ops, op), w, l2)
  BY <1>1, <1>2, AppendLayered
<1> QED
  BY <1>3, <1>4 DEF Good

--------------------------------------------------------------------------------
(* An operation is taken out of the stack.                                 *)

\* No other operation works on what the i-th one creates, and what it removes was not below
\* what another one removes.
Removable(sc, ops, pv, i) ==
    /\ \A p \in Creates(ops[i]) : /\ \A j \in DOMAIN ops : j # i => p \notin Uses(ops[j]) \cup Operands(ops[j])
                                  /\ \A q \in Known(sc, ops) : pv.parts[q].parent # p
    /\ \A p \in Removes(ops[i]), j \in DOMAIN ops : j # i => pv.parts[p].parent \notin Removes(ops[j])

\* The partition p, with content x, when op is undone, and a level when it is.
Reverted(op, p, x) ==
    IF op.kind = "Resize" /\ op.part = p THEN [x EXCEPT !.first = op.oldFirst, !.last = op.oldLast]
    ELSE IF op.kind = "Flags" /\ op.part = p THEN [x EXCEPT !.flags = op.old]
    ELSE IF op.kind = "Format" /\ op.part = p THEN [x EXCEPT !.fs = op.old]
    ELSE x
TakenBack(op, v) == [table |-> IF op.kind = "Table" THEN op.old ELSE v.table,
                     parts |-> [p \in PartIds |-> Reverted(op, p, v.parts[p])]]

\* w is what undoing op makes of the preview pv.
Reverts(sc, ops, pv, op, w) ==
    /\ w \in Previews /\ Known(sc, ops) \ Creates(op) \subseteq w.live
    /\ w.table = IF op.kind = "Table" THEN op.old ELSE pv.table
    /\ \A n \in Nodes : w.children[n] = (pv.children[n] \ Creates(op)) \cup (Removes(op) \cap Below(pv, n))
    /\ \A p \in Known(sc, ops) \ Creates(op) : w.parts[p] = Reverted(op, p, pv.parts[p])

\* ops2 is ops without the i-th operation.
Shorter(ops, i, ops2) ==
    /\ \E S : ops2 \in Seq(S)
    /\ Len(ops2) = Len(ops) - 1
    /\ \A j \in 1 .. Len(ops) - 1 : ops2[j] = ops[IF j < i THEN j ELSE j + 1]

\* State, role and parent stay the same, and the types.
LEMMA RevertedKeeps ==
    ASSUME NEW op, IsOp(op), NEW p \in PartIds, NEW x \in Partition
    PROVE  /\ Reverted(op, p, x) \in Partition
           /\ Reverted(op, p, x).state = x.state /\ Reverted(op, p, x).role = x.role
           /\ Reverted(op, p, x).parent = x.parent
<1>1. CASE op.kind = "Resize" /\ op.part = p
  BY <1>1 DEF Reverted, IsOp, Partition
<1>2. CASE op.kind = "Flags" /\ op.part = p
  BY <1>2 DEF Reverted, IsOp, Partition
<1>3. CASE op.kind = "Format" /\ op.part = p
  BY <1>3 DEF Reverted, IsOp, Partition
<1>4. CASE ~ (op.kind \in {"Resize", "Flags", "Format"} /\ op.part = p)
  BY <1>4 DEF Reverted
<1> QED
  BY <1>1, <1>2, <1>3, <1>4

\* Undoing an operation leads from the level above it to the one below.
LEMMA RevertedAlters ==
    ASSUME NEW op, IsOp(op), NEW p \in PartIds, NEW x \in Partition, NEW y, Alters(op, p, x, y)
    PROVE  Reverted(op, p, y) = x
<1>1. CASE op.kind = "Resize" /\ op.part = p
  <2> DEFINE z == Reverted(op, p, y)
  <2>1. y = [x EXCEPT !.first = op.newFirst, !.last = op.newLast] /\ x.first = op.oldFirst /\ x.last = op.oldLast
    BY <1>1 DEF Alters
  <2>2. z = [y EXCEPT !.first = x.first, !.last = x.last]
    BY <1>1, <2>1 DEF Reverted
  <2> HIDE DEF z
  <2>3. /\ z.first = x.first /\ z.last = x.last /\ z.role = x.role /\ z.parent = x.parent
        /\ z.state = x.state /\ z.flags = x.flags /\ z.fs = x.fs
    BY <2>1, <2>2 DEF Partition
  <2>4. z \in Partition
    BY <2>1, <2>2 DEF Partition
  <2> QED
    BY <2>3, <2>4 DEF Partition, z
<1>2. CASE op.kind = "Flags" /\ op.part = p
  BY <1>2 DEF Reverted, Alters, Partition
<1>3. CASE op.kind = "Format" /\ op.part = p
  BY <1>3 DEF Reverted, Alters, Partition
<1>4. CASE ~ (op.kind \in {"Resize", "Flags", "Format"} /\ op.part = p)
  BY <1>4 DEF Reverted, Alters
<1> QED
  BY <1>1, <1>2, <1>3, <1>4

\* What is in the tree when an operation was taken out of the stack.
LEMMA RemovePresent ==
    ASSUME NEW sc \in Devices, NEW ops, NEW pv, Owned(sc, ops, pv), NEW i \in DOMAIN ops, NEW ops2, Shorter(ops, i, ops2)
    PROVE  LET n == Len(ops)
               C == Creates(ops[i])
           IN  /\ n \in Nat /\ Len(ops2) = n - 1 /\ DOMAIN ops2 = 1 .. n - 1 /\ i \in 1 .. n
               /\ \A j \in 1 .. n - 1 : j < i => ops2[j] = ops[j]
               /\ \A j \in 1 .. n - 1 : i <= j => ops2[j] = ops[j + 1]
               /\ Known(sc, ops2) = Known(sc, ops) \ C
               /\ \A k \in 0 .. i - 1 : Present(sc, ops2, k) = Present(sc, ops, k)
               /\ \A k \in i .. n - 1 : Present(sc, ops2, k) = (Present(sc, ops, k + 1) \ C) \cup Removes(ops[i])
<1> DEFINE n == Len(ops)
           C == Creates(ops[i])
           K == Known(sc, ops)
<1>1. Typed(sc, ops, pv) /\ Fresh(sc, ops, pv) /\ Gone(sc, ops, pv)
  BY DEF Owned
<1>2. /\ n \in Nat /\ DOMAIN ops = 1 .. n /\ i \in 1 .. n /\ sc.live \subseteq K
      /\ \A j \in 1 .. n : /\ Creates(ops[j]) \subseteq Uses(ops[j]) /\ Uses(ops[j]) \subseteq K
                           /\ Removes(ops[j]) \subseteq Uses(ops[j])
  BY <1>1, GoodTypes
<1>3. Len(ops2) = n - 1 /\ DOMAIN ops2 = 1 .. n - 1
  BY <1>2, Lengths DEF Shorter
<1>4. /\ \A j \in 1 .. n - 1 : j < i => ops2[j] = ops[j]
      /\ \A j \in 1 .. n - 1 : i <= j => ops2[j] = ops[j + 1]
  BY <1>2 DEF Shorter
<1>5. /\ \A p \in C : p \notin sc.live /\ \A j \in 1 .. n : j # i => p \notin Creates(ops[j])
      /\ \A p \in Removes(ops[i]) : \A j \in 1 .. n : j # i => p \notin Removes(ops[j])
  <2>1. \A p \in C : p \notin sc.live /\ \A j \in 1 .. n : j # i => p \notin Creates(ops[j])
    BY <1>1, <1>2 DEF Fresh
  <2>2. ASSUME NEW p \in Removes(ops[i]), NEW j \in 1 .. n, j # i, p \in Removes(ops[j]) PROVE FALSE
    <3>1. i \in j + 1 .. n \/ j \in i + 1 .. n
      BY <1>2, <2>2
    <3> QED
      BY <1>1, <1>2, <2>2, <3>1 DEF Gone
  <2> QED
    BY <2>1, <2>2
<1>6. ASSUME NEW k \in 0 .. i - 1
      PROVE  \A P : (\E j \in 1 .. k : P = ops2[j]) <=> (\E j \in 1 .. k : P = ops[j])
  <2>1. \A j \in 1 .. k : j \in 1 .. n - 1 /\ j < i
    BY <1>2
  <2> QED
    BY <1>4, <2>1
<1>7. ASSUME NEW k \in i .. n - 1
      PROVE  \A P : (\E j \in 1 .. k : P = ops2[j]) <=> (\E j \in 1 .. k + 1 : j # i /\ P = ops[j])
  <2>1. ASSUME NEW j \in 1 .. k PROVE \E m \in 1 .. k + 1 : m # i /\ ops2[j] = ops[m]
    <3>1. CASE j < i
      BY <1>2, <1>4, <3>1
    <3>2. CASE i <= j
      <4>1. j + 1 \in 1 .. k + 1 /\ j + 1 # i /\ j \in 1 .. n - 1
        BY <1>2, <3>2
      <4> QED
        BY <1>4, <3>2, <4>1
    <3> QED
      BY <1>2, <3>1, <3>2
  <2>2. ASSUME NEW m \in 1 .. k + 1, m # i PROVE \E j \in 1 .. k : ops2[j] = ops[m]
    <3>1. CASE m < i
      <4>1. m \in 1 .. k /\ m \in 1 .. n - 1
        BY <1>2, <3>1
      <4> QED
        BY <1>4, <3>1, <4>1
    <3>2. CASE i < m
      <4>1. m - 1 \in 1 .. k /\ m - 1 \in 1 .. n - 1 /\ i <= m - 1 /\ m - 1 + 1 = m
        BY <1>2, <3>2
      <4> QED
        BY <1>4, <4>1
    <3> QED
      BY <1>2, <2>2, <3>1, <3>2
  <2> QED
    BY <2>1, <2>2
<1> HIDE DEF n, C, K
<1>8. Known(sc, ops2) = K \ C
  <2>1. \A p : p \in K <=> p \in sc.live \/ \E j \in 1 .. n : p \in Creates(ops[j])
    BY <1>2 DEF K, Known
  <2>2. \A p : p \in Known(sc, ops2) <=> p \in sc.live \/ \E j \in 1 .. n - 1 : p \in Creates(ops2[j])
    BY <1>3 DEF Known
  <2>3. \A p : (\E j \in 1 .. n - 1 : p \in Creates(ops2[j])) <=> (\E j \in 1 .. n : j # i /\ p \in Creates(ops[j]))
    <3>1. CASE i <= n - 1
      <4>1. n - 1 \in i .. n - 1 /\ n - 1 + 1 = n
        BY <1>2, <3>1
      <4> QED
        BY <1>7, <4>1
    <3>2. CASE i = n
      <4>1. \A j \in 1 .. n - 1 : ops2[j] = ops[j] /\ j \in 1 .. n /\ j # i
        BY <1>2, <1>4, <3>2
      <4>2. \A j \in 1 .. n : j # i => j \in 1 .. n - 1
        BY <1>2, <3>2
      <4> QED
        BY <4>1, <4>2
    <3> QED
      BY <1>2, <3>1, <3>2
  <2> QED
    BY <1>5, <2>1, <2>2, <2>3 DEF C
<1>9. ASSUME NEW k \in 0 .. i - 1 PROVE Present(sc, ops2, k) = Present(sc, ops, k)
  <2>1. \A p : (\E j \in 1 .. k : p \in Creates(ops2[j])) <=> (\E j \in 1 .. k : p \in Creates(ops[j]))
    BY <1>6
  <2>2. \A p : (\A j \in 1 .. k : p \notin Removes(ops2[j])) <=> (\A j \in 1 .. k : p \notin Removes(ops[j]))
    BY <1>6
  <2>3. \A j \in 1 .. k : j \in 1 .. n /\ j # i
    BY <1>2
  <2>4. \A p \in C : p \notin sc.live /\ ~ \E j \in 1 .. k : p \in Creates(ops[j])
    BY <1>5, <2>3
  <2> QED
    BY <1>8, <2>1, <2>2, <2>4 DEF Present, K
<1>10. ASSUME NEW k \in i .. n - 1 PROVE Present(sc, ops2, k) = (Present(sc, ops, k + 1) \ C) \cup Removes(ops[i])
  <2>1. \A p : (\E j \in 1 .. k : p \in Creates(ops2[j])) <=> (\E j \in 1 .. k + 1 : j # i /\ p \in Creates(ops[j]))
    BY <1>7
  <2>2. \A p : (\A j \in 1 .. k : p \notin Removes(ops2[j])) <=> (\A j \in 1 .. k + 1 : j # i => p \notin Removes(ops[j]))
    BY <1>7
  <2>3. i \in 1 .. k + 1 /\ \A j \in 1 .. k + 1 : j \in 1 .. n
    BY <1>2
  <2>4. \A p : p \in Present(sc, ops2, k) <=>
            /\ p \in K \ C
            /\ p \in sc.live \/ \E j \in 1 .. k + 1 : j # i /\ p \in Creates(ops[j])
            /\ \A j \in 1 .. k + 1 : j # i => p \notin Removes(ops[j])
    BY <1>8, <2>1, <2>2 DEF Present
  <2>5. \A p : p \in Present(sc, ops, k + 1) <=>
            /\ p \in K
            /\ p \in sc.live \/ \E j \in 1 .. k + 1 : p \in Creates(ops[j])
            /\ \A j \in 1 .. k + 1 : p \notin Removes(ops[j])
    BY DEF Present, K
  <2>6. ASSUME NEW p \in Removes(ops[i])
        PROVE  /\ p \in K \ C
               /\ p \in sc.live \/ \E j \in 1 .. k + 1 : j # i /\ p \in Creates(ops[j])
               /\ \A j \in 1 .. k + 1 : j # i => p \notin Removes(ops[j])
               /\ p \notin C
    <3>1. p \in Uses(ops[i]) /\ p \in K
      BY <1>2, <2>6
    <3>2. p \notin C
      BY <1>1, <1>2, <2>6 DEF Fresh, C
    <3>3. p \in Present(sc, ops, i - 1)
      BY <1>2, <3>1, <3>2, OperandsPresent DEF C
    <3>4. p \in sc.live \/ \E j \in 1 .. i - 1 : p \in Creates(ops[j])
      BY <3>3 DEF Present
    <3>5. \A j \in 1 .. i - 1 : j \in 1 .. k + 1 /\ j # i
      BY <1>2
    <3> QED
      BY <1>5, <2>3, <2>6, <3>1, <3>2, <3>4, <3>5
  <2>7. ASSUME NEW p, p \notin Removes(ops[i])
        PROVE  p \in Present(sc, ops2, k) <=> p \in Present(sc, ops, k + 1) \ C
    <3>1. (\A j \in 1 .. k + 1 : j # i => p \notin Removes(ops[j])) <=> (\A j \in 1 .. k + 1 : p \notin Removes(ops[j]))
      BY <2>7
    <3>2. p \notin C =>
            ((\E j \in 1 .. k + 1 : j # i /\ p \in Creates(ops[j])) <=> (\E j \in 1 .. k + 1 : p \in Creates(ops[j])))
      BY DEF C
    <3> QED
      BY <2>4, <2>5, <3>1, <3>2
  <2>8. ASSUME NEW p \in Removes(ops[i]) PROVE p \in Present(sc, ops2, k)
    BY <2>4, <2>6
  <2> QED
    BY <2>7, <2>8
<1> QED
  BY <1>2, <1>3, <1>4, <1>8, <1>9, <1>10 DEF n, C, K

\* Taking out an operation keeps the order of what was created and removed.
LEMMA RemoveOwned ==
    ASSUME NEW sc \in Devices, NEW ops, NEW pv, Owned(sc, ops, pv), NEW i \in DOMAIN ops, Removable(sc, ops, pv, i),
           NEW ops2, Shorter(ops, i, ops2), NEW w, Reverts(sc, ops, pv, ops[i], w)
    PROVE  Owned(sc, ops2, w)
<1> DEFINE n == Len(ops)
           C == Creates(ops[i])
           K == Known(sc, ops)
           s(j) == IF j < i THEN j ELSE j + 1
<1>1. /\ Typed(sc, ops, pv) /\ Kept(sc, pv) /\ Fresh(sc, ops, pv) /\ Gone(sc, ops, pv)
      /\ Rooted(sc, ops, pv) /\ Placed(sc, ops, pv) /\ Sourced(sc, ops, pv) /\ Tabled(sc, ops)
      /\ Shows(sc, ops, pv)
  BY DEF Owned
<1>2. /\ n \in Nat /\ DOMAIN ops = 1 .. n /\ i \in 1 .. n /\ sc.live \subseteq K /\ K \subseteq PartIds
      /\ \A j \in 1 .. n : /\ IsOp(ops[j]) /\ Uses(ops[j]) \subseteq K
                           /\ Creates(ops[j]) \subseteq Uses(ops[j])
                           /\ Removes(ops[j]) \subseteq Uses(ops[j])
      /\ pv.parts \in [PartIds -> Partition] /\ Nodes = TableIds \cup PartIds
  BY <1>1, GoodTypes
<1>3. /\ Len(ops2) = n - 1 /\ DOMAIN ops2 = 1 .. n - 1
      /\ Known(sc, ops2) = K \ C
      /\ \A k \in 0 .. i - 1 : Present(sc, ops2, k) = Present(sc, ops, k)
      /\ \A k \in i .. n - 1 : Present(sc, ops2, k) = (Present(sc, ops, k + 1) \ C) \cup Removes(ops[i])
  BY RemovePresent
<1>4. \A j \in 1 .. n - 1 : ops2[j] = ops[s(j)] /\ s(j) \in 1 .. n /\ s(j) # i
  BY <1>2 DEF Shorter
<1>5. \A j \in 1 .. n - 1, m \in 1 .. n - 1 : (s(j) < s(m) <=> j < m) /\ (s(j) = s(m) <=> j = m)
  BY <1>2
<1>6. \A m \in 1 .. n : m # i => \E j \in 1 .. n - 1 : s(j) = m
  <2>1. SUFFICES ASSUME NEW m \in 1 .. n, m # i PROVE \E j \in 1 .. n - 1 : s(j) = m
    OBVIOUS
  <2>2. CASE m < i
    BY <1>2, <2>2
  <2>3. CASE i < m
    <3>1. m - 1 \in 1 .. n - 1 /\ s(m - 1) = m
      BY <1>2, <2>3
    <3> QED
      BY <3>1
  <2> QED
    BY <1>2, <2>1, <2>2, <2>3
<1>7. /\ \A p \in C : /\ p \notin sc.live
                      /\ \A j \in 1 .. n : j # i => p \notin Uses(ops[j]) /\ p \notin Operands(ops[j])
                      /\ \A q \in K : pv.parts[q].parent # p
      /\ \A p \in Removes(ops[i]), j \in 1 .. n : j # i => pv.parts[p].parent \notin Removes(ops[j])
  BY <1>1, <1>2 DEF Removable, Fresh
<1>8. /\ w \in Previews /\ K \ C \subseteq w.live
      /\ \A m \in Nodes : w.children[m] = (pv.children[m] \ C) \cup (Removes(ops[i]) \cap Below(pv, m))
      /\ \A p \in K \ C : /\ w.parts[p].state = pv.parts[p].state
                          /\ w.parts[p].role = pv.parts[p].role
                          /\ w.parts[p].parent = pv.parts[p].parent
  <2>1. ASSUME NEW p \in K \ C
        PROVE  /\ w.parts[p].state = pv.parts[p].state
               /\ w.parts[p].role = pv.parts[p].role
               /\ w.parts[p].parent = pv.parts[p].parent
    <3>1. w.parts[p] = Reverted(ops[i], p, pv.parts[p])
      BY <2>1 DEF Reverts
    <3>2. p \in PartIds /\ pv.parts[p] \in Partition /\ IsOp(ops[i])
      BY <1>2, <2>1
    <3> QED
      BY <3>1, <3>2, RevertedKeeps
  <2> QED
    BY <2>1 DEF Reverts
<1> HIDE DEF n, C, K, s
<1>9. Typed(sc, ops2, w)
  <2>1. ASSUME NEW j \in 1 .. n - 1 PROVE IsOp(ops2[j]) /\ Uses(ops2[j]) \subseteq K \ C
    BY <1>2, <1>4, <1>7
  <2> QED
    BY <1>3, <1>8, <2>1 DEF Typed, Shorter
<1>10. Kept(sc, w)
  BY <1>1, <1>2, <1>7, <1>8 DEF Kept
<1>11. Fresh(sc, ops2, w)
  <2>1. ASSUME NEW j \in 1 .. n - 1, NEW p \in Creates(ops2[j])
        PROVE  /\ p \notin sc.live /\ w.parts[p].state = ops2[j].kind /\ p \notin Removes(ops2[j])
               /\ \A m \in 1 .. n - 1 : m # j => p \notin Creates(ops2[m])
               /\ \A m \in 1 .. j - 1 : p \notin Uses(ops2[m])
    <3> DEFINE t == s(j)
    <3>1. ops2[j] = ops[t] /\ t \in 1 .. n /\ t # i /\ p \in Creates(ops[t]) /\ p \in K \ C
      BY <1>2, <1>4, <1>7, <2>1
    <3> HIDE DEF t
    <3>2. /\ p \notin sc.live /\ pv.parts[p].state = ops[t].kind /\ p \notin Removes(ops[t])
          /\ \A m \in 1 .. n : m # t => p \notin Creates(ops[m])
          /\ \A m \in 1 .. t - 1 : p \notin Uses(ops[m])
      BY <1>1, <1>2, <3>1 DEF Fresh
    <3>3. \A m \in 1 .. n - 1 : /\ m # j => s(m) # t /\ s(m) \in 1 .. n /\ ops2[m] = ops[s(m)]
                                /\ m < j => s(m) < t
      BY <1>4, <1>5 DEF t
    <3>4. \A m \in 1 .. j - 1 : m \in 1 .. n - 1 /\ m # j /\ s(m) \in 1 .. t - 1
      <4>1. ASSUME NEW m \in 1 .. j - 1 PROVE m \in 1 .. n - 1 /\ m # j /\ s(m) \in 1 .. t - 1
        <5>1. m \in 1 .. n - 1 /\ m < j
          BY <1>2
        <5>2. s(m) < t /\ s(m) \in 1 .. n
          BY <3>3, <5>1
        <5> QED
          BY <1>2, <3>1, <5>1, <5>2
      <4> QED
        BY <4>1
    <3>5. /\ p \notin sc.live /\ w.parts[p].state = ops2[j].kind /\ p \notin Removes(ops2[j])
          /\ \A m \in 1 .. n - 1 : m # j => p \notin Creates(ops2[m])
      BY <1>8, <3>1, <3>2, <3>3
    <3>6. \A m \in 1 .. j - 1 : p \notin Uses(ops2[m])
      BY <3>2, <3>3, <3>4
    <3> QED
      BY <3>5, <3>6
  <2> QED
    BY <1>3, <2>1 DEF Fresh
<1>12. Gone(sc, ops2, w)
  <2>1. ASSUME NEW j \in 1 .. n - 1, NEW p \in Removes(ops2[j]), NEW m \in j + 1 .. n - 1
        PROVE  p \notin Uses(ops2[m])
    <3>1. s(j) < s(m) /\ s(j) \in 1 .. n /\ s(m) \in 1 .. n /\ ops2[j] = ops[s(j)] /\ ops2[m] = ops[s(m)]
      BY <1>2, <1>4, <1>5
    <3>2. s(m) \in s(j) + 1 .. n
      BY <1>2, <3>1
    <3> QED
      BY <1>1, <1>2, <2>1, <3>1, <3>2 DEF Gone, n
  <2>2. ASSUME NEW j \in 1 .. n - 1, NEW p \in Removes(ops2[j]), NEW q \in K \ C, w.parts[q].parent = p
        PROVE  \E m \in 1 .. j - 1 : q \in Removes(ops2[m])
    <3>1. s(j) \in 1 .. n /\ s(j) # i /\ p \in Removes(ops[s(j)]) /\ pv.parts[q].parent = p
      BY <1>4, <1>8, <2>2
    <3>2. PICK x \in 1 .. s(j) - 1 : q \in Removes(ops[x])
      BY <1>1, <1>2, <2>2, <3>1 DEF Gone, K
    <3>3. x \in 1 .. n /\ x # i
      BY <1>2, <1>7, <3>1, <3>2
    <3>4. PICK m \in 1 .. n - 1 : s(m) = x
      BY <1>6, <3>3
    <3>5. s(m) < s(j)
      BY <1>2, <3>1, <3>2, <3>4
    <3>6. m \in 1 .. j - 1
      BY <1>2, <1>5, <3>5
    <3> QED
      BY <1>4, <3>2, <3>4, <3>6
  <2> QED
    BY <1>3, <2>1, <2>2 DEF Gone
<1>13. Rooted(sc, ops2, w)
  <2>1. ASSUME NEW q \in K \ C
        PROVE  /\ w.parts[q].role = "logical" <=> w.parts[q].parent \in PartIds
               /\ w.parts[q].parent \in PartIds =>
                      w.parts[q].parent \in K \ C /\ w.parts[w.parts[q].parent].role = "extended"
    <3>1. /\ pv.parts[q].role = "logical" <=> pv.parts[q].parent \in PartIds
          /\ pv.parts[q].parent \in PartIds => pv.parts[q].parent \in K /\ pv.parts[pv.parts[q].parent].role = "extended"
      BY <1>1, <2>1 DEF Rooted, K
    <3>2. pv.parts[q].parent \notin C
      BY <1>7, <2>1
    <3> QED
      BY <1>8, <2>1, <3>1, <3>2
  <2>2. ASSUME NEW q \in K \ C, NEW j \in 1 .. n - 1, q \in Creates(ops2[j]), NEW m \in j .. n - 1
        PROVE  w.parts[q].parent \notin Creates(ops2[m])
    <3>1. m \in 1 .. n - 1 /\ (s(j) < s(m) \/ s(j) = s(m))
      BY <1>2, <1>5
    <3>2. s(j) \in 1 .. n /\ s(m) \in 1 .. n /\ ops2[j] = ops[s(j)] /\ ops2[m] = ops[s(m)]
      BY <1>4, <3>1
    <3>3. s(m) \in s(j) .. n
      BY <1>2, <3>1, <3>2
    <3> QED
      BY <1>1, <1>2, <1>8, <2>2, <3>2, <3>3 DEF Rooted, K, n
  <2> QED
    BY <1>3, <2>1, <2>2 DEF Rooted
<1>14. Placed(sc, ops2, w)
  <2>1. ASSUME NEW j \in 1 .. n - 1, Replacing(ops2[j])
        PROVE  /\ w.parts[ops2[j].part].parent = w.parts[ops2[j].over].parent
               /\ w.parts[ops2[j].part].role = w.parts[ops2[j].over].role
               /\ w.parts[ops2[j].over].role # "extended"
    <3> DEFINE o == ops[s(j)]
    <3>1. s(j) \in 1 .. n /\ s(j) # i /\ ops2[j] = o
      BY <1>4
    <3>2. IsOp(o) /\ Uses(o) \subseteq K \ C
      BY <1>2, <1>7, <3>1
    <3>3. /\ pv.parts[o.part].parent = pv.parts[o.over].parent
          /\ pv.parts[o.part].role = pv.parts[o.over].role
          /\ pv.parts[o.over].role # "extended"
      BY <1>1, <1>2, <2>1, <3>1 DEF Placed
    <3> HIDE DEF o
    <3>4. o.part \in K \ C /\ o.over \in K \ C
      BY <2>1, <3>1, <3>2, OperandFacts
    <3> QED
      BY <1>8, <3>1, <3>3, <3>4
  <2>2. ASSUME NEW j \in 1 .. n - 1, ops2[j].kind = "Backup" PROVE ops2[j].part \in sc.live
    BY <1>1, <1>2, <1>4, <2>2 DEF Placed
  <2>3. ASSUME NEW j \in 1 .. n - 1, ops2[j].kind \in {"Copy", "Restore"} PROVE w.parts[ops2[j].part].role # "extended"
    <3> DEFINE o == ops[s(j)]
    <3>1. s(j) \in 1 .. n /\ s(j) # i /\ ops2[j] = o
      BY <1>4
    <3>2. IsOp(o) /\ Uses(o) \subseteq K \ C
      BY <1>2, <1>7, <3>1
    <3>3. pv.parts[o.part].role # "extended"
      BY <1>1, <1>2, <2>3, <3>1 DEF Placed
    <3> HIDE DEF o
    <3>4. o.part \in K \ C
      BY <2>3, <3>1, <3>2, OperandFacts
    <3> QED
      BY <1>8, <3>1, <3>3, <3>4
  <2> QED
    BY <1>3, <2>1, <2>2, <2>3 DEF Placed
<1>15. Tabled(sc, ops2)
  BY <1>1, <1>2, <1>3, <1>4, <1>5 DEF Tabled
<1>16. Shows(sc, ops2, w)
  <2>1. ASSUME NEW m \in Nodes PROVE w.children[m] = Present(sc, ops2, n - 1) \cap Below(w, m)
    <3>1. Present(sc, ops2, n - 1) = (Present(sc, ops, n) \ C) \cup Removes(ops[i])
      <4>1. CASE i <= n - 1
        <5>1. n - 1 \in i .. n - 1 /\ n - 1 + 1 = n
          BY <1>2, <4>1
        <5> QED
          BY <1>3, <5>1
      <4>2. CASE i = n
        <5>1. Present(sc, ops2, n - 1) = Present(sc, ops, n - 1) /\ n - 1 + 1 = n
          <6>1. n - 1 \in 0 .. i - 1
            BY <1>2, <4>2
          <6> QED
            BY <1>2, <1>3, <6>1
        <5>2. \A p : p \in Present(sc, ops, n) <=>
                  /\ p \in K
                  /\ p \in sc.live \/ p \in C \/ \E j \in 1 .. n - 1 : p \in Creates(ops[j])
                  /\ p \notin Removes(ops[i]) /\ \A j \in 1 .. n - 1 : p \notin Removes(ops[j])
          <6>1. /\ n \in 1 .. n /\ \A j \in 1 .. n : j = n \/ j \in 1 .. n - 1
                /\ \A j \in 1 .. n - 1 : j \in 1 .. n
            BY <1>2, <4>2
          <6> QED
            BY <4>2, <6>1 DEF Present, K, C
        <5>3. Removes(ops[i]) \subseteq Present(sc, ops, n - 1)
          <6>1. Removes(ops[i]) \subseteq Uses(ops[i]) \ Creates(ops[i])
            BY <1>1, <1>2 DEF Fresh
          <6> QED
            BY <1>2, <4>2, <6>1, OperandsPresent
        <5>4. C \cap Present(sc, ops, n - 1) = {}
          BY <1>2, <4>2, OperandsPresent DEF C
        <5>5. \A p : p \in Present(sc, ops, n - 1) <=>
                  /\ p \in K /\ (p \in sc.live \/ \E j \in 1 .. n - 1 : p \in Creates(ops[j]))
                  /\ \A j \in 1 .. n - 1 : p \notin Removes(ops[j])
          BY DEF Present, K
        <5> QED
          BY <5>1, <5>2, <5>3, <5>4, <5>5
      <4> QED
        BY <1>2, <4>1, <4>2
    <3>2. pv.children[m] = Present(sc, ops, n) \cap Below(pv, m)
      BY <1>1 DEF Shows, n
    <3>3. \A p \in K \ C : p \in Below(w, m) <=> p \in Below(pv, m)
      BY <1>2, <1>8 DEF Below
    <3>4. Removes(ops[i]) \subseteq K \ C /\ Present(sc, ops, n) \subseteq K
      <4>1. Removes(ops[i]) \cap Creates(ops[i]) = {}
        BY <1>1, <1>2 DEF Fresh
      <4> QED
        BY <1>1, <1>2, <4>1, GoodTypes DEF K, C, n
    <3> QED
      BY <1>8, <3>1, <3>2, <3>3, <3>4
  <2> QED
    BY <1>3, <2>1 DEF Shows
<1>17. Sourced(sc, ops2, w)
  <2>1. ASSUME NEW j \in 1 .. n - 1, ops2[j].kind = "Copy"
        PROVE  /\ ops2[j].source \in K \ C /\ w.parts[ops2[j].source].state \in {"None", "Restore"}
               /\ \A m \in j .. n - 1 : ops2[j].source \notin Creates(ops2[m])
    <3>1. s(j) \in 1 .. n /\ s(j) # i /\ ops2[j] = ops[s(j)] /\ ops[s(j)].kind = "Copy"
      BY <1>4, <2>1
    <3>2. /\ ops[s(j)].source \in K /\ pv.parts[ops[s(j)].source].state \in {"None", "Restore"}
          /\ \A m \in s(j) .. n : ops[s(j)].source \notin Creates(ops[m])
      BY <1>1, <1>2, <3>1 DEF Sourced, K, n
    <3>3. ops[s(j)].source \in Operands(ops[s(j)])
      BY <3>1 DEF Operands
    <3>4. ops[s(j)].source \notin C
      BY <1>7, <3>1, <3>3
    <3>5. ASSUME NEW m \in j .. n - 1 PROVE ops2[j].source \notin Creates(ops2[m])
      <4>1. m \in 1 .. n - 1 /\ (s(j) < s(m) \/ s(j) = s(m))
        BY <1>2, <1>5
      <4>2. s(m) \in 1 .. n /\ ops2[m] = ops[s(m)]
        BY <1>4, <4>1
      <4>3. s(m) \in s(j) .. n
        BY <1>2, <3>1, <4>1, <4>2
      <4> QED
        BY <3>1, <3>2, <4>2, <4>3
    <3> QED
      BY <1>8, <3>1, <3>2, <3>4, <3>5
  <2> QED
    BY <1>3, <2>1 DEF Sourced
<1> QED
  BY <1>9, <1>10, <1>11, <1>12, <1>13, <1>14, <1>15, <1>16, <1>17 DEF Owned

\* Taking out an operation takes out a level and takes the operation back in those above,
\* if the operations above can do without it.
LEMMA RemoveLayered ==
    ASSUME NEW sc \in Devices, NEW ops, NEW pv, NEW l, Owned(sc, ops, pv), Layered(sc, ops, pv, l),
           NEW i \in DOMAIN ops, Removable(sc, ops, pv, i),
           NEW ops2, Shorter(ops, i, ops2), NEW w, Reverts(sc, ops, pv, ops[i], w),
           \A j \in i + 1 .. Len(ops) :
              /\ Leads(Known(sc, ops) \ Creates(ops[i]), ops[j], TakenBack(ops[i], l[j - 1]), TakenBack(ops[i], l[j]))
              /\ Sound(TakenBack(ops[i], l[j]), (Present(sc, ops, j) \ Creates(ops[i])) \cup Removes(ops[i]))
    PROVE  \E l2 : Layered(sc, ops2, w, l2)
<1> DEFINE n == Len(ops)
           op == ops[i]
           C == Creates(op)
           K == Known(sc, ops)
           R(k) == TakenBack(op, l[k])
           l2 == [k \in 0 .. n - 1 |-> IF k < i THEN l[k] ELSE R(k + 1)]
<1>1. Typed(sc, ops, pv)
  BY DEF Owned
<1>2. /\ n \in Nat /\ DOMAIN ops = 1 .. n /\ i \in 1 .. n /\ sc.live \subseteq K /\ K \subseteq PartIds
      /\ \A j \in 1 .. n : IsOp(ops[j]) /\ Uses(ops[j]) \subseteq K
      /\ \A k : Present(sc, ops, k) \subseteq K
      /\ pv.table \in TableIds
  BY <1>1, GoodTypes
<1>3. /\ Len(ops2) = n - 1 /\ DOMAIN ops2 = 1 .. n - 1
      /\ \A j \in 1 .. n - 1 : j < i => ops2[j] = ops[j]
      /\ \A j \in 1 .. n - 1 : i <= j => ops2[j] = ops[j + 1]
      /\ Known(sc, ops2) = K \ C
      /\ \A k \in 0 .. i - 1 : Present(sc, ops2, k) = Present(sc, ops, k)
      /\ \A k \in i .. n - 1 : Present(sc, ops2, k) = (Present(sc, ops, k + 1) \ C) \cup Removes(op)
  BY RemovePresent
<1>4. \A k \in 0 .. n : /\ l[k].table \in TableIds /\ l[k].parts \in [PartIds -> Partition]
                        /\ l[k] \in [table : TableIds, parts : [PartIds -> Partition]]
                        /\ \A p \in K : /\ l[k].parts[p].parent = pv.parts[p].parent
                                        /\ pv.parts[p].parent \in TableIds \/ pv.parts[p].parent \in K
  <2>1. \A k \in 0 .. n : l[k] \in [table : TableIds, parts : [PartIds -> Partition]]
    BY DEF Layered, Levels
  <2>2. \A k \in 0 .. n, p \in K : l[k].parts[p].parent = pv.parts[p].parent
    BY <1>1, LevelsKeep
  <2>3. \A p \in K : pv.parts[p].parent \in TableIds \/ pv.parts[p].parent \in K
    BY KnownParents
  <2> QED
    BY <2>1, <2>2, <2>3
<1>5. \A p \in K \ C : pv.parts[p].parent \in TableIds \/ pv.parts[p].parent \in K \ C
  <2>1. 0 \in 0 .. n
    BY <1>2
  <2> QED
    BY <1>2, <1>4, <2>1 DEF Removable
<1>6. \A k \in 0 .. n : /\ R(k).table = (IF op.kind = "Table" THEN op.old ELSE l[k].table)
                        /\ R(k).parts = [p \in PartIds |-> Reverted(op, p, l[k].parts[p])]
                        /\ \A p \in PartIds : /\ R(k).parts[p] = Reverted(op, p, l[k].parts[p])
                                              /\ R(k).parts[p].parent = l[k].parts[p].parent
                        /\ R(k) \in [table : TableIds, parts : [PartIds -> Partition]]
  <2>1. SUFFICES ASSUME NEW k \in 0 .. n
                 PROVE  /\ R(k).table = (IF op.kind = "Table" THEN op.old ELSE l[k].table)
                        /\ R(k).parts = [p \in PartIds |-> Reverted(op, p, l[k].parts[p])]
                        /\ \A p \in PartIds : /\ R(k).parts[p] = Reverted(op, p, l[k].parts[p])
                                              /\ R(k).parts[p].parent = l[k].parts[p].parent
                        /\ R(k) \in [table : TableIds, parts : [PartIds -> Partition]]
    OBVIOUS
  <2>2. IsOp(op) /\ (op.kind = "Table" => op.old \in TableIds)
    BY <1>2 DEF IsOp
  <2> HIDE DEF op
  <2>3. \A p \in PartIds : /\ Reverted(op, p, l[k].parts[p]) \in Partition
                           /\ Reverted(op, p, l[k].parts[p]).parent = l[k].parts[p].parent
    BY <1>4, <2>2, RevertedKeeps
  <2>4. [p \in PartIds |-> Reverted(op, p, l[k].parts[p])] \in [PartIds -> Partition]
    BY <2>3
  <2> QED
    BY <1>4, <2>2, <2>3, <2>4 DEF TakenBack
<1>7. \A k \in 0 .. n - 1 : /\ k < i => l2[k] = l[k]
                            /\ i <= k => l2[k] = R(k + 1)
  BY <1>2
<1>8. l2 \in Levels(ops2)
  <2>1. \A k \in 0 .. n - 1 : k \in 0 .. n /\ k + 1 \in 0 .. n /\ (k < i \/ i <= k)
    BY <1>2
  <2>2. \A k \in 0 .. n - 1 : l2[k] \in [table : TableIds, parts : [PartIds -> Partition]]
    <3> HIDE DEF l2, R
    <3> QED
      BY <1>4, <1>6, <1>7, <2>1
  <2>3. l2 = [k \in 0 .. n - 1 |-> l2[k]]
    OBVIOUS
  <2> HIDE DEF l2
  <2> QED
    BY <1>3, <2>2, <2>3 DEF Levels
\* Below the operation and with it taken back is the same.
<1>9. /\ R(i).table = l[i - 1].table
      /\ \A p \in K : R(i).parts[p] = l[i - 1].parts[p]
  <2>1. Leads(K, op, l[i - 1], l[i]) /\ i \in 0 .. n /\ i - 1 \in 0 .. n /\ IsOp(op)
    BY <1>2 DEF Layered
  <2>2. R(i).table = l[i - 1].table
    BY <1>6, <2>1 DEF Leads
  <2>3. ASSUME NEW p \in K PROVE R(i).parts[p] = l[i - 1].parts[p]
    <3>1. Alters(op, p, l[i - 1].parts[p], l[i].parts[p])
      BY <2>1, <2>3 DEF Leads
    <3>2. Reverted(op, p, l[i].parts[p]) = l[i - 1].parts[p]
      BY <1>2, <1>4, <2>1, <2>3, <3>1, RevertedAlters
    <3> QED
      BY <1>2, <1>6, <2>1, <3>2
  <2> QED
    BY <2>2, <2>3
<1> HIDE DEF l2, n, K, R, op, C
<1>10. Starts(sc, l2)
  <2>1. /\ l[0].table = sc.table /\ \A p \in sc.live : l[0].parts[p] = sc.parts[p]
    BY DEF Layered, Starts
  <2>2. 0 \in 0 .. n - 1 /\ 0 < i
    BY <1>2
  <2> QED
    BY <1>7, <2>1, <2>2 DEF Starts
<1>11. Ends(sc, ops2, w, l2)
  <2>1. /\ w.table = IF op.kind = "Table" THEN op.old ELSE pv.table
        /\ \A p \in K \ C : w.parts[p] = Reverted(op, p, pv.parts[p])
    BY DEF Reverts, op, C, K
  <2>2. l[n].table = pv.table /\ \A p \in K : l[n].parts[p] = pv.parts[p]
    BY DEF Layered, Ends, n, K
  <2>3. n \in 0 .. n /\ n - 1 \in 0 .. n - 1
    BY <1>2
  <2>4. R(n).table = w.table /\ \A p \in K \ C : R(n).parts[p] = w.parts[p]
    <3>1. R(n).table = w.table
      <4>1. R(n).table = IF op.kind = "Table" THEN op.old ELSE l[n].table
        BY <1>6, <2>3
      <4> QED
        BY <2>1, <2>2, <4>1
    <3>2. ASSUME NEW p \in K \ C PROVE R(n).parts[p] = w.parts[p]
      <4>1. R(n).parts[p] = Reverted(op, p, l[n].parts[p])
        BY <1>2, <1>6, <2>3, <3>2
      <4> QED
        BY <2>1, <2>2, <3>2, <4>1
    <3> QED
      BY <3>1, <3>2
  <2>5. CASE i = n
    BY <1>3, <1>7, <1>9, <2>3, <2>4, <2>5 DEF Ends
  <2>6. CASE i <= n - 1
    <3>1. n - 1 + 1 = n
      BY <1>2
    <3> QED
      BY <1>3, <1>7, <2>3, <2>4, <2>6, <3>1 DEF Ends
  <2> QED
    BY <1>2, <2>5, <2>6
<1>12. ASSUME NEW j \in 1 .. n - 1 PROVE Leads(K \ C, ops2[j], l2[j - 1], l2[j])
  <2>1. j \in 0 .. n - 1 /\ j - 1 \in 0 .. n - 1 /\ j \in 1 .. n /\ j + 1 \in 1 .. n
    BY <1>2
  <2>2. CASE j < i
    <3>1. Leads(K, ops[j], l[j - 1], l[j])
      BY <1>2, <2>1 DEF Layered, K
    <3>2. l2[j - 1] = l[j - 1] /\ l2[j] = l[j] /\ ops2[j] = ops[j]
      BY <1>2, <1>3, <1>7, <2>1, <2>2
    <3> QED
      BY <3>1, <3>2 DEF Leads
  <2>3. CASE i <= j
    <3>1. Leads(K \ C, ops[j + 1], R(j), R(j + 1))
      <4>1. j + 1 \in i + 1 .. Len(ops) /\ j + 1 - 1 = j
        BY <1>2, <2>3 DEF n
      <4>2. \A m \in i + 1 .. Len(ops) : Leads(K \ C, ops[m], R(m - 1), R(m))
        BY DEF K, C, R, op
      <4> DEFINE m == j + 1
      <4>3. m \in i + 1 .. Len(ops) /\ m - 1 = j
        BY <4>1
      <4> HIDE DEF m
      <4>4. Leads(K \ C, ops[m], R(m - 1), R(m))
        BY <4>2, <4>3
      <4>5. Leads(K \ C, ops[m], R(j), R(m))
        BY <4>3, <4>4
      <4> QED
        BY <4>5 DEF m
    <3>2. ops2[j] = ops[j + 1] /\ l2[j] = R(j + 1)
      BY <1>3, <1>7, <2>1, <2>3
    <3>3. CASE j = i
      <4>1. l2[j - 1] = l[i - 1] /\ j \in 0 .. n /\ i - 1 \in 0 .. n
        BY <1>2, <1>7, <2>1, <3>3
      <4>2. \A p \in K \ C : /\ l2[j - 1].parts[p] = R(j).parts[p]
                             /\ R(j).parts[p].parent \in TableIds
                                \/ l2[j - 1].parts[R(j).parts[p].parent] = R(j).parts[R(j).parts[p].parent]
        BY <1>2, <1>4, <1>5, <1>6, <1>9, <3>3, <4>1
      <4>3. IsOp(ops[j + 1]) /\ Uses(ops[j + 1]) \subseteq K \ C
        <5>1. j + 1 # i
          BY <1>2, <3>3
        <5> QED
          BY <1>2, <2>1, <5>1 DEF Removable, C, op
      <4>4. l2[j - 1].table = R(j).table
        BY <1>9, <3>3, <4>1
      <4> QED
        BY <3>1, <3>2, <4>2, <4>3, <4>4, LeadsSame
    <3>4. CASE i <= j - 1
      <4>1. l2[j - 1] = R(j) 
        <5>1. j - 1 + 1 = j
          BY <1>2
        <5> QED
          BY <1>7, <2>1, <3>4, <5>1
      <4> QED
        BY <3>1, <3>2, <4>1
    <3> QED
      BY <1>2, <2>3, <3>3, <3>4
  <2> QED
    BY <1>2, <2>2, <2>3
<1>13. ASSUME NEW k \in 0 .. n - 1 PROVE Sound(l2[k], Present(sc, ops2, k))
  <2>1. CASE k < i
    <3>1. Sound(l[k], Present(sc, ops, k)) /\ k \in 0 .. i - 1
      BY <1>2, <2>1 DEF Layered, n
    <3> QED
      BY <1>3, <1>7, <2>1, <3>1
  <2>2. CASE i <= k
    <3>1. k + 1 \in i + 1 .. Len(ops) /\ k \in i .. n - 1
      BY <1>2, <2>2 DEF n
    <3> QED
      BY <1>3, <1>7, <2>2, <3>1 DEF C, R, op
  <2> QED
    BY <1>2, <2>1, <2>2
<1>14. Layered(sc, ops2, w, l2)
  BY <1>3, <1>8, <1>10, <1>11, <1>12, <1>13 DEF Layered
<1> QED
  BY <1>14

\* Putting a partition into the tree, and taking it out.
LEMMA TreeFacts ==
    ASSUME NEW pv \in Previews, NEW p \in PartIds
    PROVE  /\ InsertPreview(pv, p) \in Previews /\ RemovePreview(pv, p) \in Previews
           /\ InsertPreview(pv, p).live = pv.live /\ RemovePreview(pv, p).live = pv.live
           /\ InsertPreview(pv, p).parts = pv.parts /\ RemovePreview(pv, p).parts = pv.parts
           /\ InsertPreview(pv, p).table = pv.table /\ RemovePreview(pv, p).table = pv.table
           /\ \A n \in Nodes : InsertPreview(pv, p).children[n] = pv.children[n] \cup ({p} \cap Below(pv, n))
           /\ \A n \in Nodes : RemovePreview(pv, p).children[n] = pv.children[n] \ ({p} \cap Below(pv, n))
<1> DEFINE n0 == pv.parts[p].parent
<1>1. /\ n0 \in Nodes /\ pv.children \in [Nodes -> SUBSET PartIds]
      /\ pv = [live |-> pv.live, parts |-> pv.parts, labels |-> pv.labels, table |-> pv.table, children |-> pv.children]
  BY DEF Previews, Partition
<1>2. \A n \in Nodes : {p} \cap Below(pv, n) = IF n = n0 THEN {p} ELSE {}
  BY DEF Below
<1>3. InsertPreview(pv, p) = [pv EXCEPT !.children[n0] = @ \cup {p}] /\ RemovePreview(pv, p) = [pv EXCEPT !.children[n0] = @ \ {p}]
  BY DEF InsertPreview, RemovePreview
<1> HIDE DEF n0
<1>4. /\ [pv.children EXCEPT ![n0] = @ \cup {p}] \in [Nodes -> SUBSET PartIds]
      /\ [pv.children EXCEPT ![n0] = @ \ {p}] \in [Nodes -> SUBSET PartIds]
      /\ \A n \in Nodes : [pv.children EXCEPT ![n0] = @ \cup {p}][n] = pv.children[n] \cup (IF n = n0 THEN {p} ELSE {})
      /\ \A n \in Nodes : [pv.children EXCEPT ![n0] = @ \ {p}][n] = pv.children[n] \ (IF n = n0 THEN {p} ELSE {})
  BY <1>1
<1>5. /\ InsertPreview(pv, p) = [pv EXCEPT !.children = [pv.children EXCEPT ![n0] = @ \cup {p}]]
      /\ RemovePreview(pv, p) = [pv EXCEPT !.children = [pv.children EXCEPT ![n0] = @ \ {p}]]
  BY <1>3
<1> DEFINE a == [pv.children EXCEPT ![n0] = @ \cup {p}]
           b == [pv.children EXCEPT ![n0] = @ \ {p}]
<1> HIDE DEF a, b
<1>6. /\ [pv EXCEPT !.children = a].live = pv.live /\ [pv EXCEPT !.children = a].parts = pv.parts
      /\ [pv EXCEPT !.children = a].table = pv.table /\ [pv EXCEPT !.children = a].children = a
      /\ [pv EXCEPT !.children = b].live = pv.live /\ [pv EXCEPT !.children = b].parts = pv.parts
      /\ [pv EXCEPT !.children = b].table = pv.table /\ [pv EXCEPT !.children = b].children = b
  BY <1>1
<1>7. /\ a \in [Nodes -> SUBSET PartIds] => [pv EXCEPT !.children = a] \in Previews
      /\ b \in [Nodes -> SUBSET PartIds] => [pv EXCEPT !.children = b] \in Previews
  BY DEF Previews
<1> QED
  BY <1>2, <1>4, <1>5, <1>6, <1>7 DEF a, b

\* Deleting a partition object without children.
LEMMA FreeFacts ==
    ASSUME scanned \in Devices, NEW pv \in Previews, NEW p \in PartIds, pv.children[p] = {}
    PROVE  /\ FreePartition(pv, p) \in Previews
           /\ FreePartition(pv, p).live = pv.live \ {p} /\ FreePartition(pv, p).table = pv.table
           /\ \A n \in Nodes : FreePartition(pv, p).children[n] = pv.children[n] \ ({p} \cap Below(pv, n))
           /\ \A q \in PartIds \ {p} : FreePartition(pv, p).parts[q] = pv.parts[q]
<1> DEFINE freed == {p} \cup pv.children[p]
           r == RemovePreview(pv, p)
           rest == FreeFileSystems(r, { pv.parts[q].fs : q \in freed })
           kids == [r.children EXCEPT ![p] = {}]
           parts == [q \in PartIds |-> IF q \in freed THEN scanned.parts[q] ELSE r.parts[q]]
<1>1. FreePartition(pv, p) = [rest EXCEPT !.live = @ \ freed, !.children[p] = {},
                                          !.parts = [q \in PartIds |-> IF q \in freed THEN scanned.parts[q] ELSE @[q]]]
  BY DEF FreePartition
<1>2. freed = {p}
  OBVIOUS
<1> HIDE DEF freed
<1>3. /\ r \in Previews /\ r.live = pv.live /\ r.parts = pv.parts /\ r.table = pv.table
      /\ \A n \in Nodes : r.children[n] = pv.children[n] \ ({p} \cap Below(pv, n))
  BY TreeFacts
<1>4. scanned \in Previews
  BY ScanFacts
<1> HIDE DEF r
<1>5. rest \in Previews /\ rest.live = r.live /\ rest.parts = r.parts /\ rest.table = r.table /\ rest.children = r.children
  BY <1>3, <1>4 DEF FreeFileSystems, Previews
<1> HIDE DEF rest
<1>6. p \in Nodes /\ kids \in [Nodes -> SUBSET PartIds] /\ \A n \in Nodes : kids[n] = r.children[n]
  BY <1>3 DEF Previews, Nodes
<1>7. parts \in [PartIds -> Partition] /\ \A q \in PartIds \ {p} : parts[q] = pv.parts[q]
  BY <1>2, <1>3, <1>4 DEF Previews
<1>8. FreePartition(pv, p) = [rest EXCEPT !.live = pv.live \ {p}, !.children = kids, !.parts = parts]
  <2> DEFINE live == rest.live \ freed
             all  == [q \in PartIds |-> IF q \in freed THEN scanned.parts[q] ELSE rest.parts[q]]
  <2>1. live = pv.live \ {p} /\ all = parts
    BY <1>2, <1>3, <1>5
  <2>2. FreePartition(pv, p) = [rest EXCEPT !.live = live, !.children[p] = {}, !.parts = all]
    BY <1>1
  <2> HIDE DEF live, all, parts
  <2>3. [rest EXCEPT !.live = live, !.children[p] = {}, !.parts = all]
          = [rest EXCEPT !.live = live, !.children = [rest.children EXCEPT ![p] = {}], !.parts = all]
    BY <1>5 DEF Previews
  <2> QED
    BY <1>5, <2>1, <2>2, <2>3
<1> HIDE DEF kids, parts
<1>9. /\ FreePartition(pv, p).live = pv.live \ {p} /\ FreePartition(pv, p).table = pv.table
      /\ FreePartition(pv, p).children = kids /\ FreePartition(pv, p).parts = parts
  BY <1>3, <1>5, <1>8 DEF Previews
<1>10. FreePartition(pv, p) \in Previews
  <2>1. pv.live \ {p} \in SUBSET PartIds
    BY DEF Previews
  <2> QED
    BY <1>5, <1>6, <1>7, <1>8, <2>1 DEF Previews
<1> QED
  BY <1>3, <1>6, <1>7, <1>9, <1>10

\* undo() and the destructor do what the levels say.
LEMMA PoppedReverts ==
    ASSUME scanned \in Devices, NEW ops, NEW pv, Owned(scanned, ops, pv), NEW i \in DOMAIN ops,
           Removable(scanned, ops, pv, i), ops[i].kind = "Table" => pv.children[ops[i].new] = {}
    PROVE  Reverts(scanned, ops, pv, ops[i], Popped(ops[i], pv))
<1> DEFINE op == ops[i]
           K == Known(scanned, ops)
           w == Popped(op, pv)
<1>1. /\ Typed(scanned, ops, pv) /\ Fresh(scanned, ops, pv) /\ Shows(scanned, ops, pv) /\ Placed(scanned, ops, pv)
  BY DEF Owned
<1>2. /\ IsOp(op) /\ K \subseteq PartIds /\ Creates(op) \subseteq Uses(op) /\ Uses(op) \subseteq K /\ Removes(op) \subseteq Uses(op)
      /\ pv \in Previews /\ K \subseteq pv.live /\ pv.parts \in [PartIds -> Partition] /\ pv.children \in [Nodes -> SUBSET PartIds]
      /\ \A n : Present(scanned, ops, n) \subseteq K /\ Nodes = TableIds \cup PartIds
  <2>1. pv \in Previews /\ K \subseteq pv.live
    BY <1>1 DEF Typed
  <2> HIDE DEF K
  <2> QED
    BY <1>1, <2>1, GoodTypes DEF K
<1>3. \A n \in Nodes : \A p \in pv.children[n] : p \in Below(pv, n)
  BY <1>1 DEF Shows
<1>4. \A p \in Creates(op) : /\ pv.children[p] = {} /\ p \in PartIds /\ p \notin Removes(op)
                             /\ \A q \in K : pv.parts[q].parent # p
  <2>1. \A p \in Creates(op) : p \in PartIds /\ p \notin Removes(op) /\ \A q \in K : pv.parts[q].parent # p
    BY <1>1, <1>2 DEF Removable, Fresh
  <2>2. ASSUME NEW p \in Creates(op) PROVE pv.children[p] = {}
    BY <1>1, <1>2, <1>3, <2>1, <2>2 DEF Shows, Below
  <2> QED
    BY <2>1, <2>2
<1> HIDE DEF op, K, w
<1>5. CASE op.kind \in Creating
  <2> DEFINE p == op.part
             u == RemovePreview(pv, p)
  <2>1. Creates(op) = {p} /\ p \in PartIds /\ pv.children[p] = {} /\ \A q \in K : pv.parts[q].parent # p
    BY <1>4, <1>5 DEF Creates
  <2> HIDE DEF p
  <2>2. /\ u \in Previews /\ u.live = pv.live /\ u.parts = pv.parts /\ u.table = pv.table
        /\ \A n \in Nodes : u.children[n] = pv.children[n] \ {p}
    <3>1. \A n \in Nodes : u.children[n] = pv.children[n] \ ({p} \cap Below(pv, n))
      BY <1>2, <2>1, TreeFacts
    <3> QED
      BY <1>2, <1>3, <2>1, <3>1, TreeFacts
  <2> HIDE DEF u
  <2>3. /\ Undo(op, pv) \in Previews /\ Undo(op, pv).live = pv.live /\ Undo(op, pv).parts = pv.parts /\ Undo(op, pv).table = pv.table
        /\ \A n \in Nodes : Undo(op, pv).children[n] = (pv.children[n] \ {p}) \cup (Removes(op) \cap Below(pv, n))
    <3>1. CASE Replacing(op)
      <4>1. Undo(op, pv) = InsertPreview(u, op.over) /\ Removes(op) = {op.over} /\ op.over \in PartIds
        BY <1>2, <3>1, OperandFacts DEF Undo, Replacing, u, p
      <4>2. \A n : Below(u, n) = Below(pv, n)
        BY <2>2 DEF Below
      <4> QED
        BY <2>2, <4>1, <4>2, TreeFacts
    <3>2. CASE ~Replacing(op)
      <4>1. Undo(op, pv) = u
        BY <1>5, <3>2 DEF Undo, Replacing, Creating, u, p
      <4>2. Removes(op) = {}
        BY <1>5, <3>2 DEF Removes, Creating
      <4> QED
        BY <2>2, <4>1, <4>2
    <3> QED
      BY <3>1, <3>2
  <2>4. w = FreePartition(Undo(op, pv), p)
    <3>1. \A z : Destroy(op, z) = FreePartition(z, p)
      BY <1>5 DEF Destroy, Creating, p
    <3> QED
      BY <3>1 DEF w, Popped
  <2>5. Undo(op, pv).children[p] = {} /\ \A n : Below(Undo(op, pv), n) = Below(pv, n)
    BY <1>2, <2>1, <2>3 DEF Below
  <2> DEFINE z == Undo(op, pv)
  <2> HIDE DEF z
  <2>6. /\ w \in Previews /\ w.live = pv.live \ {p} /\ w.table = pv.table
        /\ \A n \in Nodes : w.children[n] = z.children[n] \ ({p} \cap Below(pv, n))
        /\ \A q \in PartIds \ {p} : w.parts[q] = pv.parts[q]
    BY <2>1, <2>3, <2>4, <2>5, FreeFacts DEF z
  <2>7. ASSUME NEW n \in Nodes PROVE w.children[n] = (pv.children[n] \ Creates(op)) \cup (Removes(op) \cap Below(pv, n))
    BY <1>4, <2>1, <2>3, <2>6, <2>7 DEF z
  <2>8. \A q \in K \ Creates(op) : w.parts[q] = Reverted(op, q, pv.parts[q])
    BY <1>2, <1>5, <2>1, <2>6 DEF Reverted, Creating
  <2>9. op.kind # "Table"
    BY <1>5 DEF Creating
  <2> QED
    BY <1>2, <2>1, <2>6, <2>7, <2>8, <2>9 DEF Reverts, K, op, w
<1>6. CASE op.kind = "Delete"
  <2>1. w = InsertPreview(pv, op.part) /\ Removes(op) = {op.part} /\ Creates(op) = {} /\ op.part \in PartIds
    BY <1>2, <1>6 DEF w, Popped, Destroy, Undo, Creating, Removes, Creates, IsOp
  <2>2. \A q : Reverted(op, q, pv.parts[q]) = pv.parts[q]
    BY <1>6 DEF Reverted
  <2>3. /\ w \in Previews /\ w.live = pv.live /\ w.parts = pv.parts /\ w.table = pv.table
        /\ \A n \in Nodes : w.children[n] = pv.children[n] \cup ({op.part} \cap Below(pv, n))
    <3> DEFINE p == op.part
    <3>1. w = InsertPreview(pv, p) /\ p \in PartIds /\ pv \in Previews
      BY <1>2, <2>1
    <3> HIDE DEF p
    <3>2. /\ w \in Previews /\ w.live = pv.live /\ w.parts = pv.parts /\ w.table = pv.table
          /\ \A n \in Nodes : w.children[n] = pv.children[n] \cup ({p} \cap Below(pv, n))
      BY <3>1, TreeFacts
    <3> QED
      BY <3>2 DEF p
  <2> QED
    BY <1>2, <1>6, <2>1, <2>2, <2>3 DEF Reverts, K, op, w
<1>7. CASE op.kind = "Table"
  <2>1. w = [live |-> pv.live, parts |-> pv.parts, labels |-> pv.labels, table |-> op.old, children |-> pv.children]
    <3>1. Undo(op, pv) = [pv EXCEPT !.table = op.old] /\ op.new \in Nodes /\ pv.children[op.new] = {}
      BY <1>2, <1>7 DEF Undo, Creating, op, IsOp
    <3>2. w = [Undo(op, pv) EXCEPT !.live = @ \ Undo(op, pv).children[op.new], !.children[op.new] = {}]
      BY <1>7 DEF w, Popped, Destroy, Creating
    <3>3. Undo(op, pv).children = pv.children /\ Undo(op, pv).live = pv.live /\ [pv.children EXCEPT ![op.new] = {}] = pv.children
      BY <1>2, <3>1 DEF Previews
    <3>4. Undo(op, pv) = [live |-> pv.live, parts |-> pv.parts, labels |-> pv.labels, table |-> op.old, children |-> pv.children]
      BY <1>2, <3>1 DEF Previews
    <3>5. w = [Undo(op, pv) EXCEPT !.live = pv.live \ {}, !.children = [pv.children EXCEPT ![op.new] = {}]]
      BY <3>1, <3>2, <3>3
    <3> QED
      BY <3>3, <3>4, <3>5
  <2>2. op.old \in TableIds /\ Creates(op) = {} /\ Removes(op) = {}
    BY <1>2, <1>7 DEF IsOp, Creates, Removes, Creating, Replacing
  <2>3. \A q : Reverted(op, q, pv.parts[q]) = pv.parts[q]
    BY <1>7 DEF Reverted
  <2>4. w \in Previews
    BY <1>2, <2>1, <2>2 DEF Previews
  <2> QED
    BY <1>2, <1>7, <2>1, <2>2, <2>3, <2>4 DEF Reverts, K, op, w
<1>8. CASE op.kind \in {"Resize", "Flags", "Format"}
  <2> DEFINE parts == [q \in PartIds |-> Reverted(op, q, pv.parts[q])]
  <2>1. op.part \in PartIds /\ Creates(op) = {} /\ Removes(op) = {}
    BY <1>2, <1>8 DEF IsOp, Creates, Removes, Creating, Replacing
  <2>2. parts \in [PartIds -> Partition]
    BY <1>2, RevertedKeeps
  <2>3. Undo(op, pv) = [pv EXCEPT !.parts = parts]
    <3>1. CASE op.kind = "Resize"
      <4>1. Undo(op, pv) = [pv EXCEPT !.parts = [pv.parts EXCEPT ![op.part] = [@ EXCEPT !.first = op.oldFirst, !.last = op.oldLast]]]
        BY <3>1 DEF Undo, SetSectors, Creating
      <4>2. [pv.parts EXCEPT ![op.part] = [@ EXCEPT !.first = op.oldFirst, !.last = op.oldLast]] = parts
        BY <1>2, <2>1, <3>1 DEF Reverted
      <4> QED
        BY <4>1, <4>2
    <3>2. CASE op.kind = "Flags"
      <4>1. Undo(op, pv) = [pv EXCEPT !.parts = [pv.parts EXCEPT ![op.part] = [@ EXCEPT !.flags = op.old]]]
        BY <3>2 DEF Undo, Creating
      <4>2. [pv.parts EXCEPT ![op.part] = [@ EXCEPT !.flags = op.old]] = parts
        BY <1>2, <2>1, <3>2 DEF Reverted
      <4> QED
        BY <4>1, <4>2
    <3>3. CASE op.kind = "Format"
      <4>1. Undo(op, pv) = [pv EXCEPT !.parts = [pv.parts EXCEPT ![op.part] = [@ EXCEPT !.fs = op.old]]]
        BY <3>3 DEF Undo, Creating
      <4>2. [pv.parts EXCEPT ![op.part] = [@ EXCEPT !.fs = op.old]] = parts
        BY <1>2, <2>1, <3>3 DEF Reverted
      <4> QED
        BY <4>1, <4>2
    <3> QED
      BY <1>8, <3>1, <3>2, <3>3
  <2> DEFINE z == Undo(op, pv)
  <2> HIDE DEF parts
  <2>4. z = [live |-> pv.live, parts |-> parts, labels |-> pv.labels, table |-> pv.table, children |-> pv.children]
    BY <1>2, <2>3 DEF Previews
  <2> HIDE DEF z
  <2>5. z \in Previews /\ z.live = pv.live /\ z.parts = parts /\ z.table = pv.table /\ z.children = pv.children
    BY <1>2, <2>2, <2>4 DEF Previews
  <2>6. w = z \/ w = FreeFileSystems(z, {op.new})
    BY <1>8 DEF w, Popped, Destroy, Creating, z
  <2>7. scanned \in Previews
    BY ScanFacts
  <2>8. w \in Previews /\ w.live = pv.live /\ w.parts = parts /\ w.table = pv.table /\ w.children = pv.children
    BY <2>5, <2>6, <2>7 DEF FreeFileSystems, Previews
  <2>9. \A q \in K : w.parts[q] = Reverted(op, q, pv.parts[q])
    BY <1>2, <2>8 DEF parts
  <2> QED
    BY <1>2, <1>8, <2>1, <2>8, <2>9 DEF Reverts, K, op, w
<1>9. CASE op.kind \in {"Label", "Check", "Backup"}
  <2>1. Creates(op) = {} /\ Removes(op) = {} /\ op.part \in PartIds
    BY <1>2, <1>9 DEF IsOp, Creates, Removes, Creating, Replacing
  <2>2. w \in Previews /\ w.live = pv.live /\ w.parts = pv.parts /\ w.table = pv.table /\ w.children = pv.children
    <3>1. CASE op.kind = "Label"
      <4>1. w = [pv EXCEPT !.labels[pv.parts[op.part].fs] = op.old]
        BY <3>1 DEF w, Popped, Destroy, Undo, Creating
      <4>2. op.old \in Labels \cup {None} /\ pv.parts[op.part].fs \in FsIds
        BY <1>2, <2>1, <3>1 DEF IsOp, Partition
      <4> QED
        BY <1>2, <4>1, <4>2 DEF Previews
    <3>2. CASE op.kind # "Label"
      BY <1>2, <1>9, <3>2 DEF w, Popped, Destroy, Undo, Creating
    <3> QED
      BY <3>1, <3>2
  <2>3. \A q : Reverted(op, q, pv.parts[q]) = pv.parts[q]
    BY <1>9 DEF Reverted
  <2> QED
    BY <1>2, <1>9, <2>1, <2>2, <2>3 DEF Reverts, K, op, w
<1>10. op.kind \in Creating \/ op.kind \in {"Delete", "Table", "Resize", "Flags", "Format", "Label", "Check", "Backup"}
  BY <1>2 DEF IsOp, Kinds
<1> QED
  BY <1>5, <1>6, <1>7, <1>8, <1>9, <1>10 DEF op

\* With only backups above it, an operation can be taken out.
LEMMA TopRemovable ==
    ASSUME NEW sc \in Devices, NEW ops, NEW pv, Good(sc, ops, pv), NEW i \in DOMAIN ops,
           \A j \in i + 1 .. Len(ops) : ops[j].kind = "Backup"
    PROVE  Removable(sc, ops, pv, i) /\ (ops[i].kind = "Table" => pv.children[ops[i].new] = {})
<1> DEFINE n == Len(ops)
           K == Known(sc, ops)
<1>1. /\ Typed(sc, ops, pv) /\ Kept(sc, pv) /\ Fresh(sc, ops, pv) /\ Gone(sc, ops, pv)
      /\ Rooted(sc, ops, pv) /\ Placed(sc, ops, pv) /\ Sourced(sc, ops, pv) /\ Shows(sc, ops, pv)
  BY DEF Good, Owned
<1>2. /\ n \in Nat /\ DOMAIN ops = 1 .. n /\ i \in 1 .. n /\ sc.live \subseteq K /\ K \subseteq PartIds
      /\ \A j \in 1 .. n : /\ IsOp(ops[j]) /\ Uses(ops[j]) \subseteq K
                           /\ Creates(ops[j]) \subseteq Uses(ops[j]) /\ Removes(ops[j]) \subseteq Uses(ops[j])
      /\ \A p \in K : p \in sc.live \/ \E j \in 1 .. n : p \in Creates(ops[j])
      /\ \A k : Present(sc, ops, k) \subseteq K
      /\ PartIds \cap TableIds = {} /\ Nodes = TableIds \cup PartIds
  BY <1>1, GoodTypes
<1>3. ASSUME NEW j \in 1 .. n, j # i
      PROVE  \/ j \in 1 .. i - 1
             \/ ops[j].part \in sc.live /\ Uses(ops[j]) = {ops[j].part} /\ Creates(ops[j]) = {} /\ Removes(ops[j]) = {}
  <2>1. CASE j < i
    BY <1>2, <2>1
  <2>2. CASE i < j
    <3>1. ops[j].kind = "Backup"
      BY <1>2, <2>2
    <3>2. ops[j].part \in sc.live
      BY <1>1, <1>2, <3>1 DEF Placed
    <3> QED
      BY <1>2, <3>1, <3>2, OperandFacts
  <2> QED
    BY <1>2, <1>3, <2>1, <2>2
<1> HIDE DEF n, K
<1>4. ASSUME NEW p \in Creates(ops[i]), NEW j \in 1 .. n, j # i PROVE p \notin Uses(ops[j]) \cup Operands(ops[j])
  <2>1. p \notin Uses(ops[j])
    BY <1>1, <1>2, <1>3, <1>4 DEF Fresh
  <2>2. ASSUME ops[j].kind = "Copy" PROVE p # ops[j].source
    <3>1. j \in 1 .. i - 1
      BY <1>2, <1>3, <1>4, <2>2 DEF Creates, Creating
    <3>2. i \in j .. n
      BY <1>2, <3>1
    <3> QED
      BY <1>1, <1>2, <1>4, <2>2, <3>2 DEF Sourced, n
  <2> QED
    BY <1>2, <2>1, <2>2, OperandFacts
<1>5. ASSUME NEW p \in Creates(ops[i]), NEW q \in K, pv.parts[q].parent = p PROVE FALSE
  <2>1. p \in PartIds /\ p \notin sc.live
    BY <1>1, <1>2, <1>5 DEF Fresh
  <2>2. q \notin sc.live
    BY <1>1, <1>5, <2>1, ScanFacts DEF Kept
  <2>3. PICK j \in 1 .. n : q \in Creates(ops[j])
    BY <1>2, <1>5, <2>2
  <2>4. ~ (i \in j .. n)
    BY <1>1, <1>2, <1>5, <2>3 DEF Rooted, K, n
  <2>5. j # i /\ ~ (j \in 1 .. i - 1)
    BY <1>2, <2>3, <2>4
  <2> QED
    BY <1>3, <2>3, <2>5
<1>6. ASSUME NEW p \in Removes(ops[i]), NEW j \in 1 .. n, j # i, pv.parts[p].parent \in Removes(ops[j]) PROVE FALSE
  <2>1. j \in 1 .. i - 1 /\ p \in K
    BY <1>2, <1>3, <1>6
  <2>2. PICK m \in 1 .. j - 1 : p \in Removes(ops[m])
    BY <1>1, <1>2, <1>6, <2>1 DEF Gone, K
  <2>3. m \in 1 .. n /\ i \in m + 1 .. n
    BY <1>2, <2>1
  <2> QED
    BY <1>1, <1>2, <1>6, <2>2, <2>3 DEF Gone, n
<1>7. ASSUME ops[i].kind = "Table" PROVE pv.children[ops[i].new] = {}
  <2>1. ops[i].new \in TableIds /\ ops[i].new \in Nodes
    BY <1>2, <1>7 DEF IsOp
  <2>2. SUFFICES ASSUME NEW q \in pv.children[ops[i].new] PROVE FALSE
    OBVIOUS
  <2>3. q \in K /\ pv.parts[q].parent = ops[i].new
    BY <1>1, <1>2, <2>1 DEF Shows, Below
  <2>4. Root(pv, q) = ops[i].new
    BY <2>1, <2>3 DEF Root
  <2>5. PICK j \in i + 1 .. n : q \in Creates(ops[j])
    BY <1>2, <1>7, <2>3, <2>4, RootsCreated DEF K, n
  <2>6. j \in 1 .. n /\ j # i /\ ~ (j \in 1 .. i - 1)
    BY <1>2
  <2> QED
    BY <1>3, <2>5, <2>6
<1> QED
  BY <1>2, <1>4, <1>5, <1>6, <1>7 DEF Removable, K

\* The levels then.
LEMMA TopLevels ==
    ASSUME NEW sc \in Devices, NEW ops, NEW pv, NEW l, Good(sc, ops, pv), Layered(sc, ops, pv, l), NEW i \in DOMAIN ops,
           \A j \in i + 1 .. Len(ops) : ops[j].kind = "Backup",
           NEW j \in i + 1 .. Len(ops)
    PROVE  /\ Leads(Known(sc, ops) \ Creates(ops[i]), ops[j], TakenBack(ops[i], l[j - 1]), TakenBack(ops[i], l[j]))
           /\ Sound(TakenBack(ops[i], l[j]), (Present(sc, ops, j) \ Creates(ops[i])) \cup Removes(ops[i]))
<1> DEFINE n == Len(ops)
           K == Known(sc, ops)
           op == ops[i]
           C == Creates(op)
           R(k) == TakenBack(op, l[k])
<1>1. Owned(sc, ops, pv) /\ Typed(sc, ops, pv) /\ Fresh(sc, ops, pv) /\ Placed(sc, ops, pv)
  BY DEF Good, Owned
<1>2. /\ n \in Nat /\ DOMAIN ops = 1 .. n /\ i \in 1 .. n /\ sc.live \subseteq K /\ K \subseteq PartIds
      /\ \A m \in 1 .. n : IsOp(ops[m]) /\ Uses(ops[m]) \subseteq K /\ Removes(ops[m]) \subseteq Uses(ops[m])
      /\ \A k : Present(sc, ops, k) \subseteq K
      /\ i - 1 \in 0 .. n /\ j \in 1 .. n /\ i \in 0 .. n
  BY <1>1, GoodTypes
<1>3. \A k \in 0 .. n : /\ l[k].parts \in [PartIds -> Partition]
                        /\ \A p \in K : l[k].parts[p].parent = pv.parts[p].parent
  BY <1>1, LevelsKeep
<1>4. \A p \in K : pv.parts[p].parent \in TableIds \/ pv.parts[p].parent \in K
  BY <1>1, KnownParents
<1>5. \A m \in 1 .. n : Leads(K, ops[m], l[m - 1], l[m])
  BY <1>2 DEF Layered
<1> DEFINE T == { k \in 0 .. n : k < i \/ (l[k].table = l[i].table /\ \A p \in K : l[k].parts[p] = l[i].parts[p]) }
<1>6. 0 \in T
  BY <1>2
<1>7. ASSUME NEW k \in 1 .. n, k - 1 \in T PROVE k \in T
  <2>1. CASE k <= i
    BY <1>2, <2>1
  <2>2. CASE i < k
    <3>1. ops[k].kind = "Backup" /\ ~ (k - 1 < i)
      BY <1>2, <2>2
    <3>2. l[k].table = l[k - 1].table /\ \A p \in K : l[k].parts[p] = l[k - 1].parts[p]
      BY <1>5, <3>1 DEF Leads, Alters
    <3> QED
      BY <1>7, <3>1, <3>2
  <2> QED
    BY <1>2, <2>1, <2>2
<1>8. \A k \in 0 .. n : k \in T
  <2> HIDE DEF T
  <2> QED
    BY <1>2, <1>6, <1>7, Upwards
<1>9. ASSUME NEW k \in i .. n
      PROVE  /\ l[k].table = l[i].table
             /\ R(k).table = l[i - 1].table
             /\ \A p \in K : R(k).parts[p] = l[i - 1].parts[p]
  <2>1. k \in 0 .. n /\ ~ (k < i)
    BY <1>2
  <2>2. l[k].table = l[i].table /\ \A p \in K : l[k].parts[p] = l[i].parts[p]
    BY <1>8, <2>1
  <2>3. Leads(K, op, l[i - 1], l[i])
    BY <1>2, <1>5
  <2>4. R(k).table = l[i - 1].table
    <3>1. R(k).table = IF op.kind = "Table" THEN op.old ELSE l[k].table
      BY DEF TakenBack
    <3> QED
      BY <2>2, <2>3, <3>1 DEF Leads
  <2>5. ASSUME NEW p \in K PROVE R(k).parts[p] = l[i - 1].parts[p]
    <3>1. R(k).parts[p] = Reverted(op, p, l[i].parts[p])
      BY <1>2, <2>2, <2>5 DEF TakenBack
    <3>2. Alters(op, p, l[i - 1].parts[p], l[i].parts[p])
      BY <2>3, <2>5 DEF Leads
    <3>3. p \in PartIds /\ l[i - 1].parts[p] \in Partition /\ IsOp(op)
      BY <1>2, <1>3, <2>5
    <3> QED
      BY <3>1, <3>2, <3>3, RevertedAlters
  <2> QED
    BY <2>2, <2>4, <2>5
<1>10. /\ ops[j].kind = "Backup" /\ ops[j].part \in sc.live /\ ops[j].part \in K /\ Uses(ops[j]) = {ops[j].part}
       /\ j \in i .. n /\ j - 1 \in i .. n /\ j - 1 \in 0 .. n /\ j \in 0 .. n
  <2>1. ops[j].kind = "Backup"
    OBVIOUS
  <2>2. ops[j].part \in sc.live
    BY <1>1, <1>2, <2>1 DEF Placed
  <2> QED
    BY <1>2, <2>1, <2>2, OperandFacts
<1> HIDE DEF n, K, op, C, R, T
<1>11. Root(R(j - 1), ops[j].part) = R(j - 1).table
  <2> DEFINE b == ops[j].part
             a == j - 1
  <2>1. b \in K /\ a \in i .. n /\ a \in 0 .. n /\ Leads(K, ops[j], l[a], l[j])
    BY <1>2, <1>5, <1>10
  <2>2. Root(l[a], b) = l[a].table
    BY <1>10, <2>1 DEF Leads
  <2>3. Root(l[a], b) = Root(pv, b) /\ Root(R(a), b) = Root(pv, b)
    <3> HIDE DEF a, b
    <3>1. l[a].parts[b].parent = pv.parts[b].parent /\ R(a).parts[b].parent = pv.parts[b].parent
      BY <1>2, <1>3, <1>9, <2>1
    <3>2. CASE pv.parts[b].parent \in TableIds
      BY <3>1, <3>2 DEF Root
    <3>3. CASE pv.parts[b].parent \in K
      <4>1. /\ l[a].parts[pv.parts[b].parent].parent = pv.parts[pv.parts[b].parent].parent
            /\ R(a).parts[pv.parts[b].parent].parent = pv.parts[pv.parts[b].parent].parent
        BY <1>2, <1>3, <1>9, <2>1, <3>3
      <4> QED
        BY <3>1, <4>1 DEF Root
    <3> QED
      BY <1>4, <2>1, <3>2, <3>3
  <2>4. op.kind # "Table"
    <3>1. SUFFICES ASSUME op.kind = "Table" PROVE FALSE
      OBVIOUS
    <3>2. l[i].table = op.new
      BY <1>2, <1>5, <3>1 DEF Leads, op
    <3>3. Root(pv, b) = op.new
      BY <1>9, <2>1, <2>2, <2>3, <3>2
    <3>4. PICK m \in i + 1 .. n : b \in Creates(ops[m])
      BY <1>2, <2>1, <3>1, <3>3, RootsCreated DEF K, n, op
    <3>5. ops[m].kind = "Backup"
      BY DEF n
    <3> QED
      BY <3>4, <3>5 DEF Creates, Creating
  <2>5. l[i].table = l[i - 1].table
    BY <1>2, <1>5, <2>4 DEF Leads, op
  <2> HIDE DEF a, b
  <2>6. Root(R(a), b) = R(a).table
    BY <1>9, <2>1, <2>2, <2>3, <2>5
  <2> QED
    BY <2>6 DEF a, b
<1>12. Leads(K \ C, ops[j], R(j - 1), R(j))
  <2>1. R(j).table = R(j - 1).table /\ \A p \in K : R(j).parts[p] = R(j - 1).parts[p]
    BY <1>9, <1>10
  <2> QED
    BY <1>10, <1>11, <2>1 DEF Leads, Alters, Replacing
<1>13. (Present(sc, ops, j) \ C) \cup Removes(op) \subseteq Present(sc, ops, i - 1)
  <2>1. ASSUME NEW p \in Present(sc, ops, j), p \notin C PROVE p \in Present(sc, ops, i - 1)
    <3>1. ASSUME NEW m \in 1 .. j, p \in Creates(ops[m]) PROVE m \in 1 .. i - 1
      <4>1. ~ (m \in i + 1 .. n)
        BY <3>1 DEF Creates, Creating, n
      <4>2. m # i
        BY <2>1, <3>1 DEF C, op
      <4> QED
        BY <1>2, <4>1, <4>2
    <3>2. \A m \in 1 .. i - 1 : m \in 1 .. j
      BY <1>2
    <3> QED
      BY <2>1, <3>1, <3>2 DEF Present
  <2>2. Removes(op) \subseteq Uses(op) \ Creates(op)
    BY <1>1, <1>2 DEF Fresh, op
  <2> QED
    BY <1>1, <1>2, <2>1, <2>2, OperandsPresent DEF op, C, n
<1>14. Sound(R(j), (Present(sc, ops, j) \ C) \cup Removes(op))
  <2>1. Sound(l[i - 1], Present(sc, ops, i - 1))
    BY <1>2 DEF Layered, n
  <2> DEFINE Q == (Present(sc, ops, j) \ C) \cup Removes(op)
             v == l[i - 1]
             z == R(j)
  <2>2. \A p \in K : z.parts[p] = v.parts[p]
    BY <1>9, <1>10
  <2>3. Q \subseteq K /\ \A p \in K : v.parts[p].parent \in TableIds \/ v.parts[p].parent \in K
    BY <1>2, <1>3, <1>4, <1>13
  <2>4. Q \subseteq Present(sc, ops, i - 1)
    BY <1>13
  <2> HIDE DEF Q, v, z
  <2>5. \A p \in Q : LET m == v.parts[p].parent
                     IN  /\ z.parts[p].first = v.parts[p].first /\ z.parts[p].last = v.parts[p].last
                         /\ z.parts[p].parent = m
                         /\ m \in TableIds \/ (z.parts[m].first = v.parts[m].first /\ z.parts[m].last = v.parts[m].last)
    BY <2>2, <2>3
  <2>6. Sound(v, Present(sc, ops, i - 1))
    BY <2>1 DEF v
  <2>7. Sound(z, Q)
    BY <2>4, <2>5, <2>6, SoundSame
  <2> QED
    BY <2>7 DEF Q, z
<1> QED
  BY <1>12, <1>14 DEF K, C, R, op

\* What an operation in the middle is when it can be taken out: it created a partition that is
\* in the tree, not extended and used by no other operation, or is the topmost one that changes flags, or a label.
Inner(sc, ops, pv, i) ==
    \/ /\ ops[i].kind \in Creating /\ ops[i].part \in Present(sc, ops, Len(ops))
       /\ pv.parts[ops[i].part].role # "extended"
       /\ \A j \in DOMAIN ops : j # i => ops[i].part \notin Uses(ops[j]) \cup Operands(ops[j])
    \/ ops[i].kind = "Flags" /\ \A j \in i + 1 .. Len(ops) : ~ (ops[j].kind = "Flags" /\ ops[j].part = ops[i].part)
    \/ ops[i].kind = "Label"

\* Nothing that stays in the stack points to what goes with such an operation.
LEMMA InnerRemovable ==
    ASSUME NEW sc \in Devices, NEW ops, NEW pv, Owned(sc, ops, pv), NEW i \in DOMAIN ops, Inner(sc, ops, pv, i)
    PROVE  Removable(sc, ops, pv, i) /\ ops[i].kind # "Table"
<1> DEFINE n == Len(ops)
           op == ops[i]
           K == Known(sc, ops)
<1>1. /\ Typed(sc, ops, pv) /\ Fresh(sc, ops, pv) /\ Gone(sc, ops, pv) /\ Rooted(sc, ops, pv) /\ Placed(sc, ops, pv)
  BY DEF Owned
<1>2. /\ n \in Nat /\ DOMAIN ops = 1 .. n /\ i \in 1 .. n /\ K \subseteq PartIds
      /\ \A j \in 1 .. n : /\ IsOp(ops[j]) /\ Uses(ops[j]) \subseteq K
                           /\ Creates(ops[j]) \subseteq Uses(ops[j]) /\ Removes(ops[j]) \subseteq Uses(ops[j])
  BY <1>1, GoodTypes
<1>3. CASE op.kind \in {"Flags", "Label"}
  BY <1>3 DEF Removable, Creates, Removes, Creating, Replacing
<1>4. CASE op.kind \in Creating
  <2> DEFINE p == op.part
  <2>1. Creates(op) = {p} /\ p \in Present(sc, ops, n) /\ pv.parts[p].role # "extended" /\ p \in K
    BY <1>2, <1>4 DEF Inner, Creating, Creates
  <2> HIDE DEF p, op, K
  <2>2. \A j \in 1 .. n : p \notin Removes(ops[j])
    BY <2>1 DEF Present
  <2>3. \A j \in 1 .. n : j # i => p \notin Uses(ops[j]) \cup Operands(ops[j])
    BY <1>2, <1>4 DEF Inner, Creating, op, p
  <2>4. \A q \in K : pv.parts[q].parent # p
    BY <1>1, <1>2, <2>1 DEF Rooted, K
  <2>5. ASSUME NEW o \in Removes(op), NEW j \in 1 .. n, pv.parts[o].parent \in Removes(ops[j]) PROVE FALSE
    <3>1. Replacing(op) /\ o = op.over
      BY <1>4, <2>5 DEF Removes, Creating
    <3>2. pv.parts[p].parent = pv.parts[o].parent
      BY <1>1, <1>2, <3>1 DEF Placed, p, op
    <3>3. \E m \in 1 .. j - 1 : p \in Removes(ops[m])
      BY <1>1, <1>2, <2>1, <2>5, <3>2 DEF Gone, K
    <3>4. \A m \in 1 .. j - 1 : m \in 1 .. n
      BY <1>2
    <3> QED
      BY <2>2, <3>3, <3>4
  <2>6. op.kind # "Table"
    BY <1>4 DEF Creating
  <2> QED
    BY <1>2, <2>1, <2>3, <2>4, <2>5, <2>6 DEF Removable, K, op
<1> QED
  BY <1>3, <1>4 DEF Inner

\* A partition in the place of another one.
LEMMA SoundSwap ==
    ASSUME NEW v, NEW P, NEW p \in P, NEW o, Sound(v, P), Extent(v, o) = Extent(v, p),
           v.parts[o].parent = v.parts[p].parent,
           v.parts[o].first \in Int, v.parts[o].last \in Int, v.parts[p].first \in Int, v.parts[p].last \in Int
    PROVE  Sound(v, (P \ {p}) \cup {o})
<1>1. v.parts[p].first <= v.parts[p].last /\ Extent(v, p) \subseteq Bounds(v, v.parts[p].parent)
  BY DEF Sound
<1>2. v.parts[p].first \in Extent(v, p)
  BY <1>1 DEF Extent
<1>3. v.parts[o].first <= v.parts[o].last
  BY <1>2 DEF Extent
<1>4. \A q \in P : q # p /\ v.parts[q].parent = v.parts[p].parent =>
          Extent(v, p) \cap Extent(v, q) = {} /\ Extent(v, q) \cap Extent(v, p) = {}
  BY DEF Sound
<1>5. ASSUME NEW q \in (P \ {p}) \cup {o}
      PROVE v.parts[q].first <= v.parts[q].last /\ Extent(v, q) \subseteq Bounds(v, v.parts[q].parent)
  BY <1>1, <1>3 DEF Sound
<1>6. ASSUME NEW q \in (P \ {p}) \cup {o}, NEW r \in (P \ {p}) \cup {o}, r # q, v.parts[r].parent = v.parts[q].parent
      PROVE Extent(v, q) \cap Extent(v, r) = {}
  <2>1. CASE q = o
    BY <1>4, <1>6, <2>1
  <2>2. CASE r = o
    BY <1>4, <1>6, <2>2
  <2>3. CASE q \in P /\ r \in P
    BY <1>6, <2>3 DEF Sound
  <2> QED
    BY <2>1, <2>2, <2>3
<1> QED
  BY <1>5, <1>6 DEF Sound

\* An operation that another one neither needs nor hinders can be taken back below it.
LEMMA AltersTakenBack ==
    ASSUME NEW op, IsOp(op), NEW o, IsOp(o), NEW p \in PartIds, NEW x \in Partition, NEW y \in Partition, Alters(o, p, x, y),
           op.kind \in Creating \cup {"Flags", "Label"},
           ~ (op.kind = "Flags" /\ o.kind = "Flags" /\ o.part = op.part)
    PROVE  Alters(o, p, Reverted(op, p, x), Reverted(op, p, y))
<1>1. CASE ~ (op.kind = "Flags" /\ op.part = p)
  BY <1>1 DEF Reverted, Creating
<1>2. CASE op.kind = "Flags" /\ op.part = p
  <2> DEFINE f == op.old
  <2>1. Reverted(op, p, x) = [x EXCEPT !.flags = f] /\ Reverted(op, p, y) = [y EXCEPT !.flags = f]
    BY <1>2 DEF Reverted
  <2> HIDE DEF f
  <2>2. CASE o.kind = "Resize" /\ o.part = p
    <3> DEFINE xx == [x EXCEPT !.flags = f]
               yy == [y EXCEPT !.flags = f]
               a == o.newFirst
               b == o.newLast
               zz == [xx EXCEPT !.first = a, !.last = b]
    <3>1. x.first = o.oldFirst /\ x.last = o.oldLast /\ y = [x EXCEPT !.first = a, !.last = b]
      BY <2>2 DEF Alters
    <3>2. xx.first = o.oldFirst /\ xx.last = o.oldLast
      BY <3>1 DEF Partition
    <3> HIDE DEF a, b
    <3>3. yy = zz
      BY <3>1 DEF Partition
    <3> QED
      BY <2>1, <2>2, <3>2, <3>3 DEF Alters, a, b
  <2>3. CASE o.kind = "Format" /\ o.part = p
    <3> DEFINE xx == [x EXCEPT !.flags = f]
               yy == [y EXCEPT !.flags = f]
               a == o.new
               zz == [xx EXCEPT !.fs = a]
    <3>1. x.fs = o.old /\ y = [x EXCEPT !.fs = a]
      BY <2>3 DEF Alters
    <3>2. xx.fs = o.old
      BY <3>1 DEF Partition
    <3> HIDE DEF a
    <3>3. yy = zz
      BY <3>1 DEF Partition
    <3> QED
      BY <2>1, <2>3, <3>2, <3>3 DEF Alters, a
  <2>4. CASE ~ (o.kind \in {"Resize", "Format", "Flags"} /\ o.part = p)
    BY <2>1, <2>4 DEF Alters
  <2> QED
    BY <1>2, <2>2, <2>3, <2>4
<1> QED
  BY <1>1, <1>2

\* The operations above it still lead from level to level, and partitions still lie apart, when
\* it is taken back on each of these levels.
LEMMA InnerLevels ==
    ASSUME NEW sc \in Devices, NEW ops, NEW pv, NEW l, Owned(sc, ops, pv), Layered(sc, ops, pv, l), NEW i \in DOMAIN ops,
           Inner(sc, ops, pv, i), NEW j \in i + 1 .. Len(ops)
    PROVE  /\ Leads(Known(sc, ops) \ Creates(ops[i]), ops[j], TakenBack(ops[i], l[j - 1]), TakenBack(ops[i], l[j]))
           /\ Sound(TakenBack(ops[i], l[j]), (Present(sc, ops, j) \ Creates(ops[i])) \cup Removes(ops[i]))
<1> DEFINE n == Len(ops)
           K == Known(sc, ops)
           op == ops[i]
           C == Creates(op)
           R(k) == TakenBack(op, l[k])
<1>1. Typed(sc, ops, pv) /\ Fresh(sc, ops, pv) /\ Gone(sc, ops, pv) /\ Placed(sc, ops, pv)
  BY DEF Owned
<1>2. /\ n \in Nat /\ DOMAIN ops = 1 .. n /\ i \in 1 .. n /\ K \subseteq PartIds
      /\ \A m \in 1 .. n : /\ IsOp(ops[m]) /\ Uses(ops[m]) \subseteq K
                           /\ Creates(ops[m]) \subseteq Uses(ops[m]) /\ Removes(ops[m]) \subseteq Uses(ops[m])
      /\ \A k : Present(sc, ops, k) \subseteq K
      /\ j \in 1 .. n /\ j # i /\ j - 1 \in 0 .. n /\ j \in 0 .. n
  <2>1. /\ n \in Nat /\ DOMAIN ops = 1 .. n /\ K \subseteq PartIds
        /\ \A m \in 1 .. n : /\ IsOp(ops[m]) /\ Uses(ops[m]) \subseteq K
                             /\ Creates(ops[m]) \subseteq Uses(ops[m]) /\ Removes(ops[m]) \subseteq Uses(ops[m])
        /\ \A k : Present(sc, ops, k) \subseteq K
    BY <1>1, GoodTypes
  <2>2. i \in 1 .. n
    BY <2>1
  <2> HIDE DEF K
  <2>3. j \in 1 .. n /\ j # i /\ j - 1 \in 0 .. n /\ j \in 0 .. n
    <3>1. j \in i + 1 .. n
      OBVIOUS
    <3> HIDE DEF n
    <3> QED
      BY <2>1, <2>2, <3>1
  <2> QED
    BY <2>1, <2>2, <2>3
<1>3. \A k \in 0 .. n : /\ l[k].parts \in [PartIds -> Partition]
                        /\ \A p \in K : l[k].parts[p].parent = pv.parts[p].parent
  BY <1>1, LevelsKeep
<1>4. \A p \in K : pv.parts[p].parent \in TableIds \/ pv.parts[p].parent \in K
  BY KnownParents
<1>5. \A m \in 1 .. n : Leads(K, ops[m], l[m - 1], l[m])
  BY <1>2 DEF Layered
<1>6. Removable(sc, ops, pv, i) /\ op.kind # "Table" /\ op.kind \in Creating \cup {"Flags", "Label"}
      /\ ~ (op.kind = "Flags" /\ ops[j].kind = "Flags" /\ ops[j].part = op.part)
  <2>1. Removable(sc, ops, pv, i) /\ op.kind # "Table"
    BY InnerRemovable
  <2>2. op.kind \in Creating \cup {"Flags", "Label"}
    BY DEF Inner
  <2>3. ~ (op.kind = "Flags" /\ ops[j].kind = "Flags" /\ ops[j].part = op.part)
    BY DEF Inner, Creating
  <2> QED
    BY <2>1, <2>2, <2>3
<1>7. ASSUME NEW k \in 0 .. n
      PROVE  /\ R(k).table = l[k].table
             /\ \A p \in PartIds : /\ R(k).parts[p] = Reverted(op, p, l[k].parts[p])
                                   /\ R(k).parts[p].parent = l[k].parts[p].parent
                                   /\ R(k).parts[p].first = l[k].parts[p].first
                                   /\ R(k).parts[p].last = l[k].parts[p].last
                                   /\ R(k).parts[p] \in Partition
  <2> HIDE DEF op
  <2>1. R(k).table = l[k].table /\ R(k).parts = [p \in PartIds |-> Reverted(op, p, l[k].parts[p])]
    BY <1>6 DEF TakenBack
  <2>2. ASSUME NEW p \in PartIds
        PROVE  /\ Reverted(op, p, l[k].parts[p]) \in Partition
               /\ Reverted(op, p, l[k].parts[p]).parent = l[k].parts[p].parent
               /\ Reverted(op, p, l[k].parts[p]).first = l[k].parts[p].first
               /\ Reverted(op, p, l[k].parts[p]).last = l[k].parts[p].last
    <3> DEFINE x == l[k].parts[p]
    <3>1. x \in Partition /\ IsOp(op)
      BY <1>2, <1>3 DEF op
    <3> HIDE DEF x
    <3>2. Reverted(op, p, x).first = x.first /\ Reverted(op, p, x).last = x.last
      BY <1>6, <3>1 DEF Reverted, Partition, Creating
    <3> QED
      BY <3>1, <3>2, RevertedKeeps DEF x
  <2> HIDE DEF R
  <2> QED
    BY <2>1, <2>2
<1> HIDE DEF n, K, op, C, R
<1>8. Leads(K \ C, ops[j], R(j - 1), R(j))
  <2> DEFINE o == ops[j]
             v == l[j - 1]
             w == l[j]
             rv == R(j - 1)
             rw == R(j)
  <2>1. Leads(K, o, v, w) /\ IsOp(o) /\ IsOp(op) /\ Uses(o) \subseteq K
    BY <1>2, <1>5 DEF op
  <2>2. /\ rv.table = v.table /\ rw.table = w.table
        /\ \A p \in K : /\ rv.parts[p].parent = v.parts[p].parent
                        /\ rv.parts[p].first = v.parts[p].first /\ rv.parts[p].last = v.parts[p].last
                        /\ rv.parts[p] = Reverted(op, p, v.parts[p]) /\ rw.parts[p] = Reverted(op, p, w.parts[p])
                        /\ v.parts[p] \in Partition /\ w.parts[p] \in Partition
                        /\ v.parts[p].parent \in TableIds \/ v.parts[p].parent \in K
    BY <1>2, <1>3, <1>4, <1>7
  <2>3. ~ (op.kind = "Flags" /\ o.kind = "Flags" /\ o.part = op.part)
    BY <1>6
  <2> HIDE DEF o, v, w, rv, rw
  <2>4. \A p \in K : Root(rv, p) = Root(v, p) /\ Extent(rv, p) = Extent(v, p)
    BY <2>2 DEF Root, Extent
  <2>5. ASSUME NEW p \in K PROVE Alters(o, p, rv.parts[p], rw.parts[p])
    <3>1. Alters(o, p, v.parts[p], w.parts[p])
      BY <2>1, <2>5 DEF Leads
    <3>2. Alters(o, p, Reverted(op, p, v.parts[p]), Reverted(op, p, w.parts[p]))
      BY <1>2, <1>6, <2>1, <2>2, <2>3, <2>5, <3>1, AltersTakenBack
    <3> QED
      BY <2>2, <2>5, <3>2
  <2>6. Replacing(o) => o.part \in K /\ o.over \in K
    BY <2>1 DEF Replacing, Uses
  <2>7. Leads(K \ C, o, rv, rw)
    BY <2>1, <2>2, <2>4, <2>5, <2>6 DEF Leads
  <2> QED
    BY <2>7 DEF o, rv, rw
<1>9. Sound(R(j), Present(sc, ops, j))
  <2>1. Sound(l[j], Present(sc, ops, j))
    BY <1>2 DEF Layered, n
  <2> DEFINE Q == Present(sc, ops, j)
             v == l[j]
             z == R(j)
  <2>2. \A p \in PartIds : z.parts[p].first = v.parts[p].first /\ z.parts[p].last = v.parts[p].last /\ z.parts[p].parent = v.parts[p].parent
    BY <1>2, <1>7
  <2>3. Q \subseteq PartIds /\ \A p \in Q : v.parts[p].parent \in TableIds \/ v.parts[p].parent \in PartIds
    BY <1>2, <1>3, <1>4
  <2>4. Sound(v, Q)
    BY <2>1
  <2> HIDE DEF Q, v, z
  <2>5. \A p \in Q : LET m == v.parts[p].parent
                     IN  /\ z.parts[p].first = v.parts[p].first /\ z.parts[p].last = v.parts[p].last
                         /\ z.parts[p].parent = m
                         /\ m \in TableIds \/ (z.parts[m].first = v.parts[m].first /\ z.parts[m].last = v.parts[m].last)
    BY <2>2, <2>3
  <2>6. Sound(z, Q)
    BY <2>4, <2>5, SoundSame
  <2> QED
    BY <2>6 DEF Q, z
<1>10. Sound(R(j), (Present(sc, ops, j) \ C) \cup Removes(op))
  <2>1. CASE ~Replacing(op)
    <3>1. Removes(op) = {}
      BY <1>6, <2>1 DEF Removes, Creating
    <3> QED
      BY <1>9, <3>1 DEF Sound
  <2>2. CASE Replacing(op)
    <3> DEFINE p == op.part
               o == op.over
    <3>1. IsOp(op) /\ C = {p} /\ Removes(op) = {o} /\ p \in K /\ o \in K /\ p \in PartIds /\ o \in PartIds
      BY <1>2, <2>2, OperandFacts DEF op, C
    <3>2. pv.parts[p].parent = pv.parts[o].parent
      BY <1>1, <1>2, <2>2 DEF Placed, op
    <3>3. Extent(l[i - 1], p) = Extent(l[i - 1], o)
      BY <1>2, <1>5, <2>2 DEF Leads, op
    <3> HIDE DEF p, o
    <3> DEFINE T == { k \in 0 .. n : k < i - 1 \/ Extent(l[k], p) = Extent(l[k], o) }
    <3>4. 0 \in T
      <4>1. 0 < i - 1 \/ 0 = i - 1
        BY <1>2
      <4> QED
        BY <1>2, <3>3, <4>1
    <3>5. ASSUME NEW k \in 1 .. n, k - 1 \in T PROVE k \in T
      <4>1. CASE k < i - 1
        BY <4>1
      <4>2. CASE k = i - 1
        BY <3>3, <4>2
      <4>3. CASE i <= k
        <5>1. ~ (ops[k].kind = "Resize" /\ ops[k].part \in {p, o})
          <6>1. CASE k = i
            BY <1>6, <6>1 DEF op, Creating
          <6>2. CASE k # i
            <7>1. p \notin Uses(ops[k])
              BY <1>2, <1>6, <3>1, <6>2 DEF Removable, C, op
            <7>2. o \notin Uses(ops[k])
              <8>1. k \in i + 1 .. n
                BY <1>2, <4>3, <6>2
              <8> QED
                BY <1>1, <1>2, <3>1, <8>1 DEF Gone, op, n
            <7> QED
              BY <7>1, <7>2 DEF Uses
          <6> QED
            BY <6>1, <6>2
        <5>2. ASSUME NEW q \in {p, o} PROVE Extent(l[k], q) = Extent(l[k - 1], q)
          <6>1. Alters(ops[k], q, l[k - 1].parts[q], l[k].parts[q]) /\ k - 1 \in 0 .. n /\ q \in PartIds
            BY <1>2, <1>5, <3>1, <5>2 DEF Leads
          <6>2. l[k - 1].parts[q] \in Partition
            BY <1>3, <6>1
          <6> DEFINE x == l[k - 1].parts[q]
                     y == l[k].parts[q]
                     oo == ops[k]
          <6> HIDE DEF x, y, oo
          <6>3. ~ (oo.kind = "Resize" /\ oo.part = q) /\ Alters(oo, q, x, y) /\ x \in Partition
            BY <5>1, <5>2, <6>1, <6>2 DEF x, y, oo
          <6>4. y.first = x.first /\ y.last = x.last
            BY <6>3 DEF Alters, Partition
          <6> QED
            BY <6>4 DEF x, y, Extent
        <5>3. Extent(l[k - 1], p) = Extent(l[k - 1], o)
          <6>1. ~ (k - 1 < i - 1)
            BY <1>2, <4>3
          <6> QED
            BY <3>5, <6>1
        <5> QED
          BY <5>2, <5>3
      <4> QED
        BY <1>2, <4>1, <4>2, <4>3
    <3>6. \A k \in 0 .. n : k \in T
      <4> HIDE DEF T
      <4> QED
        BY <1>2, <3>4, <3>5, Upwards
    <3>7. Extent(l[j], p) = Extent(l[j], o)
      <4>1. ~ (j < i - 1)
        BY <1>2
      <4> QED
        BY <1>2, <3>6, <4>1
    <3>8. Extent(R(j), o) = Extent(R(j), p) /\ R(j).parts[o].parent = R(j).parts[p].parent
          /\ R(j).parts[o] \in Partition /\ R(j).parts[p] \in Partition
      BY <1>2, <1>3, <1>7, <3>1, <3>2, <3>7 DEF Extent
    <3>9. p \in Present(sc, ops, j)
      <4>1. i \in 1 .. j
        BY <1>2
      <4>2. ASSUME NEW m \in 1 .. j, p \in Removes(ops[m]) PROVE FALSE
        <5>1. m \in 1 .. n
          BY <1>2
        <5>2. CASE m = i
          BY <1>1, <1>2, <3>1, <4>2, <5>2 DEF Fresh, C, op
        <5>3. CASE m # i
          BY <1>2, <1>6, <3>1, <4>2, <5>1, <5>3 DEF Removable, C, op
        <5> QED
          BY <5>2, <5>3
      <4>3. p \in Creates(ops[i])
        BY <3>1 DEF C, op
      <4> QED
        BY <3>1, <4>1, <4>2, <4>3 DEF Present, K
    <3>10. R(j).parts[o].first \in Int /\ R(j).parts[o].last \in Int /\ R(j).parts[p].first \in Int /\ R(j).parts[p].last \in Int
      BY <3>8, StackAssumption DEF Partition, Sectors
    <3> HIDE DEF T
    <3>11. Sound(R(j), (Present(sc, ops, j) \ {p}) \cup {o})
      BY <1>9, <3>8, <3>9, <3>10, SoundSwap
    <3> QED
      BY <3>1, <3>11
  <2> QED
    BY <2>1, <2>2
<1> QED
  BY <1>8, <1>10 DEF K, C, R, op

\* An operation is undone and deleted, at the top, below backups or in the middle.
LEMMA RemoveGood ==
    ASSUME scanned \in Devices, NEW ops, NEW pv, Good(scanned, ops, pv), NEW i \in DOMAIN ops,
           (\A j \in i + 1 .. Len(ops) : ops[j].kind = "Backup") \/ Inner(scanned, ops, pv, i),
           NEW ops2, Shorter(ops, i, ops2)
    PROVE  /\ Reverts(scanned, ops, pv, ops[i], Popped(ops[i], pv))
           /\ Good(scanned, ops2, Popped(ops[i], pv))
<1> DEFINE w == Popped(ops[i], pv)
<1>1. Owned(scanned, ops, pv)
  BY DEF Good
<1>2. PICK l : Layered(scanned, ops, pv, l)
  BY DEF Good
<1>3. Removable(scanned, ops, pv, i) /\ (ops[i].kind = "Table" => pv.children[ops[i].new] = {})
  BY <1>1, TopRemovable, InnerRemovable
<1>4. Reverts(scanned, ops, pv, ops[i], w)
  BY <1>1, <1>3, PoppedReverts
<1>5. Owned(scanned, ops2, w)
  <2> HIDE DEF w
  <2> QED
    BY <1>1, <1>3, <1>4, RemoveOwned
<1>6. ASSUME NEW j \in i + 1 .. Len(ops)
      PROVE  /\ Leads(Known(scanned, ops) \ Creates(ops[i]), ops[j], TakenBack(ops[i], l[j - 1]), TakenBack(ops[i], l[j]))
             /\ Sound(TakenBack(ops[i], l[j]), (Present(scanned, ops, j) \ Creates(ops[i])) \cup Removes(ops[i]))
  <2>1. CASE \A m \in i + 1 .. Len(ops) : ops[m].kind = "Backup"
    BY <1>2, <2>1, TopLevels
  <2>2. CASE Inner(scanned, ops, pv, i)
    BY <1>1, <1>2, <2>2, InnerLevels
  <2> QED
    BY <2>1, <2>2
<1>7. \E l2 : Layered(scanned, ops2, w, l2)
  <2> HIDE DEF w
  <2> QED
    BY <1>1, <1>2, <1>3, <1>4, <1>6, RemoveLayered
<1> QED
  BY <1>4, <1>5, <1>7 DEF Good

--------------------------------------------------------------------------------
(* What the preview shows, and the ids that are free.                      *)

\* The partitions in the tree of the preview, their parents and who created them.
LEMMA TreeShown ==
    ASSUME StackInv
    PROVE  LET K == Known(scanned, operations)
               P == Present(scanned, operations, Len(operations))
           IN  /\ scanned \in Devices /\ Good(scanned, operations, preview) /\ Owned(scanned, operations, preview)
               /\ Len(operations) \in Nat /\ DOMAIN operations = 1 .. Len(operations)
               /\ preview \in Previews /\ P \subseteq K /\ K \subseteq PartIds /\ K \subseteq preview.live
               /\ \A i \in DOMAIN operations : /\ IsOp(operations[i])
                                                /\ Uses(operations[i]) \subseteq K /\ Operands(operations[i]) \subseteq K
               /\ \A m \in Nodes : preview.children[m] = P \cap Below(preview, m)
               /\ \A p \in K : /\ preview.parts[p] \in Partition
                               /\ preview.parts[p].role = "logical" <=> preview.parts[p].parent \in PartIds
                               /\ preview.parts[p].parent \in TableIds \/ preview.parts[p].parent \in K
                               /\ preview.parts[p].role # "extended" => preview.children[p] = {}
               /\ \A p \in P : preview.parts[p].parent \in TableIds
                               \/ (preview.parts[p].parent \in P /\ preview.parts[preview.parts[p].parent].role = "extended")
               /\ Sound(preview, P)
<1> DEFINE n == Len(operations)
           K == Known(scanned, operations)
           P == Present(scanned, operations, n)
<1>1. /\ scanned \in Devices /\ Good(scanned, operations, preview) /\ Owned(scanned, operations, preview)
      /\ Typed(scanned, operations, preview) /\ Rooted(scanned, operations, preview) /\ Shows(scanned, operations, preview)
      /\ Sourced(scanned, operations, preview)
  BY DEF StackInv, Good, Owned
<1>2. /\ n \in Nat /\ DOMAIN operations = 1 .. n /\ K \subseteq PartIds /\ P \subseteq K
      /\ \A i \in 1 .. n : IsOp(operations[i]) /\ Uses(operations[i]) \subseteq K
      /\ preview.parts \in [PartIds -> Partition] /\ Nodes = TableIds \cup PartIds /\ PartIds \cap TableIds = {}
  BY <1>1, GoodTypes
<1>3. preview \in Previews /\ K \subseteq preview.live
  BY <1>1 DEF Typed
<1>4. \A m \in Nodes : preview.children[m] = P \cap Below(preview, m)
  BY <1>1 DEF Shows
<1>5. \A p \in K : preview.parts[p].role = "logical" <=> preview.parts[p].parent \in PartIds
  BY <1>1 DEF Rooted
<1>6. \A p \in K : preview.parts[p].parent \in PartIds =>
                       preview.parts[p].parent \in K /\ preview.parts[preview.parts[p].parent].role = "extended"
  BY <1>1 DEF Rooted
<1>7. \A p \in P : preview.parts[p].parent \in PartIds => preview.parts[p].parent \in P
  BY <1>1, <1>2, ParentPresent
<1>8. Sound(preview, P)
  <2>1. PICK l : Layered(scanned, operations, preview, l)
    BY <1>1 DEF Good
  <2>2. Sound(l[n], P) /\ \A p \in K : l[n].parts[p] = preview.parts[p]
    BY <1>2, <2>1 DEF Layered, Ends
  <2>3. \A p \in K : preview.parts[p].parent \in TableIds \/ preview.parts[p].parent \in K
    BY <1>1, KnownParents
  <2> DEFINE v == l[n]
  <2>4. Sound(v, P) /\ \A p \in K : v.parts[p] = preview.parts[p]
    BY <2>2
  <2> HIDE DEF v, K, P
  <2> QED
    BY <1>2, <2>3, <2>4, SoundSame
<1>9. \A p \in K : preview.parts[p] \in Partition /\ preview.parts[p].parent \in Nodes
  <2> HIDE DEF K
  <2> QED
    BY <1>2 DEF Partition
<1>9a. \A i \in 1 .. n : Operands(operations[i]) \subseteq K
  BY <1>1, <1>2, OperandFacts DEF Sourced
<1> HIDE DEF K, P, n
<1>10. \A p \in K : preview.parts[p].role # "extended" => preview.children[p] = {}
  BY <1>2, <1>4, <1>6 DEF Below
<1>11. \A p \in K : preview.parts[p].parent \in TableIds \/ preview.parts[p].parent \in K
  BY <1>2, <1>6, <1>9
<1>12. \A p \in P : preview.parts[p].parent \in TableIds
                     \/ (preview.parts[p].parent \in P /\ preview.parts[preview.parts[p].parent].role = "extended")
  BY <1>2, <1>6, <1>7, <1>9
<1>13. \A p \in K : /\ preview.parts[p] \in Partition
                    /\ preview.parts[p].role = "logical" <=> preview.parts[p].parent \in PartIds
                    /\ preview.parts[p].parent \in TableIds \/ preview.parts[p].parent \in K
                    /\ preview.parts[p].role # "extended" => preview.children[p] = {}
  BY <1>5, <1>9, <1>10, <1>11
<1> QED
  BY <1>1, <1>2, <1>3, <1>4, <1>8, <1>9a, <1>12, <1>13 DEF n, K, P

\* The partitions visible are those in the tree that belong to the table of the device.
LEMMA VisibleShown ==
    ASSUME StackInv, NEW p
    PROVE  /\ p \in Visible(preview) => /\ p \in Present(scanned, operations, Len(operations))
                                        /\ Root(preview, p) = preview.table
                                        /\ preview.parts[p].parent \in Nodes
           /\ p \in Parents => \/ p = preview.table
                               \/ /\ p \in Present(scanned, operations, Len(operations))
                                  /\ preview.parts[p].role = "extended" /\ preview.parts[p].parent = preview.table
<1> DEFINE K == Known(scanned, operations)
           P == Present(scanned, operations, Len(operations))
           t == preview.table
<1>1. /\ P \subseteq K /\ K \subseteq PartIds /\ t \in TableIds /\ PartIds \cap TableIds = {}
      /\ \A m \in TableIds \cup PartIds : preview.children[m] = P \cap Below(preview, m)
  BY TreeShown, StackAssumption DEF Previews, Nodes
<1> HIDE DEF K, P, t
<1>2. \A q \in preview.children[t] : q \in P /\ preview.parts[q].parent = t /\ Root(preview, q) = t
  BY <1>1 DEF Below, Root
<1>3. \A q \in preview.children[t] : \A r \in preview.children[q] :
          r \in P /\ preview.parts[r].parent = q /\ Root(preview, r) = t /\ preview.parts[r].parent \in PartIds
  BY <1>1, <1>2 DEF Below, Root
<1>4. p \in Visible(preview) => p \in preview.children[t] \/ \E q \in preview.children[t] : p \in preview.children[q]
  BY DEF Visible, t
<1>5. p \in Parents => p = t \/ (p \in preview.children[t] /\ preview.parts[p].role = "extended")
  BY DEF Parents, IsExtended, t
<1> QED
  BY <1>1, <1>2, <1>3, <1>4, <1>5 DEF P, t, Nodes

\* Who created a partition that is known.
LEMMA Creators ==
    ASSUME StackInv
    PROVE  /\ \A p \in Known(scanned, operations) :
                 \/ p \in scanned.live /\ preview.parts[p].state = "None"
                 \/ \E i \in DOMAIN operations : /\ operations[i].kind \in Creating /\ operations[i].part = p
                                                 /\ preview.parts[p].state = operations[i].kind
           /\ \A i \in DOMAIN operations : operations[i].kind \in Creating =>
                 /\ operations[i].part \in Known(scanned, operations)
                 /\ preview.parts[operations[i].part].state = operations[i].kind
                 /\ operations[i].kind # "New" => preview.parts[operations[i].part].role # "extended"
<1> DEFINE K == Known(scanned, operations)
<1>1. /\ scanned \in Devices /\ Owned(scanned, operations, preview) /\ DOMAIN operations = 1 .. Len(operations)
      /\ \A i \in DOMAIN operations : IsOp(operations[i]) /\ Uses(operations[i]) \subseteq K
  BY TreeShown
<1>2. Typed(scanned, operations, preview) /\ Kept(scanned, preview) /\ Fresh(scanned, operations, preview)
      /\ Placed(scanned, operations, preview)
  BY <1>1 DEF Owned
<1>3. \A p \in K : p \in scanned.live \/ \E i \in 1 .. Len(operations) : p \in Creates(operations[i])
  BY <1>1, <1>2, GoodTypes
<1>4. \A p \in scanned.live : preview.parts[p].state = "None"
  BY <1>2 DEF Kept
<1>5. \A i \in DOMAIN operations : \A p \in Creates(operations[i]) : preview.parts[p].state = operations[i].kind
  BY <1>2 DEF Fresh
<1>6. \A i \in DOMAIN operations : operations[i].kind \in Creating =>
          /\ operations[i].part \in Creates(operations[i]) /\ operations[i].part \in K
  BY <1>1, OperandFacts DEF Creates
<1>7. \A i \in DOMAIN operations : operations[i].kind \in {"Copy", "Restore"} => preview.parts[operations[i].part].role # "extended"
  BY <1>2 DEF Placed
<1> HIDE DEF K
<1>8. \A i \in DOMAIN operations : \A p \in Creates(operations[i]) : operations[i].kind \in Creating /\ operations[i].part = p
  BY DEF Creates
<1>9. \A i \in DOMAIN operations : operations[i].kind \in Creating /\ operations[i].kind # "New" => operations[i].kind \in {"Copy", "Restore"}
  BY DEF Creating
<1>10. \A p \in K : \/ p \in scanned.live /\ preview.parts[p].state = "None"
                    \/ \E i \in DOMAIN operations : /\ operations[i].kind \in Creating /\ operations[i].part = p
                                                    /\ preview.parts[p].state = operations[i].kind
  BY <1>1, <1>3, <1>4, <1>5, <1>8
<1> QED
  BY <1>5, <1>6, <1>7, <1>9, <1>10 DEF K

\* The objects a push makes are other ones than those that anything refers to.
LEMMA FreeIds ==
    ASSUME StackInv, IdsLeft
    PROVE  /\ NewPart \in PartIds \ Known(scanned, operations)
           /\ SparePart \in PartIds \ (Known(scanned, operations) \cup {NewPart})
           /\ preview.children[NewPart] = {} /\ preview.children[SparePart] = {}
           /\ NewFs \in FsIds /\ SpareFs \in FsIds
           /\ NewTable \in TableIds /\ NewTable # scanned.table
           /\ \A i \in DOMAIN operations : operations[i].kind = "Table" => operations[i].new # NewTable
<1> DEFINE n == Len(operations)
           K == Known(scanned, operations)
           P == Present(scanned, operations, n)
<1>1. /\ scanned \in Devices /\ Owned(scanned, operations, preview) /\ Good(scanned, operations, preview)
      /\ n \in Nat /\ DOMAIN operations = 1 .. n /\ K \subseteq PartIds
      /\ \A i \in DOMAIN operations : IsOp(operations[i])
      /\ \A m \in Nodes : preview.children[m] = P \cap Below(preview, m)
      /\ \A p \in K : preview.parts[p].parent \in TableIds \/ preview.parts[p].parent \in K
      /\ \A p \in P : preview.parts[p].parent \in TableIds \/ preview.parts[p].parent \in P
      /\ P \subseteq K /\ PartIds \cap TableIds = {} /\ Nodes = TableIds \cup PartIds
  BY TreeShown, StackAssumption DEF Nodes
<1>2. Typed(scanned, operations, preview)
  BY <1>1 DEF Owned
<1> DEFINE A == UNION { operations[i].jobs \cup Operands(operations[i]) : i \in DOMAIN operations }
           B == UNION { preview.children[t] : t \in Nodes }
<1>0. A \subseteq Referenced /\ B \subseteq Referenced
  BY DEF Referenced
<1>3. K \subseteq Referenced
  <2> HIDE DEF A, B
  <2> SUFFICES ASSUME NEW p \in K PROVE p \in Referenced
    OBVIOUS
  <2>1. ASSUME NEW i \in DOMAIN operations, p \in Operands(operations[i]) PROVE p \in Referenced
    <3>1. p \in operations[i].jobs \cup Operands(operations[i])
      BY <2>1
    <3> DEFINE X == operations[i].jobs \cup Operands(operations[i])
    <3>2. X \in { operations[j].jobs \cup Operands(operations[j]) : j \in DOMAIN operations }
      OBVIOUS
    <3> HIDE DEF X
    <3>3. p \in A
      BY <3>1, <3>2 DEF X, A
    <3> QED
      BY <1>0, <3>3
  <2>2. CASE \E i \in DOMAIN operations : p \in Creates(operations[i]) \/ p \in Removes(operations[i])
    <3>1. PICK i \in DOMAIN operations : p \in Creates(operations[i]) \/ p \in Removes(operations[i])
      BY <2>2
    <3>2. p \in Operands(operations[i])
      BY <1>1, <3>1 DEF Creates, Removes, Replacing, Operands, Creating, IsOp
    <3> QED
      BY <2>1, <3>2
  <2>3. CASE ~ \E i \in DOMAIN operations : p \in Creates(operations[i]) \/ p \in Removes(operations[i])
    <3>1. p \in scanned.live \/ \E i \in 1 .. n : p \in Creates(operations[i])
      BY <1>1, <1>2, GoodTypes
    <3>2. p \in P
      BY <1>1, <2>3, <3>1 DEF Present
    <3>3. preview.parts[p].parent \in Nodes /\ p \in PartIds
      BY <1>1
    <3>4. p \in preview.children[preview.parts[p].parent]
      BY <1>1, <3>2, <3>3 DEF Below
    <3>5. p \in B
      BY <3>3, <3>4 DEF B
    <3> QED
      BY <1>0, <3>5
  <2> QED
    BY <2>2, <2>3
<1> HIDE DEF K, P, n, A, B
<1>4. NewPart \in FreeParts /\ SparePart \in FreeParts \ {NewPart}
  <2>1. FreeParts # {} /\ FreeParts # {NewPart}
    BY DEF IdsLeft
  <2>2. NewPart \in FreeParts
    BY <2>1 DEF NewPart
  <2>3. \E p : p \in FreeParts \ {NewPart}
    BY <2>1, <2>2
  <2> QED
    BY <2>2, <2>3 DEF SparePart
<1>5. NewFs \in FreeFs /\ SpareFs \in FreeFs
  <2>1. FreeFs # {} /\ FreeFs # {NewFs}
    BY DEF IdsLeft
  <2>2. NewFs \in FreeFs
    BY <2>1 DEF NewFs
  <2>3. \E f : f \in FreeFs \ {NewFs}
    BY <2>1, <2>2
  <2> QED
    BY <2>2, <2>3 DEF SpareFs
<1>6. NewFs \in FsIds /\ SpareFs \in FsIds
  BY <1>5 DEF FreeFs
<1>7. NewPart \in PartIds \ K /\ SparePart \in PartIds \ (K \cup {NewPart})
  BY <1>3, <1>4 DEF FreeParts
<1>8. \A p \in PartIds \ K : preview.children[p] = {}
  BY <1>1 DEF Below
<1>9. NewTable \in FreeTables
  <2>1. FreeTables # {}
    BY DEF IdsLeft
  <2> QED
    BY <2>1 DEF NewTable
<1>10. \A i \in DOMAIN operations : operations[i].kind = "Table" => operations[i].new # NewTable /\ operations[i].old # NewTable
  BY <1>9 DEF FreeTables
<1>11. NewTable \in TableIds /\ NewTable # preview.table
  BY <1>9 DEF FreeTables
<1>12. NewTable # scanned.table
  <2>1. PICK l : Layered(scanned, operations, preview, l)
    BY <1>1 DEF Good
  <2>2. n \in 0 .. n
    BY <1>1
  <2>3. l[n].table = scanned.table \/ \E i \in 1 .. n : operations[i].kind = "Table" /\ operations[i].old = scanned.table
    BY <1>1, <1>2, <2>1, <2>2, LevelTables DEF n
  <2>4. l[n].table = preview.table
    BY <2>1 DEF Layered, Ends, n
  <2> QED
    BY <1>1, <1>10, <1>11, <2>3, <2>4
<1> QED
  BY <1>6, <1>7, <1>8, <1>10, <1>11, <1>12 DEF K

--------------------------------------------------------------------------------
(* What a push does, by which operation merges.                            *)

\* The pushed operation is the same for the whole stack, but for a copy of a pending copy: it
\* is made from the source of that copy as soon as it has met it.
LEMMA SeenFrom ==
    ASSUME Len(operations) \in Nat, NEW op, NEW c \in 0 .. Len(operations),
           \A i \in c + 1 .. Len(operations) : Retargeted(operations[i], op) = op,
           \A i \in 1 .. c - 1 : Retargeted(operations[i], Retargeted(operations[c], op)) = Retargeted(operations[c], op)
    PROVE  \A k \in 0 .. Len(operations) : Seen(op)[k] = IF k >= c THEN op ELSE Retargeted(operations[c], op)
<1> DEFINE n == Len(operations)
           r == Retargeted(operations[c], op)
           Is(s) == s = [i \in 0 .. n |-> IF i = n THEN op ELSE Retargeted(operations[i + 1], s[i + 1])]
           f == [k \in 0 .. n |-> IF k >= c THEN op ELSE r]
<1>1. ASSUME NEW k \in 0 .. n, k # n PROVE f[k] = Retargeted(operations[k + 1], f[k + 1])
  <2>1. k + 1 \in 1 .. n /\ k + 1 \in 0 .. n /\ c \in Int /\ k \in Int
    BY <1>1
  <2>2. f[k] = (IF k >= c THEN op ELSE r) /\ f[k + 1] = IF k + 1 >= c THEN op ELSE r
    BY <2>1
  <2> HIDE DEF f
  <2>3. CASE k >= c
    <3>1. k + 1 \in c + 1 .. n /\ k + 1 >= c
      BY <2>1, <2>3
    <3> QED
      BY <2>2, <2>3, <3>1
  <2>4. CASE k + 1 = c
    <3>1. ~ (k >= c) /\ k + 1 >= c /\ c # 0
      BY <2>1, <2>4
    <3> QED
      BY <2>2, <2>4, <3>1
  <2>5. CASE ~ (k >= c) /\ k + 1 # c
    <3>1. ~ (k + 1 >= c) /\ k + 1 \in 1 .. c - 1
      BY <2>1, <2>5
    <3> QED
      BY <2>2, <2>5, <3>1
  <2> QED
    BY <2>3, <2>4, <2>5
<1>2. f[n] = op
  BY DEF f
<1>3. Is(f)
  <2>1. f = [k \in 0 .. n |-> f[k]]
    OBVIOUS
  <2> HIDE DEF f
  <2> QED
    BY <1>1, <1>2, <2>1
<1>4. Seen(op) = CHOOSE s : Is(s)
  BY DEF Seen
<1> HIDE DEF Is
<1>5. Is(Seen(op))
  BY <1>3, <1>4
<1> DEFINE s == Seen(op)
           T == { k \in 0 .. n : s[k] = f[k] }
<1>6. s = [i \in 0 .. n |-> IF i = n THEN op ELSE Retargeted(operations[i + 1], s[i + 1])]
  BY <1>5 DEF Is
<1> HIDE DEF s, f
<1>7. n \in T
  BY <1>2, <1>6
<1>8. ASSUME NEW k \in 1 .. n, k \in T PROVE k - 1 \in T
  <2>1. k - 1 \in 0 .. n /\ k - 1 # n /\ k - 1 + 1 = k
    OBVIOUS
  <2>2. s[k - 1] = Retargeted(operations[k], s[k])
    BY <1>6, <2>1
  <2>3. f[k - 1] = Retargeted(operations[k], f[k])
    BY <1>1, <2>1
  <2> QED
    BY <1>8, <2>1, <2>2, <2>3
<1>9. \A k \in 0 .. n : k \in T
  <2> HIDE DEF T
  <2> QED
    BY <1>7, <1>8, Downwards
<1> QED
  BY <1>9 DEF s, f

\* Unless it copies a pending copy, it is the same for the whole stack.
LEMMA SeenSame ==
    ASSUME Len(operations) \in Nat, NEW op,
           \A i \in 1 .. Len(operations) : Retargeted(operations[i], op) = op
    PROVE  \A k \in 0 .. Len(operations) : Seen(op)[k] = op
<1>1. 0 \in 0 .. Len(operations) /\ 0 + 1 = 1 /\ \A i \in 1 .. 0 - 1 : FALSE
  OBVIOUS
<1>2. \A k \in 0 .. Len(operations) : Seen(op)[k] = IF k >= 0 THEN op ELSE Retargeted(operations[0], op)
  BY <1>1, SeenFrom
<1> QED
  BY <1>2

\* Nothing merges, but the operation copies what the c-th operation copies: that is appended.
LEMMA PushRetargeted ==
    ASSUME Len(operations) \in Nat, DOMAIN operations = 1 .. Len(operations),
           NEW op, NEW pv, Push(op, pv), NEW r, r.kind # "NoOp", NEW c \in 1 .. Len(operations),
           \A i \in 1 .. Len(operations) : i # c => Retargeted(operations[i], op) = op,
           Retargeted(operations[c], op) = r,
           \A i \in 1 .. c - 1 : Retargeted(operations[i], r) = r,
           \A i \in 1 .. Len(operations) : ~ Merges(operations[i], op),
           \A i \in 1 .. c - 1 : ~ Merges(operations[i], r)
    PROVE  operations' = Append(operations, r) /\ preview' = Preview(r, pv) /\ scanned' = scanned
<1> DEFINE n == Len(operations)
<1>1. \A k \in 0 .. n : Seen(op)[k] = IF k >= c THEN op ELSE r
  <2>1. c \in 0 .. n /\ c # 0
    OBVIOUS
  <2>2. \A i \in c + 1 .. n : i \in 1 .. n /\ i # c
    OBVIOUS
  <2>3. \A i \in c + 1 .. Len(operations) : Retargeted(operations[i], op) = op
    BY <2>2
  <2> QED
    BY <2>1, <2>3, SeenFrom
<1>2. ASSUME NEW i \in 1 .. n PROVE ~ Merges(operations[i], Seen(op)[i])
  <2>1. CASE i >= c
    BY <1>1, <2>1
  <2>2. CASE ~ (i >= c)
    <3>1. i \in 1 .. c - 1
      BY <2>2
    <3> QED
      BY <1>1, <2>2, <3>1
  <2> QED
    BY <2>1, <2>2
<1>3. { i \in DOMAIN operations : Merges(operations[i], Seen(op)[i]) } = {}
  BY <1>2
<1>4. Seen(op)[0] = r
  BY <1>1
<1>5. Pushed(op, pv) = Outcome(operations, pv, r)
  BY <1>3, <1>4 DEF Pushed
<1>6. Outcome(operations, pv, r).pushed = r /\ Outcome(operations, pv, r).operations = operations
      /\ Outcome(operations, pv, r).preview = pv
  BY DEF Outcome
<1>7. r # NoOp
  BY DEF NoOp
<1> QED
  BY <1>5, <1>6, <1>7 DEF Push

\* Nothing merges: the operation is appended.
LEMMA PushAlone ==
    ASSUME Len(operations) \in Nat, DOMAIN operations = 1 .. Len(operations),
           NEW op, NEW pv, Push(op, pv), op.kind # "NoOp",
           \A i \in 1 .. Len(operations) : Retargeted(operations[i], op) = op,
           \A i \in 1 .. Len(operations) : ~ Merges(operations[i], op)
    PROVE  operations' = Append(operations, op) /\ preview' = Preview(op, pv) /\ scanned' = scanned
<1>1. \A k \in 0 .. Len(operations) : Seen(op)[k] = op
  BY SeenSame
<1>2. { i \in DOMAIN operations : Merges(operations[i], Seen(op)[i]) } = {}
  BY <1>1
<1>3. Pushed(op, pv) = Outcome(operations, pv, op)
  BY <1>1, <1>2 DEF Pushed
<1>4. Outcome(operations, pv, op).pushed = op /\ Outcome(operations, pv, op).operations = operations
      /\ Outcome(operations, pv, op).preview = pv
  BY DEF Outcome
<1>5. op # NoOp
  BY DEF NoOp
<1> QED
  BY <1>3, <1>4, <1>5 DEF Push

\* The topmost operation that merges says what becomes of stack and preview.
LEMMA PushMerged ==
    ASSUME Len(operations) \in Nat, DOMAIN operations = 1 .. Len(operations),
           NEW op, NEW pv, Push(op, pv),
           \A i \in 1 .. Len(operations) : Retargeted(operations[i], op) = op,
           \E i \in 1 .. Len(operations) : Merges(operations[i], op)
    PROVE  \E i \in 1 .. Len(operations) :
              /\ Merges(operations[i], op)
              /\ \A j \in i + 1 .. Len(operations) : ~ Merges(operations[j], op)
              /\ operations' = IF Merged(i, op, pv).pushed = NoOp THEN Merged(i, op, pv).operations
                               ELSE Append(Merged(i, op, pv).operations, Merged(i, op, pv).pushed)
              /\ preview' = Preview(Merged(i, op, pv).pushed, Merged(i, op, pv).preview)
              /\ scanned' = scanned
<1> DEFINE n == Len(operations)
           H == { i \in 1 .. n : Merges(operations[i], op) }
           Top(i) == \A j \in H : j <= i
           top == CHOOSE i \in H : Top(i)
<1>1. \A k \in 0 .. n : Seen(op)[k] = op
  BY SeenSame
<1>2. { i \in DOMAIN operations : Merges(operations[i], Seen(op)[i]) } = H
  BY <1>1
<1>3. H \subseteq 1 .. n /\ H # {}
  OBVIOUS
<1>4. \E i \in H : Top(i)
  <2> HIDE DEF H
  <2> QED
    BY <1>3, Largest
<1>5. top \in H /\ Top(top)
  <2> HIDE DEF H, Top
  <2> QED
    BY <1>4
<1>6. Pushed(op, pv) = Merged(top, Seen(op)[top], pv)
  <2> HIDE DEF H
  <2> QED
    BY <1>2, <1>3 DEF Pushed
<1> HIDE DEF top
<1>7. top \in 1 .. n /\ Merges(operations[top], op) /\ Pushed(op, pv) = Merged(top, op, pv)
  BY <1>1, <1>5, <1>6
<1>8. ASSUME NEW j \in top + 1 .. n, Merges(operations[j], op) PROVE FALSE
  <2>1. j \in H /\ ~ (j <= top)
    BY <1>7, <1>8
  <2> QED
    BY <1>5, <2>1
<1> HIDE DEF H, Top
<1> QED
  BY <1>7, <1>8 DEF Push

\* What each merge makes of stack, preview and pushed operation.
MergesTo(i, op, pv) ==
    /\ NewDeleted(operations[i], op) => Merged(i, op, pv) = Outcome(Without(i), Popped(operations[i], pv), NoOp)
    /\ NewResized(operations[i], op) =>
           Merged(i, op, pv) = Outcome(Without(i), Popped(operations[i], NewInstead(pv, op.part, op.newFirst, op.newLast)),
                                       NewOp(SparePart))
    /\ NewCopied(operations[i], op) =>
           Merged(i, op, pv) = Outcome(operations, Leaked(NewInstead(pv, op.source, pv.parts[op.part].first, pv.parts[op.part].last), op.part),
                                       NewOp(SparePart))
    /\ NewLabeled(operations[i], op) => Merged(i, op, pv) = Outcome(operations, Preview(op, pv), NoOp)
    /\ NewFormatted(operations[i], op) \/ NewChecked(operations[i], op) => Merged(i, op, pv) = Outcome(operations, pv, NoOp)
    /\ CopyDeleted(operations[i], op) \/ RestoreDeleted(operations[i], op) =>
           Merged(i, op, pv) = Outcome(Without(i), Popped(operations[i], pv),
                                       IF operations[i].over = None THEN NoOp ELSE [op EXCEPT !.part = operations[i].over])
    /\ FlagsAgain(operations[i], op) \/ LabelAgain(operations[i], op) =>
           Merged(i, op, pv) = Outcome(Without(i), Popped(operations[i], pv), TakesOld(op, operations[i]))
    /\ TableAgain(operations[i], op) =>
           Merged(i, op, pv) = Outcome(Without(i), Popped(operations[i], pv),
                                       IF operations[i].kind = "Table" THEN TakesOld(op, operations[i]) ELSE op)

\* Each merge excludes the others.
LEMMA MergedCases ==
    ASSUME NEW i, NEW op, NEW pv
    PROVE  MergesTo(i, op, pv)
<1> DEFINE cur == operations[i]
           a == NewDeleted(cur, op)
           b == NewResized(cur, op)
           c == NewCopied(cur, op)
           d == NewLabeled(cur, op)
           e == NewFormatted(cur, op) \/ NewChecked(cur, op)
           f == CopyDeleted(cur, op) \/ RestoreDeleted(cur, op)
           g == FlagsAgain(cur, op) \/ LabelAgain(cur, op)
           h == TableAgain(cur, op)
<1>1. /\ a => op.kind = "Delete" /\ cur.kind = "New"
      /\ b => op.kind = "Resize"
      /\ c => op.kind = "Copy"
      /\ d => op.kind = "Label" /\ cur.kind = "New"
      /\ e => op.kind \in {"Format", "Check"}
      /\ f => op.kind = "Delete" /\ cur.kind \in {"Copy", "Restore"}
      /\ g => op.kind \in {"Flags", "Label"} /\ cur.kind # "New"
      /\ h => op.kind = "Table"
  BY DEF NewDeleted, NewResized, NewCopied, NewLabeled, NewFormatted, NewChecked,
         CopyDeleted, RestoreDeleted, FlagsAgain, LabelAgain, TableAgain
<1>2. Merged(i, op, pv) =
        CASE a -> Outcome(Without(i), Popped(cur, pv), NoOp)
          [] b -> Outcome(Without(i), Popped(cur, NewInstead(pv, op.part, op.newFirst, op.newLast)), NewOp(SparePart))
          [] c -> Outcome(operations, Leaked(NewInstead(pv, op.source, pv.parts[op.part].first, pv.parts[op.part].last), op.part),
                          NewOp(SparePart))
          [] d -> Outcome(operations, Preview(op, pv), NoOp)
          [] e -> Outcome(operations, pv, NoOp)
          [] f -> Outcome(Without(i), Popped(cur, pv), IF cur.over = None THEN NoOp ELSE [op EXCEPT !.part = cur.over])
          [] g -> Outcome(Without(i), Popped(cur, pv), TakesOld(op, cur))
          [] h -> Outcome(Without(i), Popped(cur, pv), IF cur.kind = "Table" THEN TakesOld(op, cur) ELSE op)
  BY DEF Merged
<1> HIDE DEF a, b, c, d, e, f, g, h, cur
<1>3. /\ a => Merged(i, op, pv) = Outcome(Without(i), Popped(cur, pv), NoOp)
      /\ b => Merged(i, op, pv) = Outcome(Without(i), Popped(cur, NewInstead(pv, op.part, op.newFirst, op.newLast)), NewOp(SparePart))
      /\ c => Merged(i, op, pv) =
                 Outcome(operations, Leaked(NewInstead(pv, op.source, pv.parts[op.part].first, pv.parts[op.part].last), op.part),
                         NewOp(SparePart))
      /\ d => Merged(i, op, pv) = Outcome(operations, Preview(op, pv), NoOp)
      /\ e => Merged(i, op, pv) = Outcome(operations, pv, NoOp)
      /\ f => Merged(i, op, pv) = Outcome(Without(i), Popped(cur, pv), IF cur.over = None THEN NoOp ELSE [op EXCEPT !.part = cur.over])
      /\ g => Merged(i, op, pv) = Outcome(Without(i), Popped(cur, pv), TakesOld(op, cur))
      /\ h => Merged(i, op, pv) = Outcome(Without(i), Popped(cur, pv), IF cur.kind = "Table" THEN TakesOld(op, cur) ELSE op)
  BY <1>1, <1>2
<1> QED
  BY <1>3 DEF MergesTo, a, b, c, d, e, f, g, h, cur

\* The stack without one operation.
LEMMA WithoutShorter ==
    ASSUME StackInv, NEW i \in DOMAIN operations
    PROVE  Shorter(operations, i, Without(i))
<1> DEFINE n == Len(operations)
           a == SubSeq(operations, 1, i - 1)
           b == SubSeq(operations, i + 1, n)
<1>1. n \in Nat /\ DOMAIN operations = 1 .. n /\ \E S : operations \in Seq(S)
  BY TreeShown DEF StackInv, Good, Owned, Typed
<1>2. \E S : Without(i) \in Seq(S)
  BY <1>1, WithoutOne DEF Stacked
<1>3. PICK S : operations \in Seq(S)
  BY <1>1
<1>4. i \in 1 .. n /\ 1 \in Int /\ i - 1 \in Int /\ i + 1 \in Int /\ n \in Int /\ \A k \in 1 .. n : operations[k] \in S
  BY <1>1, <1>3
<1>5. /\ a \in Seq(S) /\ Len(a) = IF 1 <= i - 1 THEN i - 1 - 1 + 1 ELSE 0
      /\ \A k \in 1 .. i - 1 - 1 + 1 : a[k] = operations[1 + k - 1]
  <2>1. \A k \in 1 .. i - 1 : operations[k] \in S
    BY <1>4
  <2> QED
    BY ONLY <1>4, <2>1, SubSeqProperties
<1>6. /\ b \in Seq(S) /\ Len(b) = IF i + 1 <= n THEN n - (i + 1) + 1 ELSE 0
      /\ \A k \in 1 .. n - (i + 1) + 1 : b[k] = operations[i + 1 + k - 1]
  <2>1. \A k \in i + 1 .. n : operations[k] \in S
    BY <1>1, <1>4
  <2> QED
    BY ONLY <1>4, <2>1, SubSeqProperties
<1> HIDE DEF a, b, n
<1>7. Len(a) = i - 1 /\ Len(b) = n - i
  <2>1. i - 1 - 1 + 1 = i - 1 /\ n - (i + 1) + 1 = n - i /\ (~ (1 <= i - 1) => i - 1 = 0) /\ (~ (i + 1 <= n) => n - i = 0)
    BY <1>1, <1>4
  <2> QED
    BY <1>5, <1>6, <2>1
<1>8. Without(i) = a \o b
  BY DEF Without, a, b, n
<1>9. Len(a \o b) = n - 1 /\ \A k \in 1 .. n - 1 : (a \o b)[k] = IF k <= i - 1 THEN a[k] ELSE b[k - (i - 1)]
  <2>1. Len(a \o b) = Len(a) + Len(b)
        /\ \A k \in 1 .. Len(a) + Len(b) : (a \o b)[k] = IF k <= Len(a) THEN a[k] ELSE b[k - Len(a)]
    BY ONLY <1>5, <1>6, ConcatProperties
  <2>2. Len(a) + Len(b) = n - 1
    BY <1>1, <1>4, <1>7
  <2> QED
    BY <1>7, <2>1, <2>2
<1>10. ASSUME NEW k \in 1 .. n - 1 PROVE (a \o b)[k] = operations[IF k < i THEN k ELSE k + 1]
  <2>1. CASE k < i
    <3>1. k \in 1 .. i - 1 - 1 + 1 /\ 1 + k - 1 = k /\ k <= i - 1
      BY <1>1, <1>4, <2>1
    <3> QED
      BY <1>5, <1>9, <2>1, <3>1
  <2>2. CASE ~ (k < i)
    <3>1. k - (i - 1) \in 1 .. n - (i + 1) + 1 /\ i + 1 + (k - (i - 1)) - 1 = k + 1 /\ ~ (k <= i - 1)
      BY <1>1, <1>4, <2>2
    <3> QED
      BY <1>6, <1>9, <2>2, <3>1
  <2> QED
    BY <2>1, <2>2
<1> QED
  BY <1>2, <1>8, <1>9, <1>10 DEF Shorter, n

\* The partitions of P and those they lie in have the same sectors on two levels.
SameSectors(v, w, P) == \A p \in P :
    /\ w.parts[p].first = v.parts[p].first /\ w.parts[p].last = v.parts[p].last
    /\ w.parts[p].parent = v.parts[p].parent
    /\ \/ v.parts[p].parent \in TableIds
       \/ /\ w.parts[v.parts[p].parent].first = v.parts[v.parts[p].parent].first
          /\ w.parts[v.parts[p].parent].last = v.parts[v.parts[p].parent].last

\* The partition q lies inside its parent and apart from the partitions of P in it.
Fitting(v, P, q) ==
    /\ v.parts[q].first <= v.parts[q].last /\ Extent(v, q) \subseteq Bounds(v, v.parts[q].parent)
    /\ \A p \in P : v.parts[p].parent = v.parts[q].parent => Extent(v, q) \cap Extent(v, p) = {}

\* A partition that is added to those that lie apart.
LEMMA SoundWith ==
    ASSUME NEW v, NEW w, NEW P, NEW Q, NEW q, Sound(v, P), Q \subseteq P, SameSectors(v, w, P), Fitting(w, Q, q)
    PROVE  Sound(w, Q \cup {q})
<1>1. Sound(w, Q)
  <2>1. \A p \in Q : LET m == v.parts[p].parent
                     IN  /\ w.parts[p].first = v.parts[p].first /\ w.parts[p].last = v.parts[p].last
                         /\ w.parts[p].parent = m
                         /\ m \in TableIds \/ (w.parts[m].first = v.parts[m].first /\ w.parts[m].last = v.parts[m].last)
    BY DEF SameSectors
  <2> QED
    BY <2>1, SoundSame
<1>2. ASSUME NEW p \in Q \cup {q}
      PROVE  w.parts[p].first <= w.parts[p].last /\ Extent(w, p) \subseteq Bounds(w, w.parts[p].parent)
  BY <1>1, <1>2 DEF Sound, Fitting
<1>3. ASSUME NEW p \in Q \cup {q}, NEW r \in Q \cup {q}, r # p, w.parts[r].parent = w.parts[p].parent
      PROVE  Extent(w, p) \cap Extent(w, r) = {}
  <2>1. CASE p \in Q /\ r \in Q
    BY <1>1, <1>3, <2>1 DEF Sound
  <2>2. CASE p = q /\ r \in Q
    BY <1>3, <2>2 DEF Fitting
  <2>3. CASE r = q /\ p \in Q
    <3>1. Extent(w, r) \cap Extent(w, p) = {}
      BY <1>3, <2>3 DEF Fitting
    <3> QED
      BY <3>1
  <2> QED
    BY <1>3, <2>1, <2>2, <2>3
<1> QED
  BY <1>2, <1>3 DEF Sound

--------------------------------------------------------------------------------
(* Operations that create a partition.                                     *)

\* A new object has what it was made from.
LEMMA NewObject ==
    ASSUME NEW pv \in Previews, NEW p \in PartIds, NEW f \in FsIds, NEW part \in Partition, NEW label \in Labels \cup {None}
    PROVE  /\ WithPartition(pv, p, f, part, label) \in Previews
           /\ WithPartition(pv, p, f, part, label).live = pv.live \cup {p}
           /\ WithPartition(pv, p, f, part, label).table = pv.table
           /\ WithPartition(pv, p, f, part, label).children = pv.children
           /\ WithPartition(pv, p, f, part, label).parts[p] = [part EXCEPT !.fs = f]
           /\ \A q \in PartIds \ {p} : WithPartition(pv, p, f, part, label).parts[q] = pv.parts[q]
<1> DEFINE x == [part EXCEPT !.fs = f]
           live == pv.live \cup {p}
           parts == [pv.parts EXCEPT ![p] = x]
           labels == [pv.labels EXCEPT ![f] = label]
<1>1. x \in Partition
  BY DEF Partition
<1>2. pv.live \in SUBSET PartIds /\ pv.parts \in [PartIds -> Partition] /\ pv.labels \in [FsIds -> Labels \cup {None}]
  BY DEF Previews
<1> HIDE DEF x
<1>3. live \in SUBSET PartIds /\ parts \in [PartIds -> Partition] /\ labels \in [FsIds -> Labels \cup {None}]
  BY <1>1, <1>2
<1>4. parts[p] = x /\ \A q \in PartIds \ {p} : parts[q] = pv.parts[q]
  BY <1>2
<1>5. WithPartition(pv, p, f, part, label) = [pv EXCEPT !.live = live, !.parts = parts, !.labels = labels]
  BY DEF WithPartition, x, Previews
<1> HIDE DEF live, parts, labels
<1> DEFINE w == [pv EXCEPT !.live = live, !.parts = parts, !.labels = labels]
<1>6. /\ w \in Previews
      /\ w.live = live /\ w.table = pv.table /\ w.children = pv.children /\ w.parts = parts
  BY <1>3 DEF Previews
<1> HIDE DEF w
<1>7. WithPartition(pv, p, f, part, label) = w
  BY <1>5 DEF w
<1> QED
  BY <1>4, <1>6, <1>7 DEF x, live

\* Where a partition may be created: in the table of the device or in an extended partition of
\* it, apart from what is there and stays there.
Fits(sc, ops, pv, w, q, R) ==
    LET P == Present(sc, ops, Len(ops))
        m == w.parts[q].parent
    IN  /\ w.parts[q].role = "logical" <=> m \in PartIds
        /\ m = pv.table \/ (m \in P /\ pv.parts[m].role = "extended" /\ pv.parts[m].parent = pv.table)
        /\ w.parts[q].first <= w.parts[q].last /\ Extent(w, q) \subseteq Bounds(pv, m)
        /\ \A p \in P \ R : pv.parts[p].parent = m => Extent(w, q) \cap Extent(pv, p) = {}

\* What an operation that creates a partition works on beside that.
Source(sc, ops, pv, op) == op.kind = "Copy" =>
    /\ op.from \in Present(sc, ops, Len(ops)) /\ Root(pv, op.from) = pv.table
    /\ op.source \in Known(sc, ops) /\ pv.parts[op.source].state \in {"None", "Restore"}

Place(sc, ops, pv, op, w) == Replacing(op) =>
    /\ op.over \in Present(sc, ops, Len(ops))
    /\ pv.parts[op.over].role # "extended" /\ pv.parts[op.over].role = w.parts[op.part].role
    /\ pv.parts[op.over].parent = w.parts[op.part].parent /\ Extent(pv, op.over) = Extent(w, op.part)

\* w is pv with a new partition in the tree.
Adds(sc, ops, pv, op, w) ==
    /\ op.part \notin Known(sc, ops)
    /\ w \in Previews /\ Known(sc, ops) \cup {op.part} \subseteq w.live /\ w.table = pv.table
    /\ \A p \in Known(sc, ops) : w.parts[p] = pv.parts[p]
    /\ \A m \in Nodes : w.children[m] = (pv.children[m] \ Removes(op)) \cup ({op.part} \cap Below(w, m))
    /\ w.parts[op.part].state = op.kind /\ (op.kind # "New" => w.parts[op.part].role # "extended")

\* Such an operation is appended.
LEMMA CreateGood ==
    ASSUME NEW sc \in Devices, NEW ops, NEW pv, Good(sc, ops, pv), NEW op, NEW w, IsOp(op), op.kind \in Creating,
           Adds(sc, ops, pv, op, w), Fits(sc, ops, pv, w, op.part, Removes(op)),
           Source(sc, ops, pv, op), Place(sc, ops, pv, op, w)
    PROVE  Good(sc, Append(ops, op), w)
<1> DEFINE n == Len(ops)
           K == Known(sc, ops)
           P == Present(sc, ops, n)
           q == op.part
           v == Prepared(pv, op, w)
<1>1. Owned(sc, ops, pv) /\ Typed(sc, ops, pv) /\ Rooted(sc, ops, pv) /\ Shows(sc, ops, pv)
  BY DEF Good, Owned
<1>2. /\ n \in Nat /\ P \subseteq K /\ K \subseteq PartIds /\ Nodes = TableIds \cup PartIds /\ PartIds \cap TableIds = {}
      /\ pv.table \in TableIds /\ pv.children \in [Nodes -> SUBSET PartIds]
  BY <1>1, GoodTypes
<1>3. \A p \in K : pv.parts[p].parent \in TableIds \/ pv.parts[p].parent \in K
  BY <1>1, KnownParents
<1>4. \A p \in K : pv.parts[p].role # "extended" => pv.children[p] = {}
  <2>1. \A p \in K : pv.parts[p].parent \in PartIds => pv.parts[pv.parts[p].parent].role = "extended"
    BY <1>1 DEF Rooted
  <2>2. \A m \in Nodes : pv.children[m] = P \cap Below(pv, m)
    BY <1>1 DEF Shows
  <2> HIDE DEF K, P
  <2> QED
    BY <1>2, <2>1, <2>2 DEF Below
<1>5. Sound(pv, P)
  <2>1. PICK l : Layered(sc, ops, pv, l)
    BY DEF Good
  <2> DEFINE z == l[n]
  <2>2. Sound(z, P) /\ \A p \in K : z.parts[p] = pv.parts[p]
    BY <1>2, <2>1 DEF Layered, Ends
  <2> HIDE DEF z, K, P
  <2> QED
    BY <1>2, <1>3, <2>2, SoundSame
<1>6. /\ Creates(op) = {q} /\ q \in PartIds
      /\ Uses(op) = {q} \cup (IF op.kind = "Copy" THEN {op.from} ELSE {}) \cup (IF Replacing(op) THEN {op.over} ELSE {})
      /\ Removes(op) = IF Replacing(op) THEN {op.over} ELSE {}
      /\ op.kind \notin {"Table", "Backup", "Resize", "Flags", "Format"} /\ (Replacing(op) => op.kind # "New")
  BY DEF IsOp, Kinds, Creating, Creates, Uses, Removes, Replacing
<1>7. /\ \A p \in K : w.parts[p] = pv.parts[p]
      /\ q \notin K /\ w \in Previews /\ K \cup {q} \subseteq w.live /\ w.table = pv.table
      /\ w.parts[q].state = op.kind /\ (op.kind # "New" => w.parts[q].role # "extended")
  BY DEF Adds
<1>8. /\ w.parts[q].role = "logical" <=> w.parts[q].parent \in PartIds
      /\ w.parts[q].parent = pv.table
         \/ (w.parts[q].parent \in P /\ pv.parts[w.parts[q].parent].role = "extended" /\ pv.parts[w.parts[q].parent].parent = pv.table)
      /\ w.parts[q].first <= w.parts[q].last /\ Extent(w, q) \subseteq Bounds(pv, w.parts[q].parent)
      /\ \A p \in P \ Removes(op) : pv.parts[p].parent = w.parts[q].parent => Extent(w, q) \cap Extent(pv, p) = {}
  BY DEF Fits
<1>9. op.kind = "Copy" => /\ op.from \in P /\ Root(pv, op.from) = pv.table
                          /\ op.source \in K /\ pv.parts[op.source].state \in {"None", "Restore"}
  BY DEF Source
<1>10. Replacing(op) => /\ op.over \in P
                        /\ pv.parts[op.over].role # "extended" /\ pv.parts[op.over].role = w.parts[q].role
                        /\ pv.parts[op.over].parent = w.parts[q].parent /\ Extent(pv, op.over) = Extent(w, q)
  BY DEF Place
<1>11. v.table = pv.table /\ \A p \in PartIds : v.parts[p] = IF p = q THEN w.parts[p] ELSE pv.parts[p]
  BY <1>6 DEF Prepared
<1> HIDE DEF n, K, P, q, v
<1>12. \A p \in K : Root(v, p) = Root(pv, p)
  BY <1>2, <1>3, <1>7, <1>11 DEF Root
<1>13. Root(v, q) = pv.table
  BY <1>2, <1>6, <1>7, <1>8, <1>11 DEF Root
<1>14. Replacing(op) => Root(v, op.over) = pv.table
  BY <1>2, <1>7, <1>8, <1>10, <1>11 DEF Root
<1>15. Leads(K \cup Creates(op), op, v, w)
  <2>1. \A p \in Uses(op) : Root(v, p) = v.table
    BY <1>2, <1>6, <1>9, <1>11, <1>12, <1>13, <1>14
  <2>2. \A p \in K \cup Creates(op) : Alters(op, p, v.parts[p], w.parts[p])
    BY <1>2, <1>6, <1>7, <1>11 DEF Alters
  <2>3. Replacing(op) => Extent(v, q) = Extent(v, op.over)
    BY <1>2, <1>6, <1>7, <1>10, <1>11 DEF Extent
  <2> QED
    BY <1>6, <1>7, <1>11, <2>1, <2>2, <2>3 DEF Leads, q
<1>16. Sound(w, (P \ Removes(op)) \cup {q})
  <2>1. Bounds(w, w.parts[q].parent) = Bounds(pv, w.parts[q].parent)
    BY <1>2, <1>7, <1>8 DEF Bounds
  <2>2. SameSectors(pv, w, P)
    BY <1>2, <1>3, <1>7 DEF SameSectors
  <2> DEFINE Q == P \ Removes(op)
  <2>3. Q \subseteq P /\ \A p \in Q : w.parts[p] = pv.parts[p]
    BY <1>2, <1>7
  <2>4. \A p \in Q : pv.parts[p].parent = w.parts[q].parent => Extent(w, q) \cap Extent(pv, p) = {}
    BY <1>8
  <2> HIDE DEF Q
  <2>5. Fitting(w, Q, q)
    BY <1>8, <2>1, <2>3, <2>4 DEF Fitting, Extent
  <2>6. Sound(w, Q \cup {q})
    BY <1>5, <2>2, <2>3, <2>5, SoundWith
  <2> QED
    BY <2>6 DEF Q
<1>17. Becomes(sc, ops, pv, op, w)
  <2>1. \A m \in Nodes : w.children[m] = (pv.children[m] \ Removes(op)) \cup (Creates(op) \cap Below(w, m))
    BY <1>6 DEF Adds, q
  <2> QED
    BY <1>6, <1>7, <1>15, <1>16, <2>1 DEF Becomes, K, P, v, n
<1>18. \A p \in Uses(op) \ Creates(op) : p \in P
  BY <1>6, <1>9, <1>10
<1>19. \A p \in Removes(op) : p \in P /\ pv.children[p] = {}
  BY <1>2, <1>4, <1>6, <1>10
<1>20. Pushable(sc, ops, pv, op, w)
  <2>1. /\ q \notin K /\ w.parts[q].state = op.kind
        /\ w.parts[q].parent \in PartIds => w.parts[q].parent \in P /\ pv.parts[w.parts[q].parent].role = "extended"
    BY <1>2, <1>7, <1>8 DEF q
  <2>2. op.kind \in {"Copy", "Restore"} => w.parts[q].role # "extended"
    BY <1>7
  <2> QED
    BY <1>6, <1>8, <1>9, <1>10, <1>18, <1>19, <2>1, <2>2 DEF Pushable, K, P, n, q
<1> QED
  BY <1>17, <1>20, AppendGood

--------------------------------------------------------------------------------
(* New, Copy and Restore are pushed.                                       *)

\* A new object is inserted into the tree.
LEMMA Inserted ==
    ASSUME NEW pv \in Previews, NEW q \in PartIds, NEW f \in FsIds, NEW part \in Partition, NEW label \in Labels \cup {None},
           NEW w, w = InsertPreview(WithPartition(pv, q, f, part, label), q)
    PROVE  /\ w \in Previews /\ w.live = pv.live \cup {q} /\ w.table = pv.table
           /\ w.parts[q] = [part EXCEPT !.fs = f] /\ w.parts[q] \in Partition
           /\ \A p \in PartIds \ {q} : w.parts[p] = pv.parts[p]
           /\ \A m \in Nodes : w.children[m] = pv.children[m] \cup ({q} \cap Below(w, m))
<1> DEFINE u == WithPartition(pv, q, f, part, label)
<1>1. /\ u \in Previews /\ u.live = pv.live \cup {q} /\ u.table = pv.table /\ u.children = pv.children
      /\ u.parts[q] = [part EXCEPT !.fs = f] /\ \A p \in PartIds \ {q} : u.parts[p] = pv.parts[p]
  BY NewObject
<1>2. w = InsertPreview(u, q)
  OBVIOUS
<1> HIDE DEF u
<1>3. /\ w \in Previews /\ w.live = u.live /\ w.parts = u.parts /\ w.table = u.table
      /\ \A m \in Nodes : w.children[m] = u.children[m] \cup ({q} \cap Below(u, m))
  BY <1>1, <1>2, TreeFacts
<1>4. \A m : Below(u, m) = Below(w, m)
  BY <1>3 DEF Below
<1>5. w.parts[q] \in Partition
  BY <1>3 DEF Previews
<1> QED
  BY <1>1, <1>3, <1>4, <1>5

\* A partition fits where the range is free.
LEMMA FreeFits ==
    ASSUME StackInv, NEW w, NEW q, NEW R,
           w.parts[q].role = "logical" <=> w.parts[q].parent # preview.table,
           w.parts[q].parent = preview.table
           \/ (/\ w.parts[q].parent \in Present(scanned, operations, Len(operations))
               /\ preview.parts[w.parts[q].parent].role = "extended"
               /\ preview.parts[w.parts[q].parent].parent = preview.table),
           IsFree(preview, w.parts[q].parent, w.parts[q].first, w.parts[q].last, R)
    PROVE  Fits(scanned, operations, preview, w, q, R)
<1> DEFINE P == Present(scanned, operations, Len(operations))
           m == w.parts[q].parent
<1>1. /\ P \subseteq PartIds /\ preview.table \in TableIds /\ PartIds \cap TableIds = {} /\ Nodes = TableIds \cup PartIds
      /\ \A k \in Nodes : preview.children[k] = P \cap Below(preview, k)
  BY TreeShown, StackAssumption DEF Previews, Nodes
<1> HIDE DEF P
<1>2. m = preview.table \/ (m \in P /\ preview.parts[m].role = "extended" /\ preview.parts[m].parent = preview.table)
  BY DEF P
<1>3. m \in Nodes /\ (m \in PartIds <=> m # preview.table)
  BY <1>1, <1>2
<1>4. \A p \in P \ R : preview.parts[p].parent = m => p \in preview.children[m] \ R
  BY <1>1, <1>3 DEF Below
<1>5. /\ w.parts[q].first <= w.parts[q].last /\ Extent(w, q) \subseteq Bounds(preview, m)
      /\ \A p \in preview.children[m] \ R : Extent(w, q) \cap Extent(preview, p) = {}
  BY DEF IsFree, Extent
<1> QED
  BY <1>2, <1>3, <1>4, <1>5 DEF Fits, P

\* The operation has nothing to merge with.
LEMMA NoMerge ==
    ASSUME NEW op, op.kind \in {"New", "Restore", "Backup"}
    PROVE  \A cur : Retargeted(cur, op) = op /\ ~ Merges(cur, op)
BY DEF Retargeted, Merges, NewDeleted, NewResized, NewCopied, NewLabeled, NewFormatted, NewChecked,
       CopyDeleted, RestoreDeleted, FlagsAgain, LabelAgain, TableAgain

\* A new partition in unallocated space.
LEMMA PushNewGood ==
    ASSUME StackInv, PushNew
    PROVE  StackInv'
<1> DEFINE K == Known(scanned, operations)
           P == Present(scanned, operations, Len(operations))
           q == NewPart
           op == NewOp(q)
<1>1. PICK parent \in Parents, first \in Sectors, last \in Sectors, role \in Roles :
         /\ IsFree(preview, parent, first, last, {})
         /\ role = "logical" <=> parent # preview.table
         /\ Push(op, WithPartition(preview, q, NewFs,
                    [first |-> first, last |-> last, role |-> role, parent |-> parent,
                     state |-> "New", flags |-> {}, fs |-> NewFs], None))
  BY DEF PushNew
<1> DEFINE part == [first |-> first, last |-> last, role |-> role, parent |-> parent,
                    state |-> "New", flags |-> {}, fs |-> NewFs]
           pv == WithPartition(preview, q, NewFs, part, None)
           w == InsertPreview(pv, q)
<1>2. IdsLeft /\ Push(op, pv)
  BY <1>1 DEF Push
<1>3. /\ scanned \in Devices /\ Good(scanned, operations, preview) /\ preview \in Previews
      /\ Len(operations) \in Nat /\ DOMAIN operations = 1 .. Len(operations)
      /\ P \subseteq K /\ K \subseteq PartIds /\ K \subseteq preview.live
  BY TreeShown
<1>4. q \in PartIds \ K /\ NewFs \in FsIds
  BY <1>2, FreeIds
<1>5. /\ parent = preview.table \/ (parent \in P /\ preview.parts[parent].role = "extended" /\ preview.parts[parent].parent = preview.table)
      /\ parent \in Nodes
  <2>1. parent = preview.table \/ (parent \in P /\ preview.parts[parent].role = "extended" /\ preview.parts[parent].parent = preview.table)
    BY VisibleShown
  <2> QED
    BY <1>3, <2>1 DEF Previews, Nodes
<1>6. part \in Partition /\ [part EXCEPT !.fs = NewFs] = part
  <2>1. {} \in FlagSets /\ "New" \in States
    BY StackAssumption DEF States
  <2>2. part \in Partition
    BY <1>4, <1>5, <2>1 DEF Partition
  <2>3. [part EXCEPT !.fs = NewFs] = part
    OBVIOUS
  <2> QED
    BY <2>2, <2>3
<1>7. operations' = Append(operations, op) /\ preview' = w /\ scanned' = scanned
  <2>1. op.kind = "New" /\ op.kind # "NoOp" /\ op.part = q
    BY DEF NewOp
  <2>2. Preview(op, pv) = w
    BY <2>1 DEF Preview
  <2>3. \A i \in 1 .. Len(operations) : Retargeted(operations[i], op) = op /\ ~ Merges(operations[i], op)
    BY <2>1, NoMerge
  <2> HIDE DEF op, pv, w
  <2> QED
    BY <1>2, <1>3, <2>1, <2>2, <2>3, PushAlone
<1>8. /\ w \in Previews /\ w.live = preview.live \cup {q} /\ w.table = preview.table
      /\ w.parts[q] = part
      /\ \A p \in PartIds \ {q} : w.parts[p] = preview.parts[p]
      /\ \A m \in Nodes : w.children[m] = preview.children[m] \cup ({q} \cap Below(w, m))
  <2> HIDE DEF part, w
  <2>1. w = InsertPreview(WithPartition(preview, q, NewFs, part, None), q)
    BY DEF w
  <2> QED
    BY <1>3, <1>4, <1>6, <2>1, Inserted
<1>9. w.parts[q].role = role /\ w.parts[q].parent = parent /\ w.parts[q].first = first /\ w.parts[q].last = last
      /\ w.parts[q].state = "New"
  <2> HIDE DEF w
  <2> QED
    BY <1>8
<1> HIDE DEF part, pv, w
<1>10. Fits(scanned, operations, preview, w, q, {})
  BY <1>1, <1>5, <1>9, FreeFits
<1>11. IsOp(op) /\ op.kind = "New" /\ op.part = q /\ Removes(op) = {} /\ ~Replacing(op) /\ op.kind \in Creating
  BY <1>4 DEF NewOp, IsOp, Kinds, Creating, Removes, Replacing
<1> HIDE DEF op, q, K, P
<1>12. Good(scanned, Append(operations, op), w)
  <2>1. Source(scanned, operations, preview, op) /\ Place(scanned, operations, preview, op, w)
    BY <1>11 DEF Source, Place
  <2>2. Adds(scanned, operations, preview, op, w)
    BY <1>3, <1>4, <1>8, <1>9, <1>11 DEF Adds, K
  <2>3. Fits(scanned, operations, preview, w, op.part, Removes(op))
    BY <1>10, <1>11
  <2> QED
    BY <1>3, <1>11, <2>1, <2>2, <2>3, CreateGood
<1> QED
  BY <1>3, <1>7, <1>12 DEF StackInv

\* u is pv with the object of a new partition, but not yet in the tree.
Readies(sc, ops, pv, op, u) ==
    /\ op.part \in PartIds \ Known(sc, ops)
    /\ u \in Previews /\ Known(sc, ops) \cup {op.part} \subseteq u.live /\ u.table = pv.table
    /\ \A p \in Known(sc, ops) : u.parts[p] = pv.parts[p]
    /\ \A m \in Nodes : u.children[m] = pv.children[m] \ Removes(op)
    /\ u.parts[op.part].state = op.kind /\ (op.kind # "New" => u.parts[op.part].role # "extended")

\* Inserting that partition completes what the operation adds to the preview.
LEMMA ReadyAdds ==
    ASSUME NEW sc, NEW ops, NEW pv, NEW op, NEW u, Readies(sc, ops, pv, op, u)
    PROVE  /\ Adds(sc, ops, pv, op, InsertPreview(u, op.part))
           /\ InsertPreview(u, op.part).parts = u.parts
<1> DEFINE w == InsertPreview(u, op.part)
<1>1. /\ w \in Previews /\ w.live = u.live /\ w.parts = u.parts /\ w.table = u.table
      /\ \A m \in Nodes : w.children[m] = u.children[m] \cup ({op.part} \cap Below(u, m))
  BY TreeFacts DEF Readies
<1>2. \A m : Below(u, m) = Below(w, m)
  <2> HIDE DEF w
  <2> QED
    BY <1>1 DEF Below
<1> HIDE DEF w
<1>3. Adds(sc, ops, pv, op, w)
  BY <1>1, <1>2 DEF Adds, Readies
<1> QED
  BY <1>1, <1>3 DEF w

\* Taking a partition out of the tree of the preview.
LEMMA RemovedShown ==
    ASSUME StackInv, NEW p \in PartIds, NEW u \in Previews, u.children = preview.children,
           \A q \in Known(scanned, operations) : u.parts[q] = preview.parts[q]
    PROVE  /\ RemovePreview(u, p) \in Previews /\ RemovePreview(u, p).live = u.live
           /\ RemovePreview(u, p).parts = u.parts /\ RemovePreview(u, p).table = u.table
           /\ \A m \in Nodes : RemovePreview(u, p).children[m] = preview.children[m] \ {p}
<1> DEFINE K == Known(scanned, operations)
           P == Present(scanned, operations, Len(operations))
<1>1. /\ P \subseteq K /\ K \subseteq PartIds
      /\ \A m \in Nodes : preview.children[m] = P \cap Below(preview, m)
  BY TreeShown
<1>2. \A m \in Nodes : RemovePreview(u, p).children[m] = u.children[m] \ ({p} \cap Below(u, m))
  BY TreeFacts
<1> HIDE DEF K, P
<1>3. \A m \in Nodes : preview.children[m] \ ({p} \cap Below(u, m)) = preview.children[m] \ {p}
  BY <1>1 DEF Below, K
<1> QED
  BY <1>2, <1>3, TreeFacts

\* A restore to unallocated space.
LEMMA PushRestoreToFreeGood ==
    ASSUME StackInv, PushRestoreToFree
    PROVE  StackInv'
<1> DEFINE K == Known(scanned, operations)
           P == Present(scanned, operations, Len(operations))
           q == NewPart
           op == RestoreOp(q, None)
<1>1. PICK parent \in Parents, first \in Sectors, last \in Sectors :
         /\ IsFree(preview, parent, first, last, {})
         /\ Push(op, WithPartition(preview, q, NewFs,
                [first |-> first, last |-> last, parent |-> parent,
                 role |-> IF parent = preview.table THEN "primary" ELSE "logical",
                 state |-> "Restore", flags |-> {}, fs |-> NewFs], None))
  BY DEF PushRestoreToFree
<1> DEFINE part == [first |-> first, last |-> last, parent |-> parent,
                    role |-> IF parent = preview.table THEN "primary" ELSE "logical",
                    state |-> "Restore", flags |-> {}, fs |-> NewFs]
           u == WithPartition(preview, q, NewFs, part, None)
           w == InsertPreview(u, q)
<1>2. IdsLeft /\ Push(op, u)
  BY <1>1 DEF Push
<1>3. /\ scanned \in Devices /\ Good(scanned, operations, preview) /\ preview \in Previews
      /\ Len(operations) \in Nat /\ DOMAIN operations = 1 .. Len(operations)
      /\ P \subseteq K /\ K \subseteq PartIds /\ K \subseteq preview.live
  BY TreeShown
<1>4. q \in PartIds \ K /\ NewFs \in FsIds
  BY <1>2, FreeIds
<1>5. /\ parent = preview.table \/ (parent \in P /\ preview.parts[parent].role = "extended" /\ preview.parts[parent].parent = preview.table)
      /\ parent \in Nodes
  <2>1. parent = preview.table \/ (parent \in P /\ preview.parts[parent].role = "extended" /\ preview.parts[parent].parent = preview.table)
    BY VisibleShown
  <2> QED
    BY <1>3, <2>1 DEF Previews, Nodes
<1>6. part \in Partition
  <2>1. {} \in FlagSets /\ "Restore" \in States /\ (IF parent = preview.table THEN "primary" ELSE "logical") \in Roles
    BY StackAssumption DEF States, Roles
  <2> QED
    BY <1>4, <1>5, <2>1 DEF Partition
<1>7. /\ op.kind = "Restore" /\ op.kind # "NoOp" /\ op.part = q /\ op.kind \in Creating
      /\ IsOp(op) /\ Removes(op) = {} /\ ~Replacing(op)
  BY <1>4 DEF RestoreOp, IsOp, Kinds, Creating, Removes, Replacing
<1>8. operations' = Append(operations, op) /\ preview' = w /\ scanned' = scanned
  <2>1. Preview(op, u) = w
    BY <1>7 DEF Preview
  <2>2. \A i \in 1 .. Len(operations) : Retargeted(operations[i], op) = op /\ ~ Merges(operations[i], op)
    BY <1>7, NoMerge
  <2> HIDE DEF op, u, w
  <2> QED
    BY <1>2, <1>3, <1>7, <2>1, <2>2, PushAlone
<1>9. /\ u \in Previews /\ u.live = preview.live \cup {q} /\ u.table = preview.table /\ u.children = preview.children
      /\ u.parts[q] = [part EXCEPT !.fs = NewFs] /\ \A p \in PartIds \ {q} : u.parts[p] = preview.parts[p]
  <2> HIDE DEF part
  <2> QED
    BY <1>3, <1>4, <1>6, NewObject
<1>10. /\ u.parts[q].role = IF parent = preview.table THEN "primary" ELSE "logical"
       /\ u.parts[q].parent = parent /\ u.parts[q].first = first /\ u.parts[q].last = last
       /\ u.parts[q].state = "Restore"
  <2> HIDE DEF u
  <2> QED
    BY <1>9
<1> HIDE DEF part, u, op, q, K, P
<1>11. Readies(scanned, operations, preview, op, u)
  BY <1>3, <1>4, <1>7, <1>9, <1>10 DEF Readies, K
<1>12. Adds(scanned, operations, preview, op, w) /\ w.parts = u.parts
  BY <1>7, <1>11, ReadyAdds
<1> HIDE DEF w
<1>13. Fits(scanned, operations, preview, w, q, {})
  <2>1. w.parts[q].role = "logical" <=> w.parts[q].parent # preview.table
    BY <1>10, <1>12
  <2> QED
    BY <1>1, <1>5, <1>10, <1>12, <2>1, FreeFits DEF P
<1>14. Good(scanned, Append(operations, op), w)
  <2>1. Source(scanned, operations, preview, op) /\ Place(scanned, operations, preview, op, w)
    BY <1>7 DEF Source, Place
  <2>2. Fits(scanned, operations, preview, w, op.part, Removes(op))
    BY <1>7, <1>13
  <2> QED
    BY <1>3, <1>7, <1>12, <2>1, <2>2, CreateGood
<1> QED
  BY <1>3, <1>8, <1>14 DEF StackInv

\* What the front end offers an operation on.
LEMMA OffersFacts ==
    ASSUME StackInv, NEW kind, NEW p, Offers(kind, p)
    PROVE  /\ p \in Visible(preview) /\ p \in Present(scanned, operations, Len(operations))
           /\ p \in Known(scanned, operations) /\ p \in PartIds
           /\ Root(preview, p) = preview.table /\ preview.parts[p] \in Partition
           /\ preview.parts[p].state \in States /\ (kind = "CopyOverFrom" => preview.parts[p].state # "New")
<1>1. p \in Visible(preview) /\ <<kind, preview.parts[p].state>> \in Offered
  BY DEF Offers, Exists, Part
<1>2. /\ p \in Present(scanned, operations, Len(operations)) /\ Root(preview, p) = preview.table
      /\ p \in Known(scanned, operations) /\ p \in PartIds /\ preview.parts[p] \in Partition
  BY <1>1, VisibleShown, TreeShown
<1>3. preview.parts[p].state \in States
  BY <1>2 DEF Partition
<1>4. kind = "CopyOverFrom" => preview.parts[p].state # "New"
  BY <1>1 DEF StackInv, CarefulFrontEnd
<1> QED
  BY <1>1, <1>2, <1>3, <1>4

\* The state of a partition tells what created it, so which operations merge.
LEMMA StateTells ==
    ASSUME StackInv, NEW p \in Known(scanned, operations)
    PROVE  /\ preview.parts[p].state = "None" =>
                  p \in scanned.live /\ \A i \in DOMAIN operations : operations[i].kind \in Creating => operations[i].part # p
           /\ \A i \in DOMAIN operations : operations[i].kind \in Creating /\ operations[i].part = p =>
                  preview.parts[p].state = operations[i].kind
           /\ preview.parts[p].state = "New" => \E i \in DOMAIN operations : operations[i].kind = "New" /\ operations[i].part = p
<1>1. "None" \notin Creating
  BY DEF Creating
<1> QED
  BY <1>1, Creators

\* A partition that is used nowhere else stands only in the operation that creates it.
LEMMA NotUsed ==
    ASSUME StackInv, NEW p, ~UsedElsewhere(p), NEW i \in DOMAIN operations, operations[i].kind \in Creating, operations[i].part = p
    PROVE  \A j \in DOMAIN operations : j # i => p \notin Uses(operations[j]) \cup Operands(operations[j])
<1> SUFFICES ASSUME NEW j \in DOMAIN operations, j # i PROVE p \notin Uses(operations[j]) \cup Operands(operations[j])
  OBVIOUS
<1> DEFINE op == operations[j]
<1>1. Fresh(scanned, operations, preview) /\ IsOp(op)
  BY TreeShown DEF Owned
<1>2. ~ (op.kind \in Creating /\ op.part = p)
  <2>1. p \in Creates(operations[i]) /\ (op.kind \in Creating /\ op.part = p => p \in Creates(op))
    BY DEF Creates
  <2> QED
    BY <1>1, <2>1 DEF Fresh
<1>3. op \in Range(operations)
  BY DEF Range
<1> HIDE DEF op
<1>4. p \notin op.jobs \cup Operands(op)
  BY <1>2, <1>3 DEF UsedElsewhere
<1>5. Uses(op) \subseteq op.jobs \cup Operands(op)
  BY <1>1 DEF Uses, Operands, IsOp
<1> QED
  BY <1>4, <1>5 DEF op

\* What takes the place of a partition fits there.
LEMMA OverFits ==
    ASSUME StackInv, NEW p, p \in Visible(preview), NEW w, NEW q,
           w.parts[q].first = preview.parts[p].first, w.parts[q].last = preview.parts[p].last,
           w.parts[q].parent = preview.parts[p].parent, w.parts[q].role = preview.parts[p].role
    PROVE  Fits(scanned, operations, preview, w, q, {p})
<1> DEFINE P == Present(scanned, operations, Len(operations))
           K == Known(scanned, operations)
           m == preview.parts[p].parent
<1>1. /\ p \in P /\ Root(preview, p) = preview.table /\ P \subseteq K
      /\ preview.parts[p].role = "logical" <=> m \in PartIds
      /\ m \in TableIds \/ (m \in P /\ preview.parts[m].role = "extended")
      /\ preview.table \in TableIds /\ Sound(preview, P) /\ K \subseteq PartIds /\ PartIds \cap TableIds = {}
  BY VisibleShown, TreeShown, StackAssumption DEF Previews
<1> HIDE DEF P, K
<1>2. m = preview.table \/ (m \in P /\ preview.parts[m].role = "extended" /\ preview.parts[m].parent = preview.table)
  BY <1>1 DEF Root
<1>3. /\ preview.parts[p].first <= preview.parts[p].last /\ Extent(preview, p) \subseteq Bounds(preview, m)
      /\ \A r \in P : r # p /\ preview.parts[r].parent = m => Extent(preview, p) \cap Extent(preview, r) = {}
  BY <1>1 DEF Sound
<1>4. Extent(w, q) = Extent(preview, p)
  BY DEF Extent
<1> QED
  BY <1>1, <1>2, <1>3, <1>4 DEF Fits, P

\* A restore over a partition that was scanned or created.
LEMMA PushRestoreOverGood ==
    ASSUME StackInv, PushRestoreOver
    PROVE  StackInv'
<1> DEFINE K == Known(scanned, operations)
           P == Present(scanned, operations, Len(operations))
           q == NewPart
<1>1. PICK p \in PartIds :
         /\ Offers("Restore", p) /\ ~IsExtended(p)
         /\ Push(RestoreOp(q, p),
                 WithPartition(RemovePreview(preview, p), q, NewFs,
                    [Part(p) EXCEPT !.state = "Restore", !.flags = {},
                                    !.role = IF Part(p).parent = preview.table THEN "primary" ELSE "logical"],
                    None))
  BY DEF PushRestoreOver
<1> DEFINE op == RestoreOp(q, p)
           v == RemovePreview(preview, p)
           x == preview.parts[p]
           part == [x EXCEPT !.state = "Restore", !.flags = {},
                             !.role = IF x.parent = preview.table THEN "primary" ELSE "logical"]
           u == WithPartition(v, q, NewFs, part, None)
           w == InsertPreview(u, q)
<1>2. IdsLeft /\ Push(op, u) /\ x.role # "extended"
  BY <1>1 DEF Push, Part, IsExtended
<1>3. /\ scanned \in Devices /\ Good(scanned, operations, preview) /\ preview \in Previews
      /\ Len(operations) \in Nat /\ DOMAIN operations = 1 .. Len(operations)
      /\ P \subseteq K /\ K \subseteq PartIds /\ K \subseteq preview.live
  BY TreeShown
<1>4. q \in PartIds \ K /\ NewFs \in FsIds
  BY <1>2, FreeIds
<1>5. /\ p \in Visible(preview) /\ p \in P /\ p \in K /\ Root(preview, p) = preview.table /\ x \in Partition
      /\ x.role = "logical" <=> x.parent \in PartIds
      /\ x.parent \in TableIds \/ x.parent \in K
      /\ p # None /\ PartIds \cap TableIds = {} /\ preview.table \in TableIds
  BY <1>1, <1>3, OffersFacts, TreeShown, StackAssumption DEF Previews
<1> HIDE DEF x
<1>6. /\ part \in Partition /\ part.first = x.first /\ part.last = x.last /\ part.parent = x.parent
      /\ part.role = x.role /\ part.state = "Restore"
  <2>1. {} \in FlagSets /\ "Restore" \in States /\ "primary" \in Roles /\ "logical" \in Roles
    BY StackAssumption DEF States, Roles
  <2>2. (IF x.parent = preview.table THEN "primary" ELSE "logical") = x.role
    <3>1. x.role \in Roles
      BY <1>5 DEF Partition
    <3>2. CASE x.parent \in TableIds
      <4>1. x.parent = preview.table
        BY <1>5, <3>2 DEF Root, x
      <4>2. x.role \notin {"logical", "extended"}
        BY <1>2, <1>5, <3>2
      <4> QED
        BY <3>1, <4>1, <4>2 DEF Roles
    <3>3. CASE x.parent \in K
      BY <1>3, <1>5, <3>3
    <3> QED
      BY <1>5, <3>2, <3>3
  <2> QED
    BY <1>5, <2>1, <2>2 DEF Partition
<1>7. /\ op.kind = "Restore" /\ op.kind # "NoOp" /\ op.part = q /\ op.kind \in Creating /\ op.over = p
      /\ IsOp(op) /\ Removes(op) = {p} /\ Replacing(op)
  BY <1>4, <1>5 DEF RestoreOp, IsOp, Kinds, Creating, Removes, Replacing
<1>8. operations' = Append(operations, op) /\ preview' = w /\ scanned' = scanned
  <2>1. Preview(op, u) = w
    BY <1>7 DEF Preview
  <2>2. \A i \in 1 .. Len(operations) : Retargeted(operations[i], op) = op /\ ~ Merges(operations[i], op)
    BY <1>7, NoMerge
  <2> HIDE DEF op, u, w
  <2> QED
    BY <1>2, <1>3, <1>7, <2>1, <2>2, PushAlone
<1>9. /\ v \in Previews /\ v.live = preview.live /\ v.parts = preview.parts /\ v.table = preview.table
      /\ \A m \in Nodes : v.children[m] = preview.children[m] \ {p}
  BY <1>3, RemovedShown
<1> HIDE DEF v, part, op
<1>10. /\ u \in Previews /\ u.live = preview.live \cup {q} /\ u.table = preview.table
       /\ \A m \in Nodes : u.children[m] = preview.children[m] \ {p}
       /\ u.parts[q] = [part EXCEPT !.fs = NewFs] /\ \A r \in PartIds \ {q} : u.parts[r] = preview.parts[r]
  BY <1>4, <1>6, <1>9, NewObject
<1> HIDE DEF u
<1>11. /\ u.parts[q].role = x.role /\ u.parts[q].parent = x.parent /\ u.parts[q].first = x.first /\ u.parts[q].last = x.last
       /\ u.parts[q].state = "Restore"
  BY <1>6, <1>10 DEF Partition
<1> HIDE DEF q, K, P
<1>12. Readies(scanned, operations, preview, op, u)
  BY <1>2, <1>3, <1>4, <1>7, <1>10, <1>11 DEF Readies, K
<1>13. Adds(scanned, operations, preview, op, w) /\ w.parts = u.parts
  BY <1>7, <1>12, ReadyAdds
<1> HIDE DEF w
<1>14. Fits(scanned, operations, preview, w, q, {p})
  BY <1>5, <1>11, <1>13, OverFits DEF x
<1>15. Good(scanned, Append(operations, op), w)
  <2>1. Source(scanned, operations, preview, op)
    BY <1>7 DEF Source
  <2>2. Place(scanned, operations, preview, op, w)
    BY <1>2, <1>5, <1>7, <1>11, <1>13 DEF Place, Extent, x, P
  <2>3. Fits(scanned, operations, preview, w, op.part, Removes(op))
    BY <1>7, <1>14
  <2> QED
    BY <1>3, <1>7, <1>13, <2>1, <2>2, <2>3, CreateGood
<1> QED
  BY <1>3, <1>8, <1>15 DEF StackInv

\* What the source of a copy was created by says what becomes of the operation.
LEMMA CopySeen ==
    ASSUME StackInv, NEW op, op.kind = "Copy", op.source \in Known(scanned, operations)
    PROVE  /\ preview.parts[op.source].state # "Copy" => \A i \in 1 .. Len(operations) : Retargeted(operations[i], op) = op
           /\ \A i \in 1 .. Len(operations) : Merges(operations[i], op) => NewCopied(operations[i], op)
           /\ preview.parts[op.source].state # "New" => \A i \in 1 .. Len(operations) : ~ Merges(operations[i], op)
<1>1. DOMAIN operations = 1 .. Len(operations)
  BY TreeShown
<1>2. \A i \in 1 .. Len(operations) : operations[i].kind \in Creating /\ operations[i].part = op.source =>
          operations[i].kind = preview.parts[op.source].state
  BY <1>1, StateTells
<1>3. ASSUME NEW i \in 1 .. Len(operations), preview.parts[op.source].state # "Copy" PROVE Retargeted(operations[i], op) = op
  BY <1>2, <1>3 DEF Retargeted, Creating
<1>4. ASSUME NEW i \in 1 .. Len(operations), Merges(operations[i], op) PROVE NewCopied(operations[i], op)
  BY <1>4 DEF Merges, NewDeleted, NewResized, NewLabeled, NewFormatted, NewChecked,
              CopyDeleted, RestoreDeleted, FlagsAgain, LabelAgain, TableAgain
<1>5. ASSUME NEW i \in 1 .. Len(operations), NewCopied(operations[i], op) PROVE preview.parts[op.source].state = "New"
  BY <1>2, <1>5 DEF NewCopied, Creating
<1> QED
  BY <1>3, <1>4, <1>5

\* A copy of a partition that is not a new one is appended; what it names as its source was
\* scanned or restored.
LEMMA CopyPushed ==
    ASSUME StackInv, NEW q, NEW o, NEW s \in Known(scanned, operations), preview.parts[s].state # "New",
           preview.parts[s].state \in States, NEW pv, Push(CopyOp(q, s, o), pv)
    PROVE  \E a \in Known(scanned, operations) :
              /\ preview.parts[a].state \in {"None", "Restore"}
              /\ operations' = Append(operations, [CopyOp(q, s, o) EXCEPT !.source = a])
              /\ preview' = Preview([CopyOp(q, s, o) EXCEPT !.source = a], pv)
              /\ scanned' = scanned
<1> DEFINE n == Len(operations)
           K == Known(scanned, operations)
           op == CopyOp(q, s, o)
           Made(a) == [op EXCEPT !.source = a]
<1>1. /\ n \in Nat /\ DOMAIN operations = 1 .. n /\ Owned(scanned, operations, preview)
      /\ \A i \in DOMAIN operations : IsOp(operations[i])
  BY TreeShown
<1>2. Fresh(scanned, operations, preview) /\ Sourced(scanned, operations, preview)
  BY <1>1 DEF Owned
<1>3. /\ op.kind = "Copy" /\ op.source = s /\ Made(s) = op
      /\ \A a : Made(a).kind = "Copy" /\ Made(a).source = a
  BY DEF CopyOp
<1> HIDE DEF op, Made
<1>4. Push(op, pv) /\ op.source \in K
  BY <1>3 DEF op
<1>5. \A i \in 1 .. n : ~ Merges(operations[i], op)
  BY <1>3, <1>4, CopySeen
<1>6. CASE preview.parts[s].state # "Copy"
  <2>1. \A i \in 1 .. n : Retargeted(operations[i], op) = op
    BY <1>3, <1>4, <1>6, CopySeen
  <2>2. operations' = Append(operations, op) /\ preview' = Preview(op, pv) /\ scanned' = scanned
    BY <1>1, <1>3, <1>4, <1>5, <2>1, PushAlone
  <2>3. preview.parts[s].state \in {"None", "Restore"}
    BY <1>6 DEF States
  <2> QED
    BY <1>3, <2>2, <2>3 DEF op, Made
<1>7. CASE preview.parts[s].state = "Copy"
  <2>1. PICK c \in 1 .. n : operations[c].kind = "Copy" /\ operations[c].part = s
    <3>1. "Copy" # "None"
      OBVIOUS
    <3> QED
      BY <1>1, <1>7, <3>1, Creators
  <2> DEFINE a == operations[c].source
             r == Made(a)
  <2>2. a \in K /\ preview.parts[a].state \in {"None", "Restore"}
    BY <1>1, <1>2, <2>1 DEF Sourced
  <2>3. \A i \in 1 .. n : operations[i].kind = "Copy" /\ operations[i].part = s => i = c
    <3>1. \A i \in 1 .. n : operations[i].kind = "Copy" /\ operations[i].part = s => s \in Creates(operations[i])
      BY DEF Creates, Creating
    <3>2. s \in Creates(operations[c])
      BY <2>1, <3>1
    <3> QED
      BY <1>1, <1>2, <3>1, <3>2 DEF Fresh
  <2>4. \A i \in 1 .. n : i # c => Retargeted(operations[i], op) = op
    BY <1>3, <2>3 DEF Retargeted
  <2>5. Retargeted(operations[c], op) = r
    BY <1>3, <2>1 DEF Retargeted, Made
  <2> HIDE DEF a, r
  <2>6. r.kind = "Copy" /\ r.source = a
    BY <1>3 DEF r
  <2>7. /\ \A i \in 1 .. n : Retargeted(operations[i], r) = r
        /\ \A i \in 1 .. n : ~ Merges(operations[i], r)
    BY <2>2, <2>6, CopySeen
  <2>8. \A i \in 1 .. c - 1 : i \in 1 .. n
    BY <1>1
  <2>9. operations' = Append(operations, r) /\ preview' = Preview(r, pv) /\ scanned' = scanned
    BY <1>1, <1>4, <1>5, <2>4, <2>5, <2>6, <2>7, <2>8, PushRetargeted
  <2> QED
    BY <2>2, <2>9 DEF r, op, Made
<1> QED
  BY <1>6, <1>7

\* A copy over a partition that was scanned or created.
LEMMA PushCopyOverGood ==
    ASSUME StackInv, PushCopyOver
    PROVE  StackInv'
<1> DEFINE K == Known(scanned, operations)
           P == Present(scanned, operations, Len(operations))
           q == NewPart
<1>1. PICK s \in PartIds, p \in PartIds :
         /\ Offers("CopyOverFrom", s) /\ Offers("Copy", p) /\ ~IsExtended(s) /\ ~IsExtended(p) /\ p # s
         /\ Push(CopyOp(q, s, p),
                 WithPartition(preview, q, NewFs, [Part(p) EXCEPT !.state = "Copy", !.flags = {}], LabelOf(preview, s)))
  BY DEF PushCopyOver
<1> DEFINE x == preview.parts[p]
           part == [x EXCEPT !.state = "Copy", !.flags = {}]
           z == WithPartition(preview, q, NewFs, part, LabelOf(preview, s))
           u == RemovePreview(z, p)
           w == InsertPreview(u, q)
<1>2. IdsLeft /\ Push(CopyOp(q, s, p), z) /\ x.role # "extended"
  BY <1>1 DEF Push, Part, IsExtended
<1>3. /\ scanned \in Devices /\ Good(scanned, operations, preview) /\ preview \in Previews
      /\ Len(operations) \in Nat /\ DOMAIN operations = 1 .. Len(operations)
      /\ P \subseteq K /\ K \subseteq PartIds /\ K \subseteq preview.live
  BY TreeShown
<1>4. q \in PartIds \ K /\ NewFs \in FsIds
  BY <1>2, FreeIds
<1>5. /\ p \in Visible(preview) /\ p \in P /\ p \in K /\ x \in Partition /\ p # None
      /\ s \in P /\ s \in K /\ Root(preview, s) = preview.table
      /\ preview.parts[s] \in Partition /\ preview.parts[s].state \in States \ {"New"}
  BY <1>1, <1>3, OffersFacts, StackAssumption
<1>6. LabelOf(preview, s) \in Labels \cup {None}
  BY <1>3, <1>5 DEF LabelOf, Previews, Partition
<1> HIDE DEF x
<1>7. /\ part \in Partition /\ part.first = x.first /\ part.last = x.last /\ part.parent = x.parent
      /\ part.role = x.role /\ part.state = "Copy"
  <2>1. {} \in FlagSets /\ "Copy" \in States
    BY StackAssumption DEF States
  <2> QED
    BY <1>5, <2>1 DEF Partition
<1> DEFINE Made(a) == [CopyOp(q, s, p) EXCEPT !.source = a]
<1>0. PICK a \in K : /\ preview.parts[a].state \in {"None", "Restore"} /\ operations' = Append(operations, Made(a))
                     /\ preview' = Preview(Made(a), z) /\ scanned' = scanned
  <2>1. /\ preview.parts[s].state # "New" /\ preview.parts[s].state \in States /\ s \in Known(scanned, operations)
        /\ Push(CopyOp(q, s, p), z)
    BY <1>2, <1>5
  <2> HIDE DEF z, q
  <2>2. \E a \in Known(scanned, operations) :
          /\ preview.parts[a].state \in {"None", "Restore"}
          /\ operations' = Append(operations, [CopyOp(q, s, p) EXCEPT !.source = a])
          /\ preview' = Preview([CopyOp(q, s, p) EXCEPT !.source = a], z)
          /\ scanned' = scanned
    BY <2>1, CopyPushed
  <2> QED
    BY <2>2
<1> DEFINE op == Made(a)
<1>8. /\ op.kind = "Copy" /\ op.kind # "NoOp" /\ op.part = q /\ op.kind \in Creating /\ op.over = p /\ op.source = a /\ op.from = s
      /\ IsOp(op) /\ Removes(op) = {p} /\ Replacing(op)
  BY <1>3, <1>4, <1>5 DEF CopyOp, IsOp, Kinds, Creating, Removes, Replacing
<1>9. operations' = Append(operations, op) /\ preview' = w /\ scanned' = scanned
  <2>1. Preview(op, z) = w
    BY <1>5, <1>8 DEF Preview
  <2> HIDE DEF z, w
  <2> QED
    BY <1>0, <2>1
<1> HIDE DEF part, op, Made
<1>10. /\ z \in Previews /\ z.live = preview.live \cup {q} /\ z.table = preview.table /\ z.children = preview.children
       /\ z.parts[q] = [part EXCEPT !.fs = NewFs] /\ \A r \in PartIds \ {q} : z.parts[r] = preview.parts[r]
  BY <1>3, <1>4, <1>6, <1>7, NewObject
<1> HIDE DEF z
<1>11. /\ u \in Previews /\ u.live = z.live /\ u.parts = z.parts /\ u.table = z.table
       /\ \A m \in Nodes : u.children[m] = preview.children[m] \ {p}
  <2>1. \A r \in Known(scanned, operations) : z.parts[r] = preview.parts[r]
    BY <1>3, <1>4, <1>10
  <2> QED
    BY <1>10, <2>1, RemovedShown
<1> HIDE DEF u
<1>12. /\ u.parts[q].role = x.role /\ u.parts[q].parent = x.parent /\ u.parts[q].first = x.first /\ u.parts[q].last = x.last
       /\ u.parts[q].state = "Copy"
  BY <1>7, <1>10, <1>11 DEF Partition
<1> HIDE DEF q, K, P
<1>13. Readies(scanned, operations, preview, op, u)
  BY <1>2, <1>3, <1>4, <1>8, <1>10, <1>11, <1>12 DEF Readies, K
<1>14. Adds(scanned, operations, preview, op, w) /\ w.parts = u.parts
  BY <1>8, <1>13, ReadyAdds
<1> HIDE DEF w
<1>15. Fits(scanned, operations, preview, w, q, {p})
  BY <1>5, <1>12, <1>14, OverFits DEF x
<1>16. Good(scanned, Append(operations, op), w)
  <2>1. Source(scanned, operations, preview, op)
    BY <1>0, <1>5, <1>8 DEF Source, P, K
  <2>2. Place(scanned, operations, preview, op, w)
    BY <1>2, <1>5, <1>8, <1>12, <1>14 DEF Place, Extent, x, P
  <2>3. Fits(scanned, operations, preview, w, op.part, Removes(op))
    BY <1>8, <1>15
  <2> QED
    BY <1>3, <1>8, <1>14, <2>1, <2>2, <2>3, CreateGood
<1> QED
  BY <1>3, <1>9, <1>16 DEF StackInv

\* The parent of a partition that is visible is the table of the device or an extended partition of it.
LEMMA ParentShown ==
    ASSUME StackInv, NEW p, p \in Visible(preview)
    PROVE  LET m == preview.parts[p].parent
           IN  /\ m = preview.table
                  \/ (/\ m \in Present(scanned, operations, Len(operations))
                      /\ preview.parts[m].role = "extended" /\ preview.parts[m].parent = preview.table)
               /\ preview.parts[p].role = "logical" <=> m # preview.table
<1> DEFINE P == Present(scanned, operations, Len(operations))
           K == Known(scanned, operations)
           m == preview.parts[p].parent
<1>1. /\ p \in P /\ Root(preview, p) = preview.table /\ P \subseteq K
      /\ preview.parts[p].role = "logical" <=> m \in PartIds
      /\ m \in TableIds \/ (m \in P /\ preview.parts[m].role = "extended")
      /\ preview.table \in TableIds /\ K \subseteq PartIds /\ PartIds \cap TableIds = {}
  BY VisibleShown, TreeShown, StackAssumption DEF Previews
<1> HIDE DEF P, K
<1>2. m = preview.table \/ (m \in P /\ preview.parts[m].role = "extended" /\ preview.parts[m].parent = preview.table)
  BY <1>1 DEF Root
<1>3. preview.parts[p].role = "logical" <=> m # preview.table
  BY <1>1, <1>2
<1> QED
  BY <1>2, <1>3 DEF P

\* A new partition instead of the one that the copied new partition would be copied to.
LEMMA CopiedNew ==
    ASSUME StackInv, IdsLeft, NEW s \in Known(scanned, operations), preview.parts[s].state = "New", s \in Visible(preview),
           NEW first \in Sectors, NEW last \in Sectors, IsFree(preview, preview.parts[s].parent, first, last, {}),
           preview.parts[s].role # "extended",
           NEW z \in Previews, z.live = preview.live \cup {NewPart}, z.table = preview.table, z.children = preview.children,
           \A r \in PartIds \ {NewPart} : z.parts[r] = preview.parts[r],
           NEW u, u = Leaked(NewInstead(z, s, first, last), NewPart)
    PROVE  Good(scanned, Append(operations, NewOp(SparePart)), InsertPreview(u, SparePart))
<1> DEFINE K == Known(scanned, operations)
           q == SparePart
           op == NewOp(q)
           w == InsertPreview(u, q)
           part == [z.parts[s] EXCEPT !.first = first, !.last = last]
           y == NewInstead(z, s, first, last)
<1>1. /\ scanned \in Devices /\ Good(scanned, operations, preview) /\ preview \in Previews
      /\ K \subseteq PartIds /\ K \subseteq preview.live
      /\ \A m \in Nodes : preview.children[m] \subseteq K
  BY TreeShown
<1>2. /\ q \in PartIds \ K /\ q # NewPart /\ SpareFs \in FsIds /\ NewPart \in PartIds \ K /\ preview.children[NewPart] = {}
  BY FreeIds
<1>3. z.parts[s] = preview.parts[s] /\ z.parts[s] \in Partition
  BY <1>1, <1>2 DEF Previews
<1>4. LabelOf(z, s) \in Labels \cup {None}
  BY <1>3 DEF LabelOf, Previews, Partition
<1>5. part \in Partition /\ part.first = first /\ part.last = last /\ part.parent = preview.parts[s].parent
      /\ part.role = preview.parts[s].role /\ part.state = "New"
  BY <1>3 DEF Partition
<1>6. y = WithPartition(z, q, SpareFs, part, LabelOf(z, s))
  BY DEF NewInstead
<1> HIDE DEF part, y
<1>7. /\ y \in Previews /\ y.live = z.live \cup {q} /\ y.table = z.table /\ y.children = z.children
      /\ y.parts[q] = [part EXCEPT !.fs = SpareFs] /\ \A r \in PartIds \ {q} : y.parts[r] = z.parts[r]
  BY <1>2, <1>4, <1>5, <1>6, NewObject
<1>8. /\ u \in Previews /\ u.live = y.live \ {NewPart} /\ u.table = y.table
      /\ \A m \in Nodes : u.children[m] = y.children[m] \ ({NewPart} \cap Below(y, m))
      /\ \A r \in PartIds \ {NewPart} : u.parts[r] = y.parts[r]
  <2>1. u = FreePartition(y, NewPart) /\ y.children[NewPart] = {} /\ NewPart \in PartIds
    BY <1>2, <1>7 DEF Leaked, y
  <2> QED
    BY <1>1, <1>7, <2>1, FreeFacts
<1>9. /\ u.parts[q].first = first /\ u.parts[q].last = last /\ u.parts[q].parent = preview.parts[s].parent
      /\ u.parts[q].role = preview.parts[s].role /\ u.parts[q].state = "New"
  BY <1>2, <1>5, <1>7, <1>8 DEF Partition
<1>10. IsOp(op) /\ op.kind = "New" /\ op.part = q /\ Removes(op) = {} /\ ~Replacing(op) /\ op.kind \in Creating
  BY <1>2 DEF NewOp, IsOp, Kinds, Creating, Removes, Replacing
<1> HIDE DEF op, q, K
<1>11. Readies(scanned, operations, preview, op, u)
  <2>1. \A m \in Nodes : u.children[m] = preview.children[m]
    <3>1. y.children = preview.children /\ \A m \in Nodes : NewPart \notin preview.children[m]
      BY <1>1, <1>2, <1>7
    <3> SUFFICES ASSUME NEW m \in Nodes PROVE u.children[m] = preview.children[m]
      OBVIOUS
    <3> DEFINE c == preview.children[m]
               b == Below(y, m)
    <3>2. u.children[m] = c \ ({NewPart} \cap b) /\ NewPart \notin c
      BY <1>8, <3>1
    <3> HIDE DEF c, b
    <3>3. c \ ({NewPart} \cap b) = c
      BY <3>2
    <3> QED
      BY <3>2, <3>3 DEF c
  <2>2. \A r \in K : u.parts[r] = preview.parts[r]
    BY <1>1, <1>2, <1>7, <1>8
  <2> QED
    BY <1>1, <1>2, <1>7, <1>8, <1>9, <1>10, <2>1, <2>2 DEF Readies, K
<1>12. Adds(scanned, operations, preview, op, w) /\ w.parts = u.parts
  BY <1>10, <1>11, ReadyAdds
<1> HIDE DEF w
<1>13. Fits(scanned, operations, preview, w, q, {})
  <2>1. /\ preview.parts[s].parent = preview.table
           \/ (/\ preview.parts[s].parent \in Present(scanned, operations, Len(operations))
               /\ preview.parts[preview.parts[s].parent].role = "extended"
               /\ preview.parts[preview.parts[s].parent].parent = preview.table)
        /\ preview.parts[s].role = "logical" <=> preview.parts[s].parent # preview.table
    BY ParentShown
  <2> QED
    BY <1>9, <1>12, <2>1, FreeFits
<1>14. Good(scanned, Append(operations, op), w)
  <2>1. Source(scanned, operations, preview, op) /\ Place(scanned, operations, preview, op, w)
    BY <1>10 DEF Source, Place
  <2>2. Fits(scanned, operations, preview, w, op.part, Removes(op))
    BY <1>10, <1>13
  <2> QED
    BY <1>1, <1>10, <1>12, <2>1, <2>2, CreateGood
<1> QED
  BY <1>14 DEF op, w, q

\* A copy to unallocated space; the copy of a new partition becomes a new partition itself.
LEMMA PushCopyToFreeGood ==
    ASSUME StackInv, PushCopyToFree
    PROVE  StackInv'
<1> DEFINE K == Known(scanned, operations)
           P == Present(scanned, operations, Len(operations))
           q == NewPart
<1>1. PICK s \in PartIds, first \in Sectors, last \in Sectors :
         /\ Offers("CopyFrom", s) /\ ~IsExtended(s)
         /\ IsFree(preview, Part(s).parent, first, last, {})
         /\ Push(CopyOp(q, s, None),
                 WithPartition(preview, q, NewFs,
                    [Part(s) EXCEPT !.first = first, !.last = last, !.state = "Copy", !.flags = {}], LabelOf(preview, s)))
  BY DEF PushCopyToFree
<1> DEFINE op == CopyOp(q, s, None)
           x == preview.parts[s]
           part == [x EXCEPT !.first = first, !.last = last, !.state = "Copy", !.flags = {}]
           u == WithPartition(preview, q, NewFs, part, LabelOf(preview, s))
           w == InsertPreview(u, q)
<1>2. IdsLeft /\ Push(op, u) /\ x.role # "extended" /\ IsFree(preview, x.parent, first, last, {})
  BY <1>1 DEF Push, Part, IsExtended
<1>3. /\ scanned \in Devices /\ Good(scanned, operations, preview) /\ preview \in Previews
      /\ Len(operations) \in Nat /\ DOMAIN operations = 1 .. Len(operations)
      /\ P \subseteq K /\ K \subseteq PartIds /\ K \subseteq preview.live
  BY TreeShown
<1>4. q \in PartIds \ K /\ NewFs \in FsIds
  BY <1>2, FreeIds
<1>5. /\ s \in Visible(preview) /\ s \in P /\ s \in K /\ x \in Partition /\ x.state \in States
      /\ Root(preview, s) = preview.table
  BY <1>1, OffersFacts
<1>6. LabelOf(preview, s) \in Labels \cup {None}
  BY <1>3, <1>5 DEF LabelOf, Previews, Partition
<1>7. /\ x.parent = preview.table \/ (x.parent \in P /\ preview.parts[x.parent].role = "extended" /\ preview.parts[x.parent].parent = preview.table)
      /\ x.role = "logical" <=> x.parent # preview.table
  BY <1>5, ParentShown
<1> HIDE DEF x
<1>8. /\ part \in Partition /\ part.first = first /\ part.last = last /\ part.parent = x.parent
      /\ part.role = x.role /\ part.state = "Copy"
  <2>1. {} \in FlagSets /\ "Copy" \in States
    BY StackAssumption DEF States
  <2> QED
    BY <1>5, <2>1 DEF Partition
<1>9. /\ op.kind = "Copy" /\ op.kind # "NoOp" /\ op.part = q /\ op.kind \in Creating /\ op.over = None /\ op.source = s
      /\ IsOp(op) /\ Removes(op) = {} /\ ~Replacing(op)
  BY <1>4, <1>5 DEF CopyOp, IsOp, Kinds, Creating, Removes, Replacing
<1>10. /\ u \in Previews /\ u.live = preview.live \cup {q} /\ u.table = preview.table /\ u.children = preview.children
       /\ u.parts[q] = [part EXCEPT !.fs = NewFs] /\ \A r \in PartIds \ {q} : u.parts[r] = preview.parts[r]
  <2> HIDE DEF part
  <2> QED
    BY <1>3, <1>4, <1>6, <1>8, NewObject
<1> HIDE DEF part, op, u, K, P
<1>11. /\ u.parts[q].role = x.role /\ u.parts[q].parent = x.parent /\ u.parts[q].first = first /\ u.parts[q].last = last
       /\ u.parts[q].state = "Copy"
  BY <1>8, <1>10 DEF Partition
<1>13. CASE x.state # "New"
  <2> DEFINE Made(a) == [CopyOp(q, s, None) EXCEPT !.source = a]
  <2>1. PICK a \in K : /\ preview.parts[a].state \in {"None", "Restore"} /\ operations' = Append(operations, Made(a))
                       /\ preview' = Preview(Made(a), u) /\ scanned' = scanned
    BY <1>2, <1>5, <1>13, CopyPushed DEF x, K, op
  <2> DEFINE o == Made(a)
  <2>2. /\ o.kind = "Copy" /\ o.part = q /\ o.kind \in Creating /\ o.over = None /\ o.source = a /\ o.from = s
        /\ IsOp(o) /\ Removes(o) = {} /\ ~Replacing(o)
    BY <1>3, <1>4, <1>5 DEF CopyOp, IsOp, Kinds, Creating, Removes, Replacing
  <2>3. Preview(o, u) = w
    BY <2>2 DEF Preview
  <2>4. operations' = Append(operations, o) /\ preview' = w /\ scanned' = scanned
    <3> HIDE DEF w
    <3> QED
      BY <2>1, <2>3
  <2> HIDE DEF o, Made
  <2>5. Readies(scanned, operations, preview, o, u)
    BY <1>2, <1>3, <1>4, <1>10, <1>11, <2>2 DEF Readies, K
  <2>6. Adds(scanned, operations, preview, o, w) /\ w.parts = u.parts
    BY <2>2, <2>5, ReadyAdds
  <2> HIDE DEF w
  <2>7. Fits(scanned, operations, preview, w, q, {})
    BY <1>2, <1>7, <1>11, <2>6, FreeFits DEF P
  <2>8. Good(scanned, Append(operations, o), w)
    <3>1. Source(scanned, operations, preview, o) /\ Place(scanned, operations, preview, o, w)
      BY <1>5, <2>1, <2>2 DEF Source, Place, P, K
    <3>2. Fits(scanned, operations, preview, w, o.part, Removes(o))
      BY <2>2, <2>7
    <3> QED
      BY <1>3, <2>2, <2>6, <3>1, <3>2, CreateGood
  <2> QED
    BY <1>3, <2>4, <2>8 DEF StackInv
<1>12. ASSUME x.state = "New"
       PROVE  /\ \A i \in 1 .. Len(operations) : Retargeted(operations[i], op) = op
              /\ \A i \in 1 .. Len(operations) : Merges(operations[i], op) => NewCopied(operations[i], op)
              /\ \E i \in 1 .. Len(operations) : Merges(operations[i], op)
  <2>1. \E i \in DOMAIN operations : operations[i].kind = "New" /\ operations[i].part = s
    BY <1>5, <1>12, StateTells DEF x, K
  <2>2. \E i \in DOMAIN operations : Merges(operations[i], op)
    BY <1>9, <2>1 DEF Merges, NewCopied
  <2> QED
    BY <1>3, <1>5, <1>9, <1>12, <2>2, CopySeen DEF x, K
<1>14. CASE x.state = "New"
  <2>1. PICK i \in 1 .. Len(operations) :
           /\ Merges(operations[i], op)
           /\ operations' = IF Merged(i, op, u).pushed = NoOp THEN Merged(i, op, u).operations
                            ELSE Append(Merged(i, op, u).operations, Merged(i, op, u).pushed)
           /\ preview' = Preview(Merged(i, op, u).pushed, Merged(i, op, u).preview)
           /\ scanned' = scanned
    BY <1>2, <1>3, <1>12, <1>14, PushMerged
  <2>0. \A k \in 1 .. Len(operations) : Merges(operations[k], op) => NewCopied(operations[k], op)
    BY <1>12, <1>14
  <2>2. NewCopied(operations[i], op)
    <3> HIDE DEF op
    <3> QED
      BY <2>0, <2>1
  <2> DEFINE v == Leaked(NewInstead(u, s, first, last), q)
             o == NewOp(SparePart)
  <2>3. Merged(i, op, u) = Outcome(operations, v, o)
    <3>1. v = Leaked(NewInstead(u, op.source, u.parts[op.part].first, u.parts[op.part].last), op.part)
      BY <1>9, <1>11
    <3> HIDE DEF v, o
    <3>2. Merged(i, op, u) = Outcome(operations, Leaked(NewInstead(u, op.source, u.parts[op.part].first, u.parts[op.part].last), op.part),
                                     NewOp(SparePart))
      <4>1. MergesTo(i, op, u)
        BY MergedCases
      <4> QED
        BY <2>2, <4>1 DEF MergesTo
    <3> QED
      BY <3>1, <3>2 DEF o
  <2>4. Merged(i, op, u).operations = operations /\ Merged(i, op, u).preview = v /\ Merged(i, op, u).pushed = o
    BY <2>3 DEF Outcome
  <2>5. o # NoOp /\ Preview(o, v) = InsertPreview(v, SparePart)
    BY DEF NewOp, NoOp, Preview
  <2>7. Good(scanned, Append(operations, o), InsertPreview(v, SparePart))
    <3> HIDE DEF o
    <3> QED
      BY <1>2, <1>5, <1>10, <1>14, CopiedNew DEF x, K, q, o
  <2> HIDE DEF v, o
  <2> QED
    BY <1>3, <2>1, <2>4, <2>5, <2>7 DEF StackInv
<1> QED
  BY <1>13, <1>14

--------------------------------------------------------------------------------
(* Operations that create no partition.                                    *)

\* w is what such an operation makes of pv.
Changes(sc, ops, pv, op, w) ==
    /\ op.kind \notin Creating
    /\ w \in Previews /\ Known(sc, ops) \subseteq w.live
    /\ op.kind # "Table" =>
           /\ op.part \in Present(sc, ops, Len(ops)) /\ Root(pv, op.part) = pv.table /\ w.table = pv.table
    /\ op.kind = "Table" =>
           /\ op.old = pv.table /\ op.new = w.table /\ op.new # sc.table
           /\ \A i \in DOMAIN ops : ops[i].kind = "Table" => ops[i].new # op.new
    /\ op.kind = "Delete" => pv.children[op.part] = {}
    /\ op.kind = "Backup" => op.part \in sc.live
    /\ \A m \in Nodes : w.children[m] = pv.children[m] \ Removes(op)
    /\ \A p \in Known(sc, ops) : Alters(op, p, pv.parts[p], w.parts[p])

\* Such an operation is appended.
LEMMA ChangeGood ==
    ASSUME NEW sc \in Devices, NEW ops, NEW pv, Good(sc, ops, pv), NEW op, NEW w, IsOp(op), Changes(sc, ops, pv, op, w),
           op.kind = "Resize" => Sound(w, Present(sc, ops, Len(ops)))
    PROVE  Good(sc, Append(ops, op), w)
<1> DEFINE n == Len(ops)
           K == Known(sc, ops)
           P == Present(sc, ops, n)
           v == Prepared(pv, op, w)
<1>1. Owned(sc, ops, pv) /\ Typed(sc, ops, pv)
  BY DEF Good, Owned
<1>2. /\ n \in Nat /\ P \subseteq K /\ K \subseteq PartIds /\ Nodes = TableIds \cup PartIds /\ PartIds \cap TableIds = {}
      /\ pv.parts \in [PartIds -> Partition]
  BY <1>1, GoodTypes
<1>3. \A p \in K : pv.parts[p].parent \in TableIds \/ pv.parts[p].parent \in K
  BY <1>1, KnownParents
<1>4. Sound(pv, P)
  <2>1. PICK l : Layered(sc, ops, pv, l)
    BY DEF Good
  <2> DEFINE z == l[n]
  <2>2. Sound(z, P) /\ \A p \in K : z.parts[p] = pv.parts[p]
    BY <1>2, <2>1 DEF Layered, Ends
  <2> HIDE DEF z, K, P
  <2> QED
    BY <1>2, <1>3, <2>2, SoundSame
<1>5. /\ Creates(op) = {} /\ ~Replacing(op)
      /\ Uses(op) = IF op.kind = "Table" THEN {} ELSE {op.part}
      /\ Removes(op) = IF op.kind = "Delete" THEN {op.part} ELSE {}
  BY DEF Changes, Creating, Creates, Uses, Removes, Replacing
<1>6. v.table = pv.table /\ \A p \in PartIds : v.parts[p] = pv.parts[p]
  BY <1>5 DEF Prepared
<1>7. /\ op.kind # "Table" =>
             /\ op.part \in P /\ Root(pv, op.part) = pv.table /\ w.table = pv.table
      /\ op.kind = "Table" => op.old = pv.table /\ op.new = w.table
      /\ op.kind = "Delete" => pv.children[op.part] = {}
      /\ \A p \in K : Alters(op, p, pv.parts[p], w.parts[p])
  BY DEF Changes
<1> HIDE DEF n, K, P, v
<1>8. op.kind # "Table" => Root(v, op.part) = v.table
  BY <1>2, <1>3, <1>6, <1>7 DEF Root
<1>9. Leads(K, op, v, w)
  BY <1>2, <1>5, <1>6, <1>7, <1>8 DEF Leads
<1>10. Sound(w, P \ Removes(op))
  <2>1. CASE op.kind = "Resize"
    <3>1. Removes(op) = {} /\ Sound(w, P)
      BY <1>5, <2>1 DEF P, n
    <3> QED
      BY <3>1 DEF Sound
  <2>2. CASE op.kind # "Resize"
    <3>1. ASSUME NEW p \in K
          PROVE  w.parts[p].first = pv.parts[p].first /\ w.parts[p].last = pv.parts[p].last /\ w.parts[p].parent = pv.parts[p].parent
      <4> DEFINE x == pv.parts[p]
                 y == w.parts[p]
      <4>1. Alters(op, p, x, y) /\ x \in Partition
        BY <1>2, <1>7, <3>1
      <4> HIDE DEF x, y
      <4>2. y.first = x.first /\ y.last = x.last /\ y.parent = x.parent
        BY <2>2, <4>1 DEF Alters, Partition
      <4> QED
        BY <4>2 DEF x, y
    <3> DEFINE Q == P \ Removes(op)
    <3>2. Q \subseteq P /\ Q \subseteq K
      BY <1>2
    <3> HIDE DEF Q
    <3>3. \A p \in Q : LET m == pv.parts[p].parent
                       IN  /\ w.parts[p].first = pv.parts[p].first /\ w.parts[p].last = pv.parts[p].last
                           /\ w.parts[p].parent = m
                           /\ m \in TableIds \/ (w.parts[m].first = pv.parts[m].first /\ w.parts[m].last = pv.parts[m].last)
      BY <1>3, <3>1, <3>2
    <3>4. Sound(w, Q)
      BY <1>4, <3>2, <3>3, SoundSame
    <3> QED
      BY <3>4 DEF Q
  <2> QED
    BY <2>1, <2>2
<1>11. Becomes(sc, ops, pv, op, w)
  <2>1. K \cup Creates(op) = K /\ (P \ Removes(op)) \cup Creates(op) = P \ Removes(op)
    BY <1>5
  <2>2. \A m \in Nodes : w.children[m] = (pv.children[m] \ Removes(op)) \cup (Creates(op) \cap Below(w, m))
    BY <1>5 DEF Changes
  <2>3. w \in Previews /\ K \subseteq w.live
    BY DEF Changes, K
  <2> QED
    BY <1>9, <1>10, <2>1, <2>2, <2>3 DEF Becomes, K, P, v, n
<1>12. Pushable(sc, ops, pv, op, w)
  <2>1. (Uses(op) \ Creates(op)) \cup Removes(op) \subseteq P
    BY <1>5, <1>7
  <2>3. \A p \in Removes(op) : pv.children[p] = {}
    BY <1>5, <1>7
  <2>4. op.kind \notin {"Copy", "Restore"} /\ (op.kind = "Backup" => op.part \in sc.live)
        /\ (op.kind = "Table" => op.new # sc.table /\ \A i \in DOMAIN ops : ops[i].kind = "Table" => ops[i].new # op.new)
    BY DEF Changes, Creating
  <2> QED
    BY <1>5, <2>1, <2>3, <2>4 DEF Pushable, P, n
<1> QED
  BY <1>11, <1>12, AppendGood

\* A range that a partition is resized to lies apart from the others.
LEMMA ResizeSound ==
    ASSUME StackInv, NEW p, p \in Visible(preview), NEW first \in Sectors, NEW last \in Sectors,
           IsFree(preview, preview.parts[p].parent, first, last, {p}),
           \A q \in preview.children[p] : Extent(preview, q) \subseteq first .. last
    PROVE  Sound(SetSectors(preview, p, first, last), Present(scanned, operations, Len(operations)))
<1> DEFINE P == Present(scanned, operations, Len(operations))
           K == Known(scanned, operations)
           w == SetSectors(preview, p, first, last)
           m == preview.parts[p].parent
<1>1. /\ p \in P /\ P \subseteq K /\ K \subseteq PartIds /\ PartIds \cap TableIds = {} /\ preview \in Previews
      /\ preview.parts[p].role = "logical" <=> m \in PartIds
      /\ m \in TableIds \/ (m \in P /\ preview.parts[m].role = "extended")
      /\ \A q \in P : preview.parts[q].parent \in TableIds \/ preview.parts[q].parent \in P
      /\ \A k \in Nodes : preview.children[k] = P \cap Below(preview, k)
      /\ Sound(preview, P) /\ Nodes = TableIds \cup PartIds
  BY VisibleShown, TreeShown, StackAssumption DEF Nodes
<1>2. preview.parts \in [PartIds -> Partition]
  BY <1>1 DEF Previews
<1> HIDE DEF P, K
<1>3. m # p
  BY <1>1
<1>4. /\ w.parts[p].first = first /\ w.parts[p].last = last /\ w.parts[p].parent = m
      /\ \A q \in PartIds \ {p} : w.parts[q] = preview.parts[q]
  BY <1>1, <1>2 DEF SetSectors, Previews, Partition
<1> HIDE DEF w
<1>5. Extent(w, p) = first .. last /\ \A q \in P \ {p} : Extent(w, q) = Extent(preview, q) /\ w.parts[q].parent = preview.parts[q].parent
  BY <1>1, <1>4 DEF Extent
<1>6. /\ first <= last /\ first .. last \subseteq Bounds(preview, m)
      /\ \A q \in preview.children[m] \ {p} : (first .. last) \cap Extent(preview, q) = {}
  BY DEF IsFree
<1>7. \A q \in P : preview.parts[q].parent = m => q \in preview.children[m]
  BY <1>1 DEF Below
<1>8. \A q \in P : preview.parts[q].parent = p => Extent(preview, q) \subseteq first .. last
  BY <1>1 DEF Below
<1>9. ASSUME NEW q \in P
      PROVE  /\ w.parts[q].first <= w.parts[q].last
             /\ Extent(w, q) \subseteq Bounds(w, w.parts[q].parent)
  <2>1. CASE q = p
    <3>1. Bounds(w, m) = Bounds(preview, m)
      BY <1>1, <1>3, <1>4 DEF Bounds
    <3> QED
      BY <1>4, <1>5, <1>6, <2>1, <3>1
  <2>2. CASE q # p
    <3> DEFINE k == preview.parts[q].parent
    <3>1. q \in P \ {p} /\ q \in PartIds \ {p} /\ w.parts[q] = preview.parts[q] /\ (k \in TableIds \/ k \in P)
      BY <1>1, <1>4, <2>2
    <3>2. preview.parts[q].first <= preview.parts[q].last /\ Extent(preview, q) \subseteq Bounds(preview, k)
      BY <1>1 DEF Sound
    <3>3. CASE k = p
      BY <1>1, <1>4, <1>5, <1>8, <3>1, <3>2, <3>3 DEF Bounds
    <3>4. CASE k # p
      <4>1. Bounds(w, k) = Bounds(preview, k)
        BY <1>1, <1>4, <3>1, <3>4 DEF Bounds
      <4> QED
        BY <1>5, <3>1, <3>2, <4>1
    <3> QED
      BY <3>3, <3>4
  <2> QED
    BY <2>1, <2>2
<1>10. ASSUME NEW q \in P, NEW r \in P, r # q, w.parts[r].parent = w.parts[q].parent
       PROVE  Extent(w, q) \cap Extent(w, r) = {}
  <2>1. CASE q = p
    <3>1. r \in P \ {p} /\ preview.parts[r].parent = m
      BY <1>4, <1>5, <1>10, <2>1
    <3> QED
      BY <1>5, <1>6, <1>7, <2>1, <3>1
  <2>2. CASE r = p
    <3>1. q \in P \ {p} /\ preview.parts[q].parent = m
      BY <1>4, <1>5, <1>10, <2>2
    <3>2. Extent(w, r) \cap Extent(w, q) = {}
      BY <1>5, <1>6, <1>7, <2>2, <3>1
    <3> QED
      BY <3>2
  <2>3. CASE q # p /\ r # p
    <3>1. Extent(preview, q) \cap Extent(preview, r) = {}
      BY <1>1, <1>5, <1>10, <2>3 DEF Sound
    <3> QED
      BY <1>5, <2>3, <3>1
  <2> QED
    BY <2>1, <2>2, <2>3
<1>11. Sound(w, P)
  BY <1>9, <1>10 DEF Sound
<1> QED
  BY <1>11 DEF w, P

--------------------------------------------------------------------------------
(* What is pushed changes or deletes a partition, or the table.            *)

\* The operation op can be pushed on ops, where the preview is pv.
Applicable(sc, ops, pv, op) ==
    /\ op.kind \notin Creating
    /\ op.kind # "Table" =>
           /\ op.part \in Present(sc, ops, Len(ops)) /\ Root(pv, op.part) = pv.table
    /\ op.kind = "Table" =>
           /\ op.old = pv.table /\ op.new # sc.table
           /\ \A i \in DOMAIN ops : ops[i].kind = "Table" => ops[i].new # op.new
    /\ op.kind = "Delete" => pv.children[op.part] = {}
    /\ op.kind = "Backup" => op.part \in sc.live
    /\ op.kind = "Resize" => pv.parts[op.part].first = op.oldFirst /\ pv.parts[op.part].last = op.oldLast
    /\ op.kind = "Flags" => pv.parts[op.part].flags = op.old
    /\ op.kind = "Format" => pv.parts[op.part].fs = op.old

\* The content of one partition of the preview is changed.
WithContent(pv, p, x) == [pv EXCEPT !.parts[p] = x]

\* That changes nothing else in the preview.
LEMMA ContentChanged ==
    ASSUME NEW pv \in Previews, NEW p \in PartIds, NEW x \in Partition, NEW w, w = WithContent(pv, p, x)
    PROVE  /\ w \in Previews /\ w.live = pv.live /\ w.table = pv.table /\ w.children = pv.children
           /\ w.parts[p] = x /\ \A q \in PartIds \ {p} : w.parts[q] = pv.parts[q]
<1> DEFINE parts == [pv.parts EXCEPT ![p] = x]
<1>1. pv.parts \in [PartIds -> Partition]
  BY DEF Previews
<1>2. parts \in [PartIds -> Partition] /\ parts[p] = x /\ \A q \in PartIds \ {p} : parts[q] = pv.parts[q]
  BY <1>1
<1>3. w = [pv EXCEPT !.parts = parts]
  BY DEF Previews, WithContent
<1> HIDE DEF parts
<1>4. /\ [pv EXCEPT !.parts = parts] \in Previews /\ [pv EXCEPT !.parts = parts].live = pv.live
      /\ [pv EXCEPT !.parts = parts].table = pv.table /\ [pv EXCEPT !.parts = parts].children = pv.children
      /\ [pv EXCEPT !.parts = parts].parts = parts
  BY <1>2 DEF Previews
<1> QED
  BY <1>2, <1>3, <1>4

\* preview() of an operation that creates nothing is what its level says.
LEMMA ApplicableChanges ==
    ASSUME NEW sc \in Devices, NEW ops, NEW pv, Owned(sc, ops, pv), NEW op, IsOp(op), Applicable(sc, ops, pv, op)
    PROVE  Changes(sc, ops, pv, op, Preview(op, pv))
<1> DEFINE K == Known(sc, ops)
           p == op.part
           w == Preview(op, pv)
           Result == /\ w \in Previews /\ w.live = pv.live
                     /\ w.table = IF op.kind = "Table" THEN op.new ELSE pv.table
                     /\ \A m \in Nodes : w.children[m] = pv.children[m] \ Removes(op)
                     /\ \A q \in K : Alters(op, q, pv.parts[q], w.parts[q])
<1>1. Typed(sc, ops, pv) /\ Shows(sc, ops, pv)
  BY DEF Owned
<1>2. K \subseteq PartIds /\ \A k : Present(sc, ops, k) \subseteq K
  BY <1>1, GoodTypes
<1>3. pv \in Previews /\ K \subseteq pv.live
  BY <1>1 DEF Typed
<1>4. op.kind \in Kinds \ Creating /\ (op.kind # "Table" => p \in K /\ p \in PartIds)
  BY <1>2 DEF Applicable, IsOp
<1>5. op.kind # "Delete" => Removes(op) = {}
  BY <1>4 DEF Removes, Replacing, Creating
<1> HIDE DEF K, p
<1>6. ASSUME op.kind = "Delete" PROVE Result
  <2>1. w = RemovePreview(pv, p) /\ Removes(op) = {p}
    BY <1>6 DEF Preview, Removes, p
  <2> HIDE DEF w
  <2>2. /\ w \in Previews /\ w.live = pv.live /\ w.parts = pv.parts /\ w.table = pv.table
        /\ \A m \in Nodes : w.children[m] = pv.children[m] \ ({p} \cap Below(pv, m))
    BY <1>3, <1>4, <1>6, <2>1, TreeFacts
  <2>3. \A m \in Nodes : pv.children[m] \subseteq Below(pv, m)
    BY <1>1 DEF Shows
  <2>4. \A m \in Nodes : w.children[m] = pv.children[m] \ {p}
    <3> SUFFICES ASSUME NEW m \in Nodes PROVE w.children[m] = pv.children[m] \ {p}
      OBVIOUS
    <3> DEFINE c == pv.children[m]
               b == Below(pv, m)
    <3>1. w.children[m] = c \ ({p} \cap b) /\ c \subseteq b
      BY <2>2, <2>3
    <3> HIDE DEF c, b
    <3> QED
      BY <3>1 DEF c
  <2>5. \A q \in K : Alters(op, q, pv.parts[q], w.parts[q])
    BY <1>6, <2>2 DEF Alters
  <2> QED
    BY <1>6, <2>1, <2>2, <2>4, <2>5
<1>7. ASSUME op.kind = "Resize" PROVE Result
  <2>1. w = SetSectors(pv, p, op.newFirst, op.newLast) /\ op.newFirst \in Sectors /\ op.newLast \in Sectors
        /\ pv.parts[p].first = op.oldFirst /\ pv.parts[p].last = op.oldLast
    BY <1>7 DEF Preview, IsOp, Applicable, p
  <2> DEFINE x == [pv.parts[p] EXCEPT !.first = op.newFirst, !.last = op.newLast]
  <2>0. x \in Partition /\ w = WithContent(pv, p, x)
    <3>1. pv.parts[p] \in Partition /\ pv.parts \in [PartIds -> Partition]
      BY <1>3, <1>4, <1>7 DEF Previews
    <3>2. x \in Partition
      BY <2>1, <3>1 DEF Partition
    <3>3. w = WithContent(pv, p, x)
      BY <1>3, <1>4, <1>7, <2>1, <3>1 DEF Previews, Partition, WithContent, SetSectors
    <3> QED
      BY <3>2, <3>3
  <2> HIDE DEF w, x
  <2>2. /\ w \in Previews /\ w.live = pv.live /\ w.table = pv.table /\ w.children = pv.children
        /\ w.parts[p] = x /\ \A q \in PartIds \ {p} : w.parts[q] = pv.parts[q]
    <3>1. pv \in Previews /\ p \in PartIds
      BY <1>3, <1>4, <1>7
    <3> QED
      BY ONLY <2>0, <3>1, ContentChanged
  <2>3. \A q \in K : Alters(op, q, pv.parts[q], w.parts[q])
    BY <1>2, <1>7, <2>1, <2>2 DEF Alters, p, K, x
  <2> QED
    BY <1>5, <1>7, <2>2, <2>3
<1>8. ASSUME op.kind = "Flags" PROVE Result
  <2>1. w = [pv EXCEPT !.parts[p].flags = op.new] /\ op.new \in FlagSets /\ pv.parts[p].flags = op.old
    BY <1>8 DEF Preview, IsOp, Applicable, p
  <2> DEFINE x == [pv.parts[p] EXCEPT !.flags = op.new]
  <2>0. x \in Partition /\ w = WithContent(pv, p, x)
    <3>1. pv.parts[p] \in Partition /\ pv.parts \in [PartIds -> Partition]
      BY <1>3, <1>4, <1>8 DEF Previews
    <3>2. x \in Partition
      BY <2>1, <3>1 DEF Partition
    <3>3. w = WithContent(pv, p, x)
      BY <1>3, <1>4, <1>8, <2>1, <3>1 DEF Previews, Partition, WithContent
    <3> QED
      BY <3>2, <3>3
  <2> HIDE DEF w, x
  <2>2. /\ w \in Previews /\ w.live = pv.live /\ w.table = pv.table /\ w.children = pv.children
        /\ w.parts[p] = x /\ \A q \in PartIds \ {p} : w.parts[q] = pv.parts[q]
    <3>1. pv \in Previews /\ p \in PartIds
      BY <1>3, <1>4, <1>8
    <3> QED
      BY ONLY <2>0, <3>1, ContentChanged
  <2>3. \A q \in K : Alters(op, q, pv.parts[q], w.parts[q])
    BY <1>2, <1>8, <2>1, <2>2 DEF Alters, p, K, x
  <2> QED
    BY <1>5, <1>8, <2>2, <2>3
<1>9. ASSUME op.kind = "Format" PROVE Result
  <2>1. w = [pv EXCEPT !.parts[p].fs = op.new] /\ op.new \in FsIds /\ pv.parts[p].fs = op.old
    BY <1>9 DEF Preview, IsOp, Applicable, p
  <2> DEFINE x == [pv.parts[p] EXCEPT !.fs = op.new]
  <2>0. x \in Partition /\ w = WithContent(pv, p, x)
    <3>1. pv.parts[p] \in Partition /\ pv.parts \in [PartIds -> Partition]
      BY <1>3, <1>4, <1>9 DEF Previews
    <3>2. x \in Partition
      BY <2>1, <3>1 DEF Partition
    <3>3. w = WithContent(pv, p, x)
      BY <1>3, <1>4, <1>9, <2>1, <3>1 DEF Previews, Partition, WithContent
    <3> QED
      BY <3>2, <3>3
  <2> HIDE DEF w, x
  <2>2. /\ w \in Previews /\ w.live = pv.live /\ w.table = pv.table /\ w.children = pv.children
        /\ w.parts[p] = x /\ \A q \in PartIds \ {p} : w.parts[q] = pv.parts[q]
    <3>1. pv \in Previews /\ p \in PartIds
      BY <1>3, <1>4, <1>9
    <3> QED
      BY ONLY <2>0, <3>1, ContentChanged
  <2>3. \A q \in K : Alters(op, q, pv.parts[q], w.parts[q])
    BY <1>2, <1>9, <2>1, <2>2 DEF Alters, p, K, x
  <2> QED
    BY <1>5, <1>9, <2>2, <2>3
<1>10. ASSUME op.kind = "Label" PROVE Result
  <2>1. w = [pv EXCEPT !.labels[pv.parts[p].fs] = op.new] /\ op.new \in Labels \cup {None}
    BY <1>10 DEF Preview, IsOp, p
  <2> HIDE DEF w
  <2>2. w \in Previews /\ w.live = pv.live /\ w.table = pv.table /\ w.children = pv.children /\ w.parts = pv.parts
    BY <1>3, <2>1 DEF Previews
  <2>3. \A q \in K : Alters(op, q, pv.parts[q], w.parts[q])
    BY <1>10, <2>2 DEF Alters
  <2> QED
    BY <1>5, <1>10, <2>2, <2>3
<1>11. ASSUME op.kind = "Table" PROVE Result
  <2>1. w = [pv EXCEPT !.table = op.new] /\ op.new \in TableIds
    BY <1>11 DEF Preview, IsOp
  <2> HIDE DEF w
  <2>2. w \in Previews /\ w.live = pv.live /\ w.table = op.new /\ w.children = pv.children /\ w.parts = pv.parts
    BY <1>3, <2>1 DEF Previews
  <2>3. \A q \in K : Alters(op, q, pv.parts[q], w.parts[q])
    BY <1>11, <2>2 DEF Alters
  <2> QED
    BY <1>5, <1>11, <2>2, <2>3
<1>12. ASSUME op.kind \in {"Check", "Backup"} PROVE Result
  <2>1. w = pv
    BY <1>12 DEF Preview, Creating
  <2> HIDE DEF w
  <2>3. \A q \in K : Alters(op, q, pv.parts[q], w.parts[q])
    BY <1>12, <2>1 DEF Alters
  <2> QED
    BY <1>3, <1>5, <1>12, <2>1, <2>3
<1>13. Result
  BY <1>4, <1>6, <1>7, <1>8, <1>9, <1>10, <1>11, <1>12 DEF Kinds
<1> HIDE DEF w
<1> QED
  BY <1>3, <1>13 DEF Applicable, Changes, w, K, p

\* Such an operation is appended.
LEMMA ApplicableGood ==
    ASSUME NEW sc \in Devices, NEW ops, NEW pv, Good(sc, ops, pv), NEW op, IsOp(op), Applicable(sc, ops, pv, op),
           op.kind # "Resize"
    PROVE  Good(sc, Append(ops, op), Preview(op, pv))
<1>1. Owned(sc, ops, pv)
  BY DEF Good
<1>2. Changes(sc, ops, pv, op, Preview(op, pv))
  BY <1>1, ApplicableChanges
<1> QED
  BY <1>2, ChangeGood

\* What a push that copies nothing does.
Alone(op, pv) ==
    /\ \A i \in DOMAIN operations : ~ Merges(operations[i], op)
    /\ operations' = Append(operations, op) /\ preview' = Preview(op, pv) /\ scanned' = scanned

\* What a push does that merges with the i-th operation.
MergedAt(i, op, pv) ==
    /\ Merges(operations[i], op) /\ \A j \in i + 1 .. Len(operations) : ~ Merges(operations[j], op)
    /\ operations' = IF Merged(i, op, pv).pushed = NoOp THEN Merged(i, op, pv).operations
                     ELSE Append(Merged(i, op, pv).operations, Merged(i, op, pv).pushed)
    /\ preview' = Preview(Merged(i, op, pv).pushed, Merged(i, op, pv).preview)
    /\ scanned' = scanned

\* There is no third thing it may do.
LEMMA AloneOrMerged ==
    ASSUME StackInv, NEW op, NEW pv, Push(op, pv), op.kind \in Kinds \ {"Copy"}
    PROVE  Alone(op, pv) \/ \E i \in DOMAIN operations : MergedAt(i, op, pv)
<1>1. Len(operations) \in Nat /\ DOMAIN operations = 1 .. Len(operations)
  BY TreeShown
<1>2. \A i \in 1 .. Len(operations) : Retargeted(operations[i], op) = op
  BY DEF Retargeted
<1>3. op.kind # "NoOp"
  BY DEF Kinds, Creating
<1>4. CASE \A i \in 1 .. Len(operations) : ~ Merges(operations[i], op)
  BY <1>1, <1>2, <1>3, <1>4, PushAlone DEF Alone
<1>5. CASE \E i \in 1 .. Len(operations) : Merges(operations[i], op)
  <2>1. PICK i \in 1 .. Len(operations) :
              /\ Merges(operations[i], op)
              /\ \A j \in i + 1 .. Len(operations) : ~ Merges(operations[j], op)
              /\ operations' = IF Merged(i, op, pv).pushed = NoOp THEN Merged(i, op, pv).operations
                               ELSE Append(Merged(i, op, pv).operations, Merged(i, op, pv).pushed)
              /\ preview' = Preview(Merged(i, op, pv).pushed, Merged(i, op, pv).preview)
              /\ scanned' = scanned
    BY <1>1, <1>2, <1>5, PushMerged
  <2> QED
    BY <1>1, <2>1 DEF MergedAt
<1> QED
  BY <1>4, <1>5

\* What is left of the operation is appended, if anything is.
LEMMA MergedEnds ==
    ASSUME NEW i, NEW op, NEW pv, MergedAt(i, op, pv), NEW ops2, NEW w, NEW o, Merged(i, op, pv) = Outcome(ops2, w, o)
    PROVE  /\ scanned' = scanned
           /\ o = NoOp => operations' = ops2 /\ preview' = w
           /\ o.kind \in Kinds => operations' = Append(ops2, o) /\ preview' = Preview(o, w)
<1>1. Merged(i, op, pv).operations = ops2 /\ Merged(i, op, pv).preview = w /\ Merged(i, op, pv).pushed = o
  BY DEF Outcome
<1>2. o = NoOp => Preview(o, w) = w
  BY DEF NoOp, Preview, Creating
<1>3. o.kind \in Kinds => o # NoOp
  BY DEF Kinds, Creating, NoOp
<1> QED
  BY <1>1, <1>2, <1>3 DEF MergedAt

\* Which operations may merge with the one pushed.
LEMMA MergesOf ==
    ASSUME NEW cur, NEW op, Merges(cur, op)
    PROVE  /\ op.kind = "Delete" => NewDeleted(cur, op) \/ CopyDeleted(cur, op) \/ RestoreDeleted(cur, op)
           /\ op.kind = "Resize" => NewResized(cur, op)
           /\ op.kind = "Label" => NewLabeled(cur, op) \/ LabelAgain(cur, op)
           /\ op.kind = "Format" => NewFormatted(cur, op)
           /\ op.kind = "Check" => NewChecked(cur, op)
           /\ op.kind = "Flags" => FlagsAgain(cur, op)
           /\ op.kind = "Table" => TableAgain(cur, op)
BY DEF Merges, NewDeleted, NewResized, NewCopied, NewLabeled, NewFormatted, NewChecked,
       CopyDeleted, RestoreDeleted, FlagsAgain, LabelAgain, TableAgain

\* What the removed operation had overwritten may be removed in its turn.
LEMMA OverRemovable ==
    ASSUME StackInv, NEW i \in DOMAIN operations, NEW p, operations[i].kind \in {"Copy", "Restore"}, operations[i].part = p,
           p \in Visible(preview), operations[i].over # None,
           NEW op, op.kind = "Delete", op.part = operations[i].over,
           NEW ops2, Shorter(operations, i, ops2), NEW w, Reverts(scanned, operations, preview, operations[i], w),
           Good(scanned, ops2, w)
    PROVE  Good(scanned, Append(ops2, op), Preview(op, w))
<1> DEFINE n == Len(operations)
           K == Known(scanned, operations)
           cur == operations[i]
           o == cur.over
           m == preview.parts[o].parent
<1>1. /\ scanned \in Devices /\ Owned(scanned, operations, preview) /\ n \in Nat /\ DOMAIN operations = 1 .. n
      /\ IsOp(cur) /\ Uses(cur) \subseteq K /\ K \subseteq PartIds /\ PartIds \cap TableIds = {}
      /\ \A q \in K : preview.parts[q].parent \in TableIds \/ preview.parts[q].parent \in K
      /\ \A q \in K : preview.parts[q].role # "extended" => preview.children[q] = {}
      /\ preview.table \in TableIds /\ preview \in Previews
  BY TreeShown, StackAssumption DEF Previews
<1>2. /\ Fresh(scanned, operations, preview) /\ Placed(scanned, operations, preview) /\ Rooted(scanned, operations, preview)
  BY <1>1 DEF Owned
<1>3. Replacing(cur) /\ Removes(cur) = {o} /\ Creates(cur) = {p} /\ o \in Uses(cur) /\ o \in K /\ o \in PartIds /\ p \in K
  <2>1. cur.kind \in Creating /\ Replacing(cur)
    BY DEF Creating, Replacing
  <2> QED
    BY <1>1, <2>1, OperandFacts
<1>4. o # p
  BY <1>1, <1>2, <1>3 DEF Fresh, cur
<1>5. preview.parts[p].parent = m /\ preview.parts[o].role # "extended" /\ preview.parts[p].role # "extended"
  BY <1>1, <1>2, <1>3 DEF Placed, cur
<1>6. m # p /\ m # o
  BY <1>1, <1>2, <1>3, <1>5 DEF Rooted, K
<1>7. /\ w.table = preview.table
      /\ \A q \in Nodes : w.children[q] = (preview.children[q] \ {p}) \cup ({o} \cap Below(preview, q))
      /\ \A q \in K \ {p} : w.parts[q] = preview.parts[q]
  <2>1. cur.kind \notin {"Table", "Resize", "Flags", "Format"}
    OBVIOUS
  <2>2. \A q, x : Reverted(cur, q, x) = x
    BY <2>1 DEF Reverted
  <2> HIDE DEF K, cur
  <2> QED
    BY <1>3, <2>1, <2>2 DEF Reverts, K, cur
<1>8. o \in Present(scanned, ops2, Len(ops2))
  <2>1. /\ Len(ops2) = n - 1 /\ i \in 1 .. n
        /\ \A k \in 0 .. i - 1 : Present(scanned, ops2, k) = Present(scanned, operations, k)
        /\ \A k \in i .. n - 1 : Present(scanned, ops2, k) = (Present(scanned, operations, k + 1) \ {p}) \cup {o}
    <3>1. /\ Len(ops2) = n - 1 /\ i \in 1 .. n
          /\ \A k \in 0 .. i - 1 : Present(scanned, ops2, k) = Present(scanned, operations, k)
          /\ \A k \in i .. n - 1 : Present(scanned, ops2, k) = (Present(scanned, operations, k + 1) \ Creates(cur)) \cup Removes(cur)
      <4>1. scanned \in Devices /\ Owned(scanned, operations, preview)
        BY <1>1
      <4> HIDE DEF K
      <4> QED
        BY <4>1, RemovePresent
    <3> QED
      BY <1>3, <3>1
  <2>2. CASE i = n
    <3>1. o \in Uses(operations[i]) \ Creates(operations[i])
      BY <1>3, <1>4
    <3>2. o \in Present(scanned, operations, i - 1)
      BY <1>1, <2>1, <3>1, OperandsPresent
    <3> QED
      BY <1>1, <2>1, <2>2, <3>2
  <2>3. CASE i < n
    <3>1. n - 1 \in i .. n - 1
      BY <1>1, <2>1, <2>3
    <3> QED
      BY <2>1, <3>1
  <2> QED
    BY <1>1, <2>1, <2>2, <2>3
<1>10. Root(preview, p) = preview.table
  BY VisibleShown
<1> HIDE DEF cur, o, m, K, n
<1>11. Root(w, o) = w.table
  <2>1. w.parts[o] = preview.parts[o] /\ (m \in TableIds \/ w.parts[m] = preview.parts[m])
    BY <1>1, <1>3, <1>4, <1>5, <1>6, <1>7
  <2>2. Root(preview, p) = IF m \in TableIds THEN m ELSE preview.parts[m].parent
    BY <1>5 DEF Root
  <2>3. Root(w, o) = IF m \in TableIds THEN m ELSE w.parts[m].parent
    BY <2>1 DEF Root, m
  <2> QED
    BY <1>7, <1>10, <2>1, <2>2, <2>3
<1>12. w.children[o] = {}
  <2>1. o \in Nodes /\ o \notin Below(preview, o) /\ preview.children[o] = {}
    BY <1>1, <1>3, <1>5, <1>6 DEF Nodes, Below, m
  <2> QED
    BY <1>7, <2>1
<1>13. IsOp(op)
  BY <1>3 DEF IsOp, Kinds, Creating, o, cur
<1>14. Applicable(scanned, ops2, w, op)
  <2>1. op.part = o /\ op.kind \notin Creating
    BY DEF o, cur, Creating
  <2> QED
    BY <1>8, <1>11, <1>12, <2>1 DEF Applicable
<1> QED
  BY <1>1, <1>13, <1>14, ApplicableGood

\* A partition is deleted: one that is pending goes with its operation.
LEMMA PushDeleteGood ==
    ASSUME StackInv, PushDelete
    PROVE  StackInv'
<1>1. PICK p \in PartIds : /\ Offers("Delete", p) /\ (IsExtended(p) => preview.children[p] = {})
                           /\ (preview.parts[p].state # "None" /\ ~IsExtended(p) => ~UsedElsewhere(p))
                           /\ Push(DeleteOp(p), preview)
  BY DEF PushDelete, Part, StackInv, CarefulFrontEnd
<1> DEFINE op == DeleteOp(p)
           K == Known(scanned, operations)
           P == Present(scanned, operations, Len(operations))
<1>2. op.kind = "Delete" /\ op.part = p /\ IsOp(op) /\ op.kind \notin Creating
  BY DEF DeleteOp, IsOp, Kinds, Creating
<1>3. /\ scanned \in Devices /\ Good(scanned, operations, preview) /\ DOMAIN operations = 1 .. Len(operations)
      /\ \A q \in K : preview.parts[q].role # "extended" => preview.children[q] = {}
  BY TreeShown
<1>4. /\ p \in Visible(preview) /\ p \in P /\ p \in K /\ Root(preview, p) = preview.table
  BY <1>1, OffersFacts
<1>5. preview.children[p] = {}
  BY <1>1, <1>3, <1>4 DEF IsExtended
<1> HIDE DEF op
<1>6. CASE Alone(op, preview)
  <2>2. Applicable(scanned, operations, preview, op)
    BY <1>2, <1>4, <1>5 DEF Applicable
  <2>3. Good(scanned, Append(operations, op), Preview(op, preview))
    BY <1>2, <1>3, <2>2, ApplicableGood
  <2> QED
    BY <1>3, <1>6, <2>3 DEF StackInv, Alone
<1>7. ASSUME NEW i \in DOMAIN operations, MergedAt(i, op, preview)
      PROVE  StackInv'
  <2> DEFINE cur == operations[i]
             w == Popped(cur, preview)
  <2>1. MergesTo(i, op, preview)
    BY MergedCases
  <2>2. NewDeleted(cur, op) \/ CopyDeleted(cur, op) \/ RestoreDeleted(cur, op)
    BY <1>2, <1>7, MergesOf DEF MergedAt
  <2>3. cur.kind \in Creating /\ cur.part = p /\ preview.parts[p].role # "extended"
    <3>1. cur.kind \in Creating /\ cur.part = p /\ (cur.kind = "New" => preview.parts[p].role # "extended")
      BY <1>2, <2>2 DEF NewDeleted, CopyDeleted, RestoreDeleted, Creating, IsExtended
    <3> QED
      BY <3>1, Creators
  <2>4. Shorter(operations, i, Without(i))
    BY WithoutShorter
  <2>5. Inner(scanned, operations, preview, i)
    <3>1. preview.parts[p].state # "None"
      BY <1>4, <2>3, StateTells
    <3>2. \A j \in DOMAIN operations : j # i => p \notin Uses(operations[j]) \cup Operands(operations[j])
      BY <1>1, <2>3, <3>1, NotUsed DEF IsExtended
    <3> QED
      BY <1>4, <2>3, <3>2 DEF Inner
  <2>6. Reverts(scanned, operations, preview, cur, w) /\ Good(scanned, Without(i), w)
    BY <1>3, <2>4, <2>5, RemoveGood
  <2>7. CASE NewDeleted(cur, op) \/ (cur.kind # "New" /\ cur.over = None)
    <3>1. Merged(i, op, preview) = Outcome(Without(i), w, NoOp)
      BY <2>1, <2>2, <2>7 DEF MergesTo, NewDeleted
    <3>2. scanned' = scanned /\ operations' = Without(i) /\ preview' = w
      BY <1>7, <3>1, MergedEnds
    <3> QED
      BY <1>3, <2>6, <3>2 DEF StackInv
  <2>8. CASE ~ NewDeleted(cur, op) /\ cur.over # None
    <3> DEFINE o == [op EXCEPT !.part = cur.over]
    <3>1. Merged(i, op, preview) = Outcome(Without(i), w, o)
      BY <2>1, <2>2, <2>8 DEF MergesTo
    <3>2. o.kind = "Delete" /\ o.part = cur.over
      BY DEF op, DeleteOp
    <3> HIDE DEF o
    <3>3. scanned' = scanned /\ operations' = Append(Without(i), o) /\ preview' = Preview(o, w)
      BY <1>7, <3>1, <3>2, MergedEnds DEF Kinds
    <3>4. cur.kind \in {"Copy", "Restore"}
      BY <2>2, <2>8 DEF CopyDeleted, RestoreDeleted
    <3>5. Good(scanned, Append(Without(i), o), Preview(o, w))
      BY <1>4, <2>3, <2>4, <2>6, <2>8, <3>2, <3>4, OverRemovable
    <3> QED
      BY <1>3, <3>3, <3>5 DEF StackInv
  <2> QED
    BY <2>2, <2>7, <2>8 DEF CopyDeleted, RestoreDeleted
<1>8. Push(op, preview)
  BY <1>1 DEF op
<1> QED
  BY <1>2, <1>6, <1>7, <1>8, AloneOrMerged DEF Kinds

\* The partition is backed up.
LEMMA PushBackupGood ==
    ASSUME StackInv, PushBackup
    PROVE  StackInv'
<1>1. PICK p \in PartIds : Offers("Backup", p) /\ preview.parts[p].state = "None" /\ Push(CheckOp("Backup", p), preview)
  BY DEF PushBackup, Part
<1> DEFINE op == CheckOp("Backup", p)
<1>2. op.kind = "Backup" /\ op.part = p /\ IsOp(op) /\ op.kind \notin Creating
  BY DEF CheckOp, IsOp, Kinds, Creating
<1>3. /\ scanned \in Devices /\ Good(scanned, operations, preview) /\ DOMAIN operations = 1 .. Len(operations)
  BY TreeShown
<1>4. /\ p \in Present(scanned, operations, Len(operations)) /\ Root(preview, p) = preview.table
      /\ p \in scanned.live /\ preview.parts[p].state = "None"
  BY <1>1, OffersFacts, StateTells
<1> HIDE DEF op
<1>5. Alone(op, preview)
  <2>1. Alone(op, preview) \/ \E i \in DOMAIN operations : MergedAt(i, op, preview)
    BY <1>1, <1>2, AloneOrMerged DEF op, Kinds
  <2> QED
    BY <1>2, <2>1, NoMerge DEF MergedAt
<1>6. Applicable(scanned, operations, preview, op)
  BY <1>2, <1>4 DEF Applicable
<1>7. Good(scanned, Append(operations, op), Preview(op, preview))
  BY <1>2, <1>3, <1>6, ApplicableGood
<1> QED
  BY <1>3, <1>5, <1>7 DEF StackInv, Alone

\* The partition is checked, unless it is a new one.
LEMMA PushCheckGood ==
    ASSUME StackInv, PushCheck
    PROVE  StackInv'
<1>1. PICK p \in PartIds : Offers("Check", p) /\ ~IsExtended(p) /\ Push(CheckOp("Check", p), preview)
  BY DEF PushCheck
<1> DEFINE op == CheckOp("Check", p)
<1>2. op.kind = "Check" /\ op.part = p /\ IsOp(op) /\ op.kind \notin Creating
  BY DEF CheckOp, IsOp, Kinds, Creating
<1>3. /\ scanned \in Devices /\ Good(scanned, operations, preview) /\ DOMAIN operations = 1 .. Len(operations)
  BY TreeShown
<1>4. /\ p \in Present(scanned, operations, Len(operations)) /\ Root(preview, p) = preview.table
  BY <1>1, OffersFacts
<1> HIDE DEF op
<1>5. CASE Alone(op, preview)
  <2>2. Applicable(scanned, operations, preview, op)
    BY <1>2, <1>4 DEF Applicable
  <2>3. Good(scanned, Append(operations, op), Preview(op, preview))
    BY <1>2, <1>3, <2>2, ApplicableGood
  <2> QED
    BY <1>3, <1>5, <2>3 DEF StackInv, Alone
<1>6. ASSUME NEW i \in DOMAIN operations, MergedAt(i, op, preview)
      PROVE  StackInv'
  <2>1. Merged(i, op, preview) = Outcome(operations, preview, NoOp)
    <3>1. NewChecked(operations[i], op)
      BY <1>2, <1>6, MergesOf DEF MergedAt
    <3>2. MergesTo(i, op, preview)
      BY MergedCases
    <3> QED
      BY <3>1, <3>2 DEF MergesTo
  <2>2. scanned' = scanned /\ operations' = operations /\ preview' = preview
    BY <1>6, <2>1, MergedEnds
  <2> QED
    BY <1>3, <2>2 DEF StackInv
<1>7. Push(op, preview)
  BY <1>1 DEF op
<1> QED
  BY <1>2, <1>5, <1>6, <1>7, AloneOrMerged DEF Kinds

\* The partition is formatted, unless it is a new one.
LEMMA PushFormatGood ==
    ASSUME StackInv, PushFormat
    PROVE  StackInv'
<1>1. PICK p \in PartIds : Offers("Format", p)
          /\ Push(FormatOp(preview, p, NewFs), [preview EXCEPT !.labels[NewFs] = LabelOf(preview, p)])
  BY DEF PushFormat
<1> DEFINE op == FormatOp(preview, p, NewFs)
           K == Known(scanned, operations)
           pv == [preview EXCEPT !.labels[NewFs] = LabelOf(preview, p)]
<1>2. /\ scanned \in Devices /\ Good(scanned, operations, preview) /\ DOMAIN operations = 1 .. Len(operations)
      /\ preview \in Previews /\ K \subseteq preview.live
  BY TreeShown
<1>3. /\ p \in Present(scanned, operations, Len(operations)) /\ Root(preview, p) = preview.table
      /\ p \in Known(scanned, operations) /\ preview.parts[p] \in Partition
  BY <1>1, OffersFacts
<1>4. NewFs \in FsIds /\ LabelOf(preview, p) \in Labels \cup {None} /\ preview.parts[p].fs \in FsIds
  <2>1. NewFs \in FsIds
    BY <1>1, FreeIds DEF Push
  <2> QED
    BY <1>2, <1>3, <2>1 DEF LabelOf, Previews, Partition
<1>5. /\ op.kind = "Format" /\ op.part = p /\ IsOp(op) /\ op.kind \notin Creating
      /\ op.old = preview.parts[p].fs
  BY <1>4 DEF FormatOp, IsOp, Kinds, Creating
<1>6. pv \in Previews /\ pv.live = preview.live /\ pv.table = preview.table /\ pv.children = preview.children /\ pv.parts = preview.parts
  BY <1>2, <1>4 DEF Previews
<1> HIDE DEF op, pv, K
<1>7. Good(scanned, operations, pv)
  BY <1>2, <1>6, Irrelevant DEF K
<1>8. ASSUME NEW i \in DOMAIN operations, MergedAt(i, op, pv) PROVE StackInv'
  <2>1. Merged(i, op, pv) = Outcome(operations, pv, NoOp)
    <3>1. NewFormatted(operations[i], op)
      BY <1>5, <1>8, MergesOf DEF MergedAt
    <3>2. MergesTo(i, op, pv)
      BY MergedCases
    <3> QED
      BY <3>1, <3>2 DEF MergesTo
  <2>2. scanned' = scanned /\ operations' = operations /\ preview' = pv
    BY <1>8, <2>1, MergedEnds
  <2> QED
    BY <1>2, <1>7, <2>2 DEF StackInv
<1>9. Applicable(scanned, operations, pv, op)
  <2>1. Root(pv, p) = pv.table
    BY <1>3, <1>6 DEF Root
  <2> QED
    BY <1>3, <1>5, <1>6, <2>1 DEF Applicable
<1>10. Good(scanned, Append(operations, op), Preview(op, pv))
  BY <1>2, <1>5, <1>7, <1>9, ApplicableGood
<1>11. CASE Alone(op, pv)
  BY <1>2, <1>10, <1>11 DEF StackInv, Alone
<1>12. Alone(op, pv) \/ \E i \in DOMAIN operations : MergedAt(i, op, pv)
  BY <1>1, <1>5, AloneOrMerged DEF op, pv, Kinds
<1> QED
  BY <1>8, <1>11, <1>12

\* A partition is still in the tree when an operation is taken out that creates and removes none.
LEMMA StillPresent ==
    ASSUME StackInv, NEW i \in DOMAIN operations, operations[i].kind \in {"Flags", "Label"},
           NEW ops2, NEW w, Reverts(scanned, operations, preview, operations[i], w), Good(scanned, ops2, w),
           NEW p \in Present(scanned, operations, Len(operations)), Root(preview, p) = preview.table
    PROVE  /\ p \in Present(scanned, ops2, Len(ops2)) /\ Root(w, p) = w.table /\ w.table = preview.table
           /\ w.parts[p] = Reverted(operations[i], p, preview.parts[p])
           /\ w.parts[p].state = preview.parts[p].state
<1> DEFINE cur == operations[i]
           K == Known(scanned, operations)
           P == Present(scanned, operations, Len(operations))
           m == preview.parts[p].parent
<1>1. /\ scanned \in Devices /\ IsOp(cur) /\ P \subseteq K /\ K \subseteq PartIds /\ p \in P
      /\ \A q \in K : preview.parts[q] \in Partition
      /\ \A q \in Nodes : preview.children[q] = P \cap Below(preview, q)
      /\ \A q \in P : preview.parts[q].parent \in TableIds \/ preview.parts[q].parent \in P
  BY TreeShown
<1>2. Creates(cur) = {} /\ Removes(cur) = {} /\ cur.kind # "Table"
  BY DEF Creates, Removes, Creating, Replacing
<1> HIDE DEF cur, K, P
<1>3. /\ w.table = preview.table
      /\ \A q \in Nodes : w.children[q] = preview.children[q]
      /\ \A q \in K : w.parts[q] = Reverted(cur, q, preview.parts[q])
  BY <1>2 DEF Reverts, K, cur
<1>4. \A q \in K : w.parts[q].parent = preview.parts[q].parent /\ w.parts[q].state = preview.parts[q].state
  BY <1>1, <1>3, RevertedKeeps
<1>5. m \in Nodes /\ p \in preview.children[m] /\ (m \in TableIds \/ m \in K)
  BY <1>1 DEF Below, Nodes
<1>6. p \in Present(scanned, ops2, Len(ops2))
  <2>1. Shows(scanned, ops2, w)
    BY DEF Good, Owned
  <2> QED
    BY <1>3, <1>5, <2>1 DEF Shows
<1>7. Root(w, p) = Root(preview, p)
  BY <1>1, <1>4, <1>5 DEF Root
<1> QED
  BY <1>1, <1>3, <1>4, <1>6, <1>7 DEF cur

\* The flags are changed: once for all the changes of a partition's flags.
LEMMA PushFlagsGood ==
    ASSUME StackInv, PushFlags
    PROVE  StackInv'
<1>1. PICK p \in PartIds, f \in FlagSets : Offers("Flags", p) /\ Push(FlagsOp(preview, p, f), preview)
  BY DEF PushFlags
<1> DEFINE op == FlagsOp(preview, p, f)
           P == Present(scanned, operations, Len(operations))
<1>2. /\ scanned \in Devices /\ Good(scanned, operations, preview) /\ DOMAIN operations = 1 .. Len(operations)
      /\ \A i \in DOMAIN operations : IsOp(operations[i])
  BY TreeShown
<1>3. /\ p \in P /\ Root(preview, p) = preview.table /\ preview.parts[p] \in Partition
  BY <1>1, OffersFacts
<1>4. /\ op.kind = "Flags" /\ op.part = p /\ IsOp(op) /\ op.kind \notin Creating
      /\ op.old = preview.parts[p].flags /\ op.new = f
  BY <1>3 DEF FlagsOp, IsOp, Kinds, Creating, Partition
<1> HIDE DEF op, P
<1>5. CASE Alone(op, preview)
  <2>1. Applicable(scanned, operations, preview, op)
    BY <1>3, <1>4 DEF Applicable, P
  <2>2. Good(scanned, Append(operations, op), Preview(op, preview))
    BY <1>2, <1>4, <2>1, ApplicableGood
  <2> QED
    BY <1>2, <1>5, <2>2 DEF StackInv, Alone
<1>6. ASSUME NEW i \in DOMAIN operations, MergedAt(i, op, preview)
      PROVE  StackInv'
  <2> DEFINE cur == operations[i]
             w == Popped(cur, preview)
             o == TakesOld(op, cur)
  <2>1. FlagsAgain(cur, op)
    BY <1>4, <1>6, MergesOf DEF MergedAt
  <2>2. cur.kind = "Flags" /\ cur.part = p /\ cur.old \in FlagSets
    BY <1>2, <1>4, <2>1 DEF FlagsAgain, IsOp
  <2>3. Inner(scanned, operations, preview, i)
    <3>1. \A j \in i + 1 .. Len(operations) : ~ FlagsAgain(operations[j], op)
      BY <1>6 DEF MergedAt, Merges
    <3> QED
      BY <1>4, <2>2, <3>1 DEF Inner, FlagsAgain
  <2>4. Reverts(scanned, operations, preview, cur, w) /\ Good(scanned, Without(i), w)
    <3>1. Shorter(operations, i, Without(i))
      BY WithoutShorter
    <3> QED
      BY <1>2, <2>3, <3>1, RemoveGood
  <2>5. Merged(i, op, preview) = Outcome(Without(i), w, o)
    <3>1. MergesTo(i, op, preview)
      BY MergedCases
    <3> QED
      BY <2>1, <3>1 DEF MergesTo
  <2>6. o.kind = "Flags" /\ o.part = p /\ o.old = cur.old /\ o.new = f
    BY <1>4 DEF TakesOld, op, FlagsOp
  <2> HIDE DEF o, w
  <2>7. IsOp(o)
    BY <1>1, <2>2, <2>6 DEF IsOp, Kinds, Creating
  <2>8. scanned' = scanned /\ operations' = Append(Without(i), o) /\ preview' = Preview(o, w)
    BY <1>6, <2>5, <2>6, MergedEnds DEF Kinds
  <2>9. /\ p \in Present(scanned, Without(i), Len(Without(i))) /\ Root(w, p) = w.table
        /\ w.parts[p] = Reverted(cur, p, preview.parts[p])
    BY <1>3, <2>2, <2>4, StillPresent DEF P
  <2>10. w.parts[p].flags = cur.old
    BY <1>3, <2>2, <2>9 DEF Reverted, Partition
  <2>11. Applicable(scanned, Without(i), w, o)
    BY <2>6, <2>9, <2>10 DEF Applicable, Creating
  <2>12. Good(scanned, Append(Without(i), o), Preview(o, w))
    BY <1>2, <2>4, <2>6, <2>7, <2>11, ApplicableGood
  <2> QED
    BY <1>2, <2>8, <2>12 DEF StackInv
<1>7. Push(op, preview)
  BY <1>1 DEF op
<1> QED
  BY <1>4, <1>5, <1>6, <1>7, AloneOrMerged DEF Kinds

\* The label is changed, in the file system itself when the partition is a new one.
LEMMA PushLabelGood ==
    ASSUME StackInv, PushLabel
    PROVE  StackInv'
<1>1. PICK p \in PartIds, x \in Labels : Offers("Label", p) /\ ~IsExtended(p) /\ Push(LabelOp(preview, p, x), preview)
  BY DEF PushLabel
<1> DEFINE op == LabelOp(preview, p, x)
           P == Present(scanned, operations, Len(operations))
           K == Known(scanned, operations)
<1>2. /\ scanned \in Devices /\ Good(scanned, operations, preview) /\ DOMAIN operations = 1 .. Len(operations)
      /\ Owned(scanned, operations, preview) /\ preview \in Previews /\ K \subseteq preview.live
      /\ \A i \in DOMAIN operations : IsOp(operations[i])
  BY TreeShown
<1>3. /\ p \in P /\ p \in K /\ Root(preview, p) = preview.table /\ preview.parts[p] \in Partition
      /\ preview.parts[p].role # "extended"
  BY <1>1, OffersFacts DEF IsExtended
<1>4. /\ op.kind = "Label" /\ op.part = p /\ IsOp(op) /\ op.kind \notin Creating
      /\ op.new = x
  BY <1>2, <1>3 DEF LabelOp, IsOp, Kinds, Creating, Partition, Previews
<1> HIDE DEF op, P, K
<1>5. CASE Alone(op, preview)
  <2>2. Applicable(scanned, operations, preview, op)
    BY <1>3, <1>4 DEF Applicable, P
  <2>3. Good(scanned, Append(operations, op), Preview(op, preview))
    BY <1>2, <1>4, <2>2, ApplicableGood
  <2> QED
    BY <1>2, <1>5, <2>3 DEF StackInv, Alone
<1>6. ASSUME NEW i \in DOMAIN operations, MergedAt(i, op, preview)
      PROVE  StackInv'
  <2> DEFINE cur == operations[i]
  <2>1. NewLabeled(cur, op) \/ LabelAgain(cur, op)
    BY <1>4, <1>6, MergesOf DEF MergedAt
  <2>2. MergesTo(i, op, preview)
    BY MergedCases
  <2>3. CASE NewLabeled(cur, op)
    <3> DEFINE w == Preview(op, preview)
    <3>1. Merged(i, op, preview) = Outcome(operations, w, NoOp)
      BY <2>2, <2>3 DEF MergesTo
    <3>2. scanned' = scanned /\ operations' = operations /\ preview' = w
      BY <1>6, <3>1, MergedEnds
    <3>3. w = [preview EXCEPT !.labels[preview.parts[p].fs] = x]
      BY <1>4 DEF Preview, Creating
    <3> HIDE DEF w
    <3>4. /\ w \in Previews /\ w.live = preview.live /\ w.table = preview.table /\ w.children = preview.children
          /\ w.parts = preview.parts
      BY <1>2, <3>3 DEF Previews
    <3>5. Good(scanned, operations, w)
      BY <1>2, <3>4, Irrelevant DEF K
    <3> QED
      BY <1>2, <3>2, <3>5 DEF StackInv
  <2>4. CASE LabelAgain(cur, op)
    <3> DEFINE w == Popped(cur, preview)
               o == TakesOld(op, cur)
    <3>1. cur.kind = "Label" /\ cur.part = p /\ cur.old \in Labels \cup {None}
      BY <1>2, <1>4, <2>4 DEF LabelAgain, IsOp
    <3>2. Inner(scanned, operations, preview, i)
      BY <3>1 DEF Inner
    <3>3. Reverts(scanned, operations, preview, cur, w) /\ Good(scanned, Without(i), w)
      <4>1. Shorter(operations, i, Without(i))
        BY WithoutShorter
      <4> QED
        BY <1>2, <3>2, <4>1, RemoveGood
    <3>4. Merged(i, op, preview) = Outcome(Without(i), w, o)
      BY <2>2, <2>4 DEF MergesTo
    <3>5. o.kind = "Label" /\ o.part = p /\ o.old = cur.old /\ o.new = x
      BY <1>4 DEF TakesOld, op, LabelOp
    <3> HIDE DEF o, w
    <3>6. IsOp(o)
      BY <1>1, <3>1, <3>5 DEF IsOp, Kinds, Creating
    <3>7. scanned' = scanned /\ operations' = Append(Without(i), o) /\ preview' = Preview(o, w)
      BY <1>6, <3>4, <3>5, MergedEnds DEF Kinds
    <3>9. /\ p \in Present(scanned, Without(i), Len(Without(i))) /\ Root(w, p) = w.table
      BY <1>3, <3>1, <3>3, StillPresent DEF P
    <3>10. Applicable(scanned, Without(i), w, o)
      BY <3>5, <3>9 DEF Applicable, Creating
    <3>11. Good(scanned, Append(Without(i), o), Preview(o, w))
      BY <1>2, <3>3, <3>5, <3>6, <3>10, ApplicableGood
    <3> QED
      BY <1>2, <3>7, <3>11 DEF StackInv
  <2> QED
    BY <2>1, <2>3, <2>4
<1>7. Push(op, preview)
  BY <1>1 DEF op
<1> QED
  BY <1>4, <1>5, <1>6, <1>7, AloneOrMerged DEF Kinds

\* A new partition table takes the place of the topmost operation that is no backup.
LEMMA PushTableGood ==
    ASSUME StackInv, PushTable
    PROVE  StackInv'
<1> DEFINE op == TableOp(preview, NewTable)
<1>1. Push(op, preview)
  BY DEF PushTable
<1>2. /\ scanned \in Devices /\ Good(scanned, operations, preview) /\ DOMAIN operations = 1 .. Len(operations)
      /\ Len(operations) \in Nat /\ preview.table \in TableIds
      /\ \A i \in DOMAIN operations : IsOp(operations[i])
  BY TreeShown DEF Previews
<1>3. /\ NewTable \in TableIds /\ NewTable # scanned.table
      /\ \A i \in DOMAIN operations : operations[i].kind = "Table" => operations[i].new # NewTable
  BY <1>1, FreeIds DEF Push
<1>4. /\ op.kind = "Table" /\ IsOp(op) /\ op.kind \notin Creating /\ op.old = preview.table /\ op.new = NewTable
  BY <1>2, <1>3 DEF TableOp, IsOp, Kinds, Creating
<1> HIDE DEF op
<1>5. CASE Alone(op, preview)
  <2>1. Applicable(scanned, operations, preview, op)
    BY <1>3, <1>4 DEF Applicable
  <2>2. Good(scanned, Append(operations, op), Preview(op, preview))
    BY <1>2, <1>4, <2>1, ApplicableGood
  <2> QED
    BY <1>2, <1>5, <2>2 DEF StackInv, Alone
<1>6. ASSUME NEW i \in DOMAIN operations, MergedAt(i, op, preview)
      PROVE  StackInv'
  <2> DEFINE cur == operations[i]
             ops2 == Without(i)
             w == Popped(cur, preview)
             o == IF cur.kind = "Table" THEN TakesOld(op, cur) ELSE op
  <2>1. TableAgain(cur, op)
    BY <1>4, <1>6, MergesOf DEF MergedAt
  <2>2. \A j \in i + 1 .. Len(operations) : operations[j].kind = "Backup"
    <3>1. \A j \in i + 1 .. Len(operations) : ~ TableAgain(operations[j], op)
      BY <1>6 DEF MergedAt, Merges
    <3> QED
      BY <1>4, <3>1 DEF TableAgain
  <2>3. Shorter(operations, i, ops2)
    BY WithoutShorter
  <2>4. Reverts(scanned, operations, preview, cur, w) /\ Good(scanned, ops2, w)
    BY <1>2, <2>2, <2>3, RemoveGood
  <2>5. Merged(i, op, preview) = Outcome(ops2, w, o)
    <3>1. MergesTo(i, op, preview)
      BY MergedCases
    <3> QED
      BY <2>1, <3>1 DEF MergesTo
  <2>6. o.kind = "Table" /\ o.old = (IF cur.kind = "Table" THEN cur.old ELSE preview.table) /\ o.new = NewTable
    BY <1>4 DEF TakesOld, op, TableOp
  <2>7. w.table = o.old
    BY <2>4, <2>6 DEF Reverts
  <2>8. \A j \in DOMAIN ops2 : \E k \in DOMAIN operations : ops2[j] = operations[k]
    <3>1. /\ DOMAIN ops2 = 1 .. Len(operations) - 1
          /\ \A j \in 1 .. Len(operations) - 1 : ops2[j] = operations[IF j < i THEN j ELSE j + 1]
      BY <2>3, Lengths DEF Shorter
    <3>2. ASSUME NEW j \in 1 .. Len(operations) - 1 PROVE (IF j < i THEN j ELSE j + 1) \in DOMAIN operations
      BY <1>2
    <3> QED
      BY <3>1, <3>2
  <2> HIDE DEF o, w, ops2
  <2>9. IsOp(o)
    BY <1>2, <1>3, <2>6 DEF IsOp, Kinds, Creating
  <2>10. scanned' = scanned /\ operations' = Append(ops2, o) /\ preview' = Preview(o, w)
    BY <1>6, <2>5, <2>6, MergedEnds DEF Kinds
  <2>11. Applicable(scanned, ops2, w, o)
    BY <1>3, <2>6, <2>7, <2>8 DEF Applicable, Creating
  <2>12. Good(scanned, Append(ops2, o), Preview(o, w))
    BY <1>2, <2>4, <2>6, <2>9, <2>11, ApplicableGood
  <2> QED
    BY <1>2, <2>10, <2>12 DEF StackInv
<1> QED
  BY <1>1, <1>4, <1>5, <1>6, AloneOrMerged DEF Kinds

\* The new partition p was replaced by one at another place.
LEMMA MovedNew ==
    ASSUME StackInv, IdsLeft, NEW i \in DOMAIN operations, NEW p, operations[i].kind = "New", operations[i].part = p,
           p \in Visible(preview), preview.parts[p].role # "extended", ~UsedElsewhere(p),
           NEW first \in Sectors, NEW last \in Sectors, IsFree(preview, preview.parts[p].parent, first, last, {p}),
           NEW w, w = Popped(operations[i], NewInstead(preview, p, first, last))
    PROVE  Good(scanned, Append(Without(i), NewOp(SparePart)), InsertPreview(w, SparePart))
<1> DEFINE K == Known(scanned, operations)
           P == Present(scanned, operations, Len(operations))
           cur == operations[i]
           q == SparePart
           m == preview.parts[p].parent
           part == [preview.parts[p] EXCEPT !.first = first, !.last = last]
           y == NewInstead(preview, p, first, last)
           ops2 == Without(i)
           P2 == Present(scanned, ops2, Len(ops2))
           op == NewOp(q)
           z == InsertPreview(w, q)
<1>1. /\ scanned \in Devices /\ Good(scanned, operations, preview) /\ preview \in Previews
      /\ P \subseteq K /\ K \subseteq PartIds /\ K \subseteq preview.live /\ PartIds \cap TableIds = {}
      /\ \A k \in Nodes : preview.children[k] = P \cap Below(preview, k)
      /\ \A r \in K : preview.parts[r].role # "extended" => preview.children[r] = {}
      /\ preview.table \in TableIds /\ Nodes = TableIds \cup PartIds
  BY TreeShown, StackAssumption DEF Previews, Nodes
<1>2. q \in PartIds \ K /\ SpareFs \in FsIds
  BY FreeIds
<1>3. p \in P /\ p \in K /\ p \in PartIds /\ p # q /\ preview.parts[p] \in Partition
  BY <1>1, <1>2, VisibleShown DEF Previews
<1>4. preview.parts[p].state = "New"
  BY <1>3, StateTells DEF Creating
<1>5. /\ m = preview.table \/ (m \in P /\ preview.parts[m].role = "extended" /\ preview.parts[m].parent = preview.table)
      /\ preview.parts[p].role = "logical" <=> m # preview.table
  BY ParentShown
<1>6. /\ part \in Partition /\ part.first = first /\ part.last = last /\ part.parent = m
      /\ part.role = preview.parts[p].role /\ part.state = "New"
  BY <1>3, <1>4 DEF Partition
<1>7. LabelOf(preview, p) \in Labels \cup {None}
  BY <1>1, <1>3 DEF LabelOf, Previews, Partition
<1>8. y = WithPartition(preview, q, SpareFs, part, LabelOf(preview, p))
  BY DEF NewInstead
<1> HIDE DEF part, y
<1>9. /\ y \in Previews /\ y.live = preview.live \cup {q} /\ y.table = preview.table /\ y.children = preview.children
      /\ y.parts[q] = [part EXCEPT !.fs = SpareFs] /\ \A r \in PartIds \ {q} : y.parts[r] = preview.parts[r]
  BY <1>1, <1>2, <1>6, <1>7, <1>8, NewObject
<1>10. Good(scanned, operations, y)
  BY <1>1, <1>2, <1>9, Irrelevant DEF K
<1>11. Good(scanned, ops2, w)
  <2>1. Shorter(operations, i, ops2)
    BY WithoutShorter
  <2>2. Inner(scanned, operations, y, i)
    <3>1. \A j \in DOMAIN operations : j # i => p \notin Uses(operations[j]) \cup Operands(operations[j])
      BY NotUsed DEF Creating
    <3> QED
      BY <1>2, <1>3, <1>9, <3>1 DEF Inner, Creating, P
  <2> QED
    BY <1>1, <1>10, <2>1, <2>2, RemoveGood DEF y
<1>12. /\ w \in Previews /\ w.live = y.live \ {p} /\ w.table = preview.table
       /\ \A k \in Nodes : w.children[k] = preview.children[k] \ {p}
       /\ \A r \in PartIds \ {p} : w.parts[r] = y.parts[r]
  <2> DEFINE u == RemovePreview(y, p)
  <2>1. w = FreePartition(u, p)
    BY DEF Popped, Undo, Destroy, Creating, y
  <2>2. /\ u \in Previews /\ u.live = y.live /\ u.parts = y.parts /\ u.table = y.table
        /\ \A k \in Nodes : u.children[k] = y.children[k] \ ({p} \cap Below(y, k))
    BY <1>3, <1>9, TreeFacts
  <2> HIDE DEF u
  <2>3. \A k \in Nodes : u.children[k] = preview.children[k] \ {p}
    <3> SUFFICES ASSUME NEW k \in Nodes PROVE u.children[k] = preview.children[k] \ {p}
      OBVIOUS
    <3> DEFINE c == preview.children[k]
               b == Below(y, k)
    <3>1. u.children[k] = c \ ({p} \cap b)
      BY <1>9, <2>2
    <3>2. p \in c => p \in b
      BY <1>1, <1>2, <1>3, <1>9 DEF Below
    <3> HIDE DEF c, b
    <3> QED
      BY <3>1, <3>2 DEF c
  <2>4. p \in Nodes /\ u.children[p] = {}
    BY <1>1, <1>3, <2>3
  <2>5. /\ w \in Previews /\ w.live = u.live \ {p} /\ w.table = u.table
        /\ \A k \in Nodes : w.children[k] = u.children[k] \ ({p} \cap Below(u, k))
        /\ \A r \in PartIds \ {p} : w.parts[r] = u.parts[r]
    BY <1>1, <1>3, <2>1, <2>2, <2>4, FreeFacts
  <2>6. \A k \in Nodes : w.children[k] = preview.children[k] \ {p}
    <3> SUFFICES ASSUME NEW k \in Nodes PROVE w.children[k] = preview.children[k] \ {p}
      OBVIOUS
    <3> DEFINE c == preview.children[k]
               b == Below(u, k)
    <3>1. w.children[k] = (c \ {p}) \ ({p} \cap b)
      BY <2>3, <2>5
    <3> HIDE DEF c, b
    <3> QED
      BY <3>1 DEF c
  <2> QED
    BY <1>9, <2>2, <2>5, <2>6
<1>13. IsOp(op) /\ op.kind = "New" /\ op.part = q /\ Removes(op) = {} /\ ~Replacing(op) /\ op.kind \in Creating
  BY <1>2 DEF NewOp, IsOp, Kinds, Creating, Removes, Replacing
<1>14. w.parts[q] = y.parts[q] /\ q \in w.live
  BY <1>2, <1>3, <1>9, <1>12
<1>15. /\ w.parts[q].first = first /\ w.parts[q].last = last /\ w.parts[q].parent = m
       /\ w.parts[q].role = preview.parts[p].role /\ w.parts[q].state = "New"
  BY <1>6, <1>9, <1>14 DEF Partition
<1>16. \A r \in K \ {p} : w.parts[r] = preview.parts[r]
  BY <1>1, <1>2, <1>9, <1>12
<1>17. Typed(scanned, ops2, w) /\ Shows(scanned, ops2, w)
  BY <1>11 DEF Good, Owned
<1>18. /\ Known(scanned, ops2) \subseteq w.live /\ P2 \subseteq Known(scanned, ops2)
       /\ \A k \in Nodes : w.children[k] = P2 \cap Below(w, k)
  <2>1. P2 \subseteq Known(scanned, ops2)
    BY DEF Present
  <2>2. Known(scanned, ops2) \subseteq w.live
    BY <1>17 DEF Typed
  <2> QED
    BY <1>17, <2>1, <2>2 DEF Shows
<1>19. Known(scanned, ops2) = K \ {p}
  <2>1. Owned(scanned, operations, preview) /\ Creates(cur) = {p}
    BY <1>1 DEF Good, Creates, Creating
  <2>2. Shorter(operations, i, ops2)
    BY WithoutShorter
  <2>3. Known(scanned, ops2) = Known(scanned, operations) \ Creates(operations[i])
    <3> HIDE DEF ops2, K, P, cur
    <3> QED
      BY <1>1, <2>1, <2>2, RemovePresent
  <2> QED
    BY <2>1, <2>3
<1> HIDE DEF cur, op, z, K, P, P2, q, ops2
<1>20. Readies(scanned, ops2, w, op, w)
  <2>1. \A k \in Nodes : w.children[k] = w.children[k] \ Removes(op)
    BY <1>13
  <2> QED
    BY <1>2, <1>12, <1>13, <1>14, <1>15, <1>18, <1>19, <2>1 DEF Readies
<1>21. Adds(scanned, ops2, w, op, z) /\ z.parts = w.parts
  BY <1>13, <1>20, ReadyAdds DEF z
<1>22. Fits(scanned, ops2, w, z, q, {})
  <2>1. m = preview.table \/ (m \in P2 /\ w.parts[m] = preview.parts[m])
    <3>1. CASE m # preview.table
      <4>1. m \in P /\ m \in K /\ m # p /\ preview.table \in Nodes /\ m \in PartIds /\ preview.parts[m].parent = preview.table
        BY <1>1, <1>5, <3>1
      <4>2. m \in preview.children[preview.table]
        BY <1>1, <4>1 DEF Below
      <4>3. m \in P2
        BY <1>12, <1>18, <4>1, <4>2
      <4> QED
        BY <1>16, <4>1, <4>3
    <3> QED
      BY <3>1
  <2>2. Bounds(w, m) = Bounds(preview, m)
    BY <1>1, <2>1 DEF Bounds
  <2>3. first <= last /\ first .. last \subseteq Bounds(preview, m)
        /\ \A r \in preview.children[m] \ {p} : (first .. last) \cap Extent(preview, r) = {}
    BY DEF IsFree
  <2>4. ASSUME NEW r \in P2, w.parts[r].parent = m
        PROVE  (first .. last) \cap Extent(w, r) = {}
    <3>1. r \in K \ {p} /\ r \in PartIds /\ m \in Nodes
      BY <1>1, <1>5, <1>18, <1>19
    <3>2. r \in w.children[m]
      BY <1>18, <2>4, <3>1 DEF Below
    <3>3. r \in preview.children[m] \ {p} /\ Extent(w, r) = Extent(preview, r)
      BY <1>12, <1>16, <3>1, <3>2 DEF Extent
    <3> QED
      BY <2>3, <3>3
  <2>5. Extent(z, q) = first .. last
    BY <1>15, <1>21 DEF Extent
  <2>6. z.parts[q].role = "logical" <=> m \in PartIds
    BY <1>1, <1>5, <1>15, <1>21
  <2>7. m = w.table \/ (m \in P2 /\ w.parts[m].role = "extended" /\ w.parts[m].parent = w.table)
    BY <1>5, <1>12, <2>1
  <2> QED
    BY <1>15, <1>21, <2>2, <2>3, <2>4, <2>5, <2>6, <2>7 DEF Fits, P2
<1>23. Good(scanned, Append(ops2, op), z)
  <2>1. Source(scanned, ops2, w, op) /\ Place(scanned, ops2, w, op, z)
    BY <1>13 DEF Source, Place
  <2>2. Fits(scanned, ops2, w, z, op.part, Removes(op))
    BY <1>13, <1>22
  <2> QED
    BY <1>1, <1>11, <1>13, <1>21, <2>1, <2>2, CreateGood
<1> QED
  BY <1>23 DEF op, z, q, ops2

\* A partition is resized or moved: a new one is created at the other place instead.
LEMMA PushResizeGood ==
    ASSUME StackInv, PushResize
    PROVE  StackInv'
<1>1. PICK p \in PartIds, first \in Sectors, last \in Sectors :
          /\ Offers("Resize", p) /\ IsFree(preview, preview.parts[p].parent, first, last, {p})
          /\ \A q \in preview.children[p] : Extent(preview, q) \subseteq first .. last
          /\ preview.parts[p].state = "New" /\ ~IsExtended(p) => ~UsedElsewhere(p)
          /\ Push(ResizeOp(preview, p, first, last), preview)
  BY DEF PushResize, Part, StackInv, CarefulFrontEnd
<1> DEFINE op == ResizeOp(preview, p, first, last)
           P == Present(scanned, operations, Len(operations))
<1>2. /\ scanned \in Devices /\ Good(scanned, operations, preview) /\ DOMAIN operations = 1 .. Len(operations)
      /\ Owned(scanned, operations, preview)
  BY TreeShown
<1>3. /\ p \in Visible(preview) /\ p \in P /\ Root(preview, p) = preview.table /\ preview.parts[p] \in Partition
      /\ p \in Known(scanned, operations)
  BY <1>1, OffersFacts
<1>4. /\ op.kind = "Resize" /\ op.part = p /\ IsOp(op) /\ op.kind \notin Creating
      /\ op.oldFirst = preview.parts[p].first /\ op.oldLast = preview.parts[p].last
      /\ op.newFirst = first /\ op.newLast = last
  BY <1>1, <1>3 DEF ResizeOp, IsOp, Kinds, Creating, Partition
<1> HIDE DEF op
<1>5. CASE Alone(op, preview)
  <2> DEFINE w == Preview(op, preview)
  <2>2. Applicable(scanned, operations, preview, op)
    BY <1>3, <1>4 DEF Applicable
  <2>3. Changes(scanned, operations, preview, op, w)
    BY <1>2, <1>4, <2>2, ApplicableChanges
  <2>4. w = SetSectors(preview, p, first, last)
    BY <1>4 DEF Preview, Creating
  <2>5. Sound(w, P)
    BY <1>1, <1>3, <2>4, ResizeSound
  <2> HIDE DEF w
  <2>6. Good(scanned, Append(operations, op), w)
    BY <1>2, <1>4, <2>3, <2>5, ChangeGood
  <2> QED
    BY <1>2, <1>5, <2>6 DEF StackInv, Alone, w
<1>6. ASSUME NEW i \in DOMAIN operations, MergedAt(i, op, preview)
      PROVE  StackInv'
  <2> DEFINE cur == operations[i]
             w == Popped(cur, NewInstead(preview, p, first, last))
             o == NewOp(SparePart)
  <2>1. NewResized(cur, op)
    BY <1>4, <1>6, MergesOf DEF MergedAt
  <2>2. Merged(i, op, preview) = Outcome(Without(i), w, o)
    <3>1. MergesTo(i, op, preview)
      BY MergedCases
    <3> QED
      BY <1>4, <2>1, <3>1 DEF MergesTo
  <2>3. o.kind = "New" /\ o.part = SparePart
    BY DEF NewOp
  <2>4. Preview(o, w) = InsertPreview(w, SparePart)
    BY <2>3 DEF Preview
  <2>5. cur.kind = "New" /\ cur.part = p /\ preview.parts[p].role # "extended" /\ IdsLeft
    BY <1>1, <1>4, <2>1 DEF NewResized, IsExtended, Push
  <2>5a. ~UsedElsewhere(p)
    <3>1. preview.parts[p].state = "New"
      BY <1>3, <2>5, StateTells DEF Creating
    <3> QED
      BY <1>1, <2>5, <3>1 DEF IsExtended
  <2> HIDE DEF w, o
  <2>6. scanned' = scanned /\ operations' = Append(Without(i), o) /\ preview' = InsertPreview(w, SparePart)
    BY <1>6, <2>2, <2>3, <2>4, MergedEnds DEF Kinds, Creating
  <2>7. Good(scanned, Append(Without(i), o), InsertPreview(w, SparePart))
    BY <1>1, <1>3, <2>5, <2>5a, MovedNew DEF w, o
  <2> QED
    BY <1>2, <2>6, <2>7 DEF StackInv
<1>7. Push(op, preview)
  BY <1>1 DEF op
<1> QED
  BY <1>4, <1>5, <1>6, <1>7, AloneOrMerged DEF Kinds

--------------------------------------------------------------------------------
(* Operations are taken off the stack.                                     *)

\* The lowest k operations.
Lowest(k) == SubSeq(operations, 1, k)

\* The topmost of them is taken off.
LEMMA LowestShorter ==
    ASSUME StackInv
    PROVE  /\ \A k \in 1 .. Len(operations) : /\ Shorter(Lowest(k), k, Lowest(k - 1)) /\ Lowest(k)[k] = operations[k]
                                              /\ k \in DOMAIN Lowest(k) /\ Len(Lowest(k)) = k
           /\ Lowest(0) = <<>> /\ Lowest(Len(operations)) = operations
<1> DEFINE n == Len(operations)
<1>1. n \in Nat /\ DOMAIN operations = 1 .. n /\ \E S : operations \in Seq(S)
  BY TreeShown DEF StackInv, Good, Owned, Typed
<1>2. PICK S : operations \in Seq(S)
  BY <1>1
<1>3. operations \in [1 .. n -> S]
  BY <1>2, LenProperties
<1> HIDE DEF n
<1>4. ASSUME NEW k \in 0 .. n
      PROVE  /\ Lowest(k) \in Seq(S) /\ Len(Lowest(k)) = k
             /\ \A j \in 1 .. k : Lowest(k)[j] = operations[j]
  <2>1. 1 \in Int /\ k \in Int /\ \A j \in 1 .. k : operations[j] \in S
    BY <1>1, <1>3
  <2>2. /\ SubSeq(operations, 1, k) \in Seq(S)
        /\ Len(SubSeq(operations, 1, k)) = IF 1 <= k THEN k - 1 + 1 ELSE 0
        /\ \A j \in 1 .. k - 1 + 1 : SubSeq(operations, 1, k)[j] = operations[1 + j - 1]
    BY ONLY <2>1, SubSeqProperties
  <2> DEFINE s == SubSeq(operations, 1, k)
  <2>3. s \in Seq(S) /\ Len(s) = (IF 1 <= k THEN k - 1 + 1 ELSE 0) /\ \A j \in 1 .. k - 1 + 1 : s[j] = operations[1 + j - 1]
    BY <2>2
  <2> HIDE DEF s
  <2>4. Len(s) = k /\ \A j \in 1 .. k : s[j] = operations[j]
    BY <1>1, <2>3
  <2> QED
    BY <2>3, <2>4 DEF s, Lowest
<1>5. ASSUME NEW k \in 1 .. n
      PROVE  /\ Shorter(Lowest(k), k, Lowest(k - 1)) /\ Lowest(k)[k] = operations[k]
             /\ k \in DOMAIN Lowest(k) /\ Len(Lowest(k)) = k
  <2> DEFINE a == Lowest(k)
             b == Lowest(k - 1)
  <2>1. k \in 0 .. n /\ k - 1 \in 0 .. n
    BY <1>1
  <2>2. /\ a \in Seq(S) /\ Len(a) = k /\ \A j \in 1 .. k : a[j] = operations[j]
        /\ b \in Seq(S) /\ Len(b) = k - 1 /\ \A j \in 1 .. k - 1 : b[j] = operations[j]
    BY <1>4, <2>1
  <2> HIDE DEF a, b
  <2>3. DOMAIN a = 1 .. k
    BY <2>2, LenProperties
  <2>4. Shorter(a, k, b)
    BY <2>1, <2>2 DEF Shorter
  <2> QED
    BY <2>2, <2>3, <2>4 DEF a, b
<1>6. Lowest(0) = <<>>
  <2>1. Lowest(0) \in Seq(S) /\ Len(Lowest(0)) = 0
    BY <1>1, <1>4
  <2> QED
    BY <2>1, EmptySeq
<1>7. Lowest(n) = operations
  <2> DEFINE s == Lowest(n)
  <2>1. s \in Seq(S) /\ Len(s) = n /\ \A j \in 1 .. n : s[j] = operations[j]
    BY <1>1, <1>4
  <2> HIDE DEF s
  <2>2. s \in [1 .. n -> S]
    BY <2>1, LenProperties
  <2>3. s = operations
    BY <1>3, <2>1, <2>2
  <2> QED
    BY <2>3 DEF s
<1> QED
  BY <1>5, <1>6, <1>7 DEF n

\* The topmost of the lowest k operations is taken off, on their preview.
LEMMA LowestGood ==
    ASSUME StackInv, NEW k \in 1 .. Len(operations), NEW pv, Good(scanned, Lowest(k), pv)
    PROVE  Good(scanned, Lowest(k - 1), Popped(operations[k], pv)) /\ Popped(operations[k], pv) \in Previews
<1>1. scanned \in Devices
  BY DEF StackInv
<1>2. Shorter(Lowest(k), k, Lowest(k - 1)) /\ Lowest(k)[k] = operations[k] /\ k \in DOMAIN Lowest(k) /\ Len(Lowest(k)) = k
  BY LowestShorter
<1>3. \A j \in k + 1 .. Len(Lowest(k)) : Lowest(k)[j].kind = "Backup"
  BY <1>2
<1>4. Good(scanned, Lowest(k - 1), Popped(operations[k], pv))
  BY <1>1, <1>2, <1>3, RemoveGood
<1> QED
  BY <1>4 DEF Good, Owned, Typed

\* One operation is undone and deleted.
LEMMA PopGood ==
    ASSUME StackInv, Pop
    PROVE  StackInv'
<1> DEFINE n == Len(operations)
<1>1. n \in Nat /\ scanned \in Devices /\ Good(scanned, operations, preview) /\ \E S : operations \in Seq(S)
  BY TreeShown DEF StackInv, Good, Owned, Typed
<1>2. operations # <<>> /\ preview' = Popped(operations[n], preview) /\ operations' = Lowest(n - 1) /\ scanned' = scanned
  BY DEF Pop, Last, Front, Lowest
<1>3. n \in 1 .. n /\ Lowest(n) = operations
  BY <1>1, <1>2, Lengths, LowestShorter
<1> HIDE DEF n
<1>4. Good(scanned, Lowest(n - 1), Popped(operations[n], preview))
  BY <1>1, <1>3, LowestGood DEF n
<1> QED
  BY <1>1, <1>2, <1>4 DEF StackInv

\* All of them are, from the top down.
LEMMA ClearGood ==
    ASSUME StackInv, Clear
    PROVE  StackInv'
<1> DEFINE n == Len(operations)
           Down(k, pv) == IF Popped(operations[k], pv) \in Previews THEN Popped(operations[k], pv) ELSE pv
           Step == [k \in 1 .. n |-> [pv \in Previews |-> Down(k, pv)]]
           Is(s) == s = [k \in 0 .. n |-> IF k = n THEN preview ELSE Popped(operations[k + 1], s[k + 1])]
           Kept1(s) == { k \in 0 .. n : Good(scanned, Lowest(k), s[k]) }
<1>1. n \in Nat /\ scanned \in Devices /\ Good(scanned, operations, preview) /\ preview \in Previews
  BY TreeShown
<1>2. Lowest(n) = operations /\ Lowest(0) = <<>>
  BY LowestShorter
<1>3. ASSUME NEW s, s[n] = preview,
             \A k \in 1 .. n : Good(scanned, Lowest(k), s[k]) => s[k - 1] = Popped(operations[k], s[k])
      PROVE  \A k \in 0 .. n : Good(scanned, Lowest(k), s[k])
  <2> DEFINE T == Kept1(s)
  <2>1. n \in T
    BY <1>1, <1>2, <1>3
  <2>2. ASSUME NEW k \in 1 .. n, k \in T PROVE k - 1 \in T
    <3>1. Good(scanned, Lowest(k), s[k]) /\ k - 1 \in 0 .. n
      BY <1>1, <2>2
    <3>2. Good(scanned, Lowest(k - 1), Popped(operations[k], s[k]))
      BY <3>1, LowestGood
    <3> QED
      BY <1>3, <3>1, <3>2
  <2>3. \A k \in 0 .. n : k \in T
    <3> HIDE DEF T
    <3> QED
      BY <1>1, <2>1, <2>2, Downwards
  <2> QED
    BY <2>3
<1>4. PICK f : Is(f)
  <2>1. Step \in [1 .. n -> [Previews -> Previews]]
    OBVIOUS
  <2>2. \E f : Descends(f, n, Previews, preview, Step)
    <3> HIDE DEF Step, n
    <3> QED
      BY <1>1, <2>1, Descent
  <2>3. PICK f \in [0 .. n -> Previews] : f[n] = preview /\ \A k \in 0 .. n : k # n => f[k] = Step[k + 1][f[k + 1]]
    BY <2>2 DEF Descends
  <2>4. ASSUME NEW k \in 1 .. n, Good(scanned, Lowest(k), f[k]) PROVE f[k - 1] = Popped(operations[k], f[k])
    <3>1. k - 1 \in 0 .. n /\ k - 1 # n /\ k - 1 + 1 = k /\ k \in 0 .. n /\ f[k] \in Previews
      BY <1>1, <2>3
    <3>2. f[k - 1] = Step[k][f[k]]
      BY <2>3, <3>1
    <3>3. f[k - 1] = Down(k, f[k])
      BY <3>1, <3>2
    <3>4. Popped(operations[k], f[k]) \in Previews
      BY <2>4, LowestGood
    <3> QED
      BY <3>3, <3>4
  <2> HIDE DEF Step, Down
  <2>5. \A k \in 0 .. n : Good(scanned, Lowest(k), f[k])
    BY <1>3, <2>3, <2>4
  <2>6. ASSUME NEW k \in 0 .. n PROVE f[k] = IF k = n THEN preview ELSE Popped(operations[k + 1], f[k + 1])
    <3>1. CASE k # n
      <4>1. k + 1 \in 1 .. n /\ k + 1 \in 0 .. n /\ k + 1 - 1 = k
        BY <1>1, <3>1
      <4> QED
        BY <2>4, <2>5, <3>1, <4>1
    <3> QED
      BY <2>3, <3>1
  <2>7. f = [k \in 0 .. n |-> f[k]]
    BY <2>3
  <2>8. Is(f)
    BY <2>6, <2>7
  <2> QED
    BY <2>8
<1> DEFINE s == CHOOSE s : Is(s)
<1>5. preview' = s[0] /\ operations' = <<>> /\ scanned' = scanned
  BY DEF Clear
<1>6. Is(s)
  <2> HIDE DEF Is
  <2> QED
    BY <1>4
<1>7. s = [k \in 0 .. n |-> IF k = n THEN preview ELSE Popped(operations[k + 1], s[k + 1])]
  BY <1>6
<1> HIDE DEF s, Is, Step, Down
<1>8. s[n] = preview /\ \A k \in 1 .. n : s[k - 1] = Popped(operations[k], s[k])
  <2>1. s[n] = preview
    BY <1>1, <1>7
  <2>2. ASSUME NEW k \in 1 .. n PROVE s[k - 1] = Popped(operations[k], s[k])
    <3>1. k - 1 \in 0 .. n /\ k - 1 # n /\ k - 1 + 1 = k
      BY <1>1
    <3> QED
      BY <1>7, <3>1
  <2> QED
    BY <2>1, <2>2
<1>9. Good(scanned, Lowest(0), s[0])
  <2>1. 0 \in 0 .. n
    BY <1>1
  <2> QED
    BY <1>3, <1>8, <2>1
<1> QED
  BY <1>1, <1>2, <1>5, <1>9 DEF StackInv

--------------------------------------------------------------------------------
(* The invariant holds.                                                    *)

\* The scan.
LEMMA StackInit == CarefulFrontEnd /\ Init => StackInv
<1> SUFFICES ASSUME CarefulFrontEnd, Init PROVE StackInv
  OBVIOUS
<1>1. preview \in Devices /\ scanned = preview /\ operations = <<>>
  BY DEF Init
<1> QED
  BY <1>1, GoodInit DEF StackInv

\* Every push, whatever merges with it, and every pop.
LEMMA StackStep == StackInv /\ [Next]_vars => StackInv'
<1> SUFFICES ASSUME StackInv, [Next]_vars PROVE StackInv'
  OBVIOUS
<1>1. CASE UNCHANGED vars
  BY <1>1 DEF StackInv, vars
<1>2. CASE PushNew \/ PushDelete \/ PushResize \/ PushCopyToFree \/ PushCopyOver
  BY <1>2, PushNewGood, PushDeleteGood, PushResizeGood, PushCopyToFreeGood, PushCopyOverGood
<1>3. CASE PushRestoreToFree \/ PushRestoreOver \/ PushFlags \/ PushLabel
  BY <1>3, PushRestoreToFreeGood, PushRestoreOverGood, PushFlagsGood, PushLabelGood
<1>4. CASE PushFormat \/ PushCheck \/ PushBackup \/ PushTable
  BY <1>4, PushFormatGood, PushCheckGood, PushBackupGood, PushTableGood
<1>5. CASE Pop \/ Clear
  BY <1>5, PopGood, ClearGood
<1> QED
  BY <1>1, <1>2, <1>3, <1>4, <1>5 DEF Next

\* What is in the tree below every operation of the stack is what it was pushed on, whatever
\* was merged, taken out or changed since.
THEOREM StackInvariance == CarefulFrontEnd => (Spec => []StackInv)
<1> SUFFICES ASSUME CarefulFrontEnd PROVE Spec => []StackInv
  OBVIOUS
<1>1. Init => StackInv
  BY StackInit
<1>2. StackInv /\ [Next]_vars => StackInv'
  BY StackStep
<1> QED
  BY <1>1, <1>2, PTL DEF Spec

--------------------------------------------------------------------------------
(* Undoing leads from level to level.                                      *)

\* What undo() makes of any preview.
LEMMA UndoFacts ==
    ASSUME NEW op, IsOp(op), NEW pv \in Previews
    PROVE  /\ Undo(op, pv) \in Previews /\ Undo(op, pv).live = pv.live
           /\ Undo(op, pv).table = IF op.kind = "Table" THEN op.old ELSE pv.table
           /\ \A q \in PartIds : Undo(op, pv).parts[q] = Reverted(op, q, pv.parts[q])
           /\ \A m \in Nodes : Undo(op, pv).children[m] =
                                 (pv.children[m] \ (Creates(op) \cap Below(pv, m))) \cup (Removes(op) \cap Below(pv, m))
<1> DEFINE p == op.part
           w == Undo(op, pv)
           Result == /\ w \in Previews /\ w.live = pv.live
                     /\ w.table = IF op.kind = "Table" THEN op.old ELSE pv.table
                     /\ \A q \in PartIds : w.parts[q] = Reverted(op, q, pv.parts[q])
                     /\ \A m \in Nodes : w.children[m] =
                                           (pv.children[m] \ (Creates(op) \cap Below(pv, m))) \cup (Removes(op) \cap Below(pv, m))
<1>1. op.kind \in Kinds /\ (op.kind # "Table" => p \in PartIds)
  BY DEF IsOp
<1>2. op.kind \notin Creating \cup {"Delete"} => Creates(op) = {} /\ Removes(op) = {}
  BY <1>1 DEF Creates, Removes, Replacing, Creating
<1>3. op.kind \notin {"Resize", "Flags", "Format"} => \A q, x : Reverted(op, q, x) = x
  BY DEF Reverted
<1> HIDE DEF p
<1>4. ASSUME op.kind \in Creating PROVE Result
  <2> DEFINE u == RemovePreview(pv, p)
  <2>1. p \in PartIds /\ op.kind # "Table" /\ op.kind \notin {"Resize", "Flags", "Format"}
    BY <1>1, <1>4 DEF Creating
  <2>2. /\ u \in Previews /\ u.live = pv.live /\ u.parts = pv.parts /\ u.table = pv.table
        /\ \A m \in Nodes : u.children[m] = pv.children[m] \ ({p} \cap Below(pv, m))
    BY <2>1, TreeFacts
  <2>3. Creates(op) = {p}
    BY <1>4 DEF Creates, p
  <2>4. CASE ~Replacing(op)
    <3>1. w = u /\ Removes(op) = {}
      BY <1>4, <2>4 DEF Undo, Creating, Removes, Replacing, p
    <3> HIDE DEF w, u
    <3> QED
      BY <1>3, <2>1, <2>2, <2>3, <3>1
  <2>5. CASE Replacing(op)
    <3> DEFINE o == op.over
    <3>1. w = InsertPreview(u, o) /\ Removes(op) = {o} /\ o \in PartIds
      BY <2>5 DEF Undo, Creating, Removes, Replacing, IsOp, p
    <3> HIDE DEF w, u, o
    <3>2. /\ w \in Previews /\ w.live = u.live /\ w.parts = u.parts /\ w.table = u.table
          /\ \A m \in Nodes : w.children[m] = u.children[m] \cup ({o} \cap Below(u, m))
      BY <2>2, <3>1, TreeFacts
    <3>3. \A m : Below(u, m) = Below(pv, m)
      BY <2>2 DEF Below
    <3> QED
      BY <1>3, <2>1, <2>2, <2>3, <3>1, <3>2, <3>3
  <2> QED
    BY <2>4, <2>5
<1>5. ASSUME op.kind = "Delete" PROVE Result
  <2>1. w = InsertPreview(pv, p) /\ p \in PartIds /\ Creates(op) = {} /\ Removes(op) = {p}
    BY <1>1, <1>5 DEF Undo, Creating, Creates, Removes, p
  <2> HIDE DEF w
  <2>2. /\ w \in Previews /\ w.live = pv.live /\ w.parts = pv.parts /\ w.table = pv.table
        /\ \A m \in Nodes : w.children[m] = pv.children[m] \cup ({p} \cap Below(pv, m))
    BY <2>1, TreeFacts
  <2> QED
    BY <1>3, <1>5, <2>1, <2>2
<1>6. ASSUME op.kind \in {"Resize", "Flags", "Format"} PROVE Result
  <2> DEFINE x == Reverted(op, p, pv.parts[p])
  <2>1. p \in PartIds /\ pv.parts \in [PartIds -> Partition]
    BY <1>1, <1>6 DEF Previews
  <2>2. pv.parts[p] \in Partition
    BY <2>1
  <2>3. x \in Partition
    BY <2>1, <2>2, RevertedKeeps
  <2>4. w = WithContent(pv, p, x)
    <3>1. CASE op.kind = "Resize"
      BY <2>1, <2>2, <3>1 DEF Undo, SetSectors, Reverted, WithContent, p, Previews, Partition
    <3>2. CASE op.kind = "Flags"
      BY <2>1, <2>2, <3>2 DEF Undo, Reverted, WithContent, p, Previews, Partition
    <3>3. CASE op.kind = "Format"
      BY <2>1, <2>2, <3>3 DEF Undo, Reverted, WithContent, p, Previews, Partition
    <3> QED
      BY <1>6, <3>1, <3>2, <3>3
  <2> HIDE DEF w, x
  <2>5. /\ w \in Previews /\ w.live = pv.live /\ w.table = pv.table /\ w.children = pv.children
        /\ w.parts[p] = x /\ \A q \in PartIds \ {p} : w.parts[q] = pv.parts[q]
    <3>1. pv \in Previews /\ p \in PartIds /\ x \in Partition
      BY <2>1, <2>3
    <3> HIDE DEF p
    <3> QED
      BY ONLY <2>4, <3>1, ContentChanged
  <2>6. \A q \in PartIds \ {p} : Reverted(op, q, pv.parts[q]) = pv.parts[q]
    BY DEF Reverted, p
  <2>7. op.kind # "Table" /\ Creates(op) = {} /\ Removes(op) = {}
    BY <1>2, <1>6 DEF Creating
  <2>8. \A q \in PartIds : w.parts[q] = Reverted(op, q, pv.parts[q])
    BY <2>5, <2>6 DEF x
  <2> QED
    BY <2>5, <2>7, <2>8
<1>7. ASSUME op.kind = "Label" PROVE Result
  <2>1. w = [pv EXCEPT !.labels[pv.parts[p].fs] = op.old] /\ op.old \in Labels \cup {None}
    BY <1>7 DEF Undo, IsOp, Creating, p
  <2> HIDE DEF w
  <2>2. w \in Previews /\ w.live = pv.live /\ w.parts = pv.parts /\ w.table = pv.table /\ w.children = pv.children
    BY <2>1 DEF Previews
  <2>3. Creates(op) = {} /\ Removes(op) = {}
    BY <1>2, <1>7 DEF Creating
  <2> QED
    BY <1>3, <1>7, <2>2, <2>3
<1>8. ASSUME op.kind = "Table" PROVE Result
  <2>1. w = [pv EXCEPT !.table = op.old] /\ op.old \in TableIds
    BY <1>8 DEF Undo, IsOp, Creating
  <2> HIDE DEF w
  <2>2. w \in Previews /\ w.live = pv.live /\ w.parts = pv.parts /\ w.table = op.old /\ w.children = pv.children
    BY <2>1 DEF Previews
  <2>3. Creates(op) = {} /\ Removes(op) = {}
    BY <1>2, <1>8 DEF Creating
  <2> QED
    BY <1>3, <1>8, <2>2, <2>3
<1>9. ASSUME op.kind \in {"Check", "Backup"} PROVE Result
  <2>1. w = pv
    BY <1>9 DEF Undo, Creating
  <2> HIDE DEF w
  <2>3. Creates(op) = {} /\ Removes(op) = {}
    BY <1>2, <1>9 DEF Creating
  <2> QED
    BY <1>3, <1>9, <2>1, <2>3
<1>10. Result
  BY <1>1, <1>4, <1>5, <1>6, <1>7, <1>8, <1>9 DEF Kinds
<1> HIDE DEF w
<1> QED
  BY <1>10 DEF w

\* The tree below an operation, from the one above it.
LEMMA PresentBelow ==
    ASSUME NEW sc \in Devices, NEW ops, NEW pv, Owned(sc, ops, pv), NEW k \in 1 .. Len(ops)
    PROVE  Present(sc, ops, k - 1) = (Present(sc, ops, k) \ Creates(ops[k])) \cup Removes(ops[k])
<1> DEFINE K == Known(sc, ops)
<1>1. Typed(sc, ops, pv) /\ Fresh(sc, ops, pv)
  BY DEF Owned
<1>2. /\ Len(ops) \in Nat /\ DOMAIN ops = 1 .. Len(ops)
      /\ \A i \in 1 .. Len(ops) : Creates(ops[i]) \subseteq Uses(ops[i]) /\ Removes(ops[i]) \subseteq Uses(ops[i])
      /\ \A i : Present(sc, ops, i) \subseteq K
  BY <1>1, GoodTypes
<1>3. \A p \in Creates(ops[k]) : p \notin Removes(ops[k])
  BY <1>1, <1>2 DEF Fresh
<1>4. /\ \A p \in Removes(ops[k]) : p \in Present(sc, ops, k - 1)
      /\ \A p \in Creates(ops[k]) : p \notin Present(sc, ops, k - 1)
  BY <1>2, <1>3, OperandsPresent
<1>5. \A i \in 1 .. k : i \in 1 .. k - 1 \/ i = k
  BY <1>2
<1>6. \A i \in 1 .. k - 1 : i \in 1 .. k
  BY <1>2
<1>7. k \in 1 .. k
  BY <1>2
<1>8. ASSUME NEW p \in K, p \in Present(sc, ops, k - 1), p \notin Removes(ops[k]) PROVE p \in Present(sc, ops, k)
  BY <1>5, <1>6, <1>8 DEF Present
<1>9. ASSUME NEW p \in K, p \in Present(sc, ops, k), p \notin Creates(ops[k]) PROVE p \in Present(sc, ops, k - 1)
  BY <1>5, <1>6, <1>9 DEF Present
<1> HIDE DEF K
<1> DEFINE A == Present(sc, ops, k - 1)
           B == Present(sc, ops, k)
<1>10. A \subseteq K /\ B \subseteq K
  BY <1>2
<1> HIDE DEF A, B
<1>11. A = (B \ Creates(ops[k])) \cup Removes(ops[k])
  BY <1>4, <1>8, <1>9, <1>10 DEF A, B
<1> QED
  BY <1>11 DEF A, B

\* The preview pv shows the level v with the partitions of P in the tree.
ShowsLevel(pv, v, P, K) ==
    /\ pv \in Previews /\ pv.live = preview.live /\ pv.table = v.table
    /\ \A q \in K : pv.parts[q] = v.parts[q]
    /\ \A m \in Nodes : pv.children[m] = P \cap Below(preview, m)

\* With the operations above it undone, the preview shows the level below each operation.
LEMMA UnwoundLevels ==
    ASSUME StackInv, NEW l, Layered(scanned, operations, preview, l)
    PROVE  \A k \in 0 .. Len(operations) :
              ShowsLevel(Unwound[k], l[k], Present(scanned, operations, k), Known(scanned, operations))
<1> DEFINE n == Len(operations)
           K == Known(scanned, operations)
           P(k) == Present(scanned, operations, k)
           Step == [k \in 1 .. n |-> [pv \in Previews |-> Undo(operations[k], pv)]]
           Is(u) == u = [k \in 0 .. n |-> IF k = n THEN preview ELSE Undo(operations[k + 1], u[k + 1])]
<1>1. /\ n \in Nat /\ scanned \in Devices /\ Owned(scanned, operations, preview) /\ preview \in Previews /\ K \subseteq PartIds
      /\ \A k \in 1 .. n : IsOp(operations[k]) /\ Uses(operations[k]) \subseteq K
      /\ \A m \in Nodes : preview.children[m] = P(n) \cap Below(preview, m)
  BY TreeShown
<1>2. Typed(scanned, operations, preview)
  BY <1>1 DEF Owned
<1>3. PICK f : Is(f)
  <2>1. Step \in [1 .. n -> [Previews -> Previews]]
    BY <1>1, UndoFacts
  <2>2. \E f : Descends(f, n, Previews, preview, Step)
    <3> HIDE DEF Step, n
    <3> QED
      BY <1>1, <2>1, Descent
  <2>3. PICK f \in [0 .. n -> Previews] : f[n] = preview /\ \A k \in 0 .. n : k # n => f[k] = Step[k + 1][f[k + 1]]
    BY <2>2 DEF Descends
  <2>4. ASSUME NEW k \in 0 .. n PROVE f[k] = IF k = n THEN preview ELSE Undo(operations[k + 1], f[k + 1])
    <3>1. CASE k # n
      <4>1. k + 1 \in 1 .. n /\ k + 1 \in 0 .. n
        BY <1>1, <3>1
      <4>2. f[k + 1] \in Previews
        BY <2>3, <4>1
      <4>3. Step[k + 1][f[k + 1]] = Undo(operations[k + 1], f[k + 1])
        BY <4>1, <4>2
      <4> QED
        BY <2>3, <3>1, <4>3
    <3> QED
      BY <2>3, <3>1
  <2> HIDE DEF Step
  <2>5. f = [k \in 0 .. n |-> f[k]]
    BY <2>3
  <2> QED
    BY <2>4, <2>5
<1>4. Unwound = CHOOSE u : Is(u)
  BY DEF Unwound
<1> DEFINE u == Unwound
<1>5. Is(u)
  <2> HIDE DEF Is
  <2> QED
    BY <1>3, <1>4
<1>6. u = [k \in 0 .. n |-> IF k = n THEN preview ELSE Undo(operations[k + 1], u[k + 1])]
  BY <1>5
<1> DEFINE T == { k \in 0 .. n : ShowsLevel(u[k], l[k], P(k), K) }
<1> HIDE DEF u, Is, Step, P, K
<1>7. n \in T
  <2>1. n \in 0 .. n /\ u[n] = preview
    BY <1>1, <1>6
  <2>2. l[n].table = preview.table /\ \A q \in K : l[n].parts[q] = preview.parts[q]
    BY DEF Layered, Ends, K
  <2> QED
    BY <1>1, <2>1, <2>2 DEF ShowsLevel
<1>8. ASSUME NEW k \in 1 .. n, k \in T PROVE k - 1 \in T
  <2> DEFINE op == operations[k]
             a == l[k - 1]
             b == l[k]
             pv == u[k]
             w == u[k - 1]
  <2>1. k - 1 \in 0 .. n /\ k - 1 # n /\ k - 1 + 1 = k /\ k \in 0 .. n
    BY <1>1
  <2>2. w = Undo(op, pv)
    BY <1>6, <2>1
  <2>3. /\ pv \in Previews /\ pv.live = preview.live /\ pv.table = b.table /\ \A q \in K : pv.parts[q] = b.parts[q]
        /\ \A m \in Nodes : pv.children[m] = P(k) \cap Below(preview, m)
    BY <1>8 DEF ShowsLevel
  <2>4. /\ w \in Previews /\ w.live = pv.live
        /\ w.table = (IF op.kind = "Table" THEN op.old ELSE pv.table)
        /\ \A q \in PartIds : w.parts[q] = Reverted(op, q, pv.parts[q])
        /\ \A m \in Nodes : w.children[m] =
                              (pv.children[m] \ (Creates(op) \cap Below(pv, m))) \cup (Removes(op) \cap Below(pv, m))
    BY <1>1, <2>2, <2>3, UndoFacts
  <2>5. Leads(K, op, a, b)
    BY <1>1, GoodTypes DEF Layered, K
  <2>6. P(k - 1) = (P(k) \ Creates(op)) \cup Removes(op)
    BY <1>1, PresentBelow DEF P
  <2>7. /\ \A q \in K : a.parts[q] \in Partition
        /\ \A q \in K : b.parts[q].parent = preview.parts[q].parent
    <3>1. a.parts \in [PartIds -> Partition]
      BY <1>1, <1>2, <2>1, LevelsKeep
    <3>2. \A q \in K : b.parts[q].parent = preview.parts[q].parent
      BY <1>1, <1>2, <2>1, LevelsKeep DEF K
    <3> QED
      BY <1>1, <3>1, <3>2
  <2>8. IsOp(op) /\ Creates(op) \subseteq K /\ Removes(op) \subseteq K
    <3>1. IsOp(op) /\ Uses(op) \subseteq K
      BY <1>1
    <3>2. Creates(op) \subseteq Uses(op) /\ Removes(op) \subseteq Uses(op)
      BY <3>1, OperandFacts
    <3> QED
      BY <3>1, <3>2
  <2> HIDE DEF op, a, b, pv, w
  <2>9. w.table = a.table
    BY <2>3, <2>4, <2>5 DEF Leads
  <2>10. \A q \in K : w.parts[q] = a.parts[q]
    <3> SUFFICES ASSUME NEW q \in K PROVE w.parts[q] = a.parts[q]
      OBVIOUS
    <3>1. q \in PartIds /\ Alters(op, q, a.parts[q], b.parts[q]) /\ a.parts[q] \in Partition
      BY <1>1, <2>5, <2>7 DEF Leads
    <3>2. Reverted(op, q, b.parts[q]) = a.parts[q]
      BY <2>8, <3>1, RevertedAlters
    <3> QED
      BY <2>3, <2>4, <3>1, <3>2
  <2>11. \A m \in Nodes : w.children[m] = P(k - 1) \cap Below(preview, m)
    <3> SUFFICES ASSUME NEW m \in Nodes PROVE w.children[m] = P(k - 1) \cap Below(preview, m)
      OBVIOUS
    <3> DEFINE c == Below(pv, m)
               d == Below(preview, m)
    <3>1. \A q \in K : q \in c <=> q \in d
      BY <1>1, <2>3, <2>7 DEF Below
    <3>2. w.children[m] = ((P(k) \cap d) \ (Creates(op) \cap c)) \cup (Removes(op) \cap c)
      BY <2>3, <2>4
    <3> HIDE DEF c, d
    <3>3. w.children[m] = ((P(k) \ Creates(op)) \cup Removes(op)) \cap d
      BY <2>8, <3>1, <3>2
    <3> QED
      BY <2>6, <3>3 DEF d
  <2>12. ShowsLevel(w, a, P(k - 1), K)
    BY <2>3, <2>4, <2>9, <2>10, <2>11 DEF ShowsLevel
  <2> QED
    BY <2>1, <2>12 DEF w, a
<1>9. \A k \in 0 .. n : k \in T
  <2> HIDE DEF T
  <2> QED
    BY <1>1, <1>7, <1>8, Downwards
<1> QED
  BY <1>9 DEF u, P, K

--------------------------------------------------------------------------------
(* What the properties say of a level.                                     *)

\* The preview pv shows what lies, by the levels, below the k-th operation.
ShownAt(pv, v, P, K) ==
    /\ pv.table = v.table /\ v.table \in TableIds /\ K \subseteq pv.live
    /\ P \subseteq K /\ K \subseteq PartIds
    /\ \A q \in K : pv.parts[q] = v.parts[q]
    /\ \A m \in Nodes : \A q : q \in pv.children[m] <=> q \in P /\ v.parts[q].parent = m
    /\ \A q \in P : v.parts[q].parent \in TableIds
                    \/ (v.parts[q].parent \in P /\ v.parts[v.parts[q].parent].parent \in TableIds)
    /\ Sound(v, P)

\* Every level is shown when the operations above it are undone.
LEMMA LevelShown ==
    ASSUME StackInv, NEW l, Layered(scanned, operations, preview, l), NEW k \in 0 .. Len(operations)
    PROVE  ShownAt(Unwound[k], l[k], Present(scanned, operations, k), Known(scanned, operations))
<1> DEFINE n == Len(operations)
           K == Known(scanned, operations)
           P == Present(scanned, operations, k)
           v == l[k]
           pv == Unwound[k]
<1>1. /\ n \in Nat /\ scanned \in Devices /\ Owned(scanned, operations, preview)
      /\ K \subseteq PartIds /\ K \subseteq preview.live /\ preview.parts \in [PartIds -> Partition]
  BY TreeShown DEF Previews
<1>2. Typed(scanned, operations, preview) /\ Rooted(scanned, operations, preview)
  BY <1>1 DEF Owned
<1>3. P \subseteq K
  BY <1>1, <1>2, GoodTypes
<1>4. /\ v.table \in TableIds /\ \A q \in K : v.parts[q].parent = preview.parts[q].parent
  BY <1>1, <1>2, LevelsKeep
<1>5. /\ pv.live = preview.live /\ pv.table = v.table /\ \A q \in K : pv.parts[q] = v.parts[q]
      /\ \A m \in Nodes : pv.children[m] = P \cap Below(preview, m)
  BY UnwoundLevels DEF ShowsLevel
<1>6. ASSUME NEW q \in P
      PROVE  v.parts[q].parent \in TableIds \/ (v.parts[q].parent \in P /\ v.parts[v.parts[q].parent].parent \in TableIds)
  <2> DEFINE r == preview.parts[q].parent
  <2>1. r \in Nodes
    BY <1>1, <1>3 DEF Partition
  <2>2. CASE r \in TableIds
    BY <1>3, <1>4, <2>2
  <2>3. CASE r \in PartIds
    <3>1. r \in P
      BY <1>1, <2>3, ParentPresent
    <3>2. preview.parts[r].role = "extended"
      BY <1>2, <1>3, <2>3 DEF Rooted
    <3>3. preview.parts[r].parent \notin PartIds
      BY <1>2, <1>3, <3>1, <3>2 DEF Rooted
    <3>4. preview.parts[r].parent \in Nodes
      BY <1>1, <2>3 DEF Partition
    <3> QED
      BY <1>3, <1>4, <3>1, <3>3, <3>4 DEF Nodes
  <2> QED
    BY <2>1, <2>2, <2>3 DEF Nodes
<1>7. Sound(v, P)
  BY DEF Layered
<1> HIDE DEF v, P, pv, K
<1>8. \A m \in Nodes : \A q : q \in pv.children[m] <=> q \in P /\ v.parts[q].parent = m
  BY <1>1, <1>3, <1>4, <1>5 DEF Below
<1> HIDE DEF n
<1>9. ShownAt(pv, v, P, K)
  BY <1>1, <1>3, <1>4, <1>5, <1>6, <1>7, <1>8 DEF ShownAt
<1> QED
  BY <1>9 DEF v, P, pv, K

\* The partitions visible are those in the tree below the table.
LEMMA VisibleAt ==
    ASSUME NEW pv, NEW v, NEW P, NEW K, ShownAt(pv, v, P, K)
    PROVE  Visible(pv) = { p \in P : Root(v, p) = v.table }
<1> DEFINE t == v.table
<1>1. /\ pv.table = t /\ t \in Nodes /\ t \in TableIds /\ P \subseteq Nodes /\ P \subseteq PartIds
      /\ \A q \in PartIds : q \notin TableIds
  BY StackAssumption DEF ShownAt, Nodes
<1>2. \A m \in Nodes : \A q : q \in pv.children[m] <=> q \in P /\ v.parts[q].parent = m
  BY DEF ShownAt
<1>3. \A q \in P : v.parts[q].parent \in TableIds
                   \/ (v.parts[q].parent \in P /\ v.parts[v.parts[q].parent].parent \in TableIds)
  BY DEF ShownAt
<1>4. Visible(pv) = pv.children[t] \cup UNION { pv.children[q] : q \in pv.children[t] }
  BY <1>1 DEF Visible
<1> HIDE DEF t
<1>5. ASSUME NEW p \in Visible(pv) PROVE p \in P /\ Root(v, p) = t
  <2>1. CASE p \in pv.children[t]
    BY <1>1, <1>2, <2>1 DEF Root
  <2>2. CASE \E q \in pv.children[t] : p \in pv.children[q]
    BY <1>1, <1>2, <2>2 DEF Root
  <2> QED
    BY <1>4, <2>1, <2>2
<1>6. ASSUME NEW p \in P, Root(v, p) = t PROVE p \in Visible(pv)
  <2>1. CASE v.parts[p].parent \in TableIds
    BY <1>1, <1>2, <1>4, <1>6, <2>1 DEF Root
  <2>2. CASE v.parts[p].parent \notin TableIds
    <3>1. v.parts[p].parent \in P /\ v.parts[v.parts[p].parent].parent = t
      BY <1>3, <1>6, <2>2 DEF Root
    <3>2. v.parts[p].parent \in pv.children[t] /\ p \in pv.children[v.parts[p].parent]
      BY <1>1, <1>2, <3>1
    <3> QED
      BY <1>4, <3>2
  <2> QED
    BY <2>1, <2>2
<1> QED
  BY <1>5, <1>6 DEF t

--------------------------------------------------------------------------------
(* The properties of the stack.                                            *)

\* A level that is shown is a layout that a device can have.
LEMMA ConsistentAt ==
    ASSUME NEW pv, NEW v, NEW P, NEW K, ShownAt(pv, v, P, K)
    PROVE  Consistent(pv)
<1> DEFINE shown == { q \in P : Root(v, q) = v.table }
<1>1. Visible(pv) = shown
  BY VisibleAt
<1>2. shown \subseteq P
  OBVIOUS
<1> HIDE DEF shown
<1>3. /\ pv.table = v.table /\ v.table \in TableIds /\ K \subseteq pv.live /\ P \subseteq K /\ K \subseteq PartIds
      /\ \A q \in K : pv.parts[q] = v.parts[q]
      /\ \A m \in Nodes : \A q : q \in pv.children[m] <=> q \in P /\ v.parts[q].parent = m
      /\ Sound(v, P)
  BY DEF ShownAt
<1>4. SUFFICES ASSUME NEW m \in {pv.table} \cup Visible(pv), NEW p \in pv.children[m]
               PROVE  p \in pv.live /\ pv.parts[p].parent = m /\ IsFree(pv, m, pv.parts[p].first, pv.parts[p].last, {p})
  BY DEF Consistent
<1>5. m \in Nodes /\ (m \in TableIds \/ m \in K)
  BY <1>1, <1>2, <1>3 DEF Nodes
<1>6. p \in P /\ p \in K /\ v.parts[p].parent = m
  BY <1>3, <1>5
<1>7. \A q \in K : Extent(pv, q) = Extent(v, q)
  BY <1>3 DEF Extent
<1>8. Bounds(pv, m) = Bounds(v, m)
  BY <1>3, <1>5 DEF Bounds
<1>9. v.parts[p].first <= v.parts[p].last /\ Extent(v, p) \subseteq Bounds(v, m)
  BY <1>3, <1>6 DEF Sound
<1>10. \A q \in pv.children[m] \ {p} : Extent(v, p) \cap Extent(pv, q) = {}
  BY <1>3, <1>5, <1>6, <1>7 DEF Sound
<1> QED
  BY <1>3, <1>6, <1>8, <1>9, <1>10 DEF IsFree, Extent

\* The layout below every operation is consistent.
LEMMA InvConsistent == StackInv => EveryPrefixConsistent
<1> SUFFICES ASSUME StackInv, NEW k \in 0 .. Len(operations) PROVE Consistent(Unwound[k])
  BY DEF EveryPrefixConsistent
<1>1. PICK l : Layered(scanned, operations, preview, l)
  BY DEF StackInv, Good
<1>2. ShownAt(Unwound[k], l[k], Present(scanned, operations, k), Known(scanned, operations))
  BY <1>1, LevelShown
<1> QED
  BY <1>2, ConsistentAt

\* Undone to the bottom, the preview shows what was scanned.
LEMMA InvRestores == StackInv => UndoRestoresLayout
<1> SUFFICES ASSUME StackInv PROVE UndoRestoresLayout
  OBVIOUS
<1>1. PICK l : Layered(scanned, operations, preview, l)
  BY DEF StackInv, Good
<1> DEFINE K == Known(scanned, operations)
           P == Present(scanned, operations, 0)
           v == l[0]
           pv == Unwound[0]
<1>2. scanned \in Devices /\ Len(operations) \in Nat /\ 0 \in 0 .. Len(operations)
  BY TreeShown
<1>3. ShownAt(pv, v, P, K)
  BY <1>1, <1>2, LevelShown
<1>4. P = scanned.live
  <2>1. 1 .. 0 = {}
    OBVIOUS
  <2> QED
    BY <2>1 DEF Present, Known
<1>5. v.table = scanned.table /\ \A p \in scanned.live : v.parts[p] = scanned.parts[p]
  BY <1>1 DEF Layered, Starts
<1>6. Visible(pv) = { p \in P : Root(v, p) = v.table }
  BY <1>3, VisibleAt
<1>7. pv.table = v.table /\ P \subseteq K /\ \A q \in K : pv.parts[q] = v.parts[q]
  BY <1>3 DEF ShownAt
<1> HIDE DEF v, pv, P, K
<1>8. /\ \A p \in scanned.live : scanned.parts[p].parent \in TableIds \/ scanned.parts[p].parent \in scanned.live
      /\ \A p \in scanned.live : Root(scanned, p) = scanned.table
  <2>1. scanned \in Previews /\ scanned.live \subseteq PartIds
    BY <1>2, ScanFacts
  <2>2. \A p \in scanned.live : scanned.parts[p].parent \in Nodes
    BY <2>1 DEF Previews, Partition
  <2> QED
    BY <1>2, <2>2, ScanFacts DEF Nodes
<1>9. \A p \in P : Root(v, p) = v.table
  BY <1>4, <1>5, <1>8 DEF Root
<1>10. Visible(pv) = scanned.live
  BY <1>4, <1>6, <1>9
<1>11. Visible(scanned) = scanned.live
  BY <1>2, DevicesAssumption DEF IsScan
<1>12. pv.table = scanned.table /\ \A p \in scanned.live : pv.parts[p] = scanned.parts[p]
  BY <1>4, <1>5, <1>7
<1>13. Layout(pv) = Layout(scanned)
  BY <1>10, <1>11, <1>12 DEF Layout
<1> QED
  BY <1>13 DEF UndoRestoresLayout, pv

\* What the operations of the stack find when they are executed one after the other.
LEMMA InvRuns == StackInv => RunsInOrder
<1> SUFFICES ASSUME StackInv, NEW i \in DOMAIN operations PROVE Executable(operations[i], Unwound[i - 1])
  BY DEF RunsInOrder
<1>1. PICK l : Layered(scanned, operations, preview, l)
  BY DEF StackInv, Good
<1> DEFINE op == operations[i]
           K == Known(scanned, operations)
           P == Present(scanned, operations, i - 1)
           v == l[i - 1]
           w == l[i]
           pv == Unwound[i - 1]
<1>2. /\ scanned \in Devices /\ Owned(scanned, operations, preview) /\ Len(operations) \in Nat
      /\ DOMAIN operations = 1 .. Len(operations) /\ i - 1 \in 0 .. Len(operations)
      /\ IsOp(op) /\ Uses(op) \subseteq K
  <2>1. /\ scanned \in Devices /\ Owned(scanned, operations, preview) /\ Len(operations) \in Nat
        /\ DOMAIN operations = 1 .. Len(operations) /\ IsOp(op) /\ Uses(op) \subseteq K
    BY TreeShown
  <2> QED
    BY <2>1
<1>3. ShownAt(pv, v, P, K)
  BY <1>1, <1>2, LevelShown
<1>4. Leads(K, op, v, w)
  BY <1>1, <1>2 DEF Layered
<1>5. /\ \A p \in Uses(op) \ Creates(op) : p \in P
      /\ \A p \in Creates(op) : p \notin P
  BY <1>2, OperandsPresent
<1>6. \A p \in Creates(op) : p \notin Removes(op)
  BY <1>2 DEF Owned, Fresh
<1>7. Visible(pv) = { p \in P : Root(v, p) = v.table }
  BY <1>3, VisibleAt
<1>8. pv.table = v.table /\ \A q \in K : pv.parts[q] = v.parts[q]
  BY <1>3 DEF ShownAt
<1> HIDE DEF op, K, P, v, w, pv
<1>9. ASSUME op.kind = "Table" PROVE Executable(op, pv)
  BY <1>4, <1>8, <1>9 DEF Executable, Leads
<1>10. ASSUME op.kind # "Table" PROVE Executable(op, pv)
  <2>1. \A p \in Uses(op) : p \in Visible(pv) <=> p \notin Creates(op)
    BY <1>4, <1>5, <1>7, <1>10 DEF Leads
  <2>2. op.part \in Uses(op) /\ op.part \in K /\ (op.part \in Visible(pv) <=> op.kind \notin Creating)
    BY <1>2, <1>10, <2>1 DEF Uses, Creates
  <2>3. op.kind = "Copy" => op.from \in Visible(pv)
    BY <1>2, <2>1 DEF Uses, Creates, IsOp
  <2>4. op.kind \in {"Copy", "Restore"} /\ op.over # None =>
            op.over \in Visible(pv) /\ Extent(pv, op.part) = Extent(pv, op.over)
    <3> SUFFICES ASSUME Replacing(op) PROVE op.over \in Visible(pv) /\ Extent(pv, op.part) = Extent(pv, op.over)
      BY DEF Replacing
    <3>1. op.over \in Uses(op) /\ op.over \in Removes(op) /\ op.over \in K
      BY <1>2, OperandFacts
    <3>2. op.over \in Visible(pv)
      BY <1>6, <2>1, <3>1
    <3>3. Extent(v, op.part) = Extent(v, op.over)
      BY <1>4 DEF Leads
    <3> QED
      BY <1>8, <2>2, <3>1, <3>2, <3>3 DEF Extent
  <2>5. Alters(op, op.part, v.parts[op.part], w.parts[op.part])
    BY <1>4, <2>2 DEF Leads
  <2>6. pv.parts[op.part] = v.parts[op.part]
    BY <1>8, <2>2
  <2>7. /\ op.kind = "Resize" => pv.parts[op.part].first = op.oldFirst /\ pv.parts[op.part].last = op.oldLast
        /\ op.kind = "Flags"  => pv.parts[op.part].flags = op.old
        /\ op.kind = "Format" => pv.parts[op.part].fs = op.old
    BY <2>5, <2>6 DEF Alters
  <2> QED
    BY <1>10, <2>2, <2>3, <2>4, <2>7 DEF Executable
<1> QED
  BY <1>9, <1>10 DEF op, pv

\* A partition that is shown and not on the disk has one owner.
LEMMA InvOwned == StackInv => OwnedOnce
<1> SUFFICES ASSUME StackInv, NEW p \in Visible(preview)
             PROVE  Cardinality({ i \in DOMAIN operations : operations[i].kind \in Creating /\ operations[i].part = p })
                      = IF preview.parts[p].state = "None" THEN 0 ELSE 1
  BY DEF OwnedOnce
<1> DEFINE Owners == { i \in DOMAIN operations : operations[i].kind \in Creating /\ operations[i].part = p }
<1>1. p \in Known(scanned, operations)
  BY TreeShown, VisibleShown
<1>2. CASE preview.parts[p].state = "None"
  <2>1. Owners = {}
    BY <1>1, <1>2, StateTells
  <2> QED
    BY <1>2, <2>1, FS_EmptySet
<1>3. CASE preview.parts[p].state # "None"
  <2>1. PICK i \in DOMAIN operations : operations[i].kind \in Creating /\ operations[i].part = p
    BY <1>1, <1>3, Creators
  <2>2. ASSUME NEW j \in Owners PROVE j = i
    <3>1. Fresh(scanned, operations, preview)
      BY TreeShown DEF Owned
    <3>2. p \in Creates(operations[i]) /\ p \in Creates(operations[j])
      BY <2>1, <2>2 DEF Creates
    <3> QED
      BY <2>1, <2>2, <3>1, <3>2 DEF Fresh
  <2>3. Owners = {i}
    BY <2>1, <2>2
  <2> HIDE DEF Owners
  <2>4. Cardinality(Owners) = 1
    BY <2>3, FS_Singleton
  <2> QED
    BY <1>3, <2>4 DEF Owners
<1> QED
  BY <1>2, <1>3

\* What the operations point to exists.
LEMMA InvLive == StackInv => OperandsLive
  BY TreeShown DEF OperandsLive

\* After any pushes, merges and pops the layout that each operation of the stack was pushed
\* on is one that a device can have (operationstack.cpp: push() and the merge functions).
THEOREM LayoutsStayConsistent == CarefulFrontEnd => (Spec => []EveryPrefixConsistent)
  BY StackInvariance, InvConsistent, PTL

\* Undoing what is on the stack leads back to the layout that was scanned, whatever was
\* merged (operation.h: undo()).
THEOREM UndoLeadsBack == CarefulFrontEnd => (Spec => []UndoRestoresLayout)
  BY StackInvariance, InvRestores, PTL

\* Every operation finds the partitions it works on, with the sectors, flags and file system
\* that it replaces, when those below it were executed (operation.h: preview(), execute()).
THEOREM StackRunsInOrder == CarefulFrontEnd => (Spec => []RunsInOrder)
  BY StackInvariance, InvRuns, PTL

\* A partition that is not on the disk is owned by one operation, which deletes it
\* (operation.h: "Operations own the objects they deal with").
THEOREM OneOwner == CarefulFrontEnd => (Spec => []OwnedOnce)
  BY StackInvariance, InvOwned, PTL

\* No operation of the stack points to a partition that was deleted with another one
\* (operationstack.cpp: push(), pop() and clearOperations()).
THEOREM OperandsStayLive == CarefulFrontEnd => (Spec => []OperandsLive)
  BY StackInvariance, InvLive, PTL
================================================================================
