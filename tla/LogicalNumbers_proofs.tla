------------------------ MODULE LogicalNumbers_proofs ------------------------
(***************************************************************************)
(* Proofs about the numbers of logical partitions, for every msdos table   *)
(* and stacks of every length.  A preview is undone in the reverse order,  *)
(* so the invariant follows the stack: a partition that an operation hides *)
(* keeps the number it had just before that operation, and the number of   *)
(* every other one is the one on the disk less the logical partitions      *)
(* before it that operations in the preview delete.                        *)
(***************************************************************************)
EXTENDS LogicalNumbers, SequenceTheorems, FiniteSetTheorems, TLAPS

Places == Objects \cup {None}

Operation ==
    [kind : {"New"}, part : Created] \cup [kind : {"Delete", "Resize"}, part : Existing]
    \cup [kind : {"Copy"}, part : Copies, source : Existing, over : Range(Logicals) \cup {None}]
    \cup [kind : {"Flags"}, part : DOMAIN Primaries, old : BOOLEAN, new : BOOLEAN]

PreviewType == [shown : SUBSET Objects, number : [Objects -> Int], flags : SUBSET Objects]

Hides(op, e)   == \/ op.kind = "Delete" /\ op.part = e
                  \/ op.kind = "Copy" /\ op.over = e
Makes(op, x)   == op.kind \in {"New", "Copy"} /\ op.part = x
Refers(op, e)  == IF op.kind = "Copy" THEN e \in {op.source, op.over} ELSE op.part = e
FlagsOf(op, p) == op.kind = "Flags" /\ op.part = p

--------------------------------------------------------------------------------
(* The stack, a preview of its first m operations, and the number that an  *)
(* entry has in it.                                                        *)

\* What the operations of a stack have to do with each other and with the active partition.
Ordered(ops, act) ==
    /\ \A i, j \in DOMAIN ops :
           /\ i < j => \A e \in Existing : Hides(ops[i], e) => ~Refers(ops[j], e)
           /\ i # j => \A x \in Objects : Makes(ops[i], x) => ~Makes(ops[j], x)
           /\ i # j => \A p \in DOMAIN Primaries : FlagsOf(ops[i], p) => ~FlagsOf(ops[j], p)
    /\ \A i \in DOMAIN ops : ops[i].kind = "Flags" => (ops[i].old <=> ops[i].part = act)

ShownBy(ops, m, sh) ==
    /\ \A e \in Existing : e \in sh <=> \A i \in 1 .. m : ~Hides(ops[i], e)
    /\ \A x \in Created \cup Copies : x \in sh <=> \E i \in 1 .. m : Makes(ops[i], x)

FlagsBy(ops, m, fl, act) ==
    /\ \A i \in 1 .. m : ops[i].kind = "Flags" => (ops[i].part \in fl <=> ops[i].new)
    /\ \A p \in DOMAIN Primaries : (\A i \in 1 .. m : ~FlagsOf(ops[i], p)) => (p \in fl <=> p = act)

DeletedBy(ops, i) == {e \in Range(Logicals) : \E j \in 1 .. i : ops[j] = Delete(e)}

Gone(e, S) == {i \in DOMAIN Logicals : 4 + i < EntryNumber(Logicals, e) /\ Logicals[i] \in S}

Less(e, S) == EntryNumber(Logicals, e) - Cardinality(Gone(e, S))

NumberAt(ops, e, i) == IF e \in DOMAIN Primaries THEN Primaries[e] ELSE Less(e, DeletedBy(ops, i))

NumbersBy(ops, m, sh, num) ==
    /\ \A e \in Existing \cap sh : num[e] = NumberAt(ops, e, m)
    /\ \A i \in 1 .. m : \A e \in Existing : Hides(ops[i], e) => num[e] = NumberAt(ops, e, i - 1)

Previews(ops, m, pv, act) == ShownBy(ops, m, pv.shown) /\ FlagsBy(ops, m, pv.flags, act)

--------------------------------------------------------------------------------
(* The invariant                                                           *)

Types ==
    /\ preview \in PreviewType
    /\ place \in [Objects -> Places]
    /\ disk \in [primaries : SUBSET DOMAIN Primaries, chain : Seq(Objects), active : Places]
    /\ operations \in Seq(Operation)
    /\ run \in [phase : {"idle", "undoing", "running", "finished", "failed"}, next : Nat \ {0},
                believed : BOOLEAN, was : Places]

\* Where the run is.
Where ==
    /\ run.phase \in {"undoing", "running"} => run.next <= Len(operations)
    /\ run.phase = "finished" => run.next = Len(operations) + 1
    /\ run.phase = "failed" => run.next <= Len(operations) + 1
    /\ run.phase \in {"idle", "undoing"} => ~run.believed

\* The operations in the preview are the first ones, up to this.
Previewed == CASE run.phase = "idle"    -> Len(operations)
               [] run.phase = "undoing" -> run.next
               [] OTHER                 -> run.next - 1

Active == IF run.phase = "idle" THEN disk.active ELSE run.was
Before == run.phase \in {"idle", "undoing"}
Good   == run.phase # "failed" /\ ~run.believed

Stacked == Ordered(operations, Active) /\ Previews(operations, Previewed, preview, Active)

\* Before a run the table is the one that was scanned.
Untouched ==
    Before =>
        /\ disk.primaries = DOMAIN Primaries /\ disk.chain = Logicals
        /\ \A x \in Objects : place[x] = IF x \in Existing THEN x ELSE None
        /\ run.phase = "undoing" => run.was = disk.active
        /\ NumbersBy(operations, Previewed, shown, number)

\* The objects and the table during a run.
RunNumbers ==
    Good /\ ~Before =>
        /\ IsInjective(disk.chain) /\ Range(disk.chain) \cap DOMAIN Primaries = {}
        /\ \A e \in Range(disk.chain) \ Range(Logicals) : \E i \in 1 .. Previewed : Makes(operations[i], e)
        /\ \A x \in shown :
               /\ place[x] \in disk.primaries \cup Range(disk.chain)
               /\ place[x] \in DOMAIN Primaries <=> x \in DOMAIN Primaries
               /\ number[x] = EntryNumber(disk.chain, place[x])
        /\ \A x \in Existing : place[x] = x
        /\ \A x, y \in shown : place[x] = place[y] => x = y

\* The partition that was activated last.
Activated ==
    Good /\ ~Before =>
        \A i \in 1 .. Previewed :
            /\ operations[i].kind = "Flags" /\ operations[i].new
            /\ run.was # operations[i].part /\ operations[i].part \in shown
            /\ \A j \in i + 1 .. Previewed : operations[j].kind # "Flags"
            => disk.active = operations[i].part

IInv == Types /\ Where /\ Stacked /\ Untouched /\ RunNumbers /\ Activated

--------------------------------------------------------------------------------
(* Positions in the chain, and how many of those before an entry are gone  *)

\* The entry at a position of a chain without repetition has the number of that position.
LEMMA ChainNumber ==
    ASSUME NEW chain, chain \in Seq(Objects), IsInjective(chain), Range(chain) \cap DOMAIN Primaries = {},
           NEW i \in 1 .. Len(chain)
    PROVE  EntryNumber(chain, chain[i]) = 4 + i
<1>1. DOMAIN chain = 1 .. Len(chain) OBVIOUS
<1>2. chain[i] \notin DOMAIN Primaries BY <1>1 DEF Range
<1>3. \A j \in DOMAIN chain : chain[j] = chain[i] => j = i BY <1>1 DEF IsInjective
<1>4. (CHOOSE j \in DOMAIN chain : chain[j] = chain[i]) = i BY <1>1, <1>3
<1> QED BY <1>2, <1>4 DEF EntryNumber

\* The scanned chain is one.
LEMMA ScannedChain ==
    /\ Logicals \in Seq(Objects) /\ Logicals \in Seq(Range(Logicals)) /\ IsInjective(Logicals)
    /\ Range(Logicals) \cap DOMAIN Primaries = {}
    /\ DOMAIN Logicals = 1 .. Len(Logicals) /\ Len(Logicals) \in Nat
    /\ \A e \in Range(Logicals) : \E i \in DOMAIN Logicals : Logicals[i] = e
<1>1. Logicals \in Seq(Range(Logicals)) BY NumbersAssumption
<1>2. Logicals \in Seq(Objects) BY <1>1 DEF Objects, Existing
<1>3. \A e \in Range(Logicals) : \E i \in DOMAIN Logicals : Logicals[i] = e BY DEF Range
<1> QED BY <1>1, <1>2, <1>3, NumbersAssumption

\* A logical partition has a number from 5 on, its place in the chain.
LEMMA LogicalNumber ==
    ASSUME NEW e \in Range(Logicals)
    PROVE  /\ EntryNumber(Logicals, e) - 4 \in DOMAIN Logicals
           /\ Logicals[EntryNumber(Logicals, e) - 4] = e
           /\ EntryNumber(Logicals, e) \in Nat /\ EntryNumber(Logicals, e) > 4
           /\ e \notin DOMAIN Primaries
<1>1. PICK i \in DOMAIN Logicals : Logicals[i] = e BY DEF Range
<1>2. EntryNumber(Logicals, e) = 4 + i BY <1>1, ChainNumber, ScannedChain
<1> QED BY <1>1, <1>2, ScannedChain

\* The number of elements of an interval that is not negative.
LEMMA IntervalSize ==
    ASSUME NEW a \in Int, NEW b \in Int, b - a + 1 >= 0
    PROVE  IsFiniteSet(a .. b) /\ Cardinality(a .. b) = b - a + 1
<1>1. IsFiniteSet(a .. b) /\ Cardinality(a .. b) = IF a > b THEN 0 ELSE b - a + 1 BY ONLY a \in Int, b \in Int, FS_Interval
<1> QED BY <1>1

\* What is gone before an entry is finite.
LEMMA GoneFinite ==
    ASSUME NEW e \in Range(Logicals), NEW S
    PROVE  IsFiniteSet(Gone(e, S)) /\ Cardinality(Gone(e, S)) \in Nat
<1>1. Gone(e, S) \subseteq 1 .. Len(Logicals) BY ScannedChain DEF Gone
<1>2. IsFiniteSet(1 .. Len(Logicals)) BY FS_Interval, ScannedChain
<1> QED BY <1>1, <1>2, FS_Subset, FS_CardinalityType

\* Deleting entries keeps the order of the others, and their numbers stay above 4.
LEMMA LessMonotone ==
    ASSUME NEW S, NEW e \in Range(Logicals)
    PROVE  /\ Less(e, S) \in Int /\ Less(e, S) > 4
           /\ \A y \in Range(Logicals) :
                 e \notin S /\ EntryNumber(Logicals, e) < EntryNumber(Logicals, y) => Less(e, S) < Less(y, S)
<1> DEFINE a == EntryNumber(Logicals, e)
<1>1. a \in Nat /\ a > 4 BY LogicalNumber
<1>2. /\ IsFiniteSet(Gone(e, S)) /\ Cardinality(Gone(e, S)) \in Nat BY GoneFinite
<1>3. Cardinality(Gone(e, S)) <= a - 5
  <2>1. Gone(e, S) \subseteq 1 .. (a - 5) BY <1>1, ScannedChain DEF Gone
  <2> HIDE DEF a
  <2>2. IsFiniteSet(1 .. (a - 5)) /\ Cardinality(1 .. (a - 5)) = a - 5 BY <1>1, IntervalSize
  <2> QED BY <2>1, <2>2, <1>2, <1>1, FS_Subset, FS_CardinalityType
<1>4. ASSUME NEW y \in Range(Logicals), e \notin S, a < EntryNumber(Logicals, y)
      PROVE  Less(e, S) < Less(y, S)
  <2> DEFINE b == EntryNumber(Logicals, y)
             D == Gone(y, S) \ Gone(e, S)
  <2>1. b \in Nat /\ b > 4 BY LogicalNumber
  <2>2. IsFiniteSet(Gone(y, S)) /\ Cardinality(Gone(y, S)) \in Nat BY GoneFinite
  <2>3. D \subseteq (a - 3) .. (b - 5)
    <3>1. ASSUME NEW i \in D PROVE i \in (a - 3) .. (b - 5)
      <4>1. i \in Nat /\ 4 + i < b /\ Logicals[i] \in S BY ScannedChain DEF Gone
      <4>2. ~(4 + i < a) BY DEF Gone
      <4>3. 4 + i # a BY <4>1, LogicalNumber, <1>4
      <4> QED BY <4>1, <4>2, <4>3, <1>1, <2>1
    <3> QED BY <3>1
  <2>4. IsFiniteSet((a - 3) .. (b - 5)) /\ Cardinality((a - 3) .. (b - 5)) = b - a - 1
    <3>1. a < b BY <1>4
    <3> HIDE DEF a, b
    <3>2. a - 3 \in Int /\ b - 5 \in Int /\ (b - 5) - (a - 3) + 1 = b - a - 1 /\ b - a - 1 >= 0
      BY <1>1, <2>1, <3>1
    <3> QED BY <3>2, IntervalSize
  <2>5. IsFiniteSet(D) /\ Cardinality(D) \in Nat /\ Cardinality(D) <= b - a - 1
    <3> HIDE DEF a, b, D
    <3>1. IsFiniteSet(D) /\ Cardinality(D) <= Cardinality((a - 3) .. (b - 5)) BY <2>3, <2>4, FS_Subset
    <3>2. Cardinality(D) \in Nat /\ Cardinality((a - 3) .. (b - 5)) \in Nat
      BY <3>1, <2>4, FS_CardinalityType
    <3> QED BY <3>1, <3>2, <2>4, <1>1, <2>1
  <2>6. Gone(y, S) \subseteq Gone(e, S) \cup D OBVIOUS
  <2>7. /\ IsFiniteSet(Gone(e, S) \cup D)
        /\ Cardinality(Gone(e, S) \cup D) <= Cardinality(Gone(e, S)) + Cardinality(D)
    <3> HIDE DEF D, a, b
    <3>1. IsFiniteSet(Gone(e, S) \cap D) BY <1>2, FS_Intersection
    <3>2. Cardinality(Gone(e, S) \cap D) \in Nat BY <3>1, FS_CardinalityType
    <3>3. /\ IsFiniteSet(Gone(e, S) \cup D)
          /\ Cardinality(Gone(e, S) \cup D)
               = Cardinality(Gone(e, S)) + Cardinality(D) - Cardinality(Gone(e, S) \cap D)
      BY ONLY <1>2, <2>5, FS_Union
    <3> QED BY ONLY <1>2, <2>5, <3>2, <3>3
  <2>8. Cardinality(Gone(y, S)) <= Cardinality(Gone(e, S)) + b - a - 1
    <3> HIDE DEF a, b, D
    <3>1. Cardinality(Gone(y, S)) <= Cardinality(Gone(e, S) \cup D) BY <2>6, <2>7, FS_Subset
    <3>2. Cardinality(Gone(e, S) \cup D) \in Nat BY <2>7, FS_CardinalityType
    <3> QED BY <3>1, <3>2, <2>7, <2>5, <1>2, <2>2, <1>1, <2>1
  <2> HIDE DEF a, b
  <2>9. Less(e, S) = a - Cardinality(Gone(e, S)) /\ Less(y, S) = b - Cardinality(Gone(y, S)) BY DEF Less, a, b
  <2> QED BY <2>8, <2>9, <1>1, <2>1, <1>2, <2>2
<1>5. Less(e, S) = a - Cardinality(Gone(e, S)) BY DEF Less
<1> HIDE DEF a
<1>6. Less(e, S) \in Int /\ Less(e, S) > 4 BY <1>5, <1>1, <1>2, <1>3
<1> QED BY <1>4, <1>6 DEF a

\* One more deletion takes one off the numbers of the entries behind.
LEMMA LessOneMore ==
    ASSUME NEW S, NEW d \in Range(Logicals), d \notin S, NEW y \in Range(Logicals)
    PROVE  Less(y, S \cup {d}) =
               IF EntryNumber(Logicals, d) < EntryNumber(Logicals, y) THEN Less(y, S) - 1 ELSE Less(y, S)
<1> DEFINE a == EntryNumber(Logicals, d)
           b == EntryNumber(Logicals, y)
<1>1. a \in Nat /\ b \in Nat /\ a - 4 \in DOMAIN Logicals /\ Logicals[a - 4] = d BY LogicalNumber
<1>2. IsFiniteSet(Gone(y, S)) /\ Cardinality(Gone(y, S)) \in Nat BY GoneFinite
<1>3. \A i \in DOMAIN Logicals : Logicals[i] = d => i = a - 4 BY <1>1, ScannedChain DEF IsInjective
<1>4. CASE a < b
  <2>1. Gone(y, S \cup {d}) = Gone(y, S) \cup {a - 4}
    <3> HIDE DEF a
    <3>1. a - 4 \in Gone(y, S \cup {d}) BY <1>1, <1>4 DEF Gone
    <3>2. Gone(y, S) \subseteq Gone(y, S \cup {d}) BY DEF Gone
    <3>3. ASSUME NEW i \in Gone(y, S \cup {d}), i # a - 4 PROVE i \in Gone(y, S)
      BY <3>3, <1>3 DEF Gone
    <3> QED BY <3>1, <3>2, <3>3
  <2>2. a - 4 \notin Gone(y, S) BY <1>1 DEF Gone
  <2>3. Cardinality(Gone(y, S \cup {d})) = Cardinality(Gone(y, S)) + 1
    <3> HIDE DEF a, b
    <3> QED BY <2>1, <2>2, <1>2, FS_AddElement
  <2> QED BY <2>3, <1>4, <1>1, <1>2 DEF Less
<1>5. CASE ~(a < b)
  <2>1. Gone(y, S \cup {d}) = Gone(y, S)
    <3>1. ASSUME NEW i \in Gone(y, S \cup {d}) PROVE i \in Gone(y, S)
      <4>1. i # a - 4 BY <1>5, <1>1, ScannedChain DEF Gone
      <4> QED BY <4>1, <1>3 DEF Gone
    <3> QED BY <3>1 DEF Gone
  <2> QED BY <2>1, <1>5 DEF Less
<1> QED BY <1>4, <1>5

--------------------------------------------------------------------------------
(* Operations and their previews                                           *)

\* The objects that operations create are none of those that were scanned.
LEMMA Kinds ==
    /\ Existing \subseteq Objects /\ Created \subseteq Objects /\ Copies \subseteq Objects
    /\ Range(Logicals) \subseteq Existing /\ DOMAIN Primaries \subseteq Existing
    /\ Existing = DOMAIN Primaries \cup Range(Logicals)
    /\ Objects = Existing \cup Created \cup Copies
    /\ DOMAIN Primaries \cap Range(Logicals) = {} /\ Existing \cap (Created \cup Copies) = {}
    /\ None \notin Objects
BY NumbersAssumption DEF Objects, Existing

\* What an operation is about, by its kind.
LEMMA OperationKinds ==
    ASSUME NEW op \in Operation
    PROVE  /\ op.kind \in {"New", "Delete", "Resize", "Copy", "Flags"}
           /\ op.kind = "New" => op.part \in Created
           /\ op.kind \in {"Delete", "Resize"} => op.part \in Existing
           /\ op.kind = "Copy" => /\ op.part \in Copies /\ op.source \in Existing
                                  /\ op.over \in Range(Logicals) \cup {None}
           /\ op.kind = "Flags" => op.part \in DOMAIN Primaries /\ op.old \in BOOLEAN /\ op.new \in BOOLEAN
           /\ \A e : op = Delete(e) <=> op.kind = "Delete" /\ op.part = e
           /\ op.part \in Objects
<1>1. CASE op \in [kind : {"New"}, part : Created] BY <1>1, Kinds DEF Delete
<1>2. CASE op \in [kind : {"Delete", "Resize"}, part : Existing] BY <1>2, Kinds DEF Delete
<1>3. CASE op \in [kind : {"Copy"}, part : Copies, source : Existing, over : Range(Logicals) \cup {None}]
  BY <1>3, Kinds DEF Delete
<1>4. CASE op \in [kind : {"Flags"}, part : DOMAIN Primaries, old : BOOLEAN, new : BOOLEAN]
  BY <1>4, Kinds DEF Delete
<1> QED BY <1>1, <1>2, <1>3, <1>4 DEF Operation

\* What adjustLogicalNumbers() does.
LEMMA Adjusted ==
    ASSUME NEW pv \in PreviewType, NEW deleted \in Int, NEW inserted \in Int,
           NEW adjusted, adjusted = adjustLogicalNumbers(pv, deleted, inserted)
    PROVE  /\ adjusted \in PreviewType /\ adjusted.shown = pv.shown /\ adjusted.flags = pv.flags
           /\ \A x \in Objects : adjusted.number[x] =
                  IF x \in pv.shown /\ x \notin DOMAIN Primaries /\ deleted > 4
                  THEN IF pv.number[x] > deleted THEN pv.number[x] - 1 ELSE pv.number[x]
                  ELSE IF x \in pv.shown /\ x \notin DOMAIN Primaries /\ inserted > 4 /\ pv.number[x] >= inserted
                       THEN pv.number[x] + 1 ELSE pv.number[x]
<1> DEFINE f == [x \in Objects |->
        CASE x \in pv.shown \ DOMAIN Primaries /\ deleted > 4 /\ pv.number[x] > deleted -> pv.number[x] - 1
          [] x \in pv.shown \ DOMAIN Primaries /\ deleted <= 4 /\ inserted > 4 /\ pv.number[x] >= inserted
               -> pv.number[x] + 1
          [] OTHER -> pv.number[x]]
<1>1. adjusted = [pv EXCEPT !.number = f] BY DEF adjustLogicalNumbers
<1>2. pv.number \in [Objects -> Int] /\ pv.shown \in SUBSET Objects BY DEF PreviewType
<1>3. \A x \in Objects : f[x] =
          IF x \in pv.shown /\ x \notin DOMAIN Primaries /\ deleted > 4
          THEN IF pv.number[x] > deleted THEN pv.number[x] - 1 ELSE pv.number[x]
          ELSE IF x \in pv.shown /\ x \notin DOMAIN Primaries /\ inserted > 4 /\ pv.number[x] >= inserted
               THEN pv.number[x] + 1 ELSE pv.number[x]
  BY <1>2
<1>4. \A x \in Objects : f[x] \in Int BY <1>2, <1>3
<1>5. f \in [Objects -> Int] BY <1>4
<1> HIDE DEF f
<1>6. adjusted \in PreviewType /\ adjusted.shown = pv.shown /\ adjusted.flags = pv.flags /\ adjusted.number = f
  BY <1>1, <1>5 DEF PreviewType
<1> QED BY <1>3, <1>6

\* What checkAdjustLogicalNumbers() does to the numbers when a deletion is undone.
LEMMA AdjustInserted ==
    ASSUME NEW pv \in PreviewType, NEW d \in Range(Logicals), pv.number[d] > 4,
           NEW adjusted, adjusted = checkAdjustLogicalNumbers(pv, d, TRUE)
    PROVE  /\ adjusted \in PreviewType /\ adjusted.shown = pv.shown /\ adjusted.flags = pv.flags
           /\ \A x \in Objects : adjusted.number[x] =
                  IF x \in pv.shown /\ x \notin DOMAIN Primaries /\ pv.number[x] >= pv.number[d]
                  THEN pv.number[x] + 1 ELSE pv.number[x]
<1>1. d \notin DOMAIN Primaries /\ d \in Objects BY Kinds
<1>2. adjusted = adjustLogicalNumbers(pv, -1, pv.number[d]) BY <1>1 DEF checkAdjustLogicalNumbers
<1>3. pv.number[d] \in Int /\ -1 \in Int BY <1>1 DEF PreviewType
<1>4. /\ adjusted \in PreviewType /\ adjusted.shown = pv.shown /\ adjusted.flags = pv.flags
      /\ \A x \in Objects : adjusted.number[x] =
             IF x \in pv.shown /\ x \notin DOMAIN Primaries /\ -1 > 4
             THEN IF pv.number[x] > -1 THEN pv.number[x] - 1 ELSE pv.number[x]
             ELSE IF x \in pv.shown /\ x \notin DOMAIN Primaries /\ pv.number[d] > 4 /\ pv.number[x] >= pv.number[d]
                  THEN pv.number[x] + 1 ELSE pv.number[x]
  BY ONLY <1>2, <1>3, Adjusted, pv \in PreviewType
<1>5. ~(-1 > 4) OBVIOUS
<1>6. ASSUME NEW x \in Objects
      PROVE  adjusted.number[x] =
                  IF x \in pv.shown /\ x \notin DOMAIN Primaries /\ pv.number[x] >= pv.number[d]
                  THEN pv.number[x] + 1 ELSE pv.number[x]
  BY <1>4, <1>5, <1>6
<1> QED BY <1>4, <1>6

\* Types: adjusting changes no more than numbers.
LEMMA AdjustTypes ==
    ASSUME NEW pv \in PreviewType, NEW d \in Objects, NEW undo \in BOOLEAN,
           NEW adjusted, adjusted = checkAdjustLogicalNumbers(pv, d, undo)
    PROVE  /\ adjusted \in PreviewType /\ adjusted.shown = pv.shown /\ adjusted.flags = pv.flags
           /\ d \in DOMAIN Primaries => adjusted = pv
<1>1. pv.number[d] \in Int /\ -1 \in Int BY DEF PreviewType
<1>2. CASE d \in DOMAIN Primaries BY <1>2 DEF checkAdjustLogicalNumbers
<1>3. CASE d \notin DOMAIN Primaries /\ undo
  <2>1. adjusted = adjustLogicalNumbers(pv, -1, pv.number[d]) BY <1>3 DEF checkAdjustLogicalNumbers
  <2>2. adjusted \in PreviewType /\ adjusted.shown = pv.shown /\ adjusted.flags = pv.flags
    BY ONLY <1>1, <2>1, Adjusted, pv \in PreviewType
  <2> QED BY <1>3, <2>2
<1>4. CASE d \notin DOMAIN Primaries /\ ~undo
  <2>1. adjusted = adjustLogicalNumbers(pv, pv.number[d], -1) BY <1>4 DEF checkAdjustLogicalNumbers
  <2>2. adjusted \in PreviewType /\ adjusted.shown = pv.shown /\ adjusted.flags = pv.flags
    BY ONLY <1>1, <2>1, Adjusted, pv \in PreviewType
  <2> QED BY <1>4, <2>2
<1> QED BY <1>2, <1>3, <1>4

\* Previewing and undoing an operation, and what they do to the partitions and the flags that are shown.
LEMMA PreviewShows ==
    ASSUME NEW op \in Operation, NEW pv \in PreviewType, NEW after, after = Preview(op, pv)
    PROVE  /\ after \in PreviewType
           /\ \A x \in Objects : x \in after.shown <=> ~Hides(op, x) /\ (x \in pv.shown \/ Makes(op, x))
           /\ \A p \in Objects : p \in after.flags <=> IF FlagsOf(op, p) THEN op.new ELSE p \in pv.flags
           /\ op.kind # "Delete" => after.number = pv.number
<1>0. /\ op.part \in Objects /\ op.kind \in {"New", "Delete", "Resize", "Copy", "Flags"}
      /\ op.kind = "Copy" => op.over \in Objects \cup {None} /\ op.over # op.part
      /\ op.kind = "Flags" => op.new \in BOOLEAN
  BY OperationKinds, Kinds
<1> USE <1>0 DEF Preview, Hides, Makes, FlagsOf
<1>1. CASE op.kind = "New" BY <1>1 DEF PreviewType
<1>2. CASE op.kind = "Delete"
  <2> DEFINE without == [pv EXCEPT !.shown = @ \ {op.part}]
  <2>1. without \in PreviewType BY DEF PreviewType
  <2>2. without.shown = pv.shown \ {op.part} /\ without.flags = pv.flags BY DEF PreviewType
  <2>3. after = checkAdjustLogicalNumbers(without, op.part, FALSE) BY <1>2
  <2>4. after \in PreviewType /\ after.shown = without.shown /\ after.flags = without.flags
    <3> HIDE DEF without
    <3>1. op.part \in Objects BY ONLY op \in Operation, OperationKinds
    <3> QED BY ONLY ZenonT(40), <2>1, <2>3, <3>1, AdjustTypes, FALSE \in BOOLEAN
  <2> QED BY <1>2, <2>2, <2>4
<1>3. CASE op.kind = "Copy" BY <1>3 DEF PreviewType
<1>4. CASE op.kind = "Flags" BY <1>4 DEF PreviewType, SetFlags
<1>5. CASE op.kind = "Resize" BY <1>5 DEF PreviewType
<1> QED BY <1>1, <1>2, <1>3, <1>4, <1>5

\* The same for an undo.
LEMMA UndoShows ==
    ASSUME NEW op \in Operation, NEW pv \in PreviewType, NEW after, after = Undo(op, pv)
    PROVE  /\ after \in PreviewType
           /\ \A x \in Objects : x \in after.shown <=> Hides(op, x) \/ (x \in pv.shown /\ ~Makes(op, x))
           /\ \A p \in Objects : p \in after.flags <=> IF FlagsOf(op, p) THEN op.old ELSE p \in pv.flags
           /\ op.kind # "Delete" => after.number = pv.number
<1>0. /\ op.part \in Objects /\ op.kind \in {"New", "Delete", "Resize", "Copy", "Flags"}
      /\ op.kind = "Copy" => op.over \in Objects \cup {None} /\ op.over # op.part
      /\ op.kind = "Flags" => op.old \in BOOLEAN
      /\ None \notin Objects
  BY OperationKinds, Kinds
<1> USE <1>0 DEF Undo, Hides, Makes, FlagsOf
<1>1. CASE op.kind = "New" BY <1>1 DEF PreviewType
<1>2. CASE op.kind = "Delete"
  <2> DEFINE adjusted == checkAdjustLogicalNumbers(pv, op.part, TRUE)
  <2>1. adjusted \in PreviewType /\ adjusted.shown = pv.shown /\ adjusted.flags = pv.flags
    BY ONLY ZenonT(40), <1>0, AdjustTypes, TRUE \in BOOLEAN, pv \in PreviewType
  <2>2. after = [adjusted EXCEPT !.shown = @ \cup {op.part}] BY <1>2
  <2> HIDE DEF adjusted
  <2>3. after \in PreviewType /\ after.shown = adjusted.shown \cup {op.part} /\ after.flags = adjusted.flags
    BY ONLY <2>1, <2>2, <1>0 DEF PreviewType
  <2> QED BY ONLY <1>2, <2>1, <2>3, <1>0 DEF Hides, Makes, FlagsOf
<1>3. CASE op.kind = "Copy" BY <1>3 DEF PreviewType
<1>4. CASE op.kind = "Flags" BY <1>4 DEF PreviewType, SetFlags
<1>5. CASE op.kind = "Resize" BY <1>5 DEF PreviewType
<1> QED BY <1>1, <1>2, <1>3, <1>4, <1>5

\* The elements of a stack.
LEMMA StackElements ==
    ASSUME NEW ops \in Seq(Operation)
    PROVE  /\ DOMAIN ops = 1 .. Len(ops) /\ Len(ops) \in Nat
           /\ \A i \in 1 .. Len(ops) : ops[i] \in Operation
OBVIOUS

\* What hides or creates something, and what sets flags, has the kind for it.
LEMMA OperationObjects ==
    ASSUME NEW op \in Operation
    PROVE  /\ \A x : Makes(op, x) => x \in Created \cup Copies
           /\ \A e \in Objects : Hides(op, e) => e \in Existing
           /\ \A e : Hides(op, e) => Refers(op, e)
           /\ op.kind = "Flags" => op.part \in DOMAIN Primaries
BY OperationKinds, Kinds DEF Makes, Hides, Refers

\* Previewing the next operation shows one operation more.
LEMMA ShowNext ==
    ASSUME NEW act, NEW ops \in Seq(Operation), Ordered(ops, act),
           NEW m \in 0 .. Len(ops) - 1, NEW pv \in PreviewType, Previews(ops, m, pv, act),
           NEW after, after = Preview(ops[m + 1], pv)
    PROVE  after \in PreviewType /\ Previews(ops, m + 1, after, act)
<1> DEFINE op == ops[m + 1]
<1>1. op \in Operation /\ m + 1 \in 1 .. Len(ops) /\ m + 1 \in DOMAIN ops BY StackElements
<1>2. /\ after \in PreviewType
      /\ \A x \in Objects : x \in after.shown <=> ~Hides(op, x) /\ (x \in pv.shown \/ Makes(op, x))
      /\ \A p \in Objects : p \in after.flags <=> IF FlagsOf(op, p) THEN op.new ELSE p \in pv.flags
  BY <1>1, PreviewShows
<1>3. \A i \in 1 .. m + 1 : i \in 1 .. m \/ i = m + 1 OBVIOUS
<1>4. \A i \in 1 .. m : i \in 1 .. m + 1 /\ i # m + 1 /\ i < m + 1 /\ i \in DOMAIN ops /\ ops[i] \in Operation BY StackElements
<1>5. m + 1 \in 1 .. m + 1 OBVIOUS
<1> HIDE DEF op
<1>6. ShownBy(ops, m + 1, after.shown)
  <2>1. ASSUME NEW e \in Existing PROVE e \in after.shown <=> \A i \in 1 .. m + 1 : ~Hides(ops[i], e)
    <3>1. ~Makes(op, e) BY <1>1, OperationObjects, Kinds
    <3>2. e \in pv.shown <=> \A i \in 1 .. m : ~Hides(ops[i], e) BY DEF Previews, ShownBy
    <3> QED BY <3>1, <3>2, <1>2, <1>3, <1>4, <1>5, Kinds DEF op
  <2>2. ASSUME NEW x \in Created \cup Copies PROVE x \in after.shown <=> \E i \in 1 .. m + 1 : Makes(ops[i], x)
    <3>1. ~Hides(op, x) /\ x \in Objects BY <1>1, OperationObjects, Kinds
    <3>2. x \in pv.shown <=> \E i \in 1 .. m : Makes(ops[i], x) BY DEF Previews, ShownBy
    <3> QED BY <3>1, <3>2, <1>2, <1>3, <1>4, <1>5 DEF op
  <2> QED BY <2>1, <2>2 DEF ShownBy
<1>7. FlagsBy(ops, m + 1, after.flags, act)
  <2>1. ASSUME NEW i \in 1 .. m + 1, ops[i].kind = "Flags" PROVE ops[i].part \in after.flags <=> ops[i].new
    <3>1. CASE i = m + 1
      <4>1. op.part \in Objects /\ FlagsOf(op, op.part) BY <1>1, <2>1, <3>1, OperationKinds DEF FlagsOf, op
      <4> QED BY <4>1, <1>2, <3>1 DEF op
    <3>2. CASE i # m + 1
      <4>1. i \in 1 .. m BY <1>3, <3>2
      <4>2. ops[i].part \in DOMAIN Primaries /\ ops[i].part \in Objects /\ FlagsOf(ops[i], ops[i].part)
        BY <4>1, <1>4, <2>1, OperationObjects, OperationKinds DEF FlagsOf
      <4>3. ~FlagsOf(op, ops[i].part) BY <4>1, <4>2, <1>1, <1>4 DEF Ordered, op
      <4>4. ops[i].part \in pv.flags <=> ops[i].new BY <4>1, <2>1 DEF Previews, FlagsBy
      <4> QED BY <4>2, <4>3, <4>4, <1>2
    <3> QED BY <3>1, <3>2
  <2>2. ASSUME NEW p \in DOMAIN Primaries, \A i \in 1 .. m + 1 : ~FlagsOf(ops[i], p)
        PROVE  p \in after.flags <=> p = act
    <3>1. p \in pv.flags <=> p = act BY <2>2, <1>4 DEF Previews, FlagsBy
    <3>2. ~FlagsOf(op, p) BY <2>2, <1>5 DEF op
    <3> QED BY <3>1, <3>2, <1>2, Kinds
  <2> QED BY <2>1, <2>2 DEF FlagsBy
<1> QED BY <1>2, <1>6, <1>7 DEF Previews

\* Undoing the last previewed operation shows one operation less.
LEMMA ShowLess ==
    ASSUME NEW act, NEW ops \in Seq(Operation), Ordered(ops, act),
           NEW m \in 0 .. Len(ops) - 1, NEW pv \in PreviewType, Previews(ops, m + 1, pv, act),
           NEW after, after = Undo(ops[m + 1], pv)
    PROVE  after \in PreviewType /\ Previews(ops, m, after, act)
<1> DEFINE op == ops[m + 1]
<1>1. op \in Operation /\ m + 1 \in 1 .. Len(ops) /\ m + 1 \in DOMAIN ops BY StackElements
<1>2. /\ after \in PreviewType
      /\ \A x \in Objects : x \in after.shown <=> Hides(op, x) \/ (x \in pv.shown /\ ~Makes(op, x))
      /\ \A p \in Objects : p \in after.flags <=> IF FlagsOf(op, p) THEN op.old ELSE p \in pv.flags
  BY <1>1, UndoShows
<1>3. \A i \in 1 .. m + 1 : i \in 1 .. m \/ i = m + 1 OBVIOUS
<1>4. \A i \in 1 .. m : i \in 1 .. m + 1 /\ i # m + 1 /\ i < m + 1 /\ i \in DOMAIN ops /\ ops[i] \in Operation BY StackElements
<1>5. m + 1 \in 1 .. m + 1 OBVIOUS
<1> HIDE DEF op
<1>6. ShownBy(ops, m, after.shown)
  <2>1. ASSUME NEW e \in Existing PROVE e \in after.shown <=> \A i \in 1 .. m : ~Hides(ops[i], e)
    <3>1. ~Makes(op, e) BY <1>1, OperationObjects, Kinds
    <3>2. e \in pv.shown <=> \A i \in 1 .. m + 1 : ~Hides(ops[i], e) BY DEF Previews, ShownBy
    <3>3. Hides(op, e) => \A i \in 1 .. m : ~Hides(ops[i], e)
      BY <1>1, <1>4, OperationObjects DEF Ordered, op
    <3> QED BY <3>1, <3>2, <3>3, <1>2, <1>3, <1>4, <1>5, Kinds DEF op
  <2>2. ASSUME NEW x \in Created \cup Copies PROVE x \in after.shown <=> \E i \in 1 .. m : Makes(ops[i], x)
    <3>1. ~Hides(op, x) /\ x \in Objects BY <1>1, OperationObjects, Kinds
    <3>2. x \in pv.shown <=> \E i \in 1 .. m + 1 : Makes(ops[i], x) BY DEF Previews, ShownBy
    <3>3. Makes(op, x) => \A i \in 1 .. m : ~Makes(ops[i], x) BY <1>1, <1>4, <3>1 DEF Ordered, op
    <3> QED BY <3>1, <3>2, <3>3, <1>2, <1>3, <1>4, <1>5 DEF op
  <2> QED BY <2>1, <2>2 DEF ShownBy
<1>7. FlagsBy(ops, m, after.flags, act)
  <2>1. ASSUME NEW i \in 1 .. m, ops[i].kind = "Flags" PROVE ops[i].part \in after.flags <=> ops[i].new
    <3>1. ops[i].part \in DOMAIN Primaries /\ ops[i].part \in Objects /\ FlagsOf(ops[i], ops[i].part)
      BY <1>4, <2>1, OperationObjects, OperationKinds DEF FlagsOf
    <3>2. ~FlagsOf(op, ops[i].part) BY <3>1, <1>1, <1>4 DEF Ordered, op
    <3>3. ops[i].part \in pv.flags <=> ops[i].new BY <1>4, <2>1 DEF Previews, FlagsBy
    <3> QED BY <3>1, <3>2, <3>3, <1>2
  <2>2. ASSUME NEW p \in DOMAIN Primaries, \A i \in 1 .. m : ~FlagsOf(ops[i], p)
        PROVE  p \in after.flags <=> p = act
    <3>1. CASE FlagsOf(op, p)
      <4>1. op.old <=> p = act BY <3>1, <1>1 DEF Ordered, FlagsOf, op
      <4> QED BY <4>1, <3>1, <1>2, Kinds
    <3>2. CASE ~FlagsOf(op, p)
      <4>1. p \in pv.flags <=> p = act BY <2>2, <3>2, <1>3 DEF Previews, FlagsBy, op
      <4> QED BY <4>1, <3>2, <1>2, Kinds
    <3> QED BY <3>1, <3>2
  <2> QED BY <2>1, <2>2 DEF FlagsBy
<1> QED BY <1>2, <1>6, <1>7 DEF Previews

--------------------------------------------------------------------------------
(* The numbers in a preview                                                *)

\* What the next operation adds to the deleted partitions.
LEMMA DeletedNext ==
    ASSUME NEW ops \in Seq(Operation), NEW m \in 0 .. Len(ops) - 1
    PROVE  DeletedBy(ops, m + 1) = IF ops[m + 1].kind = "Delete" /\ ops[m + 1].part \in Range(Logicals)
                                   THEN DeletedBy(ops, m) \cup {ops[m + 1].part} ELSE DeletedBy(ops, m)
<1>1. ops[m + 1] \in Operation BY StackElements
<1>2. \A e : ops[m + 1] = Delete(e) <=> ops[m + 1].kind = "Delete" /\ ops[m + 1].part = e BY <1>1, OperationKinds
<1>3. \A i : i \in 1 .. m + 1 <=> i \in 1 .. m \/ i = m + 1 OBVIOUS
<1>4. DeletedBy(ops, m + 1) = DeletedBy(ops, m) \cup {e \in Range(Logicals) : ops[m + 1] = Delete(e)}
  BY <1>3 DEF DeletedBy
<1> QED BY <1>2, <1>4

\* A partition that is shown is not deleted, and one that the next operation is about is shown.
LEMMA ShownMeans ==
    ASSUME NEW act, NEW ops \in Seq(Operation), Ordered(ops, act), NEW m \in 0 .. Len(ops),
           NEW sh, ShownBy(ops, m, sh), NEW e \in Existing
    PROVE  /\ e \in sh => e \notin DeletedBy(ops, m)
           /\ \A i \in 1 .. m : Hides(ops[i], e) => e \notin sh
           /\ m < Len(ops) /\ Refers(ops[m + 1], e) => e \in sh
<1>1. e \in sh <=> \A i \in 1 .. m : ~Hides(ops[i], e) BY DEF ShownBy
<1>2. e \in sh => e \notin DeletedBy(ops, m)
  <2>1. \A i \in 1 .. m : ops[i] = Delete(e) => Hides(ops[i], e) BY DEF Hides, Delete
  <2> QED BY <1>1, <2>1 DEF DeletedBy
<1>3. ASSUME m < Len(ops), Refers(ops[m + 1], e) PROVE e \in sh
  <2>1. m + 1 \in DOMAIN ops /\ \A i \in 1 .. m : i \in DOMAIN ops /\ i < m + 1 BY <1>3, StackElements
  <2>2. \A i \in 1 .. m : ~Hides(ops[i], e) BY <1>3, <2>1 DEF Ordered
  <2> QED BY <1>1, <2>2
<1> QED BY <1>1, <1>2, <1>3

\* Numbers of entries are integers; logical partitions have one above 4.
LEMMA NumberTypes ==
    ASSUME NEW ops, NEW e \in Existing, NEW i
    PROVE  /\ NumberAt(ops, e, i) \in Int
           /\ e \in DOMAIN Primaries => NumberAt(ops, e, i) = Primaries[e]
           /\ e \notin DOMAIN Primaries => /\ e \in Range(Logicals) /\ NumberAt(ops, e, i) > 4
                                           /\ NumberAt(ops, e, i) = Less(e, DeletedBy(ops, i))
<1>1. CASE e \in DOMAIN Primaries BY <1>1, NumbersAssumption DEF NumberAt
<1>2. CASE e \notin DOMAIN Primaries
  <2>1. e \in Range(Logicals) BY <1>2, Kinds
  <2> QED BY <1>2, <2>1, LessMonotone DEF NumberAt
<1> QED BY <1>1, <1>2

\* Among entries that are not deleted, the order of the numbers is the one of the table.
LEMMA NumbersOrder ==
    ASSUME NEW S, NEW d \in Range(Logicals), NEW e \in Range(Logicals), d # e, d \notin S, e \notin S
    PROVE  /\ EntryNumber(Logicals, d) < EntryNumber(Logicals, e) <=> Less(d, S) < Less(e, S)
           /\ ~(EntryNumber(Logicals, d) < EntryNumber(Logicals, e)) => Less(e, S) < Less(d, S)
           /\ Less(d, S) \in Int /\ Less(e, S) \in Int
<1>1. EntryNumber(Logicals, d) \in Nat /\ EntryNumber(Logicals, e) \in Nat BY LogicalNumber
<1>2. EntryNumber(Logicals, d) # EntryNumber(Logicals, e) BY LogicalNumber
<1>3. Less(d, S) \in Int /\ Less(e, S) \in Int BY LessMonotone
<1>4. EntryNumber(Logicals, d) < EntryNumber(Logicals, e) => Less(d, S) < Less(e, S) BY LessMonotone
<1>5. EntryNumber(Logicals, e) < EntryNumber(Logicals, d) => Less(e, S) < Less(d, S) BY LessMonotone
<1> QED BY <1>1, <1>2, <1>3, <1>4, <1>5

\* The numbers in the preview of a deletion.
LEMMA PreviewDeleted ==
    ASSUME NEW op \in Operation, NEW pv \in PreviewType, NEW d \in Range(Logicals),
           op.kind = "Delete", op.part = d, pv.number[d] > 4, NEW after, after = Preview(op, pv)
    PROVE  \A x \in Objects : after.number[x] =
               IF x \in pv.shown \ {d} /\ x \notin DOMAIN Primaries /\ pv.number[x] > pv.number[d]
               THEN pv.number[x] - 1 ELSE pv.number[x]
<1>1. PICK without : without = [pv EXCEPT !.shown = @ \ {d}] OBVIOUS
<1>2. without \in PreviewType /\ without.shown = pv.shown \ {d} /\ without.number = pv.number BY <1>1 DEF PreviewType
<1>3. d \notin DOMAIN Primaries /\ d \in Objects BY Kinds
<1>4. after = adjustLogicalNumbers(without, without.number[d], -1)
  BY <1>1, <1>3 DEF Preview, checkAdjustLogicalNumbers
<1>5. without.number[d] \in Int /\ -1 \in Int BY <1>2, <1>3 DEF PreviewType
<1>6. \A x \in Objects : after.number[x] =
          IF x \in without.shown /\ x \notin DOMAIN Primaries /\ without.number[d] > 4
          THEN IF without.number[x] > without.number[d] THEN without.number[x] - 1 ELSE without.number[x]
          ELSE IF x \in without.shown /\ x \notin DOMAIN Primaries /\ -1 > 4 /\ without.number[x] >= -1
               THEN without.number[x] + 1 ELSE without.number[x]
  BY ONLY <1>2, <1>4, <1>5, Adjusted
<1>7. ~(-1 > 4) OBVIOUS
<1> QED BY <1>2, <1>6, <1>7

\* Previewing the next operation keeps the numbers right.
LEMMA NumberNext ==
    ASSUME NEW act, NEW ops \in Seq(Operation), Ordered(ops, act),
           NEW m \in 0 .. Len(ops) - 1, NEW pv \in PreviewType, ShownBy(ops, m, pv.shown),
           NumbersBy(ops, m, pv.shown, pv.number), NEW after, after = Preview(ops[m + 1], pv)
    PROVE  NumbersBy(ops, m + 1, after.shown, after.number)
<1> DEFINE op == ops[m + 1]
           d == op.part
<1>1. op \in Operation /\ m \in 0 .. Len(ops) /\ m < Len(ops) BY StackElements
<1>2. \A x \in Objects : x \in after.shown <=> ~Hides(op, x) /\ (x \in pv.shown \/ Makes(op, x))
  BY <1>1, PreviewShows
<1>3. \A i \in 1 .. m + 1 : i \in 1 .. m \/ i = m + 1 OBVIOUS
<1>4. \A e \in Existing : ~Makes(op, e) /\ e \in Objects BY <1>1, OperationObjects, Kinds
<1>5. \A e \in Existing \cap pv.shown : pv.number[e] = NumberAt(ops, e, m) BY DEF NumbersBy
<1>6. \A i \in 1 .. m : \A e \in Existing : Hides(ops[i], e) => e \notin pv.shown /\ pv.number[e] = NumberAt(ops, e, i - 1)
  BY <1>1, ShownMeans DEF NumbersBy
<1>7. \A e \in Existing : Hides(op, e) => e \in pv.shown BY <1>1, ShownMeans, OperationObjects
<1>8. \A e \in Existing : Hides(op, e) => pv.number[e] = NumberAt(ops, e, m) BY <1>5, <1>7
<1>9. CASE op.kind = "Delete" /\ d \in Range(Logicals)
  <2>1. d \in Existing /\ d \in Objects /\ d \notin DOMAIN Primaries /\ Hides(op, d) BY <1>9, Kinds DEF Hides
  <2>2. pv.number[d] = Less(d, DeletedBy(ops, m)) /\ pv.number[d] > 4 BY <1>8, <2>1, NumberTypes
  <2>5. \A x \in Objects : after.number[x] =
            IF x \in pv.shown \ {d} /\ x \notin DOMAIN Primaries /\ pv.number[x] > pv.number[d]
            THEN pv.number[x] - 1 ELSE pv.number[x]
    <3> HIDE DEF d
    <3>1. op \in Operation /\ op.kind = "Delete" /\ op.part = d /\ after = Preview(op, pv) BY <1>1, <1>9 DEF d
    <3> HIDE DEF op
    <3> QED BY ONLY <1>9, <2>2, <3>1, PreviewDeleted, pv \in PreviewType
  <2>6. DeletedBy(ops, m + 1) = DeletedBy(ops, m) \cup {d} BY <1>9, DeletedNext
  <2>7. d \notin DeletedBy(ops, m) BY <2>1, <1>7, <1>1, ShownMeans
  <2> HIDE DEF d, op
  <2>8. ASSUME NEW e \in Existing \cap after.shown PROVE after.number[e] = NumberAt(ops, e, m + 1)
    <3>1. e \in pv.shown /\ e # d /\ e \in Objects BY <2>8, <1>2, <1>4, <2>1
    <3>2. pv.number[e] = NumberAt(ops, e, m) /\ e \notin DeletedBy(ops, m) BY <3>1, <1>5, <1>1, ShownMeans
    <3>3. CASE e \in DOMAIN Primaries BY <3>1, <3>2, <3>3, <2>5, NumberTypes
    <3>4. CASE e \notin DOMAIN Primaries
      <4>1. e \in Range(Logicals) /\ pv.number[e] = Less(e, DeletedBy(ops, m)) BY <3>2, <3>4, NumberTypes
      <4>2. after.number[e] = IF pv.number[e] > pv.number[d] THEN pv.number[e] - 1 ELSE pv.number[e]
        BY <3>1, <3>4, <2>5
      <4>3. NumberAt(ops, e, m + 1) = Less(e, DeletedBy(ops, m) \cup {d}) BY <3>4, <2>6 DEF NumberAt
      <4>4. NumberAt(ops, e, m + 1) = IF EntryNumber(Logicals, d) < EntryNumber(Logicals, e)
                                      THEN pv.number[e] - 1 ELSE pv.number[e]
        BY <4>1, <4>3, <2>7, <1>9, LessOneMore
      <4>5. /\ EntryNumber(Logicals, d) < EntryNumber(Logicals, e) <=> pv.number[d] < pv.number[e]
            /\ pv.number[d] \in Int /\ pv.number[e] \in Int
        BY <4>1, <2>2, <2>7, <3>1, <3>2, <1>9, NumbersOrder
      <4> QED BY <4>2, <4>4, <4>5
    <3> QED BY <3>3, <3>4
  <2>9. ASSUME NEW i \in 1 .. m + 1, NEW e \in Existing, Hides(ops[i], e)
        PROVE  after.number[e] = NumberAt(ops, e, i - 1)
    <3>1. e \notin pv.shown \ {d} /\ pv.number[e] = NumberAt(ops, e, i - 1)
      <4>1. CASE i = m + 1
        <5>1. e = d /\ i - 1 = m BY <4>1, <2>9, <1>9 DEF Hides, op, d
        <5> QED BY <5>1, <1>8, <2>1
      <4>2. CASE i # m + 1 BY <4>2, <1>3, <1>6, <2>9
      <4> QED BY <4>1, <4>2
    <3> QED BY <3>1, <2>5, <1>4
  <2> QED BY <2>8, <2>9 DEF NumbersBy
<1>10. CASE ~(op.kind = "Delete" /\ d \in Range(Logicals))
  <2>1. after.number = pv.number
    <3>1. CASE op.kind # "Delete" BY <3>1, <1>1, PreviewShows
    <3>2. CASE op.kind = "Delete"
      <4>1. d \in DOMAIN Primaries BY <3>2, <1>10, <1>1, OperationKinds, Kinds
      <4>2. after = [pv EXCEPT !.shown = @ \ {d}] BY <3>2, <4>1 DEF Preview, checkAdjustLogicalNumbers
      <4> QED BY <4>2 DEF PreviewType
    <3> QED BY <3>1, <3>2
  <2>2. DeletedBy(ops, m + 1) = DeletedBy(ops, m) BY <1>10, DeletedNext
  <2>3. \A e : NumberAt(ops, e, m + 1) = NumberAt(ops, e, m) BY <2>2 DEF NumberAt
  <2> HIDE DEF d, op
  <2>4. \A e \in Existing \cap after.shown : after.number[e] = NumberAt(ops, e, m + 1)
    BY <2>1, <2>3, <1>2, <1>4, <1>5
  <2>5. ASSUME NEW i \in 1 .. m + 1, NEW e \in Existing, Hides(ops[i], e)
        PROVE  after.number[e] = NumberAt(ops, e, i - 1)
    <3>1. CASE i = m + 1
      <4>1. i - 1 = m BY <3>1
      <4> QED BY <4>1, <3>1, <2>1, <2>5, <1>8 DEF op
    <3>2. CASE i # m + 1 BY <3>2, <1>3, <1>6, <2>1, <2>5
    <3> QED BY <3>1, <3>2
  <2> QED BY <2>4, <2>5 DEF NumbersBy
<1> QED BY <1>9, <1>10

\* And so does undoing the last previewed operation: the numbers are adjusted before the partition
\* is inserted again, with the number that it had.
LEMMA NumberLess ==
    ASSUME NEW act, NEW ops \in Seq(Operation), Ordered(ops, act),
           NEW m \in 0 .. Len(ops) - 1, NEW pv \in PreviewType, ShownBy(ops, m + 1, pv.shown),
           NumbersBy(ops, m + 1, pv.shown, pv.number), NEW after, after = Undo(ops[m + 1], pv),
           ShownBy(ops, m, after.shown)
    PROVE  NumbersBy(ops, m, after.shown, after.number)
<1> DEFINE op == ops[m + 1]
           d == op.part
<1>1. op \in Operation /\ m \in 0 .. Len(ops) /\ m < Len(ops) /\ m + 1 \in 0 .. Len(ops) /\ m + 1 \in 1 .. m + 1
  BY StackElements
<1>2. \A x \in Objects : x \in after.shown <=> Hides(op, x) \/ (x \in pv.shown /\ ~Makes(op, x))
  BY <1>1, UndoShows
<1>3. \A i \in 1 .. m : i \in 1 .. m + 1 OBVIOUS
<1>4. \A e \in Existing : ~Makes(op, e) /\ e \in Objects BY <1>1, OperationObjects, Kinds
<1>5. \A e \in Existing \cap pv.shown : pv.number[e] = NumberAt(ops, e, m + 1) BY DEF NumbersBy
<1>6. \A i \in 1 .. m + 1 : \A e \in Existing : Hides(ops[i], e) => e \notin pv.shown /\ pv.number[e] = NumberAt(ops, e, i - 1)
  BY <1>1, ShownMeans DEF NumbersBy
<1>7. m + 1 - 1 = m OBVIOUS
<1>8. \A e \in Existing : Hides(op, e) => e \notin pv.shown /\ pv.number[e] = NumberAt(ops, e, m)
  BY <1>1, <1>6, <1>7
<1>9. CASE op.kind = "Delete" /\ d \in Range(Logicals)
  <2> DEFINE adjusted == checkAdjustLogicalNumbers(pv, d, TRUE)
  <2>1. d \in Existing /\ d \in Objects /\ d \notin DOMAIN Primaries /\ Hides(op, d) BY <1>9, Kinds DEF Hides
  <2>2. pv.number[d] = Less(d, DeletedBy(ops, m)) /\ pv.number[d] > 4 /\ d \notin pv.shown BY <1>8, <2>1, NumberTypes
  <2>3. after = [adjusted EXCEPT !.shown = @ \cup {d}] BY <1>9 DEF Undo
  <2>4. /\ adjusted \in PreviewType
        /\ \A x \in Objects : adjusted.number[x] =
              IF x \in pv.shown /\ x \notin DOMAIN Primaries /\ pv.number[x] >= pv.number[d]
              THEN pv.number[x] + 1 ELSE pv.number[x]
    <3> HIDE DEF d, op
    <3> QED BY ONLY ZenonT(40), <1>9, <2>2, AdjustInserted, pv \in PreviewType
  <2> HIDE DEF adjusted
  <2>5. after.number = adjusted.number BY <2>3, <2>4 DEF PreviewType
  <2>6. DeletedBy(ops, m + 1) = DeletedBy(ops, m) \cup {d} BY <1>9, DeletedNext
  <2> HIDE DEF d, op
  <2>7. d \in after.shown BY <1>2, <2>1
  <2>8. d \notin DeletedBy(ops, m) BY <2>1, <2>7, <1>1, ShownMeans
  <2>9. ASSUME NEW e \in Existing \cap after.shown PROVE after.number[e] = NumberAt(ops, e, m)
    <3>1. e \in Objects /\ (e = d \/ e \in pv.shown) BY <2>9, <1>2, <1>4, <1>9 DEF Hides, d
    <3>2. CASE e = d BY <3>2, <2>1, <2>2, <2>4, <2>5, <1>8
    <3>3. CASE e # d /\ e \in DOMAIN Primaries BY <3>1, <3>3, <1>5, <2>4, <2>5, NumberTypes
    <3>4. CASE e # d /\ e \notin DOMAIN Primaries
      <4>0. e \in Existing \cap pv.shown /\ pv.number[e] = NumberAt(ops, e, m + 1) BY <3>1, <3>4, <2>9, <1>5
      <4>1. e \in Range(Logicals) /\ pv.number[e] = Less(e, DeletedBy(ops, m) \cup {d})
        BY <4>0, <3>4, <2>6, Kinds DEF NumberAt
      <4>2. e \notin DeletedBy(ops, m) BY <2>9, <1>1, ShownMeans
      <4>3. NumberAt(ops, e, m) = Less(e, DeletedBy(ops, m)) BY <3>4 DEF NumberAt
      <4>4. after.number[e] = IF pv.number[e] >= pv.number[d] THEN pv.number[e] + 1 ELSE pv.number[e]
        BY <3>1, <3>4, <2>4, <2>5
      <4>5. pv.number[e] = IF EntryNumber(Logicals, d) < EntryNumber(Logicals, e)
                           THEN Less(e, DeletedBy(ops, m)) - 1 ELSE Less(e, DeletedBy(ops, m))
        BY <4>1, <2>8, <1>9, LessOneMore
      <4>6. /\ EntryNumber(Logicals, d) < EntryNumber(Logicals, e) <=> Less(d, DeletedBy(ops, m)) < Less(e, DeletedBy(ops, m))
            /\ ~(EntryNumber(Logicals, d) < EntryNumber(Logicals, e)) => Less(e, DeletedBy(ops, m)) < Less(d, DeletedBy(ops, m))
            /\ Less(d, DeletedBy(ops, m)) \in Int /\ Less(e, DeletedBy(ops, m)) \in Int
        BY <4>1, <4>2, <2>8, <3>4, <1>9, NumbersOrder
      <4> QED BY <4>3, <4>4, <4>5, <4>6, <2>2
    <3> QED BY <3>1, <3>2, <3>3, <3>4
  <2>10. ASSUME NEW i \in 1 .. m, NEW e \in Existing, Hides(ops[i], e)
         PROVE  after.number[e] = NumberAt(ops, e, i - 1)
    BY <2>10, <1>3, <1>4, <1>6, <2>4, <2>5
  <2> QED BY <2>9, <2>10 DEF NumbersBy
<1>10. CASE ~(op.kind = "Delete" /\ d \in Range(Logicals))
  <2>1. after.number = pv.number
    <3>1. CASE op.kind # "Delete" BY <3>1, <1>1, UndoShows
    <3>2. CASE op.kind = "Delete"
      <4>1. d \in DOMAIN Primaries BY <3>2, <1>10, <1>1, OperationKinds, Kinds
      <4>2. after = [pv EXCEPT !.shown = @ \cup {d}] BY <3>2, <4>1 DEF Undo, checkAdjustLogicalNumbers
      <4> QED BY <4>2 DEF PreviewType
    <3> QED BY <3>1, <3>2
  <2>2. DeletedBy(ops, m + 1) = DeletedBy(ops, m) BY <1>10, DeletedNext
  <2>3. \A e : NumberAt(ops, e, m + 1) = NumberAt(ops, e, m) BY <2>2 DEF NumberAt
  <2> HIDE DEF d, op
  <2>4. \A e \in Existing \cap after.shown : after.number[e] = NumberAt(ops, e, m)
    BY <2>1, <2>3, <1>2, <1>4, <1>5, <1>8
  <2>5. \A i \in 1 .. m : \A e \in Existing : Hides(ops[i], e) => after.number[e] = NumberAt(ops, e, i - 1)
    BY <2>1, <1>3, <1>6
  <2> QED BY <2>4, <2>5 DEF NumbersBy
<1> QED BY <1>9, <1>10

--------------------------------------------------------------------------------
(* Pushing, popping and merging                                            *)

\* A stack of which all operations are previewed.
StackOf(ops, pv, act) ==
    /\ Ordered(ops, act) /\ Previews(ops, Len(ops), pv, act)
    /\ NumbersBy(ops, Len(ops), pv.shown, pv.number)

\* An operation that may be pushed: it is about what is shown and repeats no other.
Fits(op, ops, sh, act) ==
    /\ \A e \in Existing : Refers(op, e) => e \in sh
    /\ \A i \in DOMAIN ops : \A x \in Objects : Makes(op, x) => ~Makes(ops[i], x)
    /\ \A i \in DOMAIN ops : \A p \in DOMAIN Primaries : FlagsOf(op, p) => ~FlagsOf(ops[i], p)
    /\ op.kind = "Flags" => (op.old <=> op.part = act)

\* A preview depends only on the operations that are in it.
LEMMA SamePrefix ==
    ASSUME NEW ops, NEW other, NEW m \in Nat, \A i \in 1 .. m : other[i] = ops[i],
           NEW pv, NEW act, Previews(ops, m, pv, act)
    PROVE  /\ Previews(other, m, pv, act)
           /\ NumbersBy(ops, m, pv.shown, pv.number) => NumbersBy(other, m, pv.shown, pv.number)
<1>1. Previews(other, m, pv, act)
  <2>1. ShownBy(other, m, pv.shown) BY DEF Previews, ShownBy
  <2>2. FlagsBy(other, m, pv.flags, act) BY DEF Previews, FlagsBy
  <2> QED BY <2>1, <2>2 DEF Previews
<1>2. ASSUME NEW i \in 0 .. m PROVE DeletedBy(other, i) = DeletedBy(ops, i)
  <2>1. \A j \in 1 .. i : j \in 1 .. m OBVIOUS
  <2> QED BY <2>1 DEF DeletedBy
<1>3. \A i \in 0 .. m : \A e : NumberAt(other, e, i) = NumberAt(ops, e, i) BY <1>2 DEF NumberAt
<1>4. m \in 0 .. m /\ \A i \in 1 .. m : i - 1 \in 0 .. m OBVIOUS
<1>5. NumbersBy(ops, m, pv.shown, pv.number) => NumbersBy(other, m, pv.shown, pv.number)
  BY <1>3, <1>4 DEF NumbersBy
<1> QED BY <1>1, <1>5

\* A pushed operation goes on top of the preview.
LEMMA Pushed ==
    ASSUME NEW act, NEW ops \in Seq(Operation), NEW pv \in PreviewType, StackOf(ops, pv, act),
           NEW op \in Operation, Fits(op, ops, pv.shown, act), NEW after, after = Preview(op, pv)
    PROVE  /\ Append(ops, op) \in Seq(Operation) /\ after \in PreviewType
           /\ StackOf(Append(ops, op), after, act)
<1> DEFINE longer == Append(ops, op)
           m == Len(ops)
<1>1. /\ longer \in Seq(Operation) /\ Len(longer) = m + 1 /\ longer[m + 1] = op /\ m \in Nat
      /\ \A i \in 1 .. m : longer[i] = ops[i]
      /\ DOMAIN longer = 1 .. m + 1 /\ DOMAIN ops = 1 .. m
  OBVIOUS
<1> HIDE DEF longer, m
<1>2. Ordered(longer, act)
  <2>1. \A i \in 1 .. m + 1 : i \in 1 .. m \/ i = m + 1 BY <1>1
  <2>2. \A i \in 1 .. m : i \in DOMAIN ops /\ ops[i] \in Operation BY <1>1, StackElements
  <2>3. ASSUME NEW i \in DOMAIN longer, NEW j \in DOMAIN longer
        PROVE  /\ i < j => \A e \in Existing : Hides(longer[i], e) => ~Refers(longer[j], e)
               /\ i # j => \A x \in Objects : Makes(longer[i], x) => ~Makes(longer[j], x)
               /\ i # j => \A p \in DOMAIN Primaries : FlagsOf(longer[i], p) => ~FlagsOf(longer[j], p)
    <3>1. CASE i \in 1 .. m /\ j \in 1 .. m BY <3>1, <1>1, <2>2 DEF StackOf, Ordered
    <3>2. CASE i \in 1 .. m /\ j = m + 1
      <4>1. longer[j] = op /\ longer[i] = ops[i] /\ i \in DOMAIN ops BY <3>2, <1>1
      <4>2. \A e \in Existing : Hides(ops[i], e) => e \notin pv.shown
        BY <3>2 DEF StackOf, Previews, ShownBy, m
      <4> QED BY <4>1, <4>2 DEF Fits
    <3>3. CASE i = m + 1 /\ j \in 1 .. m
      <4>1. longer[i] = op /\ longer[j] = ops[j] /\ j \in DOMAIN ops /\ ~(i < j) BY <3>3, <1>1
      <4> QED BY <4>1 DEF Fits
    <3>4. CASE i = m + 1 /\ j = m + 1 BY <3>4, <1>1
    <3> QED BY <1>1, <2>1, <3>1, <3>2, <3>3, <3>4
  <2>4. \A i \in DOMAIN longer : longer[i].kind = "Flags" => (longer[i].old <=> longer[i].part = act)
    BY <1>1, <2>1, <2>2 DEF StackOf, Ordered, Fits
  <2> QED BY <2>3, <2>4 DEF Ordered
<1>3. Previews(longer, m, pv, act) /\ NumbersBy(longer, m, pv.shown, pv.number)
  BY <1>1, SamePrefix DEF StackOf, m
<1>4. m \in 0 .. Len(longer) - 1 /\ after = Preview(longer[m + 1], pv) BY <1>1
<1>5. after \in PreviewType /\ Previews(longer, m + 1, after, act)
  BY ONLY <1>1, <1>2, <1>3, <1>4, ShowNext, pv \in PreviewType
<1>6. NumbersBy(longer, m + 1, after.shown, after.number)
  <2>1. ShownBy(longer, m, pv.shown) BY <1>3 DEF Previews
  <2> QED BY ONLY <1>1, <1>2, <1>3, <1>4, <2>1, NumberNext, pv \in PreviewType
<1> QED BY <1>1, <1>2, <1>5, <1>6 DEF StackOf, longer

\* What is left of a sequence when the element at a position is taken off.
LEMMA Removed ==
    ASSUME NEW S, NEW s \in Seq(S), NEW k \in 1 .. Len(s)
    PROVE  /\ RemoveAt(s, k) \in Seq(S) /\ Len(RemoveAt(s, k)) = Len(s) - 1
           /\ DOMAIN RemoveAt(s, k) = 1 .. Len(s) - 1
           /\ \A i \in 1 .. Len(s) - 1 : RemoveAt(s, k)[i] = IF i < k THEN s[i] ELSE s[i + 1]
<1> DEFINE a == SubSeq(s, 1, k - 1)
           b == SubSeq(s, k + 1, Len(s))
<1>1. k \in Nat /\ k >= 1 /\ k <= Len(s) /\ Len(s) \in Nat OBVIOUS
<1>2. a \in Seq(S) /\ Len(a) = k - 1 /\ \A i \in 1 .. k - 1 : a[i] = s[i] BY <1>1
<1>3. b \in Seq(S) /\ Len(b) = Len(s) - k /\ \A i \in 1 .. Len(s) - k : b[i] = s[k + i] BY <1>1
<1>4. RemoveAt(s, k) = a \o b BY DEF RemoveAt
<1> HIDE DEF a, b
<1>5. /\ a \o b \in Seq(S) /\ Len(a \o b) = Len(a) + Len(b)
      /\ \A i \in 1 .. Len(a) + Len(b) : (a \o b)[i] = IF i <= Len(a) THEN a[i] ELSE b[i - Len(a)]
  BY ONLY <1>2, <1>3, ConcatProperties
<1>6. Len(a) + Len(b) = Len(s) - 1 BY <1>1, <1>2, <1>3
<1>7. DOMAIN (a \o b) = 1 .. Len(s) - 1 BY <1>5, <1>6
<1>8. ASSUME NEW i \in 1 .. Len(s) - 1 PROVE (a \o b)[i] = IF i < k THEN s[i] ELSE s[i + 1]
  <2>1. CASE i < k
    <3>1. i \in 1 .. k - 1 /\ i <= Len(a) BY <2>1, <1>1, <1>2
    <3> QED BY <3>1, <2>1, <1>2, <1>5, <1>6
  <2>2. CASE ~(i < k)
    <3>1. i - (k - 1) \in 1 .. Len(s) - k /\ ~(i <= Len(a)) /\ k + (i - (k - 1)) = i + 1 BY <2>2, <1>1, <1>2
    <3>2. (a \o b)[i] = b[i - Len(a)] BY <3>1, <1>5, <1>6
    <3>3. i - Len(a) = i - (k - 1) BY <1>2
    <3>4. b[i - (k - 1)] = s[k + (i - (k - 1))] BY <3>1, <1>3
    <3> QED BY <3>1, <3>2, <3>3, <3>4, <2>2
  <2> QED BY <2>1, <2>2
<1> QED BY <1>4, <1>5, <1>6, <1>7, <1>8

\* All elements of a sequence but the last.
LEMMA Fronted ==
    ASSUME NEW S, NEW s \in Seq(S), s # <<>>
    PROVE  /\ Front(s) \in Seq(S) /\ Len(Front(s)) = Len(s) - 1 /\ DOMAIN Front(s) = 1 .. Len(s) - 1
           /\ Len(s) - 1 \in Nat /\ Last(s) = s[Len(s)]
           /\ \A i \in 1 .. Len(s) - 1 : Front(s)[i] = s[i]
<1>1. Len(s) \in Nat /\ Len(s) # 0 OBVIOUS
<1>2. Len(s) - 1 \in Nat /\ Len(s) - 1 <= Len(s) BY <1>1
<1>3. /\ SubSeq(s, 1, Len(s) - 1) \in Seq(S) /\ Len(SubSeq(s, 1, Len(s) - 1)) = Len(s) - 1
      /\ \A i \in 1 .. Len(s) - 1 : SubSeq(s, 1, Len(s) - 1)[i] = s[i]
  <2> DEFINE n == Len(s) - 1
  <2>1. \A i \in 1 .. n : s[i] \in S BY <1>2
  <2>2. n \in Nat BY <1>2
  <2> HIDE DEF n
  <2>3. /\ SubSeq(s, 1, n) \in Seq(S)
        /\ Len(SubSeq(s, 1, n)) = IF 1 <= n THEN n - 1 + 1 ELSE 0
        /\ \A i \in 1 .. n - 1 + 1 : SubSeq(s, 1, n)[i] = s[1 + i - 1]
    BY <2>1, <2>2, SubSeqProperties
  <2>4. Len(SubSeq(s, 1, n)) = n /\ \A i \in 1 .. n : SubSeq(s, 1, n)[i] = s[i] BY <2>2, <2>3
  <2> QED BY <2>3, <2>4 DEF n
<1>4. DOMAIN SubSeq(s, 1, Len(s) - 1) = 1 .. Len(s) - 1 BY <1>3
<1> QED BY <1>2, <1>3, <1>4 DEF Front, Last

\* Undoing the last operation and taking it off.
LEMMA Popped ==
    ASSUME NEW act, NEW ops \in Seq(Operation), ops # <<>>, NEW pv \in PreviewType, StackOf(ops, pv, act),
           NEW after, after = Undo(Last(ops), pv)
    PROVE  Front(ops) \in Seq(Operation) /\ after \in PreviewType /\ StackOf(Front(ops), after, act)
<1> DEFINE shorter == Front(ops)
           m == Len(ops) - 1
<1>1. /\ shorter \in Seq(Operation) /\ Len(shorter) = m /\ m \in Nat /\ m + 1 = Len(ops) /\ Last(ops) = ops[m + 1]
      /\ \A i \in 1 .. m : shorter[i] = ops[i]
      /\ DOMAIN shorter = 1 .. m /\ DOMAIN ops = 1 .. m + 1
  <2>1. DOMAIN ops = 1 .. Len(ops) /\ Len(ops) - 1 + 1 = Len(ops) OBVIOUS
  <2> QED BY <2>1, Fronted
<1> HIDE DEF shorter, m
<1>2. Ordered(shorter, act)
  <2>1. \A i \in DOMAIN shorter : i \in DOMAIN ops /\ shorter[i] = ops[i] BY <1>1
  <2> QED BY <2>1 DEF StackOf, Ordered
<1>3. /\ Ordered(ops, act) /\ Previews(ops, m + 1, pv, act) /\ NumbersBy(ops, m + 1, pv.shown, pv.number)
      /\ ShownBy(ops, m + 1, pv.shown)
  BY <1>1 DEF StackOf, Previews
<1>4. m \in 0 .. Len(ops) - 1 /\ after = Undo(ops[m + 1], pv) BY <1>1
<1>5. after \in PreviewType /\ Previews(ops, m, after, act)
  BY ONLY <1>3, <1>4, ShowLess, pv \in PreviewType, ops \in Seq(Operation)
<1>6. NumbersBy(ops, m, after.shown, after.number)
  <2>1. ShownBy(ops, m, after.shown) BY <1>5 DEF Previews
  <2> QED BY ONLY <1>3, <1>4, <2>1, NumberLess, pv \in PreviewType, ops \in Seq(Operation)
<1>7. Previews(shorter, m, after, act) /\ NumbersBy(shorter, m, after.shown, after.number)
  BY ONLY <1>1, <1>5, <1>6, SamePrefix
<1> QED BY <1>1, <1>2, <1>5, <1>7 DEF StackOf, shorter

\* Undoing an operation that hides nothing and taking it off the stack, wherever it is.
LEMMA Taken ==
    ASSUME NEW act, NEW ops \in Seq(Operation), NEW k \in DOMAIN ops, NEW pv \in PreviewType, StackOf(ops, pv, act),
           ops[k].kind # "Delete", \A e \in Existing : ~Hides(ops[k], e),
           NEW after, after = Undo(ops[k], pv)
    PROVE  RemoveAt(ops, k) \in Seq(Operation) /\ after \in PreviewType /\ StackOf(RemoveAt(ops, k), after, act)
<1> DEFINE left == RemoveAt(ops, k)
           m == Len(ops)
           op == ops[k]
           was(i) == IF i < k THEN i ELSE i + 1
<1>1. /\ k \in 1 .. m /\ m \in Nat /\ DOMAIN ops = 1 .. m /\ op \in Operation
      /\ left \in Seq(Operation) /\ Len(left) = m - 1 /\ DOMAIN left = 1 .. m - 1
      /\ \A i \in 1 .. m - 1 : left[i] = IF i < k THEN ops[i] ELSE ops[i + 1]
  <2>1. k \in 1 .. Len(ops) /\ Len(ops) \in Nat /\ DOMAIN ops = 1 .. Len(ops) /\ ops[k] \in Operation OBVIOUS
  <2>2. /\ RemoveAt(ops, k) \in Seq(Operation) /\ Len(RemoveAt(ops, k)) = Len(ops) - 1
        /\ DOMAIN RemoveAt(ops, k) = 1 .. Len(ops) - 1
        /\ \A i \in 1 .. Len(ops) - 1 : RemoveAt(ops, k)[i] = IF i < k THEN ops[i] ELSE ops[i + 1]
    BY ONLY <2>1, Removed, ops \in Seq(Operation)
  <2> QED BY <2>1, <2>2
<1>2. \A i \in 1 .. m - 1 : was(i) \in 1 .. m /\ was(i) # k /\ left[i] = ops[was(i)] BY <1>1
<1>3. \A i, j \in 1 .. m - 1 : /\ i < j => was(i) < was(j)
                               /\ i # j => was(i) # was(j)
  BY <1>1
<1>4. \A j \in 1 .. m : j # k => \E i \in 1 .. m - 1 : was(i) = j
  <2>1. ASSUME NEW j \in 1 .. m, j # k PROVE \E i \in 1 .. m - 1 : was(i) = j
    <3>1. CASE j < k
      <4>1. j \in 1 .. m - 1 /\ was(j) = j BY <3>1, <1>1
      <4> QED BY <4>1
    <3>2. CASE ~(j < k)
      <4>1. j - 1 \in 1 .. m - 1 /\ ~(j - 1 < k) /\ j - 1 + 1 = j BY <3>2, <2>1, <1>1
      <4>2. was(j - 1) = j BY <4>1
      <4> QED BY <4>1, <4>2
    <3> QED BY <3>1, <3>2
  <2> QED BY <2>1
<1>5. /\ after \in PreviewType
      /\ \A x \in Objects : x \in after.shown <=> Hides(op, x) \/ (x \in pv.shown /\ ~Makes(op, x))
      /\ \A p \in Objects : p \in after.flags <=> IF FlagsOf(op, p) THEN op.old ELSE p \in pv.flags
      /\ after.number = pv.number
  BY <1>1, UndoShows
<1>6. /\ Ordered(ops, act) /\ ShownBy(ops, m, pv.shown) /\ FlagsBy(ops, m, pv.flags, act)
      /\ NumbersBy(ops, m, pv.shown, pv.number)
  BY DEF StackOf, Previews
<1>7. \A i \in 1 .. m - 1 : left[i] \in Operation BY <1>1, StackElements
<1>8. \A i \in 1 .. m : ops[i] \in Operation BY StackElements
<1>9. \A e \in Existing : ~Hides(op, e) /\ ~Makes(op, e) /\ e \in Objects BY <1>1, OperationObjects, Kinds
<1> HIDE DEF left, m, op, was
<1>10. Ordered(left, act)
  <2>1. ASSUME NEW i \in DOMAIN left, NEW j \in DOMAIN left
        PROVE  /\ i < j => \A e \in Existing : Hides(left[i], e) => ~Refers(left[j], e)
               /\ i # j => \A x \in Objects : Makes(left[i], x) => ~Makes(left[j], x)
               /\ i # j => \A p \in DOMAIN Primaries : FlagsOf(left[i], p) => ~FlagsOf(left[j], p)
    <3>1. /\ was(i) \in DOMAIN ops /\ was(j) \in DOMAIN ops /\ left[i] = ops[was(i)] /\ left[j] = ops[was(j)]
          /\ i < j => was(i) < was(j)
          /\ i # j => was(i) # was(j)
      BY <1>1, <1>2, <1>3
    <3> QED BY <3>1, <1>6 DEF Ordered
  <2>2. \A i \in DOMAIN left : left[i].kind = "Flags" => (left[i].old <=> left[i].part = act)
    BY <1>1, <1>2, <1>6 DEF Ordered
  <2> QED BY <2>1, <2>2 DEF Ordered
<1>11. ShownBy(left, m - 1, after.shown)
  <2>1. ASSUME NEW e \in Existing PROVE e \in after.shown <=> \A i \in 1 .. m - 1 : ~Hides(left[i], e)
    <3>1. e \in after.shown <=> e \in pv.shown BY <1>5, <1>9
    <3>2. e \in pv.shown <=> \A i \in 1 .. m : ~Hides(ops[i], e) BY <1>6 DEF ShownBy
    <3>3. (\A i \in 1 .. m : ~Hides(ops[i], e)) <=> \A i \in 1 .. m - 1 : ~Hides(left[i], e)
      BY <1>2, <1>4, <1>9 DEF op
    <3> QED BY <3>1, <3>2, <3>3
  <2>2. ASSUME NEW x \in Created \cup Copies PROVE x \in after.shown <=> \E i \in 1 .. m - 1 : Makes(left[i], x)
    <3>1. x \in Objects /\ ~Hides(op, x) BY <1>1, OperationObjects, Kinds
    <3>2. x \in after.shown <=> x \in pv.shown /\ ~Makes(op, x) BY <3>1, <1>5
    <3>3. x \in pv.shown <=> \E i \in 1 .. m : Makes(ops[i], x) BY <1>6 DEF ShownBy
    <3>4. \A i \in 1 .. m - 1 : Makes(left[i], x) => ~Makes(op, x)
      BY <1>1, <1>2, <1>6, <3>1 DEF Ordered, op
    <3>5. (\E i \in 1 .. m : Makes(ops[i], x)) /\ ~Makes(op, x) => \E i \in 1 .. m - 1 : Makes(left[i], x)
      BY <1>2, <1>4 DEF op
    <3>6. (\E i \in 1 .. m - 1 : Makes(left[i], x)) => \E i \in 1 .. m : Makes(ops[i], x) BY <1>2
    <3> QED BY <3>2, <3>3, <3>4, <3>5, <3>6
  <2> QED BY <2>1, <2>2 DEF ShownBy
<1>12. FlagsBy(left, m - 1, after.flags, act)
  <2>1. ASSUME NEW i \in 1 .. m - 1, left[i].kind = "Flags" PROVE left[i].part \in after.flags <=> left[i].new
    <3>1. left[i].part \in DOMAIN Primaries /\ left[i].part \in Objects /\ FlagsOf(left[i], left[i].part)
      BY <1>7, <2>1, OperationObjects, OperationKinds DEF FlagsOf
    <3>2. ~FlagsOf(op, left[i].part) BY <3>1, <1>1, <1>2, <1>6 DEF Ordered, op
    <3>3. left[i].part \in pv.flags <=> left[i].new BY <1>2, <1>6, <2>1 DEF FlagsBy
    <3> QED BY <3>1, <3>2, <3>3, <1>5
  <2>2. ASSUME NEW p \in DOMAIN Primaries, \A i \in 1 .. m - 1 : ~FlagsOf(left[i], p)
        PROVE  p \in after.flags <=> p = act
    <3>1. CASE FlagsOf(op, p)
      <4>1. op.old <=> p = act BY <3>1, <1>1, <1>6 DEF Ordered, FlagsOf, op
      <4> QED BY <4>1, <3>1, <1>5, Kinds
    <3>2. CASE ~FlagsOf(op, p)
      <4>1. \A i \in 1 .. m : ~FlagsOf(ops[i], p) BY <2>2, <3>2, <1>2, <1>4 DEF op
      <4>2. p \in pv.flags <=> p = act BY <4>1, <1>6 DEF FlagsBy
      <4> QED BY <4>2, <3>2, <1>5, Kinds
    <3> QED BY <3>1, <3>2
  <2> QED BY <2>1, <2>2 DEF FlagsBy
<1>13. ASSUME NEW i \in 0 .. m - 1
       PROVE  DeletedBy(left, i) = DeletedBy(ops, IF i < k THEN i ELSE i + 1)
  <2>1. ASSUME NEW e
        PROVE  (\E j \in 1 .. i : left[j] = Delete(e)) <=> \E j \in 1 .. (IF i < k THEN i ELSE i + 1) : ops[j] = Delete(e)
    <3>1. ops[k] # Delete(e) BY OperationKinds, <1>8, <1>1 DEF op
    <3>2. ASSUME NEW j \in 1 .. i, left[j] = Delete(e)
          PROVE  \E l \in 1 .. (IF i < k THEN i ELSE i + 1) : ops[l] = Delete(e)
      <4>1. was(j) \in 1 .. (IF i < k THEN i ELSE i + 1) BY <1>1 DEF was
      <4>2. ops[was(j)] = Delete(e) BY <3>2, <1>1, <1>2
      <4> QED BY <4>1, <4>2
    <3>3. ASSUME NEW l \in 1 .. (IF i < k THEN i ELSE i + 1), ops[l] = Delete(e)
          PROVE  \E j \in 1 .. i : left[j] = Delete(e)
      <4>1. l \in 1 .. m /\ l # k BY <3>1, <3>3, <1>1
      <4>2. PICK j \in 1 .. m - 1 : was(j) = l BY <4>1, <1>4
      <4>3. j \in 1 .. i BY <4>2, <1>1 DEF was
      <4> QED BY <4>2, <4>3, <3>3, <1>2
    <3> QED BY <3>2, <3>3
  <2> QED BY <2>1 DEF DeletedBy
<1>14. DeletedBy(ops, k - 1) = DeletedBy(ops, k)
  <2>1. k - 1 \in 0 .. Len(ops) - 1 /\ k - 1 + 1 = k BY <1>1 DEF m
  <2> QED BY <2>1, DeletedNext
<1>15. \A i \in 0 .. m - 1 : \A e : /\ i < k => NumberAt(left, e, i) = NumberAt(ops, e, i)
                                    /\ i + 1 >= k => NumberAt(left, e, i) = NumberAt(ops, e, i + 1)
  <2>1. ASSUME NEW i \in 0 .. m - 1
        PROVE  /\ i < k => DeletedBy(left, i) = DeletedBy(ops, i)
               /\ i + 1 >= k => DeletedBy(left, i) = DeletedBy(ops, i + 1)
    <3>1. CASE i < k
      <4>1. i + 1 >= k => i = k - 1 /\ i + 1 = k BY SMTT(30), <3>1, <1>1
      <4>2. DeletedBy(left, i) = DeletedBy(ops, i) BY <3>1, <1>13
      <4> QED BY <4>1, <4>2, <1>14
    <3>2. CASE ~(i < k) BY <3>2, <1>13
    <3> QED BY <3>1, <3>2
  <2> QED BY <2>1 DEF NumberAt
<1>16. NumbersBy(left, m - 1, after.shown, after.number)
  <2>1. ASSUME NEW e \in Existing \cap after.shown PROVE after.number[e] = NumberAt(left, e, m - 1)
    <3>1. e \in pv.shown BY <1>5, <1>9
    <3>2. pv.number[e] = NumberAt(ops, e, m) BY <3>1, <1>6 DEF NumbersBy
    <3>3. m - 1 \in 0 .. m - 1 /\ m - 1 + 1 >= k /\ m - 1 + 1 = m BY <1>1
    <3>4. NumberAt(left, e, m - 1) = NumberAt(ops, e, m) BY <3>3, <1>15
    <3> QED BY <3>2, <3>4, <1>5
  <2>2. ASSUME NEW i \in 1 .. m - 1, NEW e \in Existing, Hides(left[i], e)
        PROVE  after.number[e] = NumberAt(left, e, i - 1)
    <3>1. pv.number[e] = NumberAt(ops, e, was(i) - 1) BY <2>2, <1>2, <1>6 DEF NumbersBy
    <3>2. CASE i < k
      <4>1. was(i) = i /\ i - 1 < k /\ i - 1 \in 0 .. m - 1 BY <3>2, <1>1 DEF was
      <4> QED BY <4>1, <3>1, <1>5, <1>15
    <3>3. CASE ~(i < k)
      <4>1. was(i) - 1 = i /\ i - 1 + 1 = i /\ i - 1 + 1 >= k /\ i - 1 \in 0 .. m - 1 BY <3>3, <1>1 DEF was
      <4> QED BY <4>1, <3>1, <1>5, <1>15
    <3> QED BY <3>2, <3>3
  <2> QED BY <2>1, <2>2 DEF NumbersBy
<1> QED BY <1>1, <1>5, <1>10, <1>11, <1>12, <1>16 DEF StackOf, Previews, left

--------------------------------------------------------------------------------
(* The initial state and the edits of the stack                            *)

\* Before all operations the number is the one on the disk.
LEMMA NumberAtStart ==
    ASSUME NEW ops, NEW e \in Existing
    PROVE  NumberAt(ops, e, 0) = EntryNumber(Logicals, e) /\ EntryNumber(Logicals, e) \in Int
<1>1. CASE e \in DOMAIN Primaries BY <1>1, NumbersAssumption DEF EntryNumber, NumberAt
<1>2. CASE e \notin DOMAIN Primaries
  <2>1. DeletedBy(ops, 0) = {} BY DEF DeletedBy
  <2>2. Gone(e, {}) = {} BY DEF Gone
  <2>3. Cardinality({}) = 0 BY FS_EmptySet
  <2>4. EntryNumber(Logicals, e) \in Int BY <1>2, LogicalNumber, Kinds
  <2>5. NumberAt(ops, e, 0) = Less(e, {}) BY <2>1, <1>2 DEF NumberAt
  <2>6. Less(e, {}) = EntryNumber(Logicals, e) - 0 BY ONLY <2>2, <2>3 DEF Less
  <2> QED BY <2>4, <2>5, <2>6
<1> QED BY <1>1, <1>2

\* The scanned table satisfies the invariant.
LEMMA InitInv == Init => IInv
<1> SUFFICES ASSUME Init PROVE IInv OBVIOUS
<1> USE DEF Init
<1>1. \A e \in Existing : EntryNumber(Logicals, e) \in Int BY NumberAtStart
<1>2. PICK active \in DOMAIN Primaries \cup {None} :
          flags = {active} \ {None} /\ disk = [primaries |-> DOMAIN Primaries, chain |-> Logicals, active |-> active]
  OBVIOUS
<1>3. active \in Places /\ \A p \in DOMAIN Primaries : p \in flags <=> p = active BY <1>2, Kinds DEF Places
<1>4. operations \in Seq(Operation) /\ Len(operations) = 0 OBVIOUS
<1>5. Types
  <2>1. shown \in SUBSET Objects /\ flags \in SUBSET Objects BY <1>2, Kinds
  <2>2. number \in [Objects -> Int] BY <1>1
  <2>3. preview \in PreviewType BY <2>1, <2>2 DEF preview, PreviewType
  <2>4. place \in [Objects -> Places] BY Kinds DEF Places
  <2>5. disk \in [primaries : SUBSET DOMAIN Primaries, chain : Seq(Objects), active : Places]
    BY <1>2, <1>3, ScannedChain
  <2>6. run \in [phase : {"idle", "undoing", "running", "finished", "failed"}, next : Nat \ {0},
                 believed : BOOLEAN, was : Places]
    BY Kinds DEF Places
  <2> QED BY <2>3, <2>4, <2>5, <2>6, <1>4 DEF Types
<1>6. Where BY DEF Where
<1>7. Stacked
  <2>1. Previewed = 0 /\ Active = active BY <1>2, <1>4 DEF Previewed, Active
  <2>2. Ordered(operations, active) BY <1>4 DEF Ordered
  <2>3. ShownBy(operations, 0, shown) BY Kinds DEF ShownBy
  <2>4. FlagsBy(operations, 0, flags, active) BY <1>3 DEF FlagsBy
  <2> QED BY <2>1, <2>2, <2>3, <2>4 DEF Stacked, Previews, preview
<1>8. Untouched
  <2>1. Previewed = 0 BY <1>4 DEF Previewed
  <2>2. ASSUME NEW e \in Existing PROVE number[e] = NumberAt(operations, e, 0)
    <3>1. number[e] = EntryNumber(Logicals, e) BY Kinds
    <3> QED BY <3>1, NumberAtStart
  <2>3. NumbersBy(operations, 0, shown, number) BY <2>2 DEF NumbersBy
  <2> QED BY <2>1, <2>3, <1>2 DEF Untouched
<1>9. RunNumbers /\ Activated BY DEF RunNumbers, Activated, Before
<1> QED BY <1>5, <1>6, <1>7, <1>8, <1>9 DEF IInv

\* While the user edits the stack, all of it is previewed.
LEMMA IdleStack ==
    ASSUME IInv, run.phase = "idle"
    PROVE  /\ operations \in Seq(Operation) /\ preview \in PreviewType /\ StackOf(operations, preview, disk.active)
           /\ shown \subseteq Objects /\ flags \subseteq Objects /\ number \in [Objects -> Int]
<1>1. Previewed = Len(operations) /\ Active = disk.active BY DEF Previewed, Active
<1>2. NumbersBy(operations, Previewed, shown, number) BY DEF IInv, Untouched, Before
<1>3. preview.shown = shown /\ preview.number = number /\ preview.flags = flags BY DEF preview
<1>4. operations \in Seq(Operation) /\ preview \in PreviewType BY DEF IInv, Types
<1> QED BY <1>1, <1>2, <1>3, <1>4 DEF IInv, Stacked, StackOf, PreviewType

\* What is shown becomes the preview.
LEMMA Shows ==
    ASSUME NEW pv \in PreviewType, Show(pv)
    PROVE  preview' = pv
BY DEF Show, preview, PreviewType

\* An edit keeps the invariant when all of the new stack is previewed.
LEMMA EditInv ==
    ASSUME IInv, Editing, operations' \in Seq(Operation), preview' \in PreviewType,
           StackOf(operations', preview', disk.active)
    PROVE  IInv'
<1>1. run.phase = "idle" /\ run' = run /\ disk' = disk /\ place' = place BY DEF Editing
<1>2. Previewed' = Len(operations') /\ Active' = disk.active BY <1>1 DEF Previewed, Active
<1>3. preview'.shown = shown' /\ preview'.number = number' BY DEF preview
<1>4. Types' BY <1>1 DEF IInv, Types
<1>5. Where' BY <1>1 DEF IInv, Where
<1>6. Stacked' BY <1>2 DEF Stacked, StackOf
<1>7. Untouched'
  <2>1. NumbersBy(operations', Previewed', shown', number') BY <1>2, <1>3 DEF StackOf
  <2> QED BY <2>1, <1>1 DEF IInv, Untouched, Before
<1>8. RunNumbers' /\ Activated' BY <1>1 DEF RunNumbers, Activated, Before
<1> QED BY <1>4, <1>5, <1>6, <1>7, <1>8 DEF IInv

\* Pushing an operation that fits.
LEMMA AppendInv ==
    ASSUME IInv, Editing, NEW ops \in Seq(Operation), NEW pv \in PreviewType, StackOf(ops, pv, disk.active),
           NEW op \in Operation, Fits(op, ops, pv.shown, disk.active), AppendOp(ops, op, pv)
    PROVE  IInv'
<1> DEFINE after == Preview(op, pv)
<1>1. /\ Append(ops, op) \in Seq(Operation) /\ after \in PreviewType
      /\ StackOf(Append(ops, op), after, disk.active)
  BY Pushed
<1>2. operations' = Append(ops, op) /\ Show(after) BY DEF AppendOp
<1> HIDE DEF after
<1>3. preview' = after BY <1>1, <1>2, Shows
<1> QED BY <1>1, <1>2, <1>3, EditInv

\* A new partition is pushed: no operation has that object yet.
LEMMA PushNewInv == IInv /\ PushNew => IInv'
<1> SUFFICES ASSUME IInv, PushNew PROVE IInv' OBVIOUS
<1>1. run.phase = "idle" /\ Editing BY DEF PushNew, Editing
<1>2. PICK n \in Created \ Used : AppendOp(operations, New(n), preview) BY DEF PushNew
<1>3. New(n) \in Operation /\ New(n).kind = "New" /\ New(n).part = n BY DEF New, Operation
<1>4. Fits(New(n), operations, preview.shown, disk.active)
  <2>1. \A e \in Existing : ~Refers(New(n), e) BY <1>3, Kinds DEF Refers
  <2>2. \A i \in DOMAIN operations : \A x : Makes(New(n), x) => ~Makes(operations[i], x)
    BY <1>3 DEF Makes, Used
  <2> QED BY <1>3, <2>1, <2>2 DEF Fits, FlagsOf
<1> QED BY <1>1, <1>2, <1>3, <1>4, IdleStack, AppendInv

\* A copy is pushed: it gets the number of its source, which says nothing of an entry.
LEMMA PushCopyInv == IInv /\ PushCopy => IInv'
<1> SUFFICES ASSUME IInv, PushCopy PROVE IInv' OBVIOUS
<1>1. run.phase = "idle" /\ Editing BY DEF PushCopy, Editing
<1>2. PICK c \in Copies \ Used, s \in shown \cap Existing, o \in (shown \cap Range(Logicals)) \cup {None} :
          AppendOp(operations, Copy(c, s, o), [preview EXCEPT !.number[c] = number[s]])
  BY DEF PushCopy
<1> DEFINE op == Copy(c, s, o)
           pv == [preview EXCEPT !.number[c] = number[s]]
<1>3. op \in Operation /\ op.kind = "Copy" /\ op.part = c /\ op.source = s /\ op.over = o BY DEF Copy, Operation
<1>4. /\ preview \in PreviewType /\ operations \in Seq(Operation) /\ StackOf(operations, preview, disk.active)
      /\ number \in [Objects -> Int]
  BY <1>1, IdleStack
<1>5. /\ pv \in PreviewType /\ pv.shown = shown /\ pv.flags = flags
      /\ preview.shown = shown /\ preview.flags = flags /\ preview.number = number
      /\ \A e \in Existing : pv.number[e] = number[e]
  BY <1>4, Kinds DEF preview, PreviewType
<1> HIDE DEF pv, op
<1>6. StackOf(operations, pv, disk.active)
  <2>1. NumbersBy(operations, Len(operations), pv.shown, pv.number) BY <1>4, <1>5 DEF StackOf, NumbersBy
  <2>2. Previews(operations, Len(operations), pv, disk.active) BY <1>4, <1>5 DEF StackOf, Previews
  <2> QED BY <1>4, <2>1, <2>2 DEF StackOf
<1>7. Fits(op, operations, pv.shown, disk.active)
  <2>1. \A e \in Existing : Refers(op, e) => e \in shown BY <1>3, Kinds DEF Refers
  <2>2. \A i \in DOMAIN operations : \A x : Makes(op, x) => ~Makes(operations[i], x)
    BY <1>3 DEF Makes, Used
  <2> QED BY <1>3, <1>5, <2>1, <2>2 DEF Fits, FlagsOf
<1>8. AppendOp(operations, op, pv) BY <1>2 DEF op, pv
<1> QED BY ONLY IInv, <1>1, <1>3, <1>4, <1>5, <1>6, <1>7, <1>8, AppendInv

\* A resize is pushed.
LEMMA PushResizeInv == IInv /\ PushResize => IInv'
<1> SUFFICES ASSUME IInv, PushResize PROVE IInv' OBVIOUS
<1>1. run.phase = "idle" /\ Editing BY DEF PushResize, Editing
<1>2. PICK p \in shown \cap Existing : AppendOp(operations, Resize(p), preview) BY DEF PushResize
<1>3. Resize(p) \in Operation /\ Resize(p).kind = "Resize" /\ Resize(p).part = p BY DEF Resize, Operation
<1>4. preview.shown = shown BY DEF preview
<1>5. Fits(Resize(p), operations, preview.shown, disk.active) BY <1>3, <1>4 DEF Fits, Refers, Makes, FlagsOf
<1> QED BY <1>1, <1>2, <1>3, <1>5, IdleStack, AppendInv

\* A deletion is pushed.
LEMMA PushDeleteInv == IInv /\ PushDelete => IInv'
<1> SUFFICES ASSUME IInv, PushDelete PROVE IInv' OBVIOUS
<1>1. run.phase = "idle" /\ Editing BY DEF PushDelete, Editing
<1>2. PICK p \in shown \cap Existing : AppendOp(operations, Delete(p), preview) BY DEF PushDelete
<1>3. Delete(p) \in Operation /\ Delete(p).kind = "Delete" /\ Delete(p).part = p BY DEF Delete, Operation
<1>4. preview.shown = shown BY DEF preview
<1>5. Fits(Delete(p), operations, preview.shown, disk.active) BY <1>3, <1>4 DEF Fits, Refers, Makes, FlagsOf
<1> QED BY <1>1, <1>2, <1>3, <1>5, IdleStack, AppendInv

\* A flags operation is pushed, or replaces the one of the same partition.
LEMMA PushFlagsInv == IInv /\ PushFlags => IInv'
<1> SUFFICES ASSUME IInv, PushFlags PROVE IInv' OBVIOUS
<1>1. run.phase = "idle" /\ Editing BY DEF PushFlags, Editing
<1>2. /\ preview \in PreviewType /\ operations \in Seq(Operation) /\ StackOf(operations, preview, disk.active)
      /\ preview.shown = shown /\ preview.flags = flags
  BY <1>1, IdleStack DEF preview
<1>3. PICK p \in shown \cap DOMAIN Primaries :
          LET op == Flags(p, p \in flags, p \notin flags)
              at == {i \in DOMAIN operations : operations[i].kind = "Flags" /\ operations[i].part = p}
          IN  IF at = {} THEN Len(operations) < MaxOps /\ AppendOp(operations, op, preview)
              ELSE LET i == CHOOSE i \in at : TRUE
                   IN  AppendOp(RemoveAt(operations, i), [op EXCEPT !.old = operations[i].old],
                                Undo(operations[i], preview))
  BY DEF PushFlags
<1> DEFINE op == Flags(p, p \in flags, p \notin flags)
           at == {i \in DOMAIN operations : operations[i].kind = "Flags" /\ operations[i].part = p}
<1>4. /\ op \in Operation /\ op.kind = "Flags" /\ op.part = p /\ (op.old <=> p \in flags)
      /\ \A old \in BOOLEAN : /\ [op EXCEPT !.old = old] \in Operation
                              /\ [op EXCEPT !.old = old].kind = "Flags" /\ [op EXCEPT !.old = old].part = p
                              /\ [op EXCEPT !.old = old].old = old
  <2>1. ASSUME NEW a \in BOOLEAN, NEW b \in BOOLEAN, NEW f, f = Flags(p, a, b)
        PROVE  /\ f \in Operation /\ f.kind = "Flags" /\ f.part = p /\ f.old = a
               /\ \A old \in BOOLEAN : /\ [f EXCEPT !.old = old] \in Operation
                                       /\ [f EXCEPT !.old = old].kind = "Flags" /\ [f EXCEPT !.old = old].part = p
                                       /\ [f EXCEPT !.old = old].old = old
    <3>1. f = [kind |-> "Flags", part |-> p, old |-> a, new |-> b] BY <2>1 DEF Flags
    <3>2. \A old : [f EXCEPT !.old = old] = [kind |-> "Flags", part |-> p, old |-> old, new |-> b] BY <3>1
    <3> QED BY <3>1, <3>2 DEF Operation
  <2>2. (p \in flags) \in BOOLEAN /\ (p \notin flags) \in BOOLEAN OBVIOUS
  <2> QED BY <2>1, <2>2
<1> HIDE DEF op
<1>5. CASE at = {}
  <2>1. AppendOp(operations, op, preview) BY <1>3, <1>5 DEF op
  <2>2. \A i \in DOMAIN operations : ~FlagsOf(operations[i], p) BY <1>5 DEF FlagsOf
  <2>3. p \in flags <=> p = disk.active BY <1>2, <2>2, StackElements DEF StackOf, Previews, FlagsBy
  <2>4. Fits(op, operations, preview.shown, disk.active)
    BY <1>2, <1>4, <2>2, <2>3 DEF Fits, Refers, Makes, FlagsOf
  <2> QED BY ONLY IInv, <1>1, <1>2, <1>4, <2>1, <2>4, AppendInv
<1>6. CASE at # {}
  <2> DEFINE k == CHOOSE i \in at : TRUE
             left == RemoveAt(operations, k)
             undone == Undo(operations[k], preview)
             new == [op EXCEPT !.old = operations[k].old]
  <2>1. k \in at BY <1>6
  <2>2. k \in DOMAIN operations /\ operations[k].kind = "Flags" /\ operations[k].part = p BY <2>1
  <2>3. AppendOp(left, new, undone) BY <1>3, <1>6 DEF op
  <2> HIDE DEF k
  <2>4. operations[k] \in Operation /\ operations[k].old \in BOOLEAN BY <1>2, <2>2, OperationKinds
  <2>5. new \in Operation /\ new.kind = "Flags" /\ new.part = p /\ new.old = operations[k].old BY <1>4, <2>4
  <2>6. left \in Seq(Operation) /\ undone \in PreviewType /\ StackOf(left, undone, disk.active)
    <3>1. operations[k].kind # "Delete" /\ \A e \in Existing : ~Hides(operations[k], e) BY <2>2 DEF Hides
    <3> QED BY ONLY <1>2, <2>2, <3>1, Taken
  <2>7. p \in undone.shown
    <3>1. \A x \in Objects : x \in undone.shown <=> Hides(operations[k], x) \/ (x \in shown /\ ~Makes(operations[k], x))
      BY <1>2, <2>4, UndoShows
    <3>2. p \in Objects /\ p \in shown BY Kinds
    <3> QED BY <3>1, <3>2, <2>2 DEF Makes
  <2>8. \A i \in DOMAIN left : ~FlagsOf(left[i], p)
    <3>1. k \in 1 .. Len(operations) /\ DOMAIN operations = 1 .. Len(operations) /\ Len(operations) \in Nat
      BY <1>2, <2>2
    <3>2. /\ DOMAIN left = 1 .. Len(operations) - 1
          /\ \A i \in 1 .. Len(operations) - 1 : left[i] = IF i < k THEN operations[i] ELSE operations[i + 1]
      BY ONLY <1>2, <3>1, Removed
    <3>3. \A j \in DOMAIN operations : j # k => ~FlagsOf(operations[j], p)
      BY <1>2, <2>2 DEF StackOf, Ordered, FlagsOf
    <3>4. \A i \in 1 .. Len(operations) - 1 : /\ i \in DOMAIN operations /\ i + 1 \in DOMAIN operations
                                              /\ i < k => i # k
                                              /\ ~(i < k) => i + 1 # k
      BY <3>1
    <3> HIDE DEF left
    <3> QED BY <3>2, <3>3, <3>4
  <2>9. operations[k].old <=> p = disk.active BY <1>2, <2>2 DEF StackOf, Ordered
  <2> HIDE DEF left, new, undone
  <2>10. Fits(new, left, undone.shown, disk.active)
    BY <2>5, <2>7, <2>8, <2>9 DEF Fits, Refers, Makes, FlagsOf
  <2> QED BY ONLY IInv, <1>1, <2>3, <2>5, <2>6, <2>10, AppendInv
<1> QED BY <1>5, <1>6

\* The last operation is undone.
LEMMA PopInv == IInv /\ Pop => IInv'
<1> SUFFICES ASSUME IInv, Pop PROVE IInv' OBVIOUS
<1>1. run.phase = "idle" /\ Editing BY DEF Pop, Editing
<1> DEFINE after == Undo(Last(operations), preview)
<1>2. operations # <<>> /\ operations' = Front(operations) /\ Show(after) BY DEF Pop
<1>3. /\ preview \in PreviewType /\ operations \in Seq(Operation) /\ StackOf(operations, preview, disk.active)
  BY <1>1, IdleStack
<1>4. Front(operations) \in Seq(Operation) /\ after \in PreviewType /\ StackOf(Front(operations), after, disk.active)
  BY ONLY <1>2, <1>3, Popped
<1> HIDE DEF after
<1>5. preview' = after BY <1>2, <1>4, Shows
<1> QED BY <1>1, <1>2, <1>4, <1>5, EditInv

\* A New or Copy operation is taken off because its partition is deleted.
LEMMA PushDeleteOfNewInv == IInv /\ PushDeleteOfNew => IInv'
<1> SUFFICES ASSUME IInv, PushDeleteOfNew PROVE IInv' OBVIOUS
<1>1. run.phase = "idle" /\ Editing BY DEF PushDeleteOfNew, Editing
<1>2. PICK k \in DOMAIN operations :
          /\ \/ operations[k].kind = "New"
             \/ operations[k].kind = "Copy" /\ operations[k].over = None
          /\ operations' = RemoveAt(operations, k)
          /\ Show(Undo(operations[k], preview))
  BY DEF PushDeleteOfNew
<1> DEFINE after == Undo(operations[k], preview)
<1>3. preview \in PreviewType /\ operations \in Seq(Operation) /\ StackOf(operations, preview, disk.active)
  BY <1>1, IdleStack
<1>4. operations[k].kind # "Delete" /\ \A e \in Existing : ~Hides(operations[k], e) BY <1>2, Kinds DEF Hides
<1>5. RemoveAt(operations, k) \in Seq(Operation) /\ after \in PreviewType /\ StackOf(RemoveAt(operations, k), after, disk.active)
  BY ONLY <1>2, <1>3, <1>4, Taken, k \in DOMAIN operations
<1> HIDE DEF after
<1>6. preview' = after BY <1>2, <1>5, Shows DEF after
<1> QED BY <1>1, <1>2, <1>5, <1>6, EditInv

--------------------------------------------------------------------------------
(* The undo before a run                                                   *)

\* The run begins with all operations previewed.
LEMMA StartInv == IInv /\ Start => IInv'
<1> SUFFICES ASSUME IInv, Start PROVE IInv' OBVIOUS
<1>1. /\ run.phase = "idle" /\ operations # <<>>
      /\ UNCHANGED <<shown, number, flags, place, disk, operations>>
  BY DEF Start
<1>2. /\ operations \in Seq(Operation) /\ Len(operations) \in Nat \ {0}
      /\ run \in [phase : {"idle", "undoing", "running", "finished", "failed"}, next : Nat \ {0},
                  believed : BOOLEAN, was : Places]
      /\ disk.active \in Places /\ ~run.believed
  BY <1>1 DEF IInv, Types, Where
<1>3. /\ run'.phase = "undoing" /\ run'.next = Len(operations) /\ run'.was = disk.active /\ ~run'.believed
      /\ run' \in [phase : {"idle", "undoing", "running", "finished", "failed"}, next : Nat \ {0},
                   believed : BOOLEAN, was : Places]
  BY <1>2 DEF Start
<1>4. Previewed' = Previewed /\ Active' = Active /\ preview' = preview
  BY <1>1, <1>3 DEF Previewed, Active, preview
<1>5. Types' BY <1>1, <1>3, <1>4 DEF IInv, Types
<1>6. Where' BY <1>1, <1>2, <1>3 DEF Where
<1>7. Stacked' BY <1>1, <1>4 DEF IInv, Stacked
<1>8. Untouched' BY <1>1, <1>3, <1>4 DEF IInv, Untouched, Before
<1>9. RunNumbers' /\ Activated' BY <1>3 DEF RunNumbers, Activated, Before
<1> QED BY <1>5, <1>6, <1>7, <1>8, <1>9 DEF IInv

\* Operation by operation the preview shrinks to what was scanned.
LEMMA UndoNextInv == IInv /\ UndoNext => IInv'
<1> SUFFICES ASSUME IInv, UndoNext PROVE IInv' OBVIOUS
<1> DEFINE m == run.next - 1
           after == Undo(operations[run.next], preview)
<1>1. /\ run.phase = "undoing" /\ UNCHANGED <<place, disk, operations>> /\ Show(after)
      /\ run' = IF run.next = 1 THEN [run EXCEPT !.phase = "running"] ELSE [run EXCEPT !.next = @ - 1]
  BY DEF UndoNext
<1>2. /\ operations \in Seq(Operation) /\ preview \in PreviewType
      /\ run.next \in 1 .. Len(operations) /\ Len(operations) \in Nat /\ ~run.believed
      /\ run \in [phase : {"idle", "undoing", "running", "finished", "failed"}, next : Nat \ {0},
                  believed : BOOLEAN, was : Places]
  <2>1. run.next \in Nat \ {0} /\ run.next <= Len(operations) BY <1>1 DEF IInv, Types, Where
  <2> QED BY <2>1, <1>1 DEF IInv, Types, Where
<1>3. /\ Previewed = m + 1 /\ Active = run.was /\ m \in 0 .. Len(operations) - 1 /\ m + 1 = run.next
      /\ preview.shown = shown /\ preview.number = number
  BY <1>1, <1>2 DEF Previewed, Active, preview
<1>4. /\ Ordered(operations, run.was) /\ Previews(operations, m + 1, preview, run.was)
      /\ NumbersBy(operations, m + 1, preview.shown, preview.number)
      /\ ShownBy(operations, m + 1, preview.shown)
  BY <1>1, <1>3 DEF IInv, Stacked, Untouched, Before, Previews
<1>5. after = Undo(operations[m + 1], preview) BY <1>3
<1> HIDE DEF m, after
<1>6. after \in PreviewType /\ Previews(operations, m, after, run.was)
  BY ONLY <1>2, <1>3, <1>4, <1>5, ShowLess
<1>7. NumbersBy(operations, m, after.shown, after.number)
  <2>1. ShownBy(operations, m, after.shown) BY <1>6 DEF Previews
  <2> QED BY ONLY <1>2, <1>3, <1>4, <1>5, <2>1, NumberLess
<1>8. preview' = after BY <1>1, <1>6, Shows
<1>9. preview'.shown = shown' /\ preview'.number = number' BY DEF preview
<1>10. /\ run' \in [phase : {"idle", "undoing", "running", "finished", "failed"}, next : Nat \ {0},
                    believed : BOOLEAN, was : Places]
       /\ run'.was = run.was /\ ~run'.believed
       /\ \/ run'.phase = "undoing" /\ run'.next = m /\ m \in 1 .. Len(operations)
          \/ run'.phase = "running" /\ run'.next = 1 /\ m = 0
  <2>1. CASE run.next = 1
    <3>1. run' = [run EXCEPT !.phase = "running"] BY <2>1, <1>1
    <3> QED BY <3>1, <2>1, <1>2, <1>3
  <2>2. CASE run.next # 1
    <3>1. run' = [run EXCEPT !.next = @ - 1] BY <2>2, <1>1
    <3>2. run.next - 1 \in Nat \ {0} /\ run.next - 1 = m /\ m \in 1 .. Len(operations) BY <2>2, <1>2, <1>3
    <3> QED BY <3>1, <3>2, <1>1, <1>2
  <2> QED BY <2>1, <2>2
<1>11. Previewed' = m /\ Active' = run.was BY <1>10 DEF Previewed, Active
<1>12. Types' BY <1>1, <1>6, <1>8, <1>10 DEF IInv, Types
<1>13. Where' BY <1>1, <1>2, <1>10 DEF Where
<1>14. Stacked' BY <1>1, <1>4, <1>6, <1>8, <1>11 DEF Stacked
<1>15. Untouched' BY <1>1, <1>7, <1>8, <1>9, <1>10, <1>11 DEF IInv, Untouched, Before
<1>16. CASE run'.phase = "undoing"
  <2>1. RunNumbers' /\ Activated' BY <1>16 DEF RunNumbers, Activated, Before
  <2> QED BY <2>1, <1>12, <1>13, <1>14, <1>15 DEF IInv
<1>17. CASE run'.phase = "running"
  <2>1. m = 0 BY <1>10, <1>17
  <2>2. /\ disk'.primaries = DOMAIN Primaries /\ disk'.chain = Logicals
        /\ \A x \in Objects : place'[x] = IF x \in Existing THEN x ELSE None
    BY <1>1 DEF IInv, Untouched, Before
  <2>3. \A x \in shown' : x \in Existing
    <3>1. ShownBy(operations, 0, shown') BY <2>1, <1>6, <1>8, <1>9 DEF Previews
    <3>2. shown' \subseteq Objects BY <1>6, <1>8, <1>9 DEF PreviewType
    <3> QED BY <3>1, <3>2, Kinds DEF ShownBy
  <2>4. \A x \in shown' : number'[x] = EntryNumber(Logicals, x)
    BY <2>1, <2>3, <1>7, <1>8, <1>9, NumberAtStart DEF NumbersBy
  <2>5. RunNumbers'
    <3>1. IsInjective(disk'.chain) /\ Range(disk'.chain) \cap DOMAIN Primaries = {} BY <2>2, ScannedChain
    <3>2. \A e \in Range(disk'.chain) \ Range(Logicals) : \E i \in 1 .. Previewed' : Makes(operations'[i], e)
      BY <2>2
    <3>3. \A x \in Existing : place'[x] = x BY <2>2, Kinds
    <3>4. ASSUME NEW x \in shown'
          PROVE  /\ place'[x] \in disk'.primaries \cup Range(disk'.chain)
                 /\ place'[x] \in DOMAIN Primaries <=> x \in DOMAIN Primaries
                 /\ number'[x] = EntryNumber(disk'.chain, place'[x])
      BY <2>2, <2>3, <2>4, <3>3, Kinds
    <3>5. \A x, y \in shown' : place'[x] = place'[y] => x = y BY <2>3, <3>3
    <3> QED BY <3>1, <3>2, <3>3, <3>4, <3>5 DEF RunNumbers
  <2>6. Activated' BY <2>1, <1>11 DEF Activated
  <2> QED BY <2>5, <2>6, <1>12, <1>13, <1>14, <1>15 DEF IInv
<1> QED BY <1>10, <1>16, <1>17

--------------------------------------------------------------------------------
(* The table during a run                                                  *)

\* A chain of logical partitions.
IsChain(chain) == chain \in Seq(Objects) /\ IsInjective(chain) /\ Range(chain) \cap DOMAIN Primaries = {}

\* The number of an entry of a chain is 4 and its position.
LEMMA ChainPosition ==
    ASSUME NEW chain, IsChain(chain), NEW e \in Range(chain)
    PROVE  \E i \in 1 .. Len(chain) : chain[i] = e /\ EntryNumber(chain, e) = 4 + i
<1>1. DOMAIN chain = 1 .. Len(chain) BY DEF IsChain
<1>2. PICK i \in 1 .. Len(chain) : chain[i] = e BY <1>1 DEF Range
<1>3. EntryNumber(chain, chain[i]) = 4 + i BY ChainNumber DEF IsChain
<1> QED BY <1>2, <1>3

\* sfdisk finds under the number of an entry that entry, and under no number what is not in the table.
LEMMA FoundEntry ==
    ASSUME Types
    PROVE  /\ \A n : EntryAt(n) \in {None} \cup disk.primaries \cup Range(disk.chain)
           /\ IsChain(disk.chain) => \A e \in disk.primaries \cup Range(disk.chain) :
                  EntryAt(EntryNumber(disk.chain, e)) = e
<1> DEFINE logical(n) == {disk.chain[i] : i \in {k \in DOMAIN disk.chain : 4 + k = n}}
           found(n) == {p \in disk.primaries : Primaries[p] = n} \cup logical(n)
<1>1. \A n : EntryAt(n) = IF found(n) = {} THEN None ELSE CHOOSE e \in found(n) : TRUE BY DEF EntryAt
<1>2. \A n : found(n) \subseteq disk.primaries \cup Range(disk.chain) BY DEF Range
<1>3. \A n : EntryAt(n) \in {None} \cup disk.primaries \cup Range(disk.chain)
  <2> HIDE DEF found
  <2> QED BY <1>1, <1>2
<1>4. ASSUME IsChain(disk.chain), NEW e \in disk.primaries \cup Range(disk.chain)
      PROVE  EntryAt(EntryNumber(disk.chain, e)) = e
  <2>1. disk.primaries \subseteq DOMAIN Primaries /\ DOMAIN disk.chain = 1 .. Len(disk.chain) BY <1>4 DEF Types, IsChain
  <2>2. found(EntryNumber(disk.chain, e)) = {e}
    <3>1. CASE e \in disk.primaries
      <4>1. EntryNumber(disk.chain, e) = Primaries[e] BY <3>1, <2>1 DEF EntryNumber
      <4>2. logical(Primaries[e]) = {}
        <5>1. Primaries[e] \in 1 .. 4 BY <3>1, <2>1, NumbersAssumption
        <5>2. \A k \in DOMAIN disk.chain : 4 + k # Primaries[e] BY <5>1, <2>1
        <5> QED BY <5>2
      <4>3. \A p \in disk.primaries : Primaries[p] = Primaries[e] => p = e
        BY <3>1, <2>1, NumbersAssumption DEF IsInjective
      <4> QED BY <4>1, <4>2, <4>3, <3>1
    <3>2. CASE e \in Range(disk.chain)
      <4>1. PICK i \in 1 .. Len(disk.chain) : disk.chain[i] = e /\ EntryNumber(disk.chain, e) = 4 + i
        BY <3>2, <1>4, ChainPosition
      <4>2. logical(4 + i) = {e}
        <5>1. {k \in DOMAIN disk.chain : 4 + k = 4 + i} = {i} BY <2>1
        <5> QED BY <5>1, <4>1
      <4>3. {p \in disk.primaries : Primaries[p] = 4 + i} = {}
        <5>1. \A p \in disk.primaries : Primaries[p] \in 1 .. 4 BY <2>1, NumbersAssumption
        <5>2. \A p \in disk.primaries : Primaries[p] # 4 + i BY <5>1
        <5> QED BY <5>2
      <4> QED BY <4>1, <4>2, <4>3
    <3> QED BY <3>1, <3>2
  <2> HIDE DEF found
  <2> QED BY <1>1, <2>2
<1> QED BY <1>3, <1>4

\* Deleting an entry renumbers those behind it.
LEMMA ShorterChain ==
    ASSUME NEW chain, IsChain(chain), NEW d \in Range(chain), NEW left, left = RemoveAt(chain, EntryNumber(chain, d) - 4)
    PROVE  /\ IsChain(left) /\ Range(left) = Range(chain) \ {d}
           /\ \A e \in Range(left) :
                  /\ EntryNumber(left, e) = IF EntryNumber(chain, e) > EntryNumber(chain, d)
                                            THEN EntryNumber(chain, e) - 1 ELSE EntryNumber(chain, e)
                  /\ EntryNumber(chain, e) \in Int
           /\ EntryNumber(chain, d) \in Int /\ EntryNumber(chain, d) > 4
<1>1. PICK k \in 1 .. Len(chain) : chain[k] = d /\ EntryNumber(chain, d) = 4 + k BY ChainPosition
<1>2. k \in Nat /\ k > 0 /\ EntryNumber(chain, d) - 4 = k BY <1>1
<1>3. chain \in Seq(Objects) /\ DOMAIN chain = 1 .. Len(chain) /\ Len(chain) \in Nat BY DEF IsChain
<1>4. left = RemoveAt(chain, k) BY <1>2
<1>5. /\ left \in Seq(Objects) /\ Len(left) = Len(chain) - 1 /\ DOMAIN left = 1 .. Len(chain) - 1
      /\ \A i \in 1 .. Len(chain) - 1 : left[i] = IF i < k THEN chain[i] ELSE chain[i + 1]
  BY ONLY <1>1, <1>3, <1>4, Removed
<1>6. \A i, j \in 1 .. Len(chain) : chain[i] = chain[j] => i = j BY <1>3 DEF IsChain, IsInjective
<1>7. \A i \in 1 .. Len(chain) - 1 : i \in 1 .. Len(chain) /\ i + 1 \in 1 .. Len(chain) BY <1>3
<1>8. IsInjective(left)
  <2>1. ASSUME NEW i \in 1 .. Len(chain) - 1, NEW j \in 1 .. Len(chain) - 1, left[i] = left[j] PROVE i = j
    BY <2>1, <1>2, <1>5, <1>6, <1>7
  <2> QED BY <2>1, <1>5 DEF IsInjective
<1>9. Range(left) = Range(chain) \ {d}
  <2>1. ASSUME NEW e \in Range(left) PROVE e \in Range(chain) \ {d}
    <3>1. PICK i \in 1 .. Len(chain) - 1 : left[i] = e BY <1>5 DEF Range
    <3>2. CASE i < k
      <4>1. e = chain[i] /\ i # k /\ i \in 1 .. Len(chain) BY <3>1, <3>2, <1>5, <1>7, <1>2
      <4> QED BY <4>1, <1>1, <1>3, <1>6 DEF Range
    <3>3. CASE ~(i < k)
      <4>1. e = chain[i + 1] /\ i + 1 # k /\ i + 1 \in 1 .. Len(chain) BY <3>1, <3>3, <1>5, <1>7, <1>2
      <4> QED BY <4>1, <1>1, <1>3, <1>6 DEF Range
    <3> QED BY <3>2, <3>3
  <2>2. ASSUME NEW e \in Range(chain), e # d PROVE e \in Range(left)
    <3>1. PICK i \in 1 .. Len(chain) : chain[i] = e BY <1>3 DEF Range
    <3>2. i # k BY <3>1, <2>2, <1>1
    <3>3. CASE i < k
      <4>1. i \in 1 .. Len(chain) - 1 BY <3>3, <1>1, <1>3
      <4> QED BY <4>1, <3>1, <3>3, <1>5 DEF Range
    <3>4. CASE ~(i < k)
      <4>1. i - 1 \in 1 .. Len(chain) - 1 /\ ~(i - 1 < k) /\ i - 1 + 1 = i BY <3>2, <3>4, <1>1, <1>3
      <4>2. left[i - 1] = e BY <4>1, <3>1, <1>5
      <4> QED BY <4>1, <4>2, <1>5 DEF Range
    <3> QED BY <3>3, <3>4
  <2> QED BY <2>1, <2>2
<1>10. IsChain(left) BY <1>5, <1>8, <1>9 DEF IsChain
<1>11. ASSUME NEW e \in Range(left)
       PROVE  /\ EntryNumber(left, e) = IF EntryNumber(chain, e) > EntryNumber(chain, d)
                                        THEN EntryNumber(chain, e) - 1 ELSE EntryNumber(chain, e)
              /\ EntryNumber(chain, e) \in Int
  <2>1. PICK j \in 1 .. Len(left) : left[j] = e /\ EntryNumber(left, e) = 4 + j BY <1>10, ChainPosition
  <2>2. PICK i \in 1 .. Len(chain) : chain[i] = e /\ EntryNumber(chain, e) = 4 + i BY <1>9, ChainPosition
  <2>3. j \in 1 .. Len(chain) - 1 BY <2>1, <1>5
  <2>4. CASE j < k
    <3>1. chain[j] = e BY <2>1, <2>3, <2>4, <1>5
    <3>2. i = j BY <3>1, <2>2, <2>3, <1>6, <1>7
    <3> QED BY <3>2, <2>1, <2>2, <2>4, <1>1
  <2>5. CASE ~(j < k)
    <3>1. chain[j + 1] = e BY <2>1, <2>3, <2>5, <1>5
    <3>2. i = j + 1 BY <3>1, <2>2, <2>3, <1>6, <1>7
    <3> QED BY <3>2, <2>1, <2>2, <2>5, <1>1
  <2> QED BY <2>4, <2>5
<1> QED BY <1>1, <1>9, <1>10, <1>11

\* A new entry comes last.
LEMMA LongerChain ==
    ASSUME NEW chain, IsChain(chain), NEW p \in Objects, p \notin Range(chain), p \notin DOMAIN Primaries,
           NEW longer \in Seq(Objects), Len(longer) = Len(chain) + 1, longer[Len(chain) + 1] = p,
           \A i \in 1 .. Len(chain) : longer[i] = chain[i]
    PROVE  /\ IsChain(longer) /\ Range(longer) = Range(chain) \cup {p}
           /\ EntryNumber(longer, p) = 5 + Len(chain)
           /\ \A e \in Range(chain) : EntryNumber(longer, e) = EntryNumber(chain, e)
<1>1. chain \in Seq(Objects) /\ DOMAIN chain = 1 .. Len(chain) /\ Len(chain) \in Nat BY DEF IsChain
<1>2. /\ longer \in Seq(Objects) /\ Len(longer) = Len(chain) + 1 /\ DOMAIN longer = 1 .. Len(chain) + 1
      /\ longer[Len(chain) + 1] = p
      /\ \A i \in 1 .. Len(chain) : longer[i] = chain[i]
  BY <1>1
<1>3. \A i \in 1 .. Len(chain) + 1 : i \in 1 .. Len(chain) \/ i = Len(chain) + 1 BY <1>1
<1>4. \A i \in 1 .. Len(chain) : i \in 1 .. Len(chain) + 1 /\ i \in DOMAIN chain /\ chain[i] \in Range(chain) BY <1>1 DEF Range
<1>5. \A i, j \in 1 .. Len(chain) : chain[i] = chain[j] => i = j BY <1>1 DEF IsChain, IsInjective
<1>6. IsInjective(longer)
  <2>1. ASSUME NEW i \in 1 .. Len(chain) + 1, NEW j \in 1 .. Len(chain) + 1, longer[i] = longer[j] PROVE i = j
    BY <2>1, <1>2, <1>3, <1>4, <1>5
  <2> QED BY <2>1, <1>2 DEF IsInjective
<1>7. Range(longer) = Range(chain) \cup {p}
  <2>1. \A e \in Range(longer) : e \in Range(chain) \cup {p} BY <1>2, <1>3, <1>4 DEF Range
  <2>2. \A i \in 1 .. Len(chain) + 1 : longer[i] \in Range(longer) BY <1>2 DEF Range
  <2>3. Len(chain) + 1 \in 1 .. Len(chain) + 1 BY <1>1
  <2>4. \A e \in Range(chain) : \E i \in 1 .. Len(chain) : chain[i] = e BY <1>1 DEF Range
  <2> QED BY <2>1, <2>2, <2>3, <2>4, <1>2, <1>4
<1>8. IsChain(longer) BY <1>2, <1>6, <1>7 DEF IsChain
<1>9. \A i \in 1 .. Len(longer) : EntryNumber(longer, longer[i]) = 4 + i BY <1>8, ChainNumber DEF IsChain
<1>10. EntryNumber(longer, p) = 5 + Len(chain)
  <2>1. Len(chain) + 1 \in 1 .. Len(longer) BY <1>1, <1>2
  <2>2. EntryNumber(longer, p) = 4 + (Len(chain) + 1) BY <2>1, <1>2, <1>9
  <2> QED BY <2>2, <1>1
<1>11. ASSUME NEW e \in Range(chain) PROVE EntryNumber(longer, e) = EntryNumber(chain, e)
  <2>1. PICK i \in 1 .. Len(chain) : chain[i] = e /\ EntryNumber(chain, e) = 4 + i BY ChainPosition
  <2>2. i \in 1 .. Len(longer) /\ longer[i] = e BY <2>1, <1>2, <1>4
  <2> QED BY <2>1, <2>2, <1>9
<1> QED BY <1>7, <1>8, <1>10, <1>11

--------------------------------------------------------------------------------
(* The operations of a run                                                 *)

RunType == [phase : {"idle", "undoing", "running", "finished", "failed"}, next : Nat \ {0}, believed : BOOLEAN, was : Places]

\* What is known when an operation is executed: what it is about is shown, what it creates is not.
LEMMA Executing ==
    ASSUME IInv, run.phase = "running"
    PROVE  LET op == operations[run.next]
               r  == run.next - 1
           IN  /\ operations \in Seq(Operation) /\ run.next \in 1 .. Len(operations) /\ op \in Operation
               /\ preview \in PreviewType /\ run \in RunType
               /\ preview.shown = shown /\ preview.flags = flags /\ preview.number = number
               /\ Previewed = r /\ r \in 0 .. Len(operations) - 1 /\ r + 1 = run.next
               /\ Ordered(operations, run.was) /\ Previews(operations, r, preview, run.was)
               /\ \A e \in Existing : Refers(op, e) => e \in shown
               /\ \A x : Makes(op, x) => /\ x \in Created \cup Copies /\ x \notin shown
                                         /\ \A i \in 1 .. r : ~Makes(operations[i], x)
<1> DEFINE op == operations[run.next]
           r == run.next - 1
<1>1. /\ operations \in Seq(Operation) /\ preview \in PreviewType /\ run \in RunType
      /\ run.next \in Nat \ {0} /\ run.next <= Len(operations) /\ Len(operations) \in Nat
  BY DEF IInv, Types, Where, RunType
<1>2. /\ run.next \in 1 .. Len(operations) /\ r \in 0 .. Len(operations) - 1 /\ r + 1 = run.next /\ op \in Operation
      /\ r \in 0 .. Len(operations) /\ r < Len(operations)
  BY <1>1
<1>3. preview.shown = shown /\ preview.flags = flags /\ preview.number = number BY DEF preview
<1>4. Previewed = r /\ Active = run.was BY DEF Previewed, Active
<1>5. Ordered(operations, run.was) /\ Previews(operations, r, preview, run.was) BY <1>4 DEF IInv, Stacked
<1>6. op = operations[r + 1] BY <1>2
<1> HIDE DEF op, r
<1>7. \A e \in Existing : Refers(op, e) => e \in shown
  <2>1. ShownBy(operations, r, shown) BY <1>3, <1>5 DEF Previews
  <2> QED BY ONLY <1>1, <1>2, <1>5, <1>6, <2>1, ShownMeans
<1>8. ASSUME NEW x, Makes(op, x)
      PROVE  x \in Created \cup Copies /\ x \notin shown /\ \A i \in 1 .. r : ~Makes(operations[i], x)
  <2>1. x \in Created \cup Copies /\ x \in Objects BY <1>2, <1>8, OperationObjects, Kinds
  <2>2. r + 1 \in DOMAIN operations /\ \A i \in 1 .. r : i \in DOMAIN operations /\ i # r + 1 BY <1>1, <1>2
  <2>3. \A i \in 1 .. r : ~Makes(operations[i], x) BY <1>5, <1>6, <1>8, <2>1, <2>2 DEF Ordered
  <2>4. x \notin shown BY <2>1, <2>3, <1>3, <1>5 DEF Previews, ShownBy
  <2> QED BY <2>1, <2>3, <2>4
<1> QED BY <1>1, <1>2, <1>3, <1>4, <1>5, <1>7, <1>8 DEF op, r

\* After an operation all but what is said of the table during a run is as it should be, and a run that
\* is still good had succeeded so far.
LEMMA FinishedInv ==
    ASSUME IInv, run.phase = "running", NEW pv \in PreviewType, pv.shown = shown, pv.flags = flags,
           NEW ok \in BOOLEAN, NEW b \in BOOLEAN, Finished(ok, pv, b),
           place' \in [Objects -> Places],
           disk' \in [primaries : SUBSET DOMAIN Primaries, chain : Seq(Objects), active : Places]
    PROVE  LET op == operations[run.next]
           IN  /\ Types' /\ Where' /\ Stacked' /\ Untouched' /\ operations' = operations
               /\ Previewed' = run.next /\ run'.was = run.was /\ ~Before'
               /\ Good' => Good /\ ok /\ ~b
               /\ shown' \subseteq Objects
               /\ \A x \in Objects : x \in shown' <=> ~Hides(op, x) /\ (x \in shown \/ Makes(op, x))
               /\ number' = Preview(op, pv).number
               /\ op.kind # "Delete" => number' = pv.number
<1> DEFINE op == operations[run.next]
           after == Preview(op, pv)
           r == run.next - 1
<1>1. /\ operations \in Seq(Operation) /\ run.next \in 1 .. Len(operations) /\ op \in Operation
      /\ preview \in PreviewType /\ run \in RunType
      /\ preview.shown = shown /\ preview.flags = flags
      /\ r \in 0 .. Len(operations) - 1 /\ r + 1 = run.next
      /\ Ordered(operations, run.was) /\ Previews(operations, r, preview, run.was)
  BY Executing
<1>2. /\ Show(after) /\ operations' = operations
      /\ run' = [run EXCEPT !.next = @ + 1, !.believed = @ \/ b,
                            !.phase = IF ~ok THEN "failed" ELSE IF run.next = Len(operations) THEN "finished" ELSE @]
  BY DEF Finished
<1>3. /\ run'.next = run.next + 1 /\ run'.was = run.was /\ (run'.believed <=> run.believed \/ b)
      /\ run'.phase = IF ~ok THEN "failed" ELSE IF run.next = Len(operations) THEN "finished" ELSE "running"
      /\ run' \in RunType
  <2>1. run.next + 1 \in Nat \ {0} BY <1>1
  <2> QED BY <2>1, <1>1, <1>2 DEF RunType
<1>4. after = Preview(operations[r + 1], pv) BY <1>1
<1>5. Previews(operations, r, pv, run.was) BY <1>1 DEF Previews
<1> HIDE DEF after, r
<1>6. after \in PreviewType /\ Previews(operations, r + 1, after, run.was)
  BY ONLY <1>1, <1>4, <1>5, ShowNext, pv \in PreviewType
<1>7. preview' = after BY <1>2, <1>6, Shows
<1>8. preview'.shown = shown' /\ preview'.number = number' BY DEF preview
<1>9. /\ \A x \in Objects : x \in after.shown <=> ~Hides(op, x) /\ (x \in pv.shown \/ Makes(op, x))
      /\ op.kind # "Delete" => after.number = pv.number
  BY <1>1, PreviewShows DEF after
<1>10. Previewed' = run.next /\ Active' = run.was /\ ~Before'
  BY <1>1, <1>3 DEF Previewed, Active, Before
<1>11. Types' BY <1>2, <1>1, <1>3, <1>6, <1>7 DEF Types, RunType
<1>12. Where' BY <1>1, <1>2, <1>3 DEF Where
<1>13. Stacked' BY <1>1, <1>2, <1>6, <1>7, <1>10 DEF Stacked
<1>14. Untouched' BY <1>10 DEF Untouched
<1>15. Good' => Good /\ ok /\ ~b BY <1>3 DEF Good
<1>16. shown' \subseteq Objects BY <1>6, <1>7, <1>8 DEF PreviewType
<1> QED BY <1>2, <1>3, <1>7, <1>8, <1>9, <1>10, <1>11, <1>12, <1>13, <1>14, <1>15, <1>16 DEF after

\* An operation that fails leaves nothing to be shown of the rest of the run.
LEMMA FailedInv ==
    ASSUME IInv, run.phase = "running", Executed(FALSE, preview), UNCHANGED <<place, disk>>
    PROVE  IInv'
<1>1. preview \in PreviewType /\ preview.shown = shown /\ preview.flags = flags BY Executing
<1>2. Finished(FALSE, preview, FALSE) BY DEF Executed
<1>3. /\ place' \in [Objects -> Places]
      /\ disk' \in [primaries : SUBSET DOMAIN Primaries, chain : Seq(Objects), active : Places]
  BY DEF IInv, Types
<1>4. Types' /\ Where' /\ Stacked' /\ Untouched' /\ (Good' => FALSE)
  BY <1>1, <1>2, <1>3, FinishedInv, FALSE \in BOOLEAN
<1> QED BY <1>4 DEF IInv, RunNumbers, Activated

\* The partition that was activated last stays so while no flags operation is executed.
LEMMA StillActivated ==
    ASSUME IInv, run.phase = "running", NEW pv \in PreviewType, pv.shown = shown, pv.flags = flags,
           NEW ok \in BOOLEAN, NEW b \in BOOLEAN, Finished(ok, pv, b),
           place' \in [Objects -> Places],
           disk' \in [primaries : SUBSET DOMAIN Primaries, chain : Seq(Objects), active : Places],
           operations[run.next].kind # "Flags",
           \A p \in DOMAIN Primaries : p \in shown' /\ disk.active = p => disk'.active = p
    PROVE  Activated'
<1> DEFINE op == operations[run.next]
           r == run.next - 1
<1>1. /\ operations' = operations /\ Previewed' = run.next /\ run'.was = run.was
      /\ Good' => Good
      /\ \A x \in Objects : x \in shown' <=> ~Hides(op, x) /\ (x \in shown \/ Makes(op, x))
  BY FinishedInv
<1>2. /\ operations \in Seq(Operation) /\ run.next \in 1 .. Len(operations) /\ op \in Operation
      /\ Previewed = r /\ r \in 0 .. Len(operations) - 1 /\ r + 1 = run.next
  BY Executing
<1>3. SUFFICES ASSUME Good', NEW i \in 1 .. run.next, operations[i].kind = "Flags", operations[i].new,
                      run.was # operations[i].part, operations[i].part \in shown',
                      \A j \in i + 1 .. run.next : operations[j].kind # "Flags"
               PROVE  disk'.active = operations[i].part
  BY <1>1 DEF Activated
<1>4. i \in 1 .. r /\ i \in 1 .. Len(operations) BY <1>2, <1>3
<1>5. operations[i] \in Operation /\ operations[i].part \in DOMAIN Primaries BY <1>2, <1>3, <1>4, OperationObjects
<1>6. operations[i].part \in shown BY <1>1, <1>2, <1>3, <1>5, OperationObjects, Kinds
<1>7. \A j \in i + 1 .. r : operations[j].kind # "Flags" BY <1>2, <1>3, <1>4
<1>8. disk.active = operations[i].part BY <1>1, <1>2, <1>3, <1>4, <1>6, <1>7 DEF IInv, Activated, Before
<1> QED BY <1>3, <1>5, <1>8

\* A primary partition has its number whatever the chain is.
LEMMA PrimaryNumber == \A chain, other : \A e \in DOMAIN Primaries : EntryNumber(chain, e) = EntryNumber(other, e)
BY DEF EntryNumber

\* During a run that is good the chain is one.
LEMMA GoodChain ==
    ASSUME IInv, Good, ~Before
    PROVE  IsChain(disk.chain)
BY DEF IInv, Types, RunNumbers, IsChain

\* What does not move an entry keeps the numbers.
LEMMA SameNumbers ==
    ASSUME IInv, run.phase = "running", Finished(TRUE, preview, FALSE), operations[run.next].kind \in {"Resize", "Flags"},
           place' = place, disk'.chain = disk.chain, disk'.primaries = disk.primaries,
           disk' \in [primaries : SUBSET DOMAIN Primaries, chain : Seq(Objects), active : Places]
    PROVE  RunNumbers'
<1> DEFINE op == operations[run.next]
<1>1. place' \in [Objects -> Places] BY DEF IInv, Types
<1>2. /\ preview \in PreviewType /\ preview.shown = shown /\ preview.flags = flags /\ preview.number = number
      /\ Previewed = run.next - 1 /\ run.next \in 1 .. Len(operations) /\ operations \in Seq(Operation)
  BY Executing
<1>3. /\ operations' = operations /\ Previewed' = run.next /\ (Good' => Good) /\ number' = number
      /\ shown' \subseteq Objects
      /\ \A x \in Objects : x \in shown' <=> ~Hides(op, x) /\ (x \in shown \/ Makes(op, x))
  BY <1>1, <1>2, FinishedInv, TRUE \in BOOLEAN, FALSE \in BOOLEAN
<1>4. shown \subseteq Objects BY <1>2 DEF PreviewType
<1>5. shown' = shown BY <1>3, <1>4 DEF Hides, Makes
<1>6. 1 .. Previewed \subseteq 1 .. Previewed' BY <1>2, <1>3
<1> QED BY <1>3, <1>5, <1>6 DEF IInv, RunNumbers, Before

\* sfdisk changes the geometry of an entry.
LEMMA ExecuteResizeInv == IInv /\ ExecuteResize => IInv'
<1> SUFFICES ASSUME IInv, ExecuteResize PROVE IInv' OBVIOUS
<1>1. run.phase = "running" /\ operations[run.next].kind = "Resize" /\ UNCHANGED <<place, disk>>
  BY DEF ExecuteResize, Running
<1>2. PICK ok \in BOOLEAN : Executed(ok, preview) BY DEF ExecuteResize
<1>3. CASE ~ok BY <1>1, <1>2, <1>3, FailedInv
<1>4. CASE ok
  <2>1. Finished(TRUE, preview, FALSE) BY <1>2, <1>4 DEF Executed
  <2>2. /\ place' \in [Objects -> Places]
        /\ disk' \in [primaries : SUBSET DOMAIN Primaries, chain : Seq(Objects), active : Places]
    BY <1>1 DEF IInv, Types
  <2>3. preview \in PreviewType /\ preview.shown = shown /\ preview.flags = flags BY <1>1, Executing
  <2>4. Types' /\ Where' /\ Stacked' /\ Untouched'
    BY <1>1, <2>1, <2>2, <2>3, FinishedInv, TRUE \in BOOLEAN, FALSE \in BOOLEAN
  <2>5. RunNumbers' BY <1>1, <2>1, <2>2, SameNumbers
  <2>6. operations[run.next].kind # "Flags" BY <1>1
  <2>7. Activated' BY <1>1, <2>1, <2>2, <2>3, <2>6, StillActivated, TRUE \in BOOLEAN, FALSE \in BOOLEAN
  <2> QED BY <2>4, <2>5, <2>7 DEF IInv
<1> QED BY <1>3, <1>4

\* A flag is set for the entry that the object stands for.
LEMMA ExecuteFlagsInv == IInv /\ ExecuteFlags => IInv'
<1> SUFFICES ASSUME IInv, ExecuteFlags PROVE IInv' OBVIOUS
<1> DEFINE op == operations[run.next]
           r == run.next - 1
<1>1. run.phase = "running" /\ op.kind = "Flags" /\ UNCHANGED place
  BY DEF ExecuteFlags, Running
<1>2. \/ disk' = (IF (op.part \in flags) = op.new THEN disk ELSE setFlag(op.part, op.new)) /\ Executed(TRUE, preview)
      \/ UNCHANGED disk /\ Executed(FALSE, preview)
  BY DEF ExecuteFlags
<1>3. CASE UNCHANGED disk /\ Executed(FALSE, preview) BY <1>1, <1>3, FailedInv
<1>4. CASE disk' = (IF (op.part \in flags) = op.new THEN disk ELSE setFlag(op.part, op.new)) /\ Executed(TRUE, preview)
  <2>1. Finished(TRUE, preview, FALSE) BY <1>4 DEF Executed
  <2>2. \A n : EntryAt(n) \in Places
    <3>1. Types BY DEF IInv
    <3>2. disk.primaries \cup Range(disk.chain) \subseteq Objects BY <3>1, Kinds DEF Types, Range
    <3> QED BY <3>1, <3>2, FoundEntry DEF Places
  <2>3. disk \in [primaries : SUBSET DOMAIN Primaries, chain : Seq(Objects), active : Places] /\ None \in Places
    BY DEF IInv, Types, Places
  <2>4. /\ setFlag(op.part, op.new) \in [primaries : SUBSET DOMAIN Primaries, chain : Seq(Objects), active : Places]
        /\ setFlag(op.part, op.new).chain = disk.chain /\ setFlag(op.part, op.new).primaries = disk.primaries
        /\ op.new => setFlag(op.part, op.new).active = EntryAt(number[op.part])
    BY <2>2, <2>3 DEF setFlag
  <2>5. /\ disk' \in [primaries : SUBSET DOMAIN Primaries, chain : Seq(Objects), active : Places]
        /\ disk'.chain = disk.chain /\ disk'.primaries = disk.primaries
    <3> HIDE DEF op
    <3> QED BY <1>4, <2>3, <2>4
  <2>6. place' \in [Objects -> Places] BY <1>1 DEF IInv, Types
  <2>7. /\ preview \in PreviewType /\ preview.shown = shown /\ preview.flags = flags
        /\ operations \in Seq(Operation) /\ run.next \in 1 .. Len(operations) /\ op \in Operation
        /\ r \in 0 .. Len(operations) - 1 /\ r + 1 = run.next
        /\ Ordered(operations, run.was) /\ Previews(operations, r, preview, run.was)
        /\ \A e \in Existing : Refers(op, e) => e \in shown
    BY <1>1, Executing
  <2>8. /\ Types' /\ Where' /\ Stacked' /\ Untouched' /\ operations' = operations /\ Previewed' = run.next
        /\ run'.was = run.was /\ (Good' => Good)
    BY <1>1, <2>1, <2>5, <2>6, <2>7, FinishedInv, TRUE \in BOOLEAN, FALSE \in BOOLEAN
  <2>9. RunNumbers' BY <1>1, <2>1, <2>5, SameNumbers
  <2>10. Activated'
    <3>1. SUFFICES ASSUME Good', NEW i \in 1 .. run.next, operations[i].kind = "Flags", operations[i].new,
                          run.was # operations[i].part,
                          \A j \in i + 1 .. run.next : operations[j].kind # "Flags"
                   PROVE  disk'.active = operations[i].part
      BY <2>8 DEF Activated
    <3>2. i = run.next
      <4>1. ~(run.next \in i + 1 .. run.next) BY <1>1, <3>1
      <4> QED BY <4>1, <2>7
    <3>3. op.part \in DOMAIN Primaries /\ op.part \in Existing /\ Refers(op, op.part) /\ FlagsOf(op, op.part)
      BY <1>1, <2>7, OperationObjects, Kinds DEF Refers, FlagsOf
    <3>4. op.part \notin flags
      <4>1. \A j \in 1 .. r : j \in DOMAIN operations /\ j # run.next /\ run.next \in DOMAIN operations BY <2>7
      <4>2. \A j \in 1 .. r : ~FlagsOf(operations[j], op.part) BY <4>1, <2>7, <3>3 DEF Ordered
      <4>3. op.part \in flags <=> op.part = run.was BY <4>2, <2>7, <3>3 DEF Previews, FlagsBy
      <4> QED BY <4>3, <3>1, <3>2
    <3>5. op.new = TRUE /\ (op.part \in flags) = FALSE BY <2>7, <3>1, <3>2, <3>4, <1>1, OperationKinds
    <3>6. disk'.active = EntryAt(number[op.part])
      <4>1. disk' = setFlag(op.part, op.new) BY <1>4, <3>5
      <4> QED BY <4>1, <2>4, <3>1, <3>2
    <3>7. op.part \in shown BY <2>7, <3>3
    <3>8. /\ place[op.part] = op.part /\ op.part \in disk.primaries \cup Range(disk.chain)
          /\ number[op.part] = EntryNumber(disk.chain, op.part)
      BY <1>1, <2>8, <3>1, <3>3, <3>7 DEF IInv, RunNumbers, Before
    <3>9. IsChain(disk.chain) BY <1>1, <2>8, <3>1, GoodChain DEF Before
    <3>10. EntryAt(number[op.part]) = op.part BY <3>8, <3>9, FoundEntry DEF IInv
    <3> QED BY <3>2, <3>6, <3>10
  <2> QED BY <2>8, <2>9, <2>10 DEF IInv
<1> QED BY <1>2, <1>3, <1>4

\* sfdisk deletes the entry that the object stands for, and those behind it are renumbered as their
\* objects are.
LEMMA ExecuteDeleteInv == IInv /\ ExecuteDelete => IInv'
<1> SUFFICES ASSUME IInv, ExecuteDelete PROVE IInv' OBVIOUS
<1> DEFINE op == operations[run.next]
           d == op.part
           entry == EntryAt(number[d])
<1>1. run.phase = "running" /\ op.kind = "Delete" /\ UNCHANGED place BY DEF ExecuteDelete, Running
<1>2. \/ entry # None /\ disk' = Without(entry) /\ Executed(TRUE, preview)
      \/ UNCHANGED disk /\ Executed(FALSE, preview)
  BY DEF ExecuteDelete
<1>3. CASE UNCHANGED disk /\ Executed(FALSE, preview) BY <1>1, <1>3, FailedInv
<1>4. CASE entry # None /\ disk' = Without(entry) /\ Executed(TRUE, preview)
  <2>1. Finished(TRUE, preview, FALSE) BY <1>4 DEF Executed
  <2>2. /\ disk \in [primaries : SUBSET DOMAIN Primaries, chain : Seq(Objects), active : Places] /\ None \in Places
        /\ place \in [Objects -> Places] /\ Types
    BY DEF IInv, Types, Places
  <2>3. entry \in disk.primaries \cup Range(disk.chain) BY <1>4, <2>2, FoundEntry
  <2>4. /\ preview \in PreviewType /\ preview.shown = shown /\ preview.flags = flags /\ preview.number = number
        /\ operations \in Seq(Operation) /\ run.next \in 1 .. Len(operations) /\ op \in Operation
        /\ Previewed = run.next - 1
        /\ \A e \in Existing : Refers(op, e) => e \in shown
    BY <1>1, Executing
  <2>5. d \in Existing /\ d \in Objects /\ d \in shown /\ ~(\E x : Makes(op, x)) /\ \A x : Hides(op, x) <=> x = d
    BY <1>1, <2>4, OperationKinds, Kinds DEF Refers, Makes, Hides
  <2> HIDE DEF op, d, entry
  <2>6. /\ disk'.primaries = disk.primaries \ {entry}
        /\ disk'.chain = IF entry \in DOMAIN Primaries THEN disk.chain
                         ELSE RemoveAt(disk.chain, EntryNumber(disk.chain, entry) - 4)
        /\ disk'.active = IF disk.active = entry THEN None ELSE disk.active
        /\ disk' \in [primaries : SUBSET DOMAIN Primaries, chain : Seq(Objects), active : Places]
    <3>1. entry \notin DOMAIN Primaries => RemoveAt(disk.chain, EntryNumber(disk.chain, entry) - 4) \in Seq(Objects)
      <4>1. SUFFICES ASSUME entry \notin DOMAIN Primaries
                     PROVE  RemoveAt(disk.chain, EntryNumber(disk.chain, entry) - 4) \in Seq(Objects)
        OBVIOUS
      <4>2. entry \in Range(disk.chain) BY <4>1, <2>2, <2>3
      <4>3. PICK k \in DOMAIN disk.chain : EntryNumber(disk.chain, entry) = 4 + k
        <5>1. \E k \in DOMAIN disk.chain : disk.chain[k] = entry BY <4>2 DEF Range
        <5>2. EntryNumber(disk.chain, entry) = 4 + CHOOSE k \in DOMAIN disk.chain : disk.chain[k] = entry
          BY <4>1 DEF EntryNumber
        <5> QED BY <5>1, <5>2
      <4>4. k \in 1 .. Len(disk.chain) /\ EntryNumber(disk.chain, entry) - 4 = k BY <2>2, <4>3
      <4>5. disk.chain \in Seq(Objects) BY <2>2
      <4>6. RemoveAt(disk.chain, k) \in Seq(Objects) BY ONLY <4>4, <4>5, Removed
      <4> QED BY <4>4, <4>6
    <3>2. disk' = [primaries |-> disk.primaries \ {entry},
                   chain |-> IF entry \in DOMAIN Primaries THEN disk.chain
                             ELSE RemoveAt(disk.chain, EntryNumber(disk.chain, entry) - 4),
                   active |-> IF disk.active = entry THEN None ELSE disk.active]
      BY <1>4 DEF Without
    <3> QED BY <3>1, <3>2, <2>2
  <2>7. /\ Types' /\ Where' /\ Stacked' /\ Untouched' /\ operations' = operations /\ Previewed' = run.next
        /\ Good' => Good
        /\ shown' \subseteq Objects
        /\ \A x \in Objects : x \in shown' <=> ~Hides(op, x) /\ (x \in shown \/ Makes(op, x))
        /\ number' = Preview(op, preview).number
    BY <1>1, <2>1, <2>2, <2>4, <2>6, FinishedInv, TRUE \in BOOLEAN, FALSE \in BOOLEAN DEF op
  <2>8. \A x \in Objects : x \in shown' <=> x \in shown /\ x # d BY <2>5, <2>7
  <2>9. ASSUME Good' PROVE entry = d /\ IsChain(disk.chain) /\ number[d] = EntryNumber(disk.chain, d)
    <3>1. ~Before BY <1>1 DEF Before
    <3>2. place[d] = d /\ d \in disk.primaries \cup Range(disk.chain) /\ number[d] = EntryNumber(disk.chain, d)
      BY <2>5, <2>7, <2>9, <3>1 DEF IInv, RunNumbers
    <3>3. IsChain(disk.chain) BY <2>7, <2>9, <3>1, GoodChain
    <3> QED BY <3>2, <3>3, <2>2, FoundEntry DEF entry
  <2>10. RunNumbers'
    <3>1. SUFFICES ASSUME Good'
                   PROVE  /\ IsInjective(disk'.chain) /\ Range(disk'.chain) \cap DOMAIN Primaries = {}
                          /\ \A e \in Range(disk'.chain) \ Range(Logicals) :
                                 \E i \in 1 .. run.next : Makes(operations[i], e)
                          /\ \A x \in shown' :
                                 /\ place[x] \in disk'.primaries \cup Range(disk'.chain)
                                 /\ place[x] \in DOMAIN Primaries <=> x \in DOMAIN Primaries
                                 /\ number'[x] = EntryNumber(disk'.chain, place[x])
                          /\ \A x \in Existing : place[x] = x
                          /\ \A x, y \in shown' : place[x] = place[y] => x = y
      BY <1>1, <2>7 DEF RunNumbers
    <3>2. entry = d /\ IsChain(disk.chain) /\ number[d] = EntryNumber(disk.chain, d) BY <2>9, <3>1
    <3>3. /\ \A e \in Range(disk.chain) \ Range(Logicals) : \E i \in 1 .. run.next - 1 : Makes(operations[i], e)
          /\ \A x \in shown :
                 /\ place[x] \in disk.primaries \cup Range(disk.chain)
                 /\ place[x] \in DOMAIN Primaries <=> x \in DOMAIN Primaries
                 /\ number[x] = EntryNumber(disk.chain, place[x])
          /\ \A x \in Existing : place[x] = x
          /\ \A x, y \in shown : place[x] = place[y] => x = y
      BY <1>1, <2>4, <2>7, <3>1 DEF IInv, RunNumbers, Before
    <3>4. \A i \in 1 .. run.next - 1 : i \in 1 .. run.next BY <2>4
    <3>5. \A x \in shown' : x \in shown /\ x # d /\ x \in Objects /\ place[x] # d BY <2>5, <2>7, <2>8, <3>3
    <3>6. CASE d \in DOMAIN Primaries
      <4>1. disk'.chain = disk.chain /\ disk'.primaries = disk.primaries \ {d} BY <2>6, <3>2, <3>6
      <4>2. number' = number
        <5>1. Preview(op, preview) = [preview EXCEPT !.shown = @ \ {d}]
          BY <1>1, <3>6 DEF Preview, checkAdjustLogicalNumbers, op, d
        <5> QED BY <5>1, <2>4, <2>7 DEF PreviewType
      <4> QED BY <3>2, <3>3, <3>4, <3>5, <4>1, <4>2 DEF IsChain
    <3>7. CASE d \notin DOMAIN Primaries
      <4>1. d \in Range(Logicals) /\ d \in Range(disk.chain) /\ d \notin disk.primaries
        <5>1. d \in disk.primaries \cup Range(disk.chain) BY <2>3, <3>2
        <5> QED BY <5>1, <3>7, <2>2, <2>5, Kinds
      <4>2. disk'.chain = RemoveAt(disk.chain, EntryNumber(disk.chain, d) - 4) /\ disk'.primaries = disk.primaries
        BY <2>6, <3>2, <3>7, <4>1
      <4>3. /\ IsChain(disk'.chain) /\ Range(disk'.chain) = Range(disk.chain) \ {d}
            /\ \A e \in Range(disk'.chain) :
                   /\ EntryNumber(disk'.chain, e) = IF EntryNumber(disk.chain, e) > EntryNumber(disk.chain, d)
                                                    THEN EntryNumber(disk.chain, e) - 1 ELSE EntryNumber(disk.chain, e)
                   /\ EntryNumber(disk.chain, e) \in Int
            /\ EntryNumber(disk.chain, d) \in Int /\ EntryNumber(disk.chain, d) > 4
        BY ONLY <3>2, <4>1, <4>2, ShorterChain
      <4>4. \A x \in Objects : number'[x] =
                IF x \in shown \ {d} /\ x \notin DOMAIN Primaries /\ number[x] > number[d]
                THEN number[x] - 1 ELSE number[x]
        <5>1. preview.number[d] > 4 /\ op.kind = "Delete" /\ op.part = d BY <1>1, <2>4, <3>2, <4>3 DEF op, d
        <5>2. \A x \in Objects : Preview(op, preview).number[x] =
                  IF x \in preview.shown \ {d} /\ x \notin DOMAIN Primaries /\ preview.number[x] > preview.number[d]
                  THEN preview.number[x] - 1 ELSE preview.number[x]
          BY ONLY <2>4, <4>1, <5>1, PreviewDeleted
        <5> QED BY <5>2, <2>4, <2>7
      <4>5. ASSUME NEW x \in shown'
            PROVE  /\ place[x] \in disk'.primaries \cup Range(disk'.chain)
                   /\ number'[x] = EntryNumber(disk'.chain, place[x])
        <5>1. /\ place[x] \in disk.primaries \cup Range(disk.chain) /\ place[x] # d /\ x \in shown /\ x # d /\ x \in Objects
              /\ place[x] \in DOMAIN Primaries <=> x \in DOMAIN Primaries
              /\ number[x] = EntryNumber(disk.chain, place[x])
          BY <3>3, <3>5
        <5>2. CASE x \in DOMAIN Primaries
          <6>1. number'[x] = number[x] /\ place[x] \in disk.primaries
            BY <4>4, <5>1, <5>2, <3>2 DEF IsChain
          <6> QED BY <6>1, <4>2, <5>1, <5>2, PrimaryNumber
        <5>3. CASE x \notin DOMAIN Primaries
          <6>1. place[x] \in Range(disk'.chain) BY <5>1, <5>3, <4>3, <2>2
          <6>2. number'[x] = IF number[x] > number[d] THEN number[x] - 1 ELSE number[x] BY <4>4, <5>1, <5>3
          <6> QED BY <6>1, <6>2, <4>3, <5>1, <3>2
        <5> QED BY <5>2, <5>3
      <4> QED BY <3>3, <3>4, <3>5, <4>3, <4>5 DEF IsChain
    <3> QED BY <3>6, <3>7
  <2>11. Activated'
    <3>1. SUFFICES ASSUME Good' PROVE Activated' BY DEF Activated
    <3>2. entry = d BY <2>9, <3>1
    <3>3. \A p \in DOMAIN Primaries : p \in shown' /\ disk.active = p => disk'.active = p
      BY <2>6, <2>8, <3>2, Kinds
    <3>4. operations[run.next].kind # "Flags" BY <1>1 DEF op
    <3>5. place' \in [Objects -> Places] BY <1>1, <2>2
    <3> QED BY <1>1, <2>1, <2>4, <2>6, <3>3, <3>4, <3>5, StillActivated, TRUE \in BOOLEAN, FALSE \in BOOLEAN
  <2> QED BY <2>7, <2>10, <2>11 DEF IInv
<1> QED BY <1>2, <1>3, <1>4

\* sfdisk appends the partition that the operation creates, or names its number without writing it.
LEMMA CreateWithInv ==
    ASSUME IInv, run.phase = "running", NEW p, Makes(operations[run.next], p),
           \A e \in Objects : ~Hides(operations[run.next], e), NEW ok \in BOOLEAN, CreateWith(p, ok)
    PROVE  IInv'
<1> DEFINE op == operations[run.next]
           named == [preview EXCEPT !.number[p] = 5 + Len(disk.chain)]
<1>1. /\ preview \in PreviewType /\ preview.shown = shown /\ preview.flags = flags /\ preview.number = number
      /\ operations \in Seq(Operation) /\ run.next \in 1 .. Len(operations) /\ op \in Operation
      /\ Previewed = run.next - 1
      /\ p \in Created \cup Copies /\ p \notin shown /\ \A i \in 1 .. run.next - 1 : ~Makes(operations[i], p)
  BY Executing
<1>2. p \in Objects /\ p \notin Existing /\ p \notin DOMAIN Primaries /\ p \notin Range(Logicals) BY <1>1, Kinds
<1>3. op.kind \in {"New", "Copy"} /\ op.part = p BY DEF Makes
<1>4. /\ disk \in [primaries : SUBSET DOMAIN Primaries, chain : Seq(Objects), active : Places]
      /\ place \in [Objects -> Places] /\ Len(disk.chain) \in Nat
  BY DEF IInv, Types
<1>5. /\ named \in PreviewType /\ named.shown = shown /\ named.flags = flags
      /\ named.number = [number EXCEPT ![p] = 5 + Len(disk.chain)]
  <2> DEFINE n == 5 + Len(disk.chain)
  <2>1. n \in Int BY <1>4
  <2> HIDE DEF n
  <2>2. /\ [preview EXCEPT !.number[p] = n] \in PreviewType /\ [preview EXCEPT !.number[p] = n].shown = shown
        /\ [preview EXCEPT !.number[p] = n].flags = flags
        /\ [preview EXCEPT !.number[p] = n].number = [number EXCEPT ![p] = n]
    BY <1>1, <1>2, <2>1 DEF PreviewType
  <2> QED BY <2>2 DEF n
<1>6. \/ disk' = [disk EXCEPT !.chain = Append(@, p)] /\ place' = [place EXCEPT ![p] = p] /\ Finished(ok, named, FALSE)
      \/ UNCHANGED <<disk, place>> /\ Finished(ok, named, TRUE)
  BY DEF CreateWith, Executed
<1> HIDE DEF op, named
<1>7. CASE UNCHANGED <<disk, place>> /\ Finished(ok, named, TRUE)
  <2>1. Types' /\ Where' /\ Stacked' /\ Untouched' /\ (Good' => FALSE)
    BY <1>4, <1>5, <1>7, FinishedInv, TRUE \in BOOLEAN
  <2> QED BY <2>1 DEF IInv, RunNumbers, Activated
<1>8. CASE disk' = [disk EXCEPT !.chain = Append(@, p)] /\ place' = [place EXCEPT ![p] = p] /\ Finished(ok, named, FALSE)
  <2>1. /\ place' \in [Objects -> Places] /\ place'[p] = p /\ \A x \in Objects : x # p => place'[x] = place[x]
        /\ disk' \in [primaries : SUBSET DOMAIN Primaries, chain : Seq(Objects), active : Places]
        /\ disk'.primaries = disk.primaries /\ disk'.active = disk.active /\ disk'.chain = Append(disk.chain, p)
    <3> DEFINE longer == Append(disk.chain, p)
    <3>1. longer \in Seq(Objects) BY <1>2, <1>4
    <3>2. disk' = [disk EXCEPT !.chain = longer] BY <1>8
    <3> HIDE DEF longer
    <3>3. /\ disk' \in [primaries : SUBSET DOMAIN Primaries, chain : Seq(Objects), active : Places]
          /\ disk'.primaries = disk.primaries /\ disk'.active = disk.active /\ disk'.chain = longer
      BY <1>4, <3>1, <3>2
    <3>4. place' = [place EXCEPT ![p] = p] /\ p \in Places BY <1>2, <1>8 DEF Places
    <3>5. place' \in [Objects -> Places] /\ place'[p] = p /\ \A x \in Objects : x # p => place'[x] = place[x]
      BY <1>2, <1>4, <3>4
    <3> QED BY <3>3, <3>5 DEF longer
  <2>2. /\ Types' /\ Where' /\ Stacked' /\ Untouched' /\ operations' = operations /\ Previewed' = run.next
        /\ (Good' => Good) /\ shown' \subseteq Objects
        /\ \A x \in Objects : x \in shown' <=> ~Hides(op, x) /\ (x \in shown \/ Makes(op, x))
        /\ (op.kind # "Delete" => number' = named.number)
    <3>1. /\ Finished(ok, named, FALSE) /\ named \in PreviewType /\ named.shown = shown /\ named.flags = flags
          /\ place' \in [Objects -> Places]
          /\ disk' \in [primaries : SUBSET DOMAIN Primaries, chain : Seq(Objects), active : Places]
      BY ONLY <1>5, <1>8, <2>1
    <3> QED BY ONLY ZenonT(30), <3>1, IInv, run.phase = "running", ok \in BOOLEAN, FinishedInv, FALSE \in BOOLEAN DEF op
  <2>3. \A x \in Objects : x \in shown' <=> x \in shown \/ x = p BY <1>2, <1>3, <2>2 DEF Makes, op
  <2>4. number' = [number EXCEPT ![p] = 5 + Len(disk.chain)] BY <1>3, <1>5, <2>2
  <2>5. RunNumbers'
    <3>1. SUFFICES ASSUME Good'
                   PROVE  /\ IsInjective(disk'.chain) /\ Range(disk'.chain) \cap DOMAIN Primaries = {}
                          /\ \A e \in Range(disk'.chain) \ Range(Logicals) :
                                 \E i \in 1 .. run.next : Makes(operations[i], e)
                          /\ \A x \in shown' :
                                 /\ place'[x] \in disk'.primaries \cup Range(disk'.chain)
                                 /\ place'[x] \in DOMAIN Primaries <=> x \in DOMAIN Primaries
                                 /\ number'[x] = EntryNumber(disk'.chain, place'[x])
                          /\ \A x \in Existing : place'[x] = x
                          /\ \A x, y \in shown' : place'[x] = place'[y] => x = y
      BY <2>2 DEF RunNumbers
    <3>2. ~Before /\ IsChain(disk.chain) BY <2>2, <3>1, GoodChain DEF Before
    <3>3. /\ \A e \in Range(disk.chain) \ Range(Logicals) : \E i \in 1 .. run.next - 1 : Makes(operations[i], e)
          /\ \A x \in shown :
                 /\ place[x] \in disk.primaries \cup Range(disk.chain)
                 /\ place[x] \in DOMAIN Primaries <=> x \in DOMAIN Primaries
                 /\ number[x] = EntryNumber(disk.chain, place[x])
          /\ \A x \in Existing : place[x] = x
          /\ \A x, y \in shown : place[x] = place[y] => x = y
      BY <1>1, <2>2, <3>1, <3>2 DEF IInv, RunNumbers
    <3>4. p \notin Range(disk.chain) BY <1>1, <1>2, <3>3
    <3>5. /\ IsChain(disk'.chain) /\ Range(disk'.chain) = Range(disk.chain) \cup {p}
          /\ EntryNumber(disk'.chain, p) = 5 + Len(disk.chain)
          /\ \A e \in Range(disk.chain) : EntryNumber(disk'.chain, e) = EntryNumber(disk.chain, e)
      <4> DEFINE longer == disk'.chain
      <4>1. /\ longer \in Seq(Objects) /\ Len(longer) = Len(disk.chain) + 1 /\ longer[Len(disk.chain) + 1] = p
            /\ \A i \in 1 .. Len(disk.chain) : longer[i] = disk.chain[i]
        BY <1>2, <1>4, <2>1
      <4> HIDE DEF longer
      <4>2. /\ IsChain(longer) /\ Range(longer) = Range(disk.chain) \cup {p}
            /\ EntryNumber(longer, p) = 5 + Len(disk.chain)
            /\ \A e \in Range(disk.chain) : EntryNumber(longer, e) = EntryNumber(disk.chain, e)
        BY ONLY <1>2, <3>2, <3>4, <4>1, LongerChain
      <4> QED BY <4>2 DEF longer
    <3>6. \A i \in 1 .. run.next - 1 : i \in 1 .. run.next BY <1>1
    <3>7. \A e \in Range(disk'.chain) \ Range(Logicals) : \E i \in 1 .. run.next : Makes(operations[i], e)
      <4>1. run.next \in 1 .. run.next /\ Makes(operations[run.next], p) BY <1>1
      <4> QED BY <3>3, <3>5, <3>6, <4>1
    <3>8. \A x \in shown' : x = p \/ (x \in shown /\ x \in Objects /\ x # p /\ place'[x] = place[x] /\ number'[x] = number[x])
      <4>1. number \in [Objects -> Int] BY <1>1 DEF PreviewType
      <4> QED BY <1>1, <2>1, <2>2, <2>3, <2>4, <4>1
    <3>9. p \in shown' /\ place'[p] = p /\ number'[p] = 5 + Len(disk.chain)
      <4>1. number \in [Objects -> Int] BY <1>1 DEF PreviewType
      <4> QED BY <1>2, <2>1, <2>3, <2>4, <4>1
    <3>10. ASSUME NEW x \in shown'
           PROVE  /\ place'[x] \in disk'.primaries \cup Range(disk'.chain)
                  /\ place'[x] \in DOMAIN Primaries <=> x \in DOMAIN Primaries
                  /\ number'[x] = EntryNumber(disk'.chain, place'[x])
      <4>1. CASE x = p BY <4>1, <3>5, <3>9
      <4>2. CASE x # p
        <5>1. /\ place'[x] = place[x] /\ number'[x] = number[x]
              /\ place[x] \in disk.primaries \cup Range(disk.chain)
              /\ place[x] \in DOMAIN Primaries <=> x \in DOMAIN Primaries
              /\ number[x] = EntryNumber(disk.chain, place[x])
          BY <3>3, <3>8, <3>10, <4>2
        <5>2. EntryNumber(disk'.chain, place[x]) = EntryNumber(disk.chain, place[x])
          BY <5>1, <3>5, <1>4, PrimaryNumber
        <5> QED BY <5>1, <5>2, <2>1, <3>5
      <4> QED BY <4>1, <4>2
    <3>11. \A x \in Existing : place'[x] = x BY <1>2, <2>1, <3>3, Kinds
    <3>12. \A x, y \in shown' : place'[x] = place'[y] => x = y
      <4>1. \A x \in shown : place[x] # p BY <1>2, <1>4, <3>3, <3>4
      <4> QED BY <3>3, <3>8, <3>9, <4>1
    <3> QED BY <3>5, <3>7, <3>10, <3>11, <3>12 DEF IsChain
  <2>6. Activated'
    <3>1. operations[run.next].kind # "Flags" BY <1>3 DEF op
    <3> QED BY <1>5, <1>8, <2>1, <3>1, StillActivated, FALSE \in BOOLEAN
  <2> QED BY <2>2, <2>5, <2>6 DEF IInv
<1> QED BY <1>6, <1>7, <1>8

\* A new partition is created.
LEMMA ExecuteNewInv == IInv /\ ExecuteNew => IInv'
<1> SUFFICES ASSUME IInv, ExecuteNew PROVE IInv' OBVIOUS
<1>1. run.phase = "running" /\ operations[run.next].kind = "New" BY DEF ExecuteNew, Running
<1>2. CASE UNCHANGED <<place, disk>> /\ Executed(FALSE, preview) BY <1>1, <1>2, FailedInv
<1>3. CASE \E ok \in BOOLEAN : CreateWith(operations[run.next].part, ok)
  <2>1. PICK ok \in BOOLEAN : CreateWith(operations[run.next].part, ok) BY <1>3
  <2>2. Makes(operations[run.next], operations[run.next].part) BY <1>1 DEF Makes
  <2>3. \A e \in Objects : ~Hides(operations[run.next], e) BY <1>1 DEF Hides
  <2> QED BY <1>1, <2>1, <2>2, <2>3, CreateWithInv
<1> QED BY <1>2, <1>3 DEF ExecuteNew

\* A copy is created, or takes the number and the entry of the partition that it overwrites.
LEMMA ExecuteCopyInv == IInv /\ ExecuteCopy => IInv'
<1> SUFFICES ASSUME IInv, ExecuteCopy PROVE IInv' OBVIOUS
<1> DEFINE op == operations[run.next]
           p == op.part
           o == op.over
           named == [preview EXCEPT !.number[p] = number[o]]
<1>1. run.phase = "running" /\ op.kind = "Copy" BY DEF ExecuteCopy, Running
<1>2. \/ UNCHANGED <<place, disk>> /\ Executed(FALSE, preview)
      \/ o = None /\ \E ok \in BOOLEAN : CreateWith(p, ok)
      \/ /\ o # None /\ UNCHANGED disk
         /\ place' = [place EXCEPT ![p] = place[o]]
         /\ \E ok \in BOOLEAN : Executed(ok, named)
  BY DEF ExecuteCopy
<1>3. Makes(op, p) BY <1>1 DEF Makes
<1>4. CASE UNCHANGED <<place, disk>> /\ Executed(FALSE, preview) BY <1>1, <1>4, FailedInv
<1>5. CASE o = None /\ \E ok \in BOOLEAN : CreateWith(p, ok)
  <2>1. PICK ok \in BOOLEAN : CreateWith(p, ok) BY <1>5
  <2>2. \A e \in Objects : ~Hides(op, e) BY <1>1, <1>5, Kinds DEF Hides
  <2> QED BY <1>1, <1>3, <2>1, <2>2, CreateWithInv
<1>6. CASE o # None /\ UNCHANGED disk /\ place' = [place EXCEPT ![p] = place[o]] /\ \E ok \in BOOLEAN : Executed(ok, named)
  <2>1. PICK ok \in BOOLEAN : Finished(ok, named, FALSE) BY <1>6 DEF Executed
  <2>2. /\ preview \in PreviewType /\ preview.shown = shown /\ preview.flags = flags /\ preview.number = number
        /\ operations \in Seq(Operation) /\ run.next \in 1 .. Len(operations) /\ op \in Operation
        /\ Previewed = run.next - 1 /\ \A e \in Existing : Refers(op, e) => e \in shown
        /\ p \in Created \cup Copies /\ p \notin shown
    BY <1>1, <1>3, Executing
  <2>3. p \in Objects /\ p \notin Existing /\ p \notin DOMAIN Primaries BY <2>2, Kinds
  <2>4. o \in Range(Logicals) /\ o \in Existing /\ o \in Objects /\ o \in shown /\ o # p /\ o \notin DOMAIN Primaries
    <3>1. o \in Range(Logicals) BY <1>1, <1>6, <2>2, OperationKinds
    <3>2. Refers(op, o) BY <1>1 DEF Refers
    <3> QED BY <2>2, <2>3, <3>1, <3>2, Kinds
  <2>5. number \in [Objects -> Int] /\ place \in [Objects -> Places]
        /\ disk \in [primaries : SUBSET DOMAIN Primaries, chain : Seq(Objects), active : Places]
    BY <2>2 DEF PreviewType, IInv, Types
  <2>6. named \in PreviewType /\ named.shown = shown /\ named.flags = flags /\ named.number = [number EXCEPT ![p] = number[o]]
    <3> HIDE DEF op, p, o
    <3> QED BY <2>2, <2>3, <2>4, <2>5 DEF PreviewType
  <2>7. \A x : Hides(op, x) <=> x = o BY <1>1 DEF Hides
  <2>8. \A x : Makes(op, x) <=> x = p BY <1>1 DEF Makes
  <2> HIDE DEF op, p, o, named
  <2>9. /\ place' \in [Objects -> Places] /\ place'[p] = place[o] /\ \A x \in Objects : x # p => place'[x] = place[x]
        /\ disk' = disk
    BY <1>6, <2>3, <2>4, <2>5
  <2>10. /\ Types' /\ Where' /\ Stacked' /\ Untouched' /\ operations' = operations /\ Previewed' = run.next
         /\ (Good' => Good) /\ shown' \subseteq Objects
         /\ \A x \in Objects : x \in shown' <=> ~Hides(op, x) /\ (x \in shown \/ Makes(op, x))
         /\ (op.kind # "Delete" => number' = named.number)
    <3>1. /\ Finished(ok, named, FALSE) /\ named \in PreviewType /\ named.shown = shown /\ named.flags = flags
          /\ place' \in [Objects -> Places]
          /\ disk' \in [primaries : SUBSET DOMAIN Primaries, chain : Seq(Objects), active : Places]
      BY ONLY <2>1, <2>5, <2>6, <2>9
    <3> QED BY ONLY ZenonT(30), <3>1, IInv, <1>1, ok \in BOOLEAN, FinishedInv, FALSE \in BOOLEAN DEF op
  <2>11. \A x \in Objects : x \in shown' <=> x # o /\ (x \in shown \/ x = p) BY <2>7, <2>8, <2>10
  <2>12. number' = [number EXCEPT ![p] = number[o]] BY <1>1, <2>6, <2>10
  <2>13. RunNumbers'
    <3>1. SUFFICES ASSUME Good'
                   PROVE  /\ IsInjective(disk.chain) /\ Range(disk.chain) \cap DOMAIN Primaries = {}
                          /\ \A e \in Range(disk.chain) \ Range(Logicals) :
                                 \E i \in 1 .. run.next : Makes(operations[i], e)
                          /\ \A x \in shown' :
                                 /\ place'[x] \in disk.primaries \cup Range(disk.chain)
                                 /\ place'[x] \in DOMAIN Primaries <=> x \in DOMAIN Primaries
                                 /\ number'[x] = EntryNumber(disk.chain, place'[x])
                          /\ \A x \in Existing : place'[x] = x
                          /\ \A x, y \in shown' : place'[x] = place'[y] => x = y
      BY <2>9, <2>10 DEF RunNumbers
    <3>2. ~Before BY <1>1 DEF Before
    <3>3. /\ IsInjective(disk.chain) /\ Range(disk.chain) \cap DOMAIN Primaries = {}
          /\ \A e \in Range(disk.chain) \ Range(Logicals) : \E i \in 1 .. run.next - 1 : Makes(operations[i], e)
          /\ \A x \in shown :
                 /\ place[x] \in disk.primaries \cup Range(disk.chain)
                 /\ place[x] \in DOMAIN Primaries <=> x \in DOMAIN Primaries
                 /\ number[x] = EntryNumber(disk.chain, place[x])
          /\ \A x \in Existing : place[x] = x
          /\ \A x, y \in shown : place[x] = place[y] => x = y
      BY <2>2, <2>10, <3>1, <3>2 DEF IInv, RunNumbers
    <3>4. \A i \in 1 .. run.next - 1 : i \in 1 .. run.next BY <2>2
    <3>5. \A x \in shown' : \/ x = p /\ place'[x] = place[o] /\ number'[x] = number[o]
                            \/ x \in shown /\ x # o /\ x \in Objects /\ x # p /\ place'[x] = place[x] /\ number'[x] = number[x]
      BY <2>2, <2>3, <2>5, <2>9, <2>10, <2>11, <2>12
    <3>6. \A x \in Existing : place'[x] = x BY <2>3, <2>9, <3>3, Kinds
    <3> QED BY <2>3, <2>4, <3>3, <3>4, <3>5, <3>6
  <2>14. Activated'
    <3>1. operations[run.next].kind # "Flags" BY <1>1 DEF op
    <3>2. disk' \in [primaries : SUBSET DOMAIN Primaries, chain : Seq(Objects), active : Places] BY <2>5, <2>9
    <3> QED BY <1>1, <2>1, <2>6, <2>9, <3>1, <3>2, StillActivated, FALSE \in BOOLEAN
  <2> QED BY <2>10, <2>13, <2>14 DEF IInv
<1> QED BY <1>2, <1>4, <1>5, <1>6

--------------------------------------------------------------------------------
(* The theorems                                                            *)

\* Every step preserves the invariant.
LEMMA NextInv == IInv /\ [Next]_vars => IInv'
<1> SUFFICES ASSUME IInv, [Next]_vars PROVE IInv' OBVIOUS
<1>1. CASE PushNew BY <1>1, PushNewInv
<1>2. CASE PushCopy BY <1>2, PushCopyInv
<1>3. CASE PushResize BY <1>3, PushResizeInv
<1>4. CASE PushDelete BY <1>4, PushDeleteInv
<1>5. CASE PushDeleteOfNew BY <1>5, PushDeleteOfNewInv
<1>6. CASE PushFlags BY <1>6, PushFlagsInv
<1>7. CASE Pop BY <1>7, PopInv
<1>8. CASE Start BY <1>8, StartInv
<1>9. CASE UndoNext BY <1>9, UndoNextInv
<1>10. CASE ExecuteDelete BY <1>10, ExecuteDeleteInv
<1>11. CASE ExecuteNew BY <1>11, ExecuteNewInv
<1>12. CASE ExecuteCopy BY <1>12, ExecuteCopyInv
<1>13. CASE ExecuteResize BY <1>13, ExecuteResizeInv
<1>14. CASE ExecuteFlags BY <1>14, ExecuteFlagsInv
<1>15. CASE Rescan \/ UNCHANGED vars
  <2>1. UNCHANGED vars BY <1>15 DEF Rescan
  <2>2. preview' = preview /\ Active' = Active /\ Previewed' = Previewed /\ (Before' <=> Before) /\ (Good' <=> Good)
    BY <2>1 DEF vars, preview, Active, Previewed, Before, Good
  <2>3. Types' BY <2>1, <2>2 DEF vars, IInv, Types
  <2>4. Where' BY <2>1 DEF vars, IInv, Where
  <2>5. Stacked' BY <2>1, <2>2 DEF vars, IInv, Stacked
  <2>6. Untouched' BY <2>1, <2>2 DEF vars, IInv, Untouched
  <2>7. RunNumbers' BY <2>1, <2>2 DEF vars, IInv, RunNumbers
  <2>8. Activated' BY <2>1, <2>2 DEF vars, IInv, Activated
  <2> QED BY <2>3, <2>4, <2>5, <2>6, <2>7, <2>8 DEF IInv
<1> QED BY <1>1, <1>2, <1>3, <1>4, <1>5, <1>6, <1>7, <1>8, <1>9, <1>10, <1>11, <1>12, <1>13, <1>14, <1>15 DEF Next

\* The numbers that are shown before a run are those that the disk will give, and those during a run
\* are those of the entries.
LEMMA InvNumbers == IInv => NumbersTell
<1> SUFFICES ASSUME IInv, Good, NEW x \in shown, place[x] # None PROVE number[x] = Predicted(place[x])
  BY DEF NumbersTell, Good
<1> DEFINE gone(e) == {i \in DOMAIN disk.chain : 4 + i < EntryNumber(disk.chain, e) /\ disk.chain[i] \in Deleted}
<1>1. \A e : Predicted(e) = IF e \in DOMAIN Primaries THEN EntryNumber(disk.chain, e)
                            ELSE EntryNumber(disk.chain, e) - Cardinality(gone(e))
  BY DEF Predicted
<1>2. x \in Objects /\ place \in [Objects -> Places] /\ operations \in Seq(Operation)
      /\ disk \in [primaries : SUBSET DOMAIN Primaries, chain : Seq(Objects), active : Places]
  BY DEF IInv, Types, preview, PreviewType
<1> HIDE DEF gone
<1>3. CASE Before
  <2>1. /\ x \in Existing /\ place[x] = x /\ disk.chain = Logicals
        /\ number[x] = NumberAt(operations, x, Previewed)
    BY <1>2, <1>3 DEF IInv, Untouched, NumbersBy
  <2>2. Deleted = DeletedBy(operations, Previewed)
    <3>1. CASE run.phase = "idle" BY <2>1, <3>1 DEF Deleted, DeletedBy, Previewed
    <3>2. CASE run.phase = "undoing" BY <2>1, <3>2 DEF Deleted, DeletedBy, Previewed
    <3> QED BY <1>3, <3>1, <3>2 DEF Before
  <2>3. gone(x) = Gone(x, DeletedBy(operations, Previewed)) BY <2>1, <2>2 DEF gone, Gone
  <2>4. CASE x \in DOMAIN Primaries BY <1>1, <2>1, <2>4 DEF NumberAt, EntryNumber
  <2>5. CASE x \notin DOMAIN Primaries BY <1>1, <2>1, <2>3, <2>5 DEF NumberAt, Less
  <2> QED BY <2>4, <2>5
<1>4. CASE ~Before
  <2>1. /\ place[x] \in disk.primaries \cup Range(disk.chain)
        /\ number[x] = EntryNumber(disk.chain, place[x])
    BY <1>4 DEF IInv, RunNumbers
  <2>2. CASE place[x] \in DOMAIN Primaries BY <1>1, <2>1, <2>2
  <2>3. CASE place[x] \notin DOMAIN Primaries
    <3>1. place[x] \in Range(disk.chain) BY <1>2, <2>1, <2>3
    <3>2. IsChain(disk.chain) BY <1>4, GoodChain
    <3>3. EntryNumber(disk.chain, place[x]) \in Int BY <3>1, <3>2, ChainPosition
    <3>4. Deleted = {}
      <4>1. run.phase # "idle" /\ run.phase # "undoing" BY <1>4 DEF Before
      <4>2. Deleted = {e \in Range(disk.chain) : \E i \in 1 .. 0 : operations[i] = Delete(e)} BY <4>1 DEF Deleted
      <4> QED BY <4>2
    <3>5. gone(place[x]) = {} BY <3>4 DEF gone
    <3>6. Cardinality(gone(place[x])) = 0 BY <3>5, FS_EmptySet
    <3> QED BY <1>1, <2>1, <2>3, <3>3, <3>6
  <2> QED BY <2>2, <2>3
<1> QED BY <1>3, <1>4

\* At the end of a run all operations have been executed.
LEMMA InvActivated == IInv => ActivatedIsActive
<1> SUFFICES ASSUME IInv, run.phase = "finished", ~run.believed,
                    NEW i \in DOMAIN operations, operations[i].kind = "Flags", operations[i].new,
                    run.was # operations[i].part, operations[i].part \in shown,
                    \A j \in i + 1 .. Len(operations) : operations[j].kind # "Flags"
             PROVE  disk.active = operations[i].part
  BY DEF ActivatedIsActive
<1>1. operations \in Seq(Operation) /\ run.next = Len(operations) + 1 BY DEF IInv, Types, Where
<1>2. Previewed = Len(operations) /\ DOMAIN operations = 1 .. Len(operations) BY <1>1 DEF Previewed
<1>3. Good /\ ~Before BY DEF Good, Before
<1> QED BY <1>2, <1>3 DEF IInv, Activated

\* The invariant holds in every state of every run, for all tables and stacks of every length.
THEOREM InvariantHolds == Spec => []IInv
<1>1. Init => IInv BY InitInv
<1>2. IInv /\ [Next]_vars => IInv' BY NextInv
<1> QED BY <1>1, <1>2, PTL DEF Spec

\* The objects, the stack and the table keep their types.
THEOREM TypesHold == Spec => []Types
<1>1. IInv => Types BY DEF IInv
<1> QED BY <1>1, InvariantHolds, PTL

\* Whatever is pushed, merged, removed, undone and executed, and whatever fails: a job finds the partition
\* that it wants to deal with under the number that its object has (operation.cpp, deleteoperation.cpp).
THEOREM NumbersTellHolds == Spec => []NumbersTell
BY InvariantHolds, InvNumbers, PTL

\* After a run that finished, the partition that was to be activated last is active (setpartflagsjob.cpp,
\* setpartflagsoperation.cpp).
THEOREM ActivatedHolds == Spec => []ActivatedIsActive
BY InvariantHolds, InvActivated, PTL
==============================================================================
