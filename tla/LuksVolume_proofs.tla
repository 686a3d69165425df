--------------------------- MODULE LuksVolume_proofs ---------------------------
(***************************************************************************)
(* Proofs about the jobs on a LUKS container, for every length of header,  *)
(* files and partition and every length of the stack.  The invariant says  *)
(* for each command that is still to do how far partition, mapping, file   *)
(* system and object have got, and that each operation on the stack starts *)
(* where the one before it ends.                                           *)
(***************************************************************************)
EXTENDS LuksVolume, SequenceTheorems, TLAPS

\* The stack: each operation starts where the one before it ends.
Chained ==
    /\ \A k \in 1 .. Len(ops) - 1 : ops[k + 1].from = ops[k].to
    /\ \A k \in 1 .. Len(ops) : (ops[k].name = "resize") = (ops[k].from # ops[k].to)
    /\ ops # << >> => target = ops[Len(ops)].to

\* What is pending starts on the disk as it is.
Pending ==
    phase = "pending" =>
        /\ length = part /\ todo = << >> /\ next = 0
        /\ IF ops = << >> THEN target = part ELSE ops[1].from = part

Growing(o)   == o.name = "resize" /\ o.from < o.to
Shrinking(o) == o.name = "resize" /\ o.to < o.from

\* Whether luks::resize() will compute the new payload from the right one.
Payload(o) == sound => payload = o.from - Offset

\* Partition and object have the given lengths, and the file system fits into size blocks.
Stands(p, l, size) == part = p /\ length = l /\ (sound => inner <= size - Offset)

GrowStage(o) ==
    /\ Payload(o)
    /\ \/ /\ \/ todo = <<"check", "geometry", "growMapping", "growInner", "setLastSector">> /\ isCryptOpen
             \/ todo = <<"geometry", "growMapping", "growInner", "setLastSector">> /\ isCryptOpen
             \/ todo = <<"check", "geometry", "unsupported">>
             \/ todo = <<"geometry", "unsupported">>
          /\ Stands(o.from, o.from, o.from)
       \/ /\ \/ todo = <<"growMapping", "growInner", "setLastSector">> /\ isCryptOpen
             \/ todo = <<"unsupported">>
             \/ todo = <<"restore">>
             \/ todo = <<"growInner", "setLastSector">> /\ mapping = o.to - Offset
          /\ Stands(o.to, o.from, o.from)
       \/ /\ todo = <<"setLastSector">> /\ mapping = o.to - Offset
          /\ Stands(o.to, o.from, o.to) /\ (sound => inner = o.to - Offset)

ShrinkStage(o) ==
    /\ Payload(o)
    /\ \/ /\ \/ todo = <<"check", "shrinkInner", "shrinkMapping", "setLastSector", "geometry">> /\ isCryptOpen
             \/ todo = <<"shrinkInner", "shrinkMapping", "setLastSector", "geometry">> /\ isCryptOpen
             \/ todo = <<"check", "unsupported", "geometry">>
             \/ todo = <<"unsupported", "geometry">>
          /\ Stands(o.from, o.from, o.from)
       \/ /\ todo = <<"shrinkMapping", "setLastSector", "geometry">> /\ isCryptOpen
          /\ Stands(o.from, o.from, o.to) /\ inner = payload + (o.to - length) /\ inner >= InnerUsed
       \/ /\ \/ todo = <<"setLastSector", "geometry">> /\ length = o.from
             \/ todo = <<"geometry">> /\ length = o.to
          /\ Stands(o.from, length, o.to)
          /\ sound => inner = o.to - Offset /\ mapping = o.to - Offset

MoveStage(o) == /\ todo = <<"check", "move">> \/ todo = <<"move">>
                /\ Stands(o.from, o.from, o.from)

CreateStage(o) == /\ \/ todo = <<"luksFormat", "open", "createInner">>
                     \/ todo = <<"open", "createInner">>
                     \/ todo = <<"createInner">> /\ mapping = o.from - Offset
                  /\ Stands(o.from, o.from, o.from)

DoneStage(o) == /\ todo = << >>
                /\ Stands(o.to, o.to, o.to)
                /\ o.name = "resize" /\ sound => inner = Room /\ mapping = Room

Stage(o) == \/ Growing(o) /\ GrowStage(o)
            \/ Shrinking(o) /\ ShrinkStage(o)
            \/ o.name = "move" /\ MoveStage(o)
            \/ o.name = "create" /\ CreateStage(o)
            \/ DoneStage(o)

IInv == /\ TypeOK
        /\ Chained
        /\ Pending
        /\ phase = "executing" => next \in 1 .. Len(ops) /\ Stage(Operation)
        /\ phase = "success" => Len(ops) > 0
        /\ KeptWhole
        /\ SuccessFills

--------------------------------------------------------------------------------
(* Lists of commands.                                                      *)

\* A list of 1 and one of 1 make one of 2.
LEMMA Joined11 ==
    ASSUME NEW a, NEW b
    PROVE  <<a>> \o <<b>> = <<a, b>>
<1> DEFINE S == {a, b}
           s == <<a>>
           t == <<b>>
           u == <<a, b>>
<1>1. s \in Seq(S) /\ t \in Seq(S) /\ u \in Seq(S) /\ s \o t \in Seq(S)
  OBVIOUS
<1>2. Len(s \o t) = 2 /\ Len(u) = 2
  BY <1>1
<1>3. \A i \in 1 .. 2 : (s \o t)[i] = u[i]
  BY <1>1
<1> QED
  BY ONLY <1>1, <1>2, <1>3, SeqEqual

\* A list of 2 and one of 1 make one of 3.
LEMMA Joined21 ==
    ASSUME NEW a, NEW b, NEW c
    PROVE  <<a, b>> \o <<c>> = <<a, b, c>>
<1> DEFINE S == {a, b, c}
           s == <<a, b>>
           t == <<c>>
           u == <<a, b, c>>
<1>1. s \in Seq(S) /\ t \in Seq(S) /\ u \in Seq(S) /\ s \o t \in Seq(S)
  OBVIOUS
<1>2. Len(s \o t) = 3 /\ Len(u) = 3
  BY <1>1
<1>3. \A i \in 1 .. 3 : (s \o t)[i] = u[i]
  BY <1>1
<1> QED
  BY ONLY <1>1, <1>2, <1>3, SeqEqual

\* A list of 1 and one of 3 make one of 4.
LEMMA Joined13 ==
    ASSUME NEW a, NEW b, NEW c, NEW d
    PROVE  <<a>> \o <<b, c, d>> = <<a, b, c, d>>
<1> DEFINE S == {a, b, c, d}
           s == <<a>>
           t == <<b, c, d>>
           u == <<a, b, c, d>>
<1>1. s \in Seq(S) /\ t \in Seq(S) /\ u \in Seq(S) /\ s \o t \in Seq(S)
  OBVIOUS
<1>2. Len(s \o t) = 4 /\ Len(u) = 4
  BY <1>1
<1>3. \A i \in 1 .. 4 : (s \o t)[i] = u[i]
  BY <1>1
<1> QED
  BY ONLY <1>1, <1>2, <1>3, SeqEqual

\* A list of 4 and one of 1 make one of 5.
LEMMA Joined41 ==
    ASSUME NEW a, NEW b, NEW c, NEW d, NEW e
    PROVE  <<a, b, c, d>> \o <<e>> = <<a, b, c, d, e>>
<1> DEFINE S == {a, b, c, d, e}
           s == <<a, b, c, d>>
           t == <<e>>
           u == <<a, b, c, d, e>>
<1>1. s \in Seq(S) /\ t \in Seq(S) /\ u \in Seq(S) /\ s \o t \in Seq(S)
  OBVIOUS
<1>2. Len(s \o t) = 5 /\ Len(u) = 5
  BY <1>1
<1>3. \A i \in 1 .. 5 : (s \o t)[i] = u[i]
  BY <1>1
<1> QED
  BY ONLY <1>1, <1>2, <1>3, SeqEqual

\* A list of 2 and one of 3 make one of 5.
LEMMA Joined23 ==
    ASSUME NEW a, NEW b, NEW c, NEW d, NEW e
    PROVE  <<a, b>> \o <<c, d, e>> = <<a, b, c, d, e>>
<1> DEFINE S == {a, b, c, d, e}
           s == <<a, b>>
           t == <<c, d, e>>
           u == <<a, b, c, d, e>>
<1>1. s \in Seq(S) /\ t \in Seq(S) /\ u \in Seq(S) /\ s \o t \in Seq(S)
  OBVIOUS
<1>2. Len(s \o t) = 5 /\ Len(u) = 5
  BY <1>1
<1>3. \A i \in 1 .. 5 : (s \o t)[i] = u[i]
  BY <1>1
<1> QED
  BY ONLY <1>1, <1>2, <1>3, SeqEqual

\* The first command and the rest of a list of up to five.
LEMMA HeadsAndTails ==
    ASSUME NEW a, NEW b, NEW c, NEW d, NEW e
    PROVE  /\ Head(<<a, b, c, d, e>>) = a /\ Tail(<<a, b, c, d, e>>) = <<b, c, d, e>>
           /\ Head(<<b, c, d, e>>) = b /\ Tail(<<b, c, d, e>>) = <<c, d, e>>
           /\ Head(<<c, d, e>>) = c /\ Tail(<<c, d, e>>) = <<d, e>>
           /\ Head(<<d, e>>) = d /\ Tail(<<d, e>>) = <<e>>
           /\ Head(<<e>>) = e /\ Tail(<<e>>) = << >>
           /\ <<e>> # << >> /\ <<d, e>> # << >> /\ <<c, d, e>> # << >>
           /\ <<b, c, d, e>> # << >> /\ <<a, b, c, d, e>> # << >>
OBVIOUS

\* The commands of an operation that starts with an object as long as the partition.
LEMMA JobsOf ==
    ASSUME NEW o \in Operations, length = o.from, (o.name = "resize") = (o.from # o.to)
    PROVE  \/ Growing(o) /\ \/ /\ Jobs(o) = <<"check", "geometry", "growMapping", "growInner", "setLastSector">>
                               /\ isCryptOpen
                            \/ Jobs(o) = <<"check", "geometry", "unsupported">>
           \/ Shrinking(o) /\ \/ /\ Jobs(o) = <<"check", "shrinkInner", "shrinkMapping", "setLastSector", "geometry">>
                                 /\ isCryptOpen
                              \/ Jobs(o) = <<"check", "unsupported", "geometry">>
           \/ o.name = "move" /\ Jobs(o) = <<"check", "move">>
           \/ o.name = "create" /\ Jobs(o) = <<"luksFormat", "open", "createInner">>
<1>0. /\ o.from \in Int /\ o.to \in Int /\ o.name \in {"resize", "move", "create"}
  BY LuksAssumption DEF Operations, Lengths
<1>1. CASE o.name = "resize" /\ o.from < o.to
  <2>1. Jobs(o) = <<"check", "geometry">> \o FileSystemJob(o)
    BY <1>0, <1>1 DEF Jobs
  <2>2. \/ FileSystemJob(o) = <<"growMapping", "growInner", "setLastSector">> /\ isCryptOpen
        \/ FileSystemJob(o) = <<"unsupported">>
    BY <1>0, <1>1 DEF FileSystemJob, SupportResize
  <2>3. <<"check", "geometry">> \o <<"growMapping", "growInner", "setLastSector">>
            = <<"check", "geometry", "growMapping", "growInner", "setLastSector">>
    BY Joined23
  <2>4. <<"check", "geometry">> \o <<"unsupported">> = <<"check", "geometry", "unsupported">>
    BY Joined21
  <2> QED
    BY <1>1, <2>1, <2>2, <2>3, <2>4 DEF Growing
<1>2. CASE o.name = "resize" /\ o.to < o.from
  <2>1. Jobs(o) = <<"check">> \o FileSystemJob(o) \o <<"geometry">>
    BY <1>0, <1>2 DEF Jobs
  <2>2. \/ FileSystemJob(o) = <<"shrinkInner", "shrinkMapping", "setLastSector">> /\ isCryptOpen
        \/ FileSystemJob(o) = <<"unsupported">>
    BY <1>0, <1>2 DEF FileSystemJob, SupportResize
  <2>3. <<"check">> \o <<"shrinkInner", "shrinkMapping", "setLastSector">>
            = <<"check", "shrinkInner", "shrinkMapping", "setLastSector">>
    BY Joined13
  <2>4. <<"check", "shrinkInner", "shrinkMapping", "setLastSector">> \o <<"geometry">>
            = <<"check", "shrinkInner", "shrinkMapping", "setLastSector", "geometry">>
    BY Joined41
  <2>5. <<"check">> \o <<"unsupported">> = <<"check", "unsupported">>
    BY Joined11
  <2>6. <<"check", "unsupported">> \o <<"geometry">> = <<"check", "unsupported", "geometry">>
    BY Joined21
  <2>7. CASE FileSystemJob(o) = <<"shrinkInner", "shrinkMapping", "setLastSector">> /\ isCryptOpen
    <3>1. Jobs(o) = <<"check", "shrinkInner", "shrinkMapping", "setLastSector", "geometry">>
      BY <2>1, <2>3, <2>4, <2>7, Zenon
    <3> QED
      BY <1>2, <2>7, <3>1 DEF Shrinking
  <2>8. CASE FileSystemJob(o) = <<"unsupported">>
    <3>1. Jobs(o) = <<"check", "unsupported", "geometry">>
      BY <2>1, <2>5, <2>6, <2>8, Zenon
    <3> QED
      BY <1>2, <3>1 DEF Shrinking
  <2> QED
    BY <2>2, <2>7, <2>8
<1>3. CASE o.name = "move"
  BY <1>3 DEF Jobs
<1>4. CASE o.name = "create"
  BY <1>4 DEF Jobs
<1> QED
  BY <1>0, <1>1, <1>2, <1>3, <1>4
--------------------------------------------------------------------------------
(* The invariant.                                                          *)

\* setPayloadSize() sets a number, or leaves the one that was in memory.
LEMMA PayloadType ==
    ASSUME mapping \in Nat, ratio \in Nat, NEW garbage \in 0 .. MaxLength
    PROVE  PayloadSize(garbage) \in Int
<1>1. mapping * ratio \in Int
  OBVIOUS
<1> QED
  BY <1>1 DEF PayloadSize

\* A freshly scanned container has nothing pending.
LEMMA InitInv == Init => IInv
<1> SUFFICES ASSUME Init PROVE IInv
  OBVIOUS
<1>1. part \in Lengths /\ part - Offset \in Nat
  BY LuksAssumption DEF Init, Lengths
<1>2. payload \in Int
  <2>1. PICK garbage \in 0 .. MaxLength : payload = PayloadSize(garbage)
    BY DEF Init
  <2>2. mapping \in Nat /\ ratio \in Nat
    BY <1>1, LuksAssumption DEF Init
  <2> QED
    BY <2>1, <2>2, PayloadType
<1>3. TypeOK
  <2>1. /\ inUse \in BOOLEAN /\ isCryptOpen \in BOOLEAN /\ isMounted \in BOOLEAN /\ innerFs \in BOOLEAN
        /\ mapperName \in BOOLEAN /\ steady \in BOOLEAN /\ sound \in BOOLEAN
    BY Zenon DEF Init
  <2>2. /\ place \in {0, 1} /\ mappedPlace \in {0, 1} /\ length \in Lengths /\ target \in Lengths
        /\ inner \in Nat /\ mapping \in Nat /\ ratio \in Ratios
    BY <1>1 DEF Init
  <2>3. ops \in Seq(Operations) /\ next \in 0 .. Len(ops) /\ phase = "pending"
    BY DEF Init
  <2> QED
    BY <1>1, <1>2, <2>1, <2>2, <2>3 DEF TypeOK
<1> QED
  BY <1>1, <1>3 DEF Init, IInv, Chained, Pending, KeptWhole, SuccessFills, Room

\* A scan replaces the objects and finds the disk as it is.
LEMMA RescanStep == ASSUME IInv, Rescan PROVE IInv'
<1>1. /\ UNCHANGED <<disk, kernel, steady, sound>> /\ length' = part /\ target' = part
      /\ ops' = << >> /\ phase' = "pending" /\ next' = 0 /\ todo' = << >>
      /\ mapperName' \in BOOLEAN /\ isCryptOpen' \in BOOLEAN /\ innerFs' \in BOOLEAN
      /\ isMounted' = inUse /\ payload' \in Int
  <2>1. PICK garbage \in 0 .. MaxLength : Scanned(garbage)
    BY DEF Rescan
  <2>2. mapping \in Nat /\ ratio \in Nat
    BY LuksAssumption DEF IInv, TypeOK
  <2>3. payload' \in Int
    BY <2>1, <2>2, PayloadType DEF Scanned
  <2> QED
    BY <2>1, <2>3 DEF Rescan, Scanned, IInv, TypeOK
<1>2. TypeOK'
  BY <1>1 DEF IInv, TypeOK, disk, kernel
<1> QED
  BY <1>1, <1>2 DEF IInv, Chained, Pending, KeptWhole, SuccessFills, Room, disk

\* Unlocking, locking and mounting leave partition, file system and stack alone.
LEMMA FrontEndStep ==
    ASSUME IInv, CryptOpen \/ CryptOpenUnseen \/ CryptClose \/ Mount \/ Unmount
    PROVE  IInv'
<1>1. /\ Elsewhere /\ phase = "pending" /\ mapping' \in {mapping, Room, 0} /\ mappedPlace' \in {place, mappedPlace}
      /\ inUse' \in BOOLEAN /\ isCryptOpen' \in BOOLEAN /\ isMounted' \in BOOLEAN
      /\ innerFs' \in BOOLEAN /\ mapperName' \in BOOLEAN /\ steady' \in BOOLEAN /\ payload' = payload
  BY DEF CryptOpen, CryptOpenUnseen, CryptClose, Mount, Unmount, FrontEnd, IInv, TypeOK
<1>2. Room \in Nat
  BY LuksAssumption DEF IInv, TypeOK, Lengths, Room
<1>3. TypeOK'
  BY <1>1, <1>2 DEF IInv, TypeOK, Elsewhere, disk, runner
<1> QED
  BY <1>1, <1>3 DEF IInv, Chained, Pending, KeptWhole, SuccessFills, Room, Elsewhere, disk, runner

\* What is pushed starts where the stack ends.
LEMMA PushStep == ASSUME IInv, PushResize \/ PushMove \/ PushCreate PROVE IInv'
<1>1. PICK o \in Operations : /\ Push(o) /\ o.from = target
                              /\ (o.name = "resize") = (o.from # o.to)
  <2>1. target \in Lengths
    BY DEF IInv, TypeOK
  <2>2. CASE PushResize
    <3>1. PICK to \in Lengths \ {target} : Push([name |-> "resize", from |-> target, to |-> to])
      BY <2>2 DEF PushResize, Lengths
    <3> QED
      BY <2>1, <3>1 DEF Operations
  <2>3. CASE PushMove
    BY <2>1, <2>3 DEF PushMove, Operations
  <2>4. CASE PushCreate
    BY <2>1, <2>4 DEF PushCreate, Operations
  <2> QED
    BY <2>2, <2>3, <2>4
<1>2. /\ phase = "pending" /\ ops' = Append(ops, o) /\ target' = o.to
      /\ UNCHANGED <<disk, kernel, object, length, runner, steady, sound>>
  BY <1>1 DEF Push
<1>3. /\ ops \in Seq(Operations) /\ ops' \in Seq(Operations) /\ Len(ops') = Len(ops) + 1
      /\ Len(ops) \in Nat /\ ops' # << >>
      /\ \A k \in 1 .. Len(ops) : ops'[k] = ops[k]
      /\ ops'[Len(ops) + 1] = o
  BY <1>2, AppendProperties DEF IInv, TypeOK
<1>4. TypeOK'
  BY <1>1, <1>2, <1>3 DEF IInv, TypeOK, Operations, disk, kernel, object, runner
<1>5. Chained'
  <2>1. ASSUME NEW k \in 1 .. Len(ops') - 1 PROVE ops'[k + 1].from = ops'[k].to
    <3>1. CASE k = Len(ops)
      <4>1. ops # << >> /\ target = ops[Len(ops)].to
        BY <1>3, <2>1, <3>1 DEF IInv, Chained
      <4> QED
        BY <1>1, <1>3, <2>1, <3>1, <4>1
    <3>2. CASE k # Len(ops)
      BY <1>3, <2>1, <3>2 DEF IInv, Chained
    <3> QED
      BY <3>1, <3>2
  <2>2. ASSUME NEW k \in 1 .. Len(ops') PROVE (ops'[k].name = "resize") = (ops'[k].from # ops'[k].to)
    <3>1. k \in 1 .. Len(ops) \/ k = Len(ops) + 1
      BY <1>3, <2>2
    <3> QED
      BY <1>1, <1>3, <3>1 DEF IInv, Chained
  <2> QED
    BY <1>2, <1>3, <2>1, <2>2 DEF Chained
<1>6. Pending'
  <2>1. CASE ops = << >>
    BY <1>1, <1>2, <1>3, <2>1 DEF IInv, Pending, disk, runner
  <2>2. CASE ops # << >>
    <3>1. Len(ops) >= 1
      BY <1>3, <2>2, EmptySeq
    <3> QED
      BY <1>2, <1>3, <2>2, <3>1 DEF IInv, Pending, disk, runner
  <2> QED
    BY <2>1, <2>2
<1> QED
  BY <1>2, <1>4, <1>5, <1>6 DEF IInv, KeptWhole, SuccessFills, Room, disk, runner

\* A stack without its last operation.
LEMMA Shortened ==
    ASSUME ops \in Seq(Operations), ops # << >>, ops' = SubSeq(ops, 1, Len(ops) - 1)
    PROVE  /\ ops' \in Seq(Operations) /\ Len(ops') = Len(ops) - 1
           /\ \A k \in 1 .. Len(ops) - 1 : ops'[k] = ops[k]
<1>0. Len(ops) \in Nat \ {0}
  BY EmptySeq
<1> DEFINE n == Len(ops) - 1
<1>1. n \in Int /\ 1 \in Int /\ n \in Nat /\ \A i \in 1 .. n : ops[i] \in Operations
  BY <1>0
<1>2. /\ SubSeq(ops, 1, n) \in Seq(Operations)
      /\ Len(SubSeq(ops, 1, n)) = IF 1 <= n THEN n - 1 + 1 ELSE 0
      /\ \A i \in 1 .. n - 1 + 1 : SubSeq(ops, 1, n)[i] = ops[1 + i - 1]
  BY ONLY <1>1, SubSeqProperties
<1>3. Len(SubSeq(ops, 1, n)) = n
  <2> HIDE DEF n
  <2>1. n \in Nat /\ Len(SubSeq(ops, 1, n)) = IF 1 <= n THEN n - 1 + 1 ELSE 0
    BY <1>1, <1>2
  <2> DEFINE size == Len(SubSeq(ops, 1, n))
  <2>2. size = IF 1 <= n THEN n - 1 + 1 ELSE 0
    BY <2>1
  <2> HIDE DEF size
  <2>3. size = n
    BY <2>1, <2>2
  <2> QED
    BY <2>3 DEF size
<1>4. ASSUME NEW i \in 1 .. n PROVE SubSeq(ops, 1, n)[i] = ops[i]
  <2>1. i \in 1 .. n - 1 + 1 /\ 1 + i - 1 = i
    BY <1>1, <1>4
  <2> QED
    BY <1>2, <2>1
<1>5. ops' = SubSeq(ops, 1, n)
  OBVIOUS
<1>6. n = Len(ops) - 1
  OBVIOUS
<1> HIDE DEF n
<1> QED
  BY <1>2, <1>3, <1>4, <1>5, <1>6

\* Popping goes back to where the operation started.
LEMMA PopStep == ASSUME IInv, Pop PROVE IInv'
<1>1. /\ phase = "pending" /\ ops # << >> /\ target' = ops[Len(ops)].from
      /\ ops' = SubSeq(ops, 1, Len(ops) - 1)
      /\ UNCHANGED <<disk, kernel, object, length, runner, steady, sound>>
  BY DEF Pop
<1>2. /\ ops \in Seq(Operations) /\ Len(ops) \in Nat \ {0}
  BY <1>1, EmptySeq DEF IInv, TypeOK
<1>3. /\ ops' \in Seq(Operations) /\ Len(ops') = Len(ops) - 1
      /\ \A k \in 1 .. Len(ops) - 1 : ops'[k] = ops[k]
  BY <1>1, <1>2, Shortened
<1>4. ops[Len(ops)] \in Operations
  BY <1>2
<1>5. TypeOK'
  <2>1. target' \in Lengths
    BY <1>1, <1>4 DEF Operations
  <2>2. next = 0
    BY <1>1 DEF IInv, TypeOK, Pending
  <2> QED
    BY <1>1, <1>2, <1>3, <2>1, <2>2 DEF IInv, TypeOK, disk, kernel, object, runner
<1>6. Chained'
  <2>1. /\ \A k \in 1 .. Len(ops') - 1 : ops'[k + 1].from = ops'[k].to
        /\ \A k \in 1 .. Len(ops') : (ops'[k].name = "resize") = (ops'[k].from # ops'[k].to)
    <3>1. Len(ops) \in Nat /\ Chained
      BY <1>2 DEF IInv
    <3>2. ASSUME NEW k \in 1 .. Len(ops') - 1 PROVE ops'[k + 1].from = ops'[k].to
      <4>1. k \in 1 .. Len(ops) - 1 /\ k + 1 \in 1 .. Len(ops) - 1
        BY <1>3, <3>1
      <4> QED
        BY <1>3, <3>1, <4>1 DEF Chained
    <3>3. ASSUME NEW k \in 1 .. Len(ops') PROVE (ops'[k].name = "resize") = (ops'[k].from # ops'[k].to)
      <4>1. k \in 1 .. Len(ops) - 1 /\ k \in 1 .. Len(ops)
        BY <1>3, <3>1
      <4> QED
        BY <1>3, <3>1, <4>1 DEF Chained
    <3> QED
      BY <3>2, <3>3
  <2>2. ops' # << >> => target' = ops'[Len(ops')].to
    <3> SUFFICES ASSUME ops' # << >> PROVE target' = ops'[Len(ops')].to
      OBVIOUS
    <3>1. Len(ops') \in 1 .. Len(ops) - 1
      BY <1>2, <1>3, EmptySeq
    <3> QED
      BY <1>1, <1>2, <1>3, <3>1 DEF IInv, Chained
  <2> QED
    BY <2>1, <2>2 DEF Chained
<1>7. Pending'
  <2>1. CASE Len(ops) = 1
    <3>1. ops' = << >>
      BY <1>3, <2>1, EmptySeq
    <3> QED
      BY <1>1, <2>1, <3>1 DEF IInv, Pending, disk, runner
  <2>2. CASE Len(ops) # 1
    <3>1. ops' # << >> /\ ops'[1] = ops[1]
      BY <1>2, <1>3, <2>2, EmptySeq
    <3> QED
      BY <1>1, <3>1 DEF IInv, Pending, disk, runner
  <2> QED
    BY <2>1, <2>2
<1> QED
  BY <1>1, <1>5, <1>6, <1>7 DEF IInv, KeptWhole, SuccessFills, Room, disk, runner

\* An operation that begins finds partition and object as the one before it left them.
LEMMA BeginStage ==
    ASSUME IInv, NEW k \in 1 .. Len(ops), Stands(ops[k].from, ops[k].from, ops[k].from),
           todo' = Jobs(ops[k]), next' = k, ops' = ops,
           sound' = (sound /\ (ops[k].name = "resize" => payload = Room)),
           UNCHANGED <<part, inner, mapping, length, payload, isCryptOpen>>
    PROVE  Stage(Operation)'
<1> DEFINE o == ops[k]
<1>1. Operation' = o
  BY DEF Operation
<1>2. o \in Operations /\ (o.name = "resize") = (o.from # o.to) /\ length = o.from /\ part = o.from
  BY DEF IInv, TypeOK, Chained, Stands
<1>3. (sound' => sound) /\ (o.name = "resize" /\ sound' => payload' = o.from - Offset)
  BY <1>2 DEF Room
<1>4. part' = o.from /\ length' = o.from /\ (sound' => inner' <= o.from - Offset)
  BY <1>2, <1>3 DEF Stands
<1>5. CASE Growing(o) /\ \/ /\ Jobs(o) = <<"check", "geometry", "growMapping", "growInner", "setLastSector">>
                             /\ isCryptOpen
                          \/ Jobs(o) = <<"check", "geometry", "unsupported">>
  BY <1>1, <1>3, <1>4, <1>5 DEF Stage, Growing, GrowStage, Payload, Stands
<1>6. CASE Shrinking(o) /\ \/ /\ Jobs(o) = <<"check", "shrinkInner", "shrinkMapping", "setLastSector", "geometry">>
                               /\ isCryptOpen
                            \/ Jobs(o) = <<"check", "unsupported", "geometry">>
  BY <1>1, <1>3, <1>4, <1>6 DEF Stage, Shrinking, ShrinkStage, Payload, Stands
<1>7. CASE o.name = "move" /\ Jobs(o) = <<"check", "move">>
  BY <1>1, <1>4, <1>7 DEF Stage, MoveStage, Stands
<1>8. CASE o.name = "create" /\ Jobs(o) = <<"luksFormat", "open", "createInner">>
  BY <1>1, <1>4, <1>8 DEF Stage, CreateStage, Stands
<1> QED
  BY <1>2, <1>5, <1>6, <1>7, <1>8, JobsOf

\* The application begins with the first operation.
LEMMA ApplyStep == ASSUME IInv, Apply PROVE IInv'
<1>1. /\ phase = "pending" /\ ops # << >> /\ phase' = "executing" /\ next' = 1 /\ todo' = Jobs(ops[1])
      /\ sound' = (sound /\ (ops[1].name = "resize" => payload = Room))
      /\ UNCHANGED <<disk, kernel, object, length, target, ops, steady>>
  BY DEF Apply
<1>2. ops \in Seq(Operations) /\ 1 \in 1 .. Len(ops)
  BY <1>1, EmptySeq DEF IInv, TypeOK
<1>3. part = ops[1].from /\ length = ops[1].from /\ (sound => inner <= part - Offset)
  BY <1>1 DEF IInv, Pending, KeptWhole, Room
<1>4. Stage(Operation)'
  BY <1>1, <1>2, <1>3, BeginStage DEF Stands, disk, kernel, object
<1>5. TypeOK'
  BY <1>1, <1>2 DEF IInv, TypeOK, disk, kernel, object
<1> QED
  BY <1>1, <1>2, <1>4, <1>5 DEF IInv, Chained, Pending, KeptWhole, SuccessFills, Room, disk, kernel

\* An operation is done: the next begins, or the application has succeeded.
LEMMA EndOperationStep == ASSUME IInv, EndOperation PROVE IInv'
<1>1. /\ phase = "executing" /\ todo = << >>
      /\ UNCHANGED <<disk, kernel, object, length, target, ops, steady>>
  BY DEF EndOperation
<1>2. /\ next \in 1 .. Len(ops) /\ ops \in Seq(Operations) /\ Len(ops) \in Nat
      /\ Stage(Operation)
  BY <1>1 DEF IInv, TypeOK
<1>3. DoneStage(Operation)
  BY <1>1, <1>2, HeadsAndTails DEF Stage, GrowStage, ShrinkStage, MoveStage, CreateStage
<1>4. /\ part = ops[next].to /\ length = ops[next].to /\ (sound => inner <= part - Offset)
      /\ ops[next].name = "resize" /\ sound => inner = Room /\ mapping = Room
  BY <1>3 DEF DoneStage, Stands, Operation
<1>5. CASE next = Len(ops)
  <2>1. phase' = "success" /\ UNCHANGED <<next, todo, sound>>
    BY <1>5 DEF EndOperation
  <2>2. target = ops[Len(ops)].to
    BY <1>2, EmptySeq DEF IInv, Chained
  <2>3. TypeOK'
    BY <1>1, <2>1 DEF IInv, TypeOK, disk, kernel, object
  <2>4. KeptWhole' /\ SuccessFills'
    BY <1>1, <1>4, <1>5, <2>1, <2>2 DEF KeptWhole, SuccessFills, Room, disk, kernel
  <2> QED
    BY <1>1, <1>2, <2>1, <2>3, <2>4 DEF IInv, Chained, Pending
<1>6. CASE next # Len(ops)
  <2>1. /\ phase' = phase /\ next' = next + 1 /\ todo' = Jobs(ops[next + 1])
        /\ sound' = (sound /\ (ops[next + 1].name = "resize" => payload = Room))
    BY <1>6 DEF EndOperation
  <2>2. next + 1 \in 1 .. Len(ops) /\ next \in 1 .. Len(ops) - 1
    BY <1>2, <1>6
  <2>3. ops[next + 1].from = ops[next].to
    BY <2>2 DEF IInv, Chained
  <2>4. Stage(Operation)'
    BY <1>1, <1>4, <2>1, <2>2, <2>3, BeginStage DEF Stands, disk, kernel, object
  <2>5. TypeOK'
    BY <1>1, <1>2, <2>1, <2>2 DEF IInv, TypeOK, disk, kernel, object
  <2> QED
    BY <1>1, <1>4, <2>1, <2>2, <2>4, <2>5
    DEF IInv, Chained, Pending, KeptWhole, SuccessFills, Room, disk, kernel
<1> QED
  BY <1>5, <1>6

\* The operation that is executed is one of the stack's.
LEMMA OperationType ==
    ASSUME IInv, phase = "executing"
    PROVE  /\ next \in 1 .. Len(ops) /\ Operation \in Operations
           /\ Operation.from \in Lengths /\ Operation.to \in Lengths
           /\ Operation.from \in Int /\ Operation.to \in Int
           /\ (Operation.name = "resize") = (Operation.from # Operation.to)
<1>1. next \in 1 .. Len(ops) /\ ops \in Seq(Operations)
  BY DEF IInv, TypeOK
<1>2. Operation \in Operations
  BY <1>1 DEF Operation
<1>3. Operation.from \in Lengths /\ Operation.to \in Lengths
  BY <1>2 DEF Operations
<1>4. Operation.from \in Int /\ Operation.to \in Int
  BY <1>3, LuksAssumption DEF Lengths
<1> QED
  BY <1>1, <1>2, <1>3, <1>4 DEF IInv, Chained, Operation

\* A command fails: a grow takes the partition back before it ends, the rest stops.
LEMMA CommandFailsStep == ASSUME IInv, CommandFails PROVE IInv'
<1> DEFINE o == Operation
<1>1. /\ phase = "executing" /\ todo # << >> /\ Head(todo) # "setLastSector"
      /\ UNCHANGED <<disk, kernel, object, length, target, ops, next, steady, sound>>
  BY DEF CommandFails
<1>2. TypeOK' /\ Chained' /\ Pending'
  BY <1>1 DEF CommandFails, IInv, TypeOK, Chained, Pending, disk, kernel, object
<1>3. KeptWhole' /\ UNCHANGED Operation
  BY <1>1 DEF IInv, KeptWhole, Room, Operation, disk
<1>4. CASE o.name = "resize" /\ o.to > o.from /\ Head(todo) \in {"growMapping", "growInner", "unsupported"}
  <2>1. todo' = <<"restore">> /\ phase' = phase
    BY <1>4 DEF CommandFails
  <2>2. o \in Operations /\ o.from \in Int /\ o.to \in Int /\ o.name = "resize" /\ next \in 1 .. Len(ops)
    BY <1>1, <1>4, OperationType DEF IInv
  <2>3. Growing(o) /\ GrowStage(o)
    BY <1>1, <1>4, <2>2 DEF IInv, Stage, Growing, Shrinking, DoneStage
  <2>4. Payload(o) /\ Stands(o.to, o.from, o.from)
    BY <1>4, <2>3, HeadsAndTails DEF GrowStage
  <2>5. Stage(Operation)'
    BY <1>1, <1>3, <2>1, <2>3, <2>4 DEF Stage, GrowStage, Growing, Payload, Stands, disk, object
  <2> QED
    BY <1>1, <1>2, <1>3, <2>1, <2>2, <2>5 DEF IInv, SuccessFills
<1>5. CASE ~(o.name = "resize" /\ o.to > o.from /\ Head(todo) \in {"growMapping", "growInner", "unsupported"})
  <2>1. phase' = "error"
    BY <1>5 DEF CommandFails
  <2> QED
    BY <1>2, <1>3, <2>1 DEF IInv, SuccessFills
<1> QED
  BY <1>4, <1>5

\* What each command does.
LEMMA Effects ==
    ASSUME CommandSucceeds, NEW c, c = Head(todo)
    PROVE  /\ phase = "executing" /\ todo # << >> /\ todo' = Tail(todo) /\ c # "unsupported"
           /\ UNCHANGED <<inUse, object, target, ops, next, sound>>
           /\ part' = IF c = "geometry" THEN Operation.to
                      ELSE IF c = "restore" THEN Operation.from ELSE part
           /\ c \in {"shrinkInner", "growInner"} => inner' = NewPayload
           /\ c \notin {"shrinkInner", "growInner", "luksFormat", "createInner"} => inner' = inner
           /\ c = "luksFormat" => inner' = 0
           /\ c = "createInner" => inner' = mapping
           /\ c \in {"growMapping", "open"} => mapping' = Room
           /\ c = "shrinkMapping" => mapping' = NewPayload
           /\ c \notin {"growMapping", "open", "shrinkMapping"} => mapping' = mapping
           /\ length' = IF c = "setLastSector" THEN Operation.to ELSE length
           /\ phase' = IF c = "restore" THEN "error" ELSE phase
           /\ c = "shrinkInner" => NewPayload \in InnerUsed .. mapping
           /\ c = "growInner" => NewPayload \in inner .. mapping
           /\ place' \in {place, 1 - place} /\ mappedPlace' \in {place, mappedPlace}
           /\ steady' \in {steady, FALSE}
BY DEF CommandSucceeds, Possible

\* What is known of the operation and the disk before a command.
LEMMA Operands ==
    ASSUME IInv, CommandSucceeds
    PROVE  /\ Operation.from \in Int /\ Operation.to \in Int /\ Offset \in Nat
           /\ inner \in Nat /\ mapping \in Nat /\ payload \in Int /\ part \in Int /\ Room \in Nat
           /\ Operation.from - Offset \in Nat /\ Operation.to - Offset \in Nat
           /\ Operation' = Operation /\ payload' = payload /\ sound' = sound /\ KeptWhole
           /\ isCryptOpen' = isCryptOpen
           /\ InnerUsed \in Nat
<1>1. phase = "executing"
  BY DEF CommandSucceeds
<1>2. /\ part \in Lengths /\ inner \in Nat /\ mapping \in Nat /\ payload \in Int
      /\ Operation.from \in Lengths /\ Operation.to \in Lengths
  BY <1>1, OperationType DEF IInv, TypeOK
<1>3. UNCHANGED <<object, ops, next, sound>>
  BY DEF CommandSucceeds
<1>4. Operation' = Operation /\ payload' = payload /\ sound' = sound /\ isCryptOpen' = isCryptOpen
  BY <1>3 DEF Operation, object
<1> QED
  BY <1>2, <1>4, LuksAssumption DEF IInv, Lengths, Room

\* One command of a grow.
LEMMA GrowCommand ==
    ASSUME IInv, CommandSucceeds, Growing(Operation), GrowStage(Operation), NEW c, c = Head(todo)
    PROVE  /\ inner' \in Nat /\ mapping' \in Nat /\ KeptWhole'
           /\ phase' = "executing" => Stage(Operation)'
<1> DEFINE o == Operation
<1>1. /\ o.from \in Int /\ o.to \in Int /\ o.from < o.to /\ o.name = "resize" /\ Offset \in Nat
      /\ inner \in Nat /\ mapping \in Nat /\ payload \in Int /\ part \in Int
      /\ o.from - Offset \in Nat /\ o.to - Offset \in Nat
      /\ Operation' = o /\ payload' = payload /\ sound' = sound /\ isCryptOpen' = isCryptOpen /\ KeptWhole
  BY Operands DEF Growing
<1>2. Growing(o)' /\ Payload(o)' /\ Payload(o)
  BY <1>1 DEF Growing, GrowStage, Payload
<1>3. SUFFICES /\ inner' \in Nat /\ mapping' \in Nat /\ KeptWhole'
               /\ phase' = "executing" => GrowStage(Operation)' \/ DoneStage(Operation)'
  BY <1>2 DEF Stage
<1>4. CASE /\ todo = <<"check", "geometry", "growMapping", "growInner", "setLastSector">> /\ isCryptOpen
           /\ Stands(o.from, o.from, o.from)
  <2>1. c = "check" /\ Tail(todo) = <<"geometry", "growMapping", "growInner", "setLastSector">>
    BY <1>4
  <2>2. /\ todo' = <<"geometry", "growMapping", "growInner", "setLastSector">>
        /\ part' = part /\ length' = length /\ inner' = inner /\ mapping' = mapping
    BY <2>1, Effects
  <2> QED
    BY <1>1, <1>2, <1>4, <2>2 DEF GrowStage, Stands, KeptWhole, Room
<1>5. CASE /\ todo = <<"check", "geometry", "unsupported">>
           /\ Stands(o.from, o.from, o.from)
  <2>1. c = "check" /\ Tail(todo) = <<"geometry", "unsupported">>
    BY <1>5
  <2>2. /\ todo' = <<"geometry", "unsupported">>
        /\ part' = part /\ length' = length /\ inner' = inner /\ mapping' = mapping
    BY <2>1, Effects
  <2> QED
    BY <1>1, <1>2, <1>5, <2>2 DEF GrowStage, Stands, KeptWhole, Room
<1>6. CASE /\ todo = <<"geometry", "growMapping", "growInner", "setLastSector">> /\ isCryptOpen
           /\ Stands(o.from, o.from, o.from)
  <2>1. c = "geometry" /\ Tail(todo) = <<"growMapping", "growInner", "setLastSector">>
    BY <1>6
  <2>2. /\ todo' = <<"growMapping", "growInner", "setLastSector">>
        /\ part' = o.to /\ length' = length /\ inner' = inner /\ mapping' = mapping
    BY <2>1, Effects
  <2> QED
    BY <1>1, <1>2, <1>6, <2>2 DEF GrowStage, Stands, KeptWhole, Room
<1>7. CASE /\ todo = <<"geometry", "unsupported">>
           /\ Stands(o.from, o.from, o.from)
  <2>1. c = "geometry" /\ Tail(todo) = <<"unsupported">>
    BY <1>7
  <2>2. /\ todo' = <<"unsupported">>
        /\ part' = o.to /\ length' = length /\ inner' = inner /\ mapping' = mapping
    BY <2>1, Effects
  <2> QED
    BY <1>1, <1>2, <1>7, <2>2 DEF GrowStage, Stands, KeptWhole, Room
<1>8. CASE /\ todo = <<"growMapping", "growInner", "setLastSector">> /\ isCryptOpen
           /\ Stands(o.to, o.from, o.from)
  <2>1. c = "growMapping" /\ Tail(todo) = <<"growInner", "setLastSector">>
    BY <1>8
  <2>2. /\ todo' = <<"growInner", "setLastSector">>
        /\ part' = part /\ length' = length /\ inner' = inner /\ mapping' = o.to - Offset
    BY <1>8, <2>1, Effects DEF Stands, Room
  <2> QED
    BY <1>1, <1>2, <1>8, <2>2 DEF GrowStage, Stands, KeptWhole, Room
<1>9. CASE /\ todo = <<"growInner", "setLastSector">> /\ mapping = o.to - Offset
           /\ Stands(o.to, o.from, o.from)
  <2>1. c = "growInner" /\ Tail(todo) = <<"setLastSector">>
    BY <1>9
  <2>2. /\ todo' = <<"setLastSector">> /\ NewPayload \in inner .. mapping
        /\ part' = part /\ length' = length /\ inner' = NewPayload /\ mapping' = mapping
    BY <2>1, Effects
  <2>3. sound => NewPayload = o.to - Offset
    BY <1>1, <1>2, <1>9 DEF Payload, Stands, NewPayload
  <2>4. NewPayload \in Nat
    BY <1>1, <2>2
  <2>5. inner' \in Nat /\ mapping' \in Nat /\ KeptWhole'
    BY <1>1, <1>9, <2>2, <2>3, <2>4 DEF Stands, KeptWhole, Room
  <2>6. Stands(o.to, o.from, o.to)' /\ (sound' => inner' = o.to - Offset)
    BY <1>1, <1>9, <2>2, <2>3 DEF Stands
  <2> QED
    BY <1>1, <1>2, <1>9, <2>2, <2>5, <2>6 DEF GrowStage
<1>10. CASE /\ todo = <<"setLastSector">> /\ mapping = o.to - Offset
            /\ Stands(o.to, o.from, o.to) /\ (sound => inner = o.to - Offset)
  <2>1. c = "setLastSector" /\ Tail(todo) = << >>
    BY <1>10
  <2>2. /\ todo' = << >>
        /\ part' = part /\ length' = o.to /\ inner' = inner /\ mapping' = mapping
    BY <2>1, Effects
  <2> QED
    BY <1>1, <1>2, <1>10, <2>2 DEF DoneStage, Stands, KeptWhole, Room
<1>11. CASE todo = <<"unsupported">>
  <2>1. c = "unsupported"
    BY <1>11
  <2> QED
    BY <2>1, Effects
<1>12. CASE todo = <<"restore">> /\ Stands(o.to, o.from, o.from)
  <2>1. c = "restore"
    BY <1>12
  <2>2. part' = o.from /\ inner' = inner /\ mapping' = mapping /\ phase' = "error"
    BY <2>1, Effects
  <2> QED
    BY <1>1, <1>12, <2>2 DEF Stands, KeptWhole, Room
<1> QED
  BY <1>4, <1>5, <1>6, <1>7, <1>8, <1>9, <1>10, <1>11, <1>12 DEF GrowStage

\* One command of a shrink.
LEMMA ShrinkCommand ==
    ASSUME IInv, CommandSucceeds, Shrinking(Operation), ShrinkStage(Operation), NEW c, c = Head(todo)
    PROVE  /\ inner' \in Nat /\ mapping' \in Nat /\ KeptWhole'
           /\ phase' = "executing" => Stage(Operation)'
<1> DEFINE o == Operation
<1>1. /\ o.from \in Int /\ o.to \in Int /\ o.to < o.from /\ o.name = "resize" /\ Offset \in Nat
      /\ inner \in Nat /\ mapping \in Nat /\ payload \in Int /\ part \in Int /\ Room \in Nat
      /\ o.from - Offset \in Nat /\ o.to - Offset \in Nat
      /\ Operation' = o /\ payload' = payload /\ sound' = sound /\ isCryptOpen' = isCryptOpen /\ KeptWhole
  BY Operands DEF Shrinking
<1>2. Shrinking(o)' /\ Payload(o)' /\ Payload(o) /\ InnerUsed \in Nat
  BY <1>1, Operands DEF Shrinking, ShrinkStage, Payload
<1>3. SUFFICES /\ inner' \in Nat /\ mapping' \in Nat /\ KeptWhole'
               /\ phase' = "executing" => ShrinkStage(Operation)' \/ DoneStage(Operation)'
  BY <1>2 DEF Stage
<1>4. CASE /\ todo = <<"check", "shrinkInner", "shrinkMapping", "setLastSector", "geometry">> /\ isCryptOpen
           /\ Stands(o.from, o.from, o.from)
  <2>1. c = "check" /\ Tail(todo) = <<"shrinkInner", "shrinkMapping", "setLastSector", "geometry">>
    BY <1>4
  <2>2. /\ todo' = <<"shrinkInner", "shrinkMapping", "setLastSector", "geometry">>
        /\ part' = part /\ length' = length /\ inner' = inner /\ mapping' = mapping
    BY <1>4, <2>1, Effects DEF Stands, Room
  <2> QED
    BY <1>1, <1>2, <1>4, <2>2 DEF ShrinkStage, Stands, KeptWhole, Room
<1>5. CASE /\ todo = <<"check", "unsupported", "geometry">>
           /\ Stands(o.from, o.from, o.from)
  <2>1. c = "check" /\ Tail(todo) = <<"unsupported", "geometry">>
    BY <1>5
  <2>2. /\ todo' = <<"unsupported", "geometry">>
        /\ part' = part /\ length' = length /\ inner' = inner /\ mapping' = mapping
    BY <1>5, <2>1, Effects DEF Stands, Room
  <2> QED
    BY <1>1, <1>2, <1>5, <2>2 DEF ShrinkStage, Stands, KeptWhole, Room
<1>6. CASE /\ todo = <<"shrinkInner", "shrinkMapping", "setLastSector", "geometry">> /\ isCryptOpen
           /\ Stands(o.from, o.from, o.from)
  <2>1. c = "shrinkInner" /\ Tail(todo) = <<"shrinkMapping", "setLastSector", "geometry">>
    BY <1>6
  <2>2. /\ todo' = <<"shrinkMapping", "setLastSector", "geometry">> /\ NewPayload \in InnerUsed .. mapping
        /\ part' = part /\ length' = length /\ inner' = NewPayload /\ mapping' = mapping
    BY <1>6, <2>1, Effects DEF Stands, Room
  <2>3. sound => NewPayload = o.to - Offset
    BY <1>1, <1>2, <1>6 DEF Payload, Stands, NewPayload
  <2>4. inner' \in Nat /\ mapping' \in Nat /\ inner' = payload' + (o.to - length') /\ inner' >= InnerUsed
    BY <1>1, <1>2, <2>2 DEF NewPayload
  <2>5. KeptWhole'
    BY <1>1, <1>6, <2>2, <2>3 DEF Stands, KeptWhole, Room
  <2>6. Stands(o.from, o.from, o.to)'
    BY <1>1, <1>6, <2>2, <2>3 DEF Stands
  <2> QED
    BY <1>1, <1>2, <1>6, <2>2, <2>4, <2>5, <2>6 DEF ShrinkStage
<1>7. CASE /\ todo = <<"shrinkMapping", "setLastSector", "geometry">> /\ isCryptOpen
           /\ Stands(o.from, o.from, o.to) /\ inner = payload + (o.to - length) /\ inner >= InnerUsed
  <2>1. c = "shrinkMapping" /\ Tail(todo) = <<"setLastSector", "geometry">>
    BY <1>7
  <2>2. /\ todo' = <<"setLastSector", "geometry">>
        /\ part' = part /\ length' = length /\ inner' = inner /\ mapping' = NewPayload
    BY <1>7, <2>1, Effects DEF Stands, Room
  <2>3. NewPayload = inner /\ (sound => inner = o.to - Offset)
    BY <1>1, <1>2, <1>7 DEF Payload, Stands, NewPayload
  <2>4. inner' \in Nat /\ mapping' \in Nat /\ KeptWhole'
    BY <1>1, <1>7, <2>2, <2>3 DEF Stands, KeptWhole, Room
  <2>5. /\ Stands(o.from, length, o.to)' /\ length' = o.from
        /\ sound' => inner' = o.to - Offset /\ mapping' = o.to - Offset
    BY <1>1, <1>7, <2>2, <2>3 DEF Stands
  <2> QED
    BY <1>1, <1>2, <2>2, <2>4, <2>5 DEF ShrinkStage
<1>8. CASE /\ todo = <<"setLastSector", "geometry">>
           /\ Stands(o.from, length, o.to) /\ (sound => inner = o.to - Offset /\ mapping = o.to - Offset) /\ length = o.from
  <2>1. c = "setLastSector" /\ Tail(todo) = <<"geometry">>
    BY <1>8
  <2>2. /\ todo' = <<"geometry">>
        /\ part' = part /\ length' = o.to /\ inner' = inner /\ mapping' = mapping
    BY <1>8, <2>1, Effects DEF Stands, Room
  <2> QED
    BY <1>1, <1>2, <1>8, <2>2 DEF ShrinkStage, Stands, KeptWhole, Room
<1>9. CASE /\ todo = <<"geometry">>
           /\ Stands(o.from, length, o.to) /\ (sound => inner = o.to - Offset /\ mapping = o.to - Offset) /\ length = o.to
  <2>1. c = "geometry" /\ Tail(todo) = << >>
    BY <1>9
  <2>2. /\ todo' = << >>
        /\ part' = o.to /\ length' = length /\ inner' = inner /\ mapping' = mapping
    BY <1>9, <2>1, Effects DEF Stands, Room
  <2> QED
    BY <1>1, <1>2, <1>9, <2>2 DEF DoneStage, Stands, KeptWhole, Room
<1>10. CASE todo = <<"unsupported", "geometry">>
  <2>1. c = "unsupported"
    BY <1>10
  <2> QED
    BY <2>1, Effects
<1> QED
  BY <1>4, <1>5, <1>6, <1>7, <1>8, <1>9, <1>10 DEF ShrinkStage

\* One command of a move.
LEMMA MoveCommand ==
    ASSUME IInv, CommandSucceeds, Operation.name = "move", MoveStage(Operation), NEW c, c = Head(todo)
    PROVE  /\ inner' \in Nat /\ mapping' \in Nat /\ KeptWhole'
           /\ phase' = "executing" => Stage(Operation)'
<1> DEFINE o == Operation
<1>1. /\ o.from \in Int /\ o.to \in Int /\ o.to = o.from /\ o.name = "move" /\ Offset \in Nat
      /\ inner \in Nat /\ mapping \in Nat /\ payload \in Int /\ part \in Int /\ Room \in Nat
      /\ o.from - Offset \in Nat /\ o.to - Offset \in Nat
      /\ Operation' = o /\ payload' = payload /\ sound' = sound /\ isCryptOpen' = isCryptOpen /\ KeptWhole
  <2>1. phase = "executing"
    BY DEF CommandSucceeds
  <2> QED
    BY <2>1, Operands, OperationType
<1>2. SUFFICES /\ inner' \in Nat /\ mapping' \in Nat /\ KeptWhole'
               /\ phase' = "executing" => MoveStage(Operation)' \/ DoneStage(Operation)'
  BY <1>1 DEF Stage
<1>3. CASE /\ todo = <<"check", "move">>
           /\ Stands(o.from, o.from, o.from)
  <2>1. c = "check" /\ Tail(todo) = <<"move">>
    BY <1>3
  <2>2. /\ todo' = <<"move">>
        /\ part' = part /\ length' = length /\ inner' = inner /\ mapping' = mapping
    BY <1>3, <2>1, Effects DEF Stands, Room
  <2> QED
    BY <1>1, <1>2, <1>3, <2>2 DEF MoveStage, Stands, KeptWhole, Room
<1>4. CASE /\ todo = <<"move">>
           /\ Stands(o.from, o.from, o.from)
  <2>1. c = "move" /\ Tail(todo) = << >>
    BY <1>4
  <2>2. /\ todo' = << >>
        /\ part' = part /\ length' = length /\ inner' = inner /\ mapping' = mapping
    BY <1>4, <2>1, Effects DEF Stands, Room
  <2> QED
    BY <1>1, <1>2, <1>4, <2>2 DEF DoneStage, Stands, KeptWhole, Room
<1> QED
  BY <1>3, <1>4 DEF MoveStage

\* One command of a format.
LEMMA CreateCommand ==
    ASSUME IInv, CommandSucceeds, Operation.name = "create", CreateStage(Operation), NEW c, c = Head(todo)
    PROVE  /\ inner' \in Nat /\ mapping' \in Nat /\ KeptWhole'
           /\ phase' = "executing" => Stage(Operation)'
<1> DEFINE o == Operation
<1>1. /\ o.from \in Int /\ o.to \in Int /\ o.to = o.from /\ o.name = "create" /\ Offset \in Nat
      /\ inner \in Nat /\ mapping \in Nat /\ payload \in Int /\ part \in Int /\ Room \in Nat
      /\ o.from - Offset \in Nat /\ o.to - Offset \in Nat
      /\ Operation' = o /\ payload' = payload /\ sound' = sound /\ isCryptOpen' = isCryptOpen /\ KeptWhole
  <2>1. phase = "executing"
    BY DEF CommandSucceeds
  <2> QED
    BY <2>1, Operands, OperationType
<1>2. SUFFICES /\ inner' \in Nat /\ mapping' \in Nat /\ KeptWhole'
               /\ phase' = "executing" => CreateStage(Operation)' \/ DoneStage(Operation)'
  BY <1>1 DEF Stage
<1>3. CASE /\ todo = <<"luksFormat", "open", "createInner">>
           /\ Stands(o.from, o.from, o.from)
  <2>1. c = "luksFormat" /\ Tail(todo) = <<"open", "createInner">>
    BY <1>3
  <2>2. /\ todo' = <<"open", "createInner">>
        /\ part' = part /\ length' = length /\ inner' = 0 /\ mapping' = mapping
    BY <1>3, <2>1, Effects DEF Stands, Room
  <2> QED
    BY <1>1, <1>2, <1>3, <2>2 DEF CreateStage, Stands, KeptWhole, Room
<1>4. CASE /\ todo = <<"open", "createInner">>
           /\ Stands(o.from, o.from, o.from)
  <2>1. c = "open" /\ Tail(todo) = <<"createInner">>
    BY <1>4
  <2>2. /\ todo' = <<"createInner">>
        /\ part' = part /\ length' = length /\ inner' = inner /\ mapping' = o.from - Offset
    BY <1>4, <2>1, Effects DEF Stands, Room
  <2> QED
    BY <1>1, <1>2, <1>4, <2>2 DEF CreateStage, Stands, KeptWhole, Room
<1>5. CASE /\ todo = <<"createInner">>
           /\ Stands(o.from, o.from, o.from) /\ mapping = o.from - Offset
  <2>1. c = "createInner" /\ Tail(todo) = << >>
    BY <1>5
  <2>2. /\ todo' = << >>
        /\ part' = part /\ length' = length /\ inner' = mapping /\ mapping' = mapping
    BY <1>5, <2>1, Effects DEF Stands, Room
  <2> QED
    BY <1>1, <1>2, <1>5, <2>2 DEF DoneStage, Stands, KeptWhole, Room
<1> QED
  BY <1>3, <1>4, <1>5 DEF CreateStage

\* Any command that succeeds.
LEMMA CommandSucceedsStep == ASSUME IInv, CommandSucceeds PROVE IInv'
<1> DEFINE o == Operation
<1>1. PICK c : c = Head(todo)
  OBVIOUS
<1>2. /\ phase = "executing" /\ todo # << >> /\ todo' = Tail(todo)
      /\ UNCHANGED <<inUse, object, target, ops, next, sound>>
      /\ part' \in {o.to, o.from, part} /\ length' \in {o.to, length} /\ phase' \in {"error", phase}
      /\ place' \in {place, 1 - place} /\ mappedPlace' \in {place, mappedPlace} /\ steady' \in {steady, FALSE}
  BY <1>1, Effects
<1>3. next \in 1 .. Len(ops) /\ o.from \in Lengths /\ o.to \in Lengths /\ Stage(Operation)
  BY <1>2, OperationType DEF IInv
<1>4. /\ inner' \in Nat /\ mapping' \in Nat /\ KeptWhole'
      /\ phase' = "executing" => Stage(Operation)'
  <2>1. CASE Growing(o) /\ GrowStage(o)
    BY <1>1, <2>1, GrowCommand
  <2>2. CASE Shrinking(o) /\ ShrinkStage(o)
    BY <1>1, <2>2, ShrinkCommand
  <2>3. CASE o.name = "move" /\ MoveStage(o)
    BY <1>1, <2>3, MoveCommand
  <2>4. CASE o.name = "create" /\ CreateStage(o)
    BY <1>1, <2>4, CreateCommand
  <2>5. CASE DoneStage(o)
    BY <1>2, <2>5 DEF DoneStage
  <2> QED
    BY <1>3, <2>1, <2>2, <2>3, <2>4, <2>5 DEF Stage
<1>5. TypeOK'
  <2>1. /\ place' \in {0, 1} /\ mappedPlace' \in {0, 1} /\ part' \in Lengths /\ length' \in Lengths
        /\ target' \in Lengths /\ phase' \in {"executing", "error"}
    BY <1>2, <1>3 DEF IInv, TypeOK
  <2>2. /\ payload' \in Int /\ inUse' \in BOOLEAN /\ isCryptOpen' \in BOOLEAN /\ isMounted' \in BOOLEAN
        /\ innerFs' \in BOOLEAN /\ mapperName' \in BOOLEAN /\ steady' \in BOOLEAN /\ sound' \in BOOLEAN
    BY <1>2, Zenon DEF IInv, TypeOK, object
  <2>3. ops' \in Seq(Operations) /\ next' \in 0 .. Len(ops')
    BY <1>2 DEF IInv, TypeOK
  <2>4. ratio' \in Ratios
    BY DEF CommandSucceeds, IInv, TypeOK
  <2> QED
    BY <1>4, <2>1, <2>2, <2>3, <2>4 DEF TypeOK
<1>6. Chained' /\ Pending' /\ SuccessFills'
  BY <1>2 DEF IInv, Chained, Pending, SuccessFills
<1> QED
  BY <1>2, <1>3, <1>4, <1>5, <1>6 DEF IInv

\* The check after a resize or a move fails: the run ends as it stands.
LEMMA CheckResizedFailsStep == ASSUME IInv, CheckResizedFails PROVE IInv'
<1>1. /\ phase = "executing" /\ phase' = "error"
      /\ UNCHANGED <<disk, kernel, object, length, target, ops, next, todo, steady, sound>>
  BY DEF CheckResizedFails
<1>2. TypeOK'
  BY <1>1 DEF IInv, TypeOK, disk, kernel, object
<1> QED
  BY <1>1, <1>2 DEF IInv, Chained, Pending, KeptWhole, SuccessFills, Room, disk

\* Every step, and a stutter, keeps the invariant.
LEMMA StepInv == IInv /\ [Next]_vars => IInv'
<1> SUFFICES ASSUME IInv, [Next]_vars PROVE IInv'
  OBVIOUS
<1>1. CASE Rescan
  BY <1>1, RescanStep
<1>2. CASE CryptOpen \/ CryptOpenUnseen \/ CryptClose \/ Mount \/ Unmount
  BY <1>2, FrontEndStep
<1>3. CASE PushResize \/ PushMove \/ PushCreate
  BY <1>3, PushStep
<1>4. CASE Pop
  BY <1>4, PopStep
<1>5. CASE Apply
  BY <1>5, ApplyStep
<1>6. CASE CommandSucceeds
  BY <1>6, CommandSucceedsStep
<1>7. CASE CommandFails
  BY <1>7, CommandFailsStep
<1>8. CASE EndOperation
  BY <1>8, EndOperationStep
<1>9. CASE CheckResizedFails
  BY <1>9, CheckResizedFailsStep
<1>10. CASE UNCHANGED vars
  <2>1. UNCHANGED <<disk, kernel, object, length, target, ops, phase, next, todo, steady, sound>>
    BY <1>10 DEF vars, runner
  <2>2. TypeOK' /\ Chained' /\ Pending' /\ KeptWhole' /\ SuccessFills'
    BY <2>1 DEF IInv, TypeOK, Chained, Pending, KeptWhole, SuccessFills, Room, disk, kernel, object
  <2>3. Stage(Operation) => Stage(Operation)'
    BY <2>1 DEF Stage, Growing, Shrinking, GrowStage, ShrinkStage, MoveStage, CreateStage, DoneStage,
                Payload, Stands, Operation, Room, disk, kernel, object
  <2> QED
    BY <2>1, <2>2, <2>3 DEF IInv
<1> QED
  BY <1>1, <1>2, <1>3, <1>4, <1>5, <1>6, <1>7, <1>8, <1>9, <1>10 DEF Next, Run

--------------------------------------------------------------------------------
(* Where the mapping points.  A second invariant, inductive relative to    *)
(* the first: while nobody changes the container behind a pending          *)
(* operation, a container with a mapping is open for its object too, but   *)
(* for the last operation of the stack when that is a format.              *)

Moves == \E k \in 1 .. Len(ops) : ops[k].name = "move"

\* What a mapping means while operations run.
Running ==
    phase = "executing" /\ mapping # 0 =>
        isCryptOpen \/ (next = Len(ops) /\ todo \in {<<"createInner">>, << >>})

Placed ==
    /\ OpenHasInner
    /\ steady => /\ phase = "pending" /\ mapping # 0 => isCryptOpen
                 /\ Moves => ~isCryptOpen
                 /\ Running
    /\ MappedAsPlaced

\* A new object finds a mapping that is where it was.
LEMMA PlacedInit == Init => Placed
<1> SUFFICES ASSUME Init PROVE Placed
  OBVIOUS
<1>1. Len(<< >>) = 0
  BY EmptySeq
<1>2. /\ mapperName = (mapping # 0) /\ isCryptOpen = (mapping # 0) /\ innerFs = (mapping # 0)
      /\ ops = << >> /\ phase = "pending" /\ place = 0 /\ mappedPlace = 0
  BY DEF Init
<1>3. ~Moves
  BY <1>1, <1>2 DEF Moves
<1>4. OpenHasInner
  BY <1>2 DEF OpenHasInner
<1> QED
  BY <1>2, <1>3, <1>4 DEF Placed, Running, MappedAsPlaced

\* The scan, the front end and the stack.
LEMMA PlacedFrontEnd ==
    ASSUME IInv, Placed,
           Rescan \/ CryptOpen \/ CryptOpenUnseen \/ CryptClose \/ Mount \/ Unmount
    PROVE  Placed'
<1>1. /\ ops = << >> => ~Moves
      /\ ops' = << >> => ~Moves'
  <2>1. Len(<< >>) = 0
    BY EmptySeq
  <2> QED
    BY <2>1 DEF Moves
<1>2. Room # 0
  <2>1. part \in Lengths /\ Offset \in Nat /\ InnerUsed \in Nat \ {0} /\ MaxLength \in Nat
    BY LuksAssumption DEF IInv, TypeOK
  <2> QED
    BY <2>1 DEF Lengths, Room
<1>3. CASE Rescan
  <2>1. PICK garbage \in 0 .. MaxLength : Scanned(garbage)
    BY <1>3 DEF Rescan
  <2>2. UNCHANGED <<disk, kernel, steady, sound>>
    BY <1>3 DEF Rescan
  <2>3. /\ mapperName' = (mapping # 0) /\ isCryptOpen' = (mapping # 0) /\ innerFs' = (mapping # 0)
        /\ ops' = << >> /\ phase' = "pending"
    BY <2>1 DEF Scanned
  <2>4. OpenHasInner'
    BY <2>2, <2>3 DEF OpenHasInner, kernel
  <2> QED
    BY <1>1, <2>2, <2>3, <2>4 DEF Placed, Running, MappedAsPlaced, disk, kernel
<1>4. CASE CryptOpen
  BY <1>1, <1>2, <1>4 DEF CryptOpen, FrontEnd, Elsewhere, Placed, OpenHasInner, Running,
                    MappedAsPlaced, disk, runner
<1>5. CASE CryptOpenUnseen
  BY <1>5 DEF CryptOpenUnseen, CanCryptOpen, Elsewhere, Placed, OpenHasInner, MappedAsPlaced, disk, runner
<1>6. CASE CryptClose
  BY <1>6 DEF CryptClose, FrontEnd, Elsewhere, Placed, OpenHasInner, Moves, Running,
              MappedAsPlaced, disk, runner
<1>7. CASE Mount \/ Unmount
  <2>1. /\ phase = "pending" /\ steady' \in {steady, FALSE} /\ (steady' => steady)
        /\ UNCHANGED <<mapping, mappedPlace, isCryptOpen, innerFs, mapperName, place, ops, phase, next, todo>>
    BY <1>7 DEF Mount, Unmount, FrontEnd, Elsewhere, disk, runner
  <2> QED
    BY <2>1 DEF Placed, OpenHasInner, Moves, Running, MappedAsPlaced
<1> QED
  BY <1>3, <1>4, <1>5, <1>6, <1>7

\* Pushing and popping: a move is only pushed when the object is not open, and while it is pending
\* a change of the container is recorded.
LEMMA PlacedStack ==
    ASSUME IInv, Placed, PushResize \/ PushMove \/ PushCreate \/ Pop
    PROVE  Placed'
<1>1. /\ phase = "pending"
      /\ UNCHANGED <<disk, kernel, object, length, runner, steady, sound>>
  BY DEF PushResize, PushMove, PushCreate, Push, Pop
<1>2. ops \in Seq(Operations) /\ Len(ops) \in Nat
  BY DEF IInv, TypeOK
<1>3. Moves' => Moves \/ ~isCryptOpen
  <2>1. CASE Pop
    <3>1. ops' = SubSeq(ops, 1, Len(ops) - 1) /\ ops # << >>
      BY <2>1 DEF Pop
    <3>2. Len(ops') = Len(ops) - 1 /\ \A k \in 1 .. Len(ops) - 1 : ops'[k] = ops[k]
      BY <1>2, <3>1, Shortened
    <3> QED
      BY <1>2, <3>2 DEF Moves
  <2>2. CASE PushMove
    BY <2>2 DEF PushMove, SupportMove
  <2>3. CASE PushResize \/ PushCreate
    <3>1. PICK o : ops' = Append(ops, o) /\ o.name # "move"
      <4>1. CASE PushResize
        <5>1. PICK to : Push([name |-> "resize", from |-> target, to |-> to])
          BY <4>1 DEF PushResize
        <5>2. [name |-> "resize", from |-> target, to |-> to].name # "move"
          OBVIOUS
        <5> QED
          BY <5>1, <5>2 DEF Push
      <4>2. CASE PushCreate
        <5>1. [name |-> "create", from |-> target, to |-> target].name # "move"
          OBVIOUS
        <5> QED
          BY <4>2, <5>1 DEF PushCreate, Push
      <4> QED
        BY <2>3, <4>1, <4>2
    <3>2. /\ Len(ops') = Len(ops) + 1 /\ ops'[Len(ops) + 1] = o
          /\ \A k \in 1 .. Len(ops) : ops'[k] = ops[k]
      BY <1>2, <3>1
    <3> QED
      BY <1>2, <3>1, <3>2 DEF Moves
  <2> QED
    BY <2>1, <2>2, <2>3
<1> QED
  BY <1>1, <1>3 DEF Placed, OpenHasInner, Running, MappedAsPlaced, disk, kernel, object, runner

\* The runner between the commands.
LEMMA PlacedRunner ==
    ASSUME IInv, Placed, Apply \/ CommandFails \/ CheckResizedFails \/ EndOperation
    PROVE  Placed'
<1>1. UNCHANGED <<disk, kernel, object, length, target, ops, steady>>
  BY DEF Apply, CommandFails, CheckResizedFails, EndOperation
<1>2. OpenHasInner' /\ MappedAsPlaced' /\ Moves' = Moves
  BY <1>1 DEF Placed, OpenHasInner, MappedAsPlaced, Moves, disk, kernel, object
<1>3. CASE Apply
  BY <1>1, <1>2, <1>3 DEF Apply, Placed, Running, kernel, object
<1>4. CASE EndOperation
  <2>1. ASSUME steady, phase' = "executing", mapping # 0 PROVE isCryptOpen
    BY <1>4, <2>1 DEF EndOperation, Placed, Running
  <2>2. phase = "executing" /\ phase' # "pending"
    BY <1>4 DEF EndOperation
  <2> QED
    BY <1>1, <1>2, <2>1, <2>2 DEF Placed, Running, kernel, object
<1>5. CASE CommandFails
  <2>1. /\ phase = "executing" /\ phase' # "pending" /\ next' = next
        /\ phase' = "executing" => Head(todo) \in {"growMapping", "growInner", "unsupported"} /\ todo # << >>
    BY <1>5 DEF CommandFails
  <2>2. Head(<<"createInner">>) = "createInner"
    BY HeadsAndTails
  <2>3. ASSUME steady, phase' = "executing", mapping # 0 PROVE isCryptOpen
    BY <2>1, <2>2, <2>3 DEF Placed, Running
  <2> QED
    BY <1>1, <1>2, <2>1, <2>3 DEF Placed, Running, kernel, object
<1>6. CASE CheckResizedFails
  <2>1. phase' = "error"
    BY <1>6 DEF CheckResizedFails
  <2> QED
    BY <1>1, <1>2, <2>1 DEF Placed, Running, kernel, object
<1> QED
  BY <1>3, <1>4, <1>5, <1>6

\* Which commands of which operation there are: a mapping is grown and shrunk for an open object,
\* and a list that begins with "open" ends with the file system inside.
LEMMA Heads ==
    ASSUME IInv, CommandSucceeds, NEW c, c = Head(todo)
    PROVE  /\ c \in {"growMapping", "shrinkMapping"} => isCryptOpen
           /\ c = "shrinkMapping" => NewPayload # 0
           /\ c = "open" => Tail(todo) = <<"createInner">>
           /\ c = "createInner" => Tail(todo) = << >>
           /\ c = "move" => Operation.name = "move"
<1>1. Stage(Operation) /\ todo # << >> /\ InnerUsed \in Nat \ {0} /\ inner \in Nat
  BY LuksAssumption DEF CommandSucceeds, IInv, TypeOK
<1>2. CASE GrowStage(Operation)
  BY <1>2 DEF GrowStage
<1>3. CASE ShrinkStage(Operation)
  BY <1>1, <1>3 DEF ShrinkStage, NewPayload
<1>4. CASE Operation.name = "move" /\ MoveStage(Operation)
  BY <1>4 DEF MoveStage
<1>5. CASE CreateStage(Operation)
  <2>1. CASE todo = <<"luksFormat", "open", "createInner">>
    BY <2>1
  <2>2. CASE todo = <<"open", "createInner">>
    <3>1. c = "open" /\ Tail(todo) = <<"createInner">>
      BY <2>2
    <3> QED
      BY <3>1
  <2>3. CASE todo = <<"createInner">>
    <3>1. c = "createInner" /\ Tail(todo) = << >>
      BY <2>3
    <3> QED
      BY <3>1
  <2> QED
    BY <1>5, <2>1, <2>2, <2>3 DEF CreateStage
<1>6. CASE DoneStage(Operation)
  BY <1>1, <1>6 DEF DoneStage
<1> QED
  BY <1>1, <1>2, <1>3, <1>4, <1>5, <1>6 DEF Stage

\* One command.
LEMMA PlacedCommand == ASSUME IInv, Placed, CommandSucceeds PROVE Placed'
<1> DEFINE c == Head(todo)
<1>1. /\ phase = "executing" /\ todo # << >> /\ todo' = Tail(todo)
      /\ UNCHANGED <<object, ops, next>> /\ phase' # "pending"
      /\ mapping' = CASE c = "shrinkMapping"           -> NewPayload
                      [] c \in {"growMapping", "open"} -> Room
                      [] OTHER                         -> mapping
      /\ mappedPlace' = IF c = "open" THEN place ELSE mappedPlace
      /\ place' = IF c = "move" THEN 1 - place ELSE place
      /\ steady' = (steady /\ (c = "open" => next = Len(ops)))
  BY DEF CommandSucceeds
<1>2. /\ Room # 0 /\ next \in 1 .. Len(ops)
  <2>1. part \in Lengths /\ Offset \in Nat /\ InnerUsed \in Nat \ {0} /\ MaxLength \in Nat
    BY LuksAssumption DEF IInv, TypeOK
  <2> QED
    BY <1>1, <2>1 DEF Lengths, Room, IInv
<1>3. /\ c \in {"growMapping", "shrinkMapping"} => isCryptOpen
      /\ c = "shrinkMapping" => NewPayload # 0
      /\ c = "open" => Tail(todo) = <<"createInner">>
      /\ c = "createInner" => Tail(todo) = << >>
      /\ c = "move" => Moves
  <2>1. c = "move" => Operation.name = "move"
    BY Heads
  <2> QED
    BY <1>2, <2>1, Heads DEF Moves, Operation
<1>4. Head(<<"createInner">>) = "createInner"
  BY HeadsAndTails
<1>5. OpenHasInner'
  BY <1>1, <1>2, <1>3 DEF Placed, OpenHasInner, object
<1>6. Moves' = Moves /\ isCryptOpen' = isCryptOpen /\ (steady' => steady)
  BY <1>1 DEF Moves, object
<1>7. ASSUME steady', phase' = "executing", mapping' # 0, ~isCryptOpen
      PROVE  next = Len(ops) /\ todo' \in {<<"createInner">>, << >>}
  <2>1. CASE c = "open"
    BY <1>1, <1>3, <1>7, <2>1
  <2>2. CASE c # "open"
    <3>1. mapping # 0
      BY <1>1, <1>3, <1>7, <2>2
    <3>2. next = Len(ops) /\ c = "createInner"
      BY <1>1, <1>4, <1>6, <1>7, <3>1 DEF Placed, Running
    <3> QED
      BY <1>1, <1>3, <3>2
  <2> QED
    BY <2>1, <2>2
<1>8. MappedAsPlaced'
  <2>1. SUFFICES ASSUME steady', mapping' # 0 PROVE mappedPlace' = place'
    BY DEF MappedAsPlaced
  <2>2. CASE c = "open"
    BY <1>1, <2>2
  <2>3. CASE c # "open"
    <3>1. steady /\ mapping # 0
      BY <1>1, <1>3, <1>6, <2>1, <2>3 DEF Placed, OpenHasInner
    <3>2. c # "move"
      BY <1>1, <1>3, <1>4, <3>1 DEF Placed, Running
    <3> QED
      BY <1>1, <2>3, <3>1, <3>2 DEF Placed, MappedAsPlaced
  <2> QED
    BY <2>2, <2>3
<1> QED
  BY <1>1, <1>5, <1>6, <1>7, <1>8 DEF Placed, Running

\* Every step keeps it.
LEMMA PlacedStep == IInv /\ Placed /\ [Next]_vars => Placed'
<1> SUFFICES ASSUME IInv, Placed, [Next]_vars PROVE Placed'
  OBVIOUS
<1>1. CASE Rescan \/ CryptOpen \/ CryptOpenUnseen \/ CryptClose \/ Mount \/ Unmount
  BY <1>1, PlacedFrontEnd
<1>2. CASE PushResize \/ PushMove \/ PushCreate \/ Pop
  BY <1>2, PlacedStack
<1>3. CASE Apply \/ CommandFails \/ CheckResizedFails \/ EndOperation
  BY <1>3, PlacedRunner
<1>4. CASE CommandSucceeds
  BY <1>4, PlacedCommand
<1>5. CASE UNCHANGED vars
  BY <1>5 DEF vars, disk, kernel, object, runner, Placed, OpenHasInner, Moves, Running, MappedAsPlaced
<1> QED
  BY <1>1, <1>2, <1>3, <1>4, <1>5 DEF Next, Run

--------------------------------------------------------------------------------
(* The theorems.                                                           *)

\* The invariant holds in every state: types, a stack whose operations start where the one before
\* ends, and for each command that is still to do how far disk, kernel and object are.
THEOREM ContainerInvariance == Spec => []IInv
<1>1. IInv /\ [Next]_vars => IInv'
  BY StepInv
<1> QED
  BY <1>1, InitInv, PTL DEF Spec

\* The types of disk, kernel, objects and stack.
THEOREM ContainerTypeCorrect == Spec => []TypeOK
<1>1. IInv => TypeOK
  BY DEF IInv
<1> QED
  BY <1>1, ContainerInvariance, PTL

\* The file system inside a container is never cut as long as the payload is known (luks::resize()).
THEOREM ContainerKeptWhole == Spec => []KeptWhole
<1>1. IInv => KeptWhole
  BY DEF IInv
<1> QED
  BY <1>1, ContainerInvariance, PTL

\* A resize that succeeds leaves partition, mapping, file system inside and object with the
\* lengths that were asked for (ResizeOperation and luks::resize()).
THEOREM ResizeFills == Spec => []SuccessFills
<1>1. IInv => SuccessFills
  BY DEF IInv
<1> QED
  BY <1>1, ContainerInvariance, PTL

\* A mapping points at where the partition lies, so that the file system inside is written where
\* it is, as long as nobody opens or closes the container behind a pending operation and no format,
\* which leaves the container open behind its object's back, is followed by another operation
\* (supportMove(), luks::create()).
THEOREM ContainerMappedAsPlaced == Spec => []MappedAsPlaced
<1>1. IInv /\ Placed /\ [Next]_vars => Placed'
  BY PlacedStep
<1>2. Placed => MappedAsPlaced
  BY DEF Placed
<1> QED
  BY <1>1, <1>2, PlacedInit, ContainerInvariance, PTL DEF Spec

\* m_isCryptOpen is a licence to use m_innerFs and mapperName() (mount(), unmount(), check(), resize()).
THEOREM ContainerOpenHasInner == Spec => []OpenHasInner
<1>1. IInv /\ Placed /\ [Next]_vars => Placed'
  BY PlacedStep
<1>2. Placed => OpenHasInner
  BY DEF Placed
<1> QED
  BY <1>1, <1>2, PlacedInit, ContainerInvariance, PTL DEF Spec

================================================================================
