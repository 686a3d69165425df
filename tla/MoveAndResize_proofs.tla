-------------------------- MODULE MoveAndResize_proofs --------------------------
(***************************************************************************)
(* Proofs about resizing and moving a partition: the widget in which its   *)
(* sectors are chosen, for every disk and alignment; the execution, which  *)
(* is the helper's block copy, the job that moves a file system with it,   *)
(* for every device size, chunk size, set of calls and set of moves, and   *)
(* ResizeOperation::execute() for every request.                           *)
(*                                                                         *)
(* The inductive invariant of the copy splits the range of the call at the *)
(* copy's position: what lies behind it has arrived in the target, what    *)
(* lies ahead of it is still unchanged in the source, although the two     *)
(* ranges may overlap.  The job's invariant builds on it: while the job's  *)
(* call is served, the copy's invariant speaks of the device as it was     *)
(* when the job started; while the rollback is served, of a device whose   *)
(* neighbouring partitions are as they were.                               *)
(*                                                                         *)
(* The invariant of a resize has three parts: where the table entry and    *)
(* the Partition object are before each job (Placed), how long the file    *)
(* system is (Sized) and where it is (Located).                            *)
(*                                                                         *)
(* The invariant of the widget and the layout says that the limits of a    *)
(* drag are clear of every other partition (DialogClear); these limits are *)
(* the unallocated space, which is proved to be what is between the        *)
(* partitions as long as they do not overlap.                              *)
(***************************************************************************)
EXTENDS MoveFileSystem, ResizeOperation, PartitionGeometry, WellFoundedInduction, TLAPS


--------------------------------------------------------------------------------
(* The copy, with the calls that the job makes and with any others.        *)

\* Position i of the range is behind the copy.
Copied(i) == IF Right THEN i >= call.length - ChunkSize * chunksCopied
                      ELSE i < ChunkSize * chunksCopied

Behind == \A i \in 0 .. call.length - 1 :
             Copied(i) => /\ call.target + i \in Cells
                          /\ disk[call.target + i] = before[call.source + i]

Ahead == \A i \in 0 .. call.length - 1 :
            ~Copied(i) /\ call.source + i \in Cells =>
               disk[call.source + i] = before[call.source + i]

Loaded == \A i \in 0 .. BlockSize - 1 :
             /\ ReadOffset + i \in Cells
             /\ buffer[i] = before[ReadOffset + i]

IInv == /\ TypeOK
        /\ chunksCopied <= ChunksToCopy
        /\ pc \in {"read", "write"} => success /\ Behind /\ Ahead
        /\ pc = "write" => HasBlock /\ Loaded
        /\ SuccessMeansMoved
        /\ OnlyTargetWritten

--------------------------------------------------------------------------------
(* Arithmetic of chunks and remainder.                                     *)

\* A length is its whole chunks and a remainder shorter than a chunk.
LEMMA ChunkArithmetic ==
    ASSUME NEW l \in Nat, NEW c \in Nat \ {0}
    PROVE  /\ l \div c \in Nat
           /\ l % c \in 0 .. c - 1
           /\ l = c * (l \div c) + (l % c)
BY SMT

\* The next chunk of the loop still lies inside the length.
LEMMA ChunkFits ==
    ASSUME NEW l \in Nat, NEW c \in Nat \ {0}, NEW k \in Nat, k < l \div c
    PROVE  /\ c * k \in Nat
           /\ c * (k + 1) = c * k + c
           /\ c * k + c <= l
BY SMT

\* After the loop the remainder is what is left of the length.
LEMMA ChunkRest ==
    ASSUME NEW l \in Nat, NEW c \in Nat \ {0}, NEW k \in Nat,
           k <= l \div c, ~(k < l \div c)
    PROVE  /\ c * k \in Nat
           /\ c * k + (l % c) = l
<1>1. l \div c \in Nat /\ l = c * (l \div c) + (l % c) /\ l % c \in Nat
  BY ChunkArithmetic
<1>2. k = l \div c
  BY <1>1
<1>3. c * k \in Nat
  BY SMT
<1> QED
  BY <1>1, <1>2, <1>3

\* The next block: its place and size inside the range of the call.
LEMMA BlockInRange ==
    ASSUME TypeOK, chunksCopied <= ChunksToCopy, HasBlock
    PROVE  /\ BlockOffset \in Nat
           /\ BlockSize \in Nat \ {0}
           /\ BlockOffset + BlockSize <= call.length
           /\ ChunkSize * chunksCopied \in Nat
           /\ InLoop => /\ ChunkSize * (chunksCopied + 1) = ChunkSize * chunksCopied + BlockSize
                        /\ Right => BlockOffset = call.length - ChunkSize * chunksCopied - BlockSize
                        /\ ~Right => BlockOffset = ChunkSize * chunksCopied
           /\ ~InLoop => /\ ChunkSize * chunksCopied + BlockSize = call.length
                         /\ Right => BlockOffset = 0
                         /\ ~Right => BlockOffset = ChunkSize * chunksCopied
<1> DEFINE l == call.length
           k == chunksCopied
<1>1. l \in Nat /\ k \in Nat /\ ChunkSize \in Nat \ {0}
  BY ChunkAssumption DEF TypeOK
<1>2. /\ l \div ChunkSize \in Nat
      /\ l % ChunkSize \in 0 .. ChunkSize - 1
      /\ l = ChunkSize * (l \div ChunkSize) + (l % ChunkSize)
  BY <1>1, ChunkArithmetic
<1>3. CASE InLoop
  <2>1. k < l \div ChunkSize
    BY <1>3 DEF InLoop, ChunksToCopy
  <2>2. /\ ChunkSize * k \in Nat
        /\ ChunkSize * (k + 1) = ChunkSize * k + ChunkSize
        /\ ChunkSize * k + ChunkSize <= l
    BY <1>1, <2>1, ChunkFits
  <2> QED
    BY <1>1, <1>3, <2>2 DEF BlockOffset, BlockSize
<1>4. CASE ~InLoop
  <2>1. k <= l \div ChunkSize /\ ~(k < l \div ChunkSize)
    BY <1>4 DEF InLoop, ChunksToCopy
  <2>2. ChunkSize * k \in Nat /\ ChunkSize * k + (l % ChunkSize) = l
    BY <1>1, <2>1, ChunkRest
  <2>3. BlockSize = l % ChunkSize /\ BlockSize \in Nat \ {0}
    BY <1>2, <1>4 DEF BlockSize, LastBlock, HasBlock
  <2>4. BlockOffset = IF Right THEN 0 ELSE ChunkSize * k
    BY <1>4 DEF BlockOffset
  <2> QED
    BY <1>1, <1>4, <2>2, <2>3, <2>4
<1> QED
  BY <1>3, <1>4

--------------------------------------------------------------------------------
(* The invariant.                                                          *)

\* The device of the first call satisfies it: no copy has been asked for.
LEMMA InitInv == Init => IInv
<1> SUFFICES ASSUME Init PROVE IInv
  OBVIOUS
<1>1. TypeOK
  BY CallsAssumption, DiskAssumption DEF Init, TypeOK
<1>2. chunksCopied <= ChunksToCopy
  <2>1. call.length \in Nat
    BY <1>1 DEF TypeOK
  <2> QED
    BY <2>1, ChunkAssumption, ChunkArithmetic DEF Init, ChunksToCopy
<1> QED
  BY <1>1, <1>2 DEF Init, IInv, SuccessMeansMoved, OnlyTargetWritten

\* A request is accepted or refused: the copy starts afresh on the device as it is.
LEMMA RequestStep ==
    ASSUME IInv, NEW c \in [source : Nat, target : Nat, length : Nat], Refuse(c) \/ Accept(c)
    PROVE  IInv'
<1>0. /\ UNCHANGED disk /\ before' = disk /\ call' = c /\ chunksCopied' = 0
      /\ pc' \in {"read", "replied"} /\ success' \in BOOLEAN
  BY DEF Refuse, Accept, Reply
<1>1. TypeOK' /\ pc' # "write" /\ disk' = before' /\ chunksCopied' = 0
  BY <1>0 DEF IInv, TypeOK
<1>2. call'.length \in Nat /\ call'.source \in Nat /\ call'.target \in Nat
  BY <1>1 DEF TypeOK
<1>3. chunksCopied' <= ChunksToCopy'
  BY <1>1, <1>2, ChunkAssumption, ChunkArithmetic DEF ChunksToCopy
<1>4. pc' = "read" => success'
  BY DEF Refuse, Accept, Reply
<1>5. Behind' /\ Ahead'
  BY <1>1, <1>2, ChunkAssumption DEF Behind, Ahead, Copied, Right
<1>6. SuccessMeansMoved' /\ OnlyTargetWritten'
  BY <1>1 DEF Refuse, Accept, Reply, SuccessMeansMoved, OnlyTargetWritten
<1> QED
  BY <1>1, <1>3, <1>4, <1>5, <1>6 DEF IInv

\* A block is loaded: the buffer holds source cells the copy has not overwritten.
LEMMA ReadBlockStep ==
    ASSUME IInv, ReadBlock
    PROVE  IInv'
<1>1. UNCHANGED <<disk, before, call, chunksCopied, success>> /\ pc = "read" /\ pc' = "write"
  BY DEF ReadBlock
<1>2. /\ UNCHANGED <<BlockSize, BlockOffset, HasBlock, ChunksToCopy>>
      /\ UNCHANGED <<Behind, Ahead, OnlyTargetWritten>>
  BY <1>1 DEF BlockSize, BlockOffset, HasBlock, ChunksToCopy, InLoop, LastBlock, Right,
              Behind, Ahead, OnlyTargetWritten, Copied
<1>3. /\ BlockOffset \in Nat
      /\ BlockSize \in Nat \ {0}
      /\ BlockOffset + BlockSize <= call.length
      /\ ChunkSize * chunksCopied \in Nat
      /\ InLoop => /\ Right => BlockOffset = call.length - ChunkSize * chunksCopied - BlockSize
                   /\ ~Right => BlockOffset = ChunkSize * chunksCopied
      /\ ~InLoop => /\ ChunkSize * chunksCopied + BlockSize = call.length
                    /\ Right => BlockOffset = 0
                    /\ ~Right => BlockOffset = ChunkSize * chunksCopied
  BY BlockInRange DEF IInv, ReadBlock
<1>4. call \in [source : Nat, target : Nat, length : Nat]
  BY DEF IInv, TypeOK
<1>5. \A i \in 0 .. BlockSize - 1 :
         /\ ReadOffset + i \in Cells
         /\ buffer'[i] = disk[ReadOffset + i]
  <2>1. buffer' = [i \in 0 .. BlockSize - 1 |-> disk[ReadOffset + i]]
    BY DEF ReadBlock
  <2>2. ReadOffset \in Nat
    BY <1>3, <1>4 DEF ReadOffset
  <2>3. \A i \in 0 .. BlockSize - 1 : ReadOffset + i \in Extent(ReadOffset, BlockSize)
    BY <1>3, <2>2 DEF Extent
  <2> QED
    BY <2>1, <2>3 DEF ReadBlock
<1>6. ASSUME NEW i \in 0 .. BlockSize - 1
      PROVE  disk[ReadOffset + i] = before[ReadOffset + i]
  <2>1. BlockOffset + i \in 0 .. call.length - 1 /\ ~Copied(BlockOffset + i)
    BY <1>3, <1>4 DEF Copied
  <2>2. call.source + (BlockOffset + i) = ReadOffset + i
    BY <1>3, <1>4 DEF ReadOffset
  <2> QED
    BY <1>1, <1>5, <2>1, <2>2 DEF IInv, Ahead
<1>7. ReadOffset' = ReadOffset
  BY <1>1, <1>2 DEF ReadOffset
<1>8. Loaded'
  BY <1>1, <1>2, <1>5, <1>6, <1>7 DEF Loaded
<1>9. TypeOK'
  <2>1. buffer' \in [0 .. BlockSize - 1 -> Data]
    BY <1>5 DEF ReadBlock, IInv, TypeOK
  <2> QED
    BY <1>1, <1>2, <2>1 DEF IInv, TypeOK
<1> QED
  BY <1>1, <1>2, <1>8, <1>9 DEF IInv, ReadBlock, SuccessMeansMoved

\* Storing n cells of the block puts source data at its place and leaves the
\* rest of the device alone.
LEMMA StoredBlock ==
    ASSUME IInv, pc = "write", NEW n \in 0 .. BlockSize,
           Extent(WriteOffset, n) \subseteq Cells,
           disk' = Stored(WriteOffset, n)
    PROVE  /\ disk' \in [Cells -> Data]
           /\ \A x \in Cells : x \notin Extent(WriteOffset, n) => disk'[x] = disk[x]
           /\ \A j \in BlockOffset .. BlockOffset + n - 1 :
                 /\ call.target + j \in Cells
                 /\ disk'[call.target + j] = before[call.source + j]
           /\ Extent(WriteOffset, n) \subseteq Extent(call.target, call.length)
<1>1. /\ BlockOffset \in Nat
      /\ BlockSize \in Nat \ {0}
      /\ BlockOffset + BlockSize <= call.length
  BY BlockInRange DEF IInv
<1>2. call \in [source : Nat, target : Nat, length : Nat] /\ n \in Nat /\ n <= BlockSize
  BY <1>1 DEF IInv, TypeOK
<1>3. WriteOffset \in Nat /\ ReadOffset \in Nat
  BY <1>1, <1>2 DEF WriteOffset, ReadOffset
<1>4. \A x \in Extent(WriteOffset, n) : x - WriteOffset \in 0 .. BlockSize - 1
  BY <1>1, <1>2, <1>3 DEF Extent
<1>5. disk' \in [Cells -> Data]
  <2>1. buffer \in [0 .. BlockSize - 1 -> Data] /\ disk \in [Cells -> Data]
    BY DEF IInv, TypeOK
  <2> QED
    BY <1>4, <2>1 DEF Stored
<1>6. \A x \in Cells : x \notin Extent(WriteOffset, n) => disk'[x] = disk[x]
  BY DEF Stored
<1>7. ASSUME NEW j \in BlockOffset .. BlockOffset + n - 1
      PROVE  /\ call.target + j \in Cells
             /\ disk'[call.target + j] = before[call.source + j]
  <2> DEFINE i == j - BlockOffset
  <2>1. i \in 0 .. BlockSize - 1
    BY <1>1, <1>2
  <2>2. call.target + j \in Extent(WriteOffset, n) /\ (call.target + j) - WriteOffset = i
    BY <1>1, <1>2 DEF WriteOffset, Extent
  <2>3. call.source + j = ReadOffset + i
    BY <1>1, <1>2 DEF ReadOffset
  <2>4. buffer[i] = before[ReadOffset + i]
    BY <2>1 DEF IInv, Loaded
  <2>5. call.target + j \in Cells /\ disk'[call.target + j] = buffer[(call.target + j) - WriteOffset]
    BY <2>2 DEF Stored
  <2> QED
    BY <2>2, <2>3, <2>4, <2>5
<1>8. Extent(WriteOffset, n) \subseteq Extent(call.target, call.length)
  BY <1>1, <1>2 DEF WriteOffset, Extent
<1> QED
  BY <1>5, <1>6, <1>7, <1>8

\* A chunk is stored: it joins what is behind the copy, and it has not touched
\* the source cells ahead of it, which is where the copy direction matters.
LEMMA WriteChunkStep ==
    ASSUME IInv, WriteChunk
    PROVE  IInv'
<1>1. /\ UNCHANGED <<before, call, success>> /\ pc = "write" /\ pc' = "read"
      /\ chunksCopied' = chunksCopied + 1 /\ InLoop
  BY DEF WriteChunk
<1>2. /\ BlockOffset \in Nat
      /\ BlockSize \in Nat \ {0}
      /\ BlockOffset + BlockSize <= call.length
      /\ ChunkSize * chunksCopied \in Nat
      /\ ChunkSize * chunksCopied' = ChunkSize * chunksCopied + BlockSize
      /\ Right => BlockOffset = call.length - ChunkSize * chunksCopied - BlockSize
      /\ ~Right => BlockOffset = ChunkSize * chunksCopied
  BY <1>1, BlockInRange DEF IInv
<1>3. /\ disk' \in [Cells -> Data]
      /\ \A x \in Cells : x \notin Extent(WriteOffset, BlockSize) => disk'[x] = disk[x]
      /\ \A j \in BlockOffset .. BlockOffset + BlockSize - 1 :
            /\ call.target + j \in Cells
            /\ disk'[call.target + j] = before[call.source + j]
      /\ Extent(WriteOffset, BlockSize) \subseteq Extent(call.target, call.length)
  <2>1. BlockSize \in 0 .. BlockSize
    BY <1>2
  <2> QED
    BY <2>1, StoredBlock DEF WriteChunk
<1>4. call \in [source : Nat, target : Nat, length : Nat]
  BY DEF IInv, TypeOK
<1>5. Right' = Right
  BY <1>1 DEF Right
<1>6. TypeOK'
  BY <1>1, <1>3 DEF IInv, TypeOK
<1>7. chunksCopied' <= ChunksToCopy'
  <2>1. ChunksToCopy \in Nat /\ chunksCopied \in Nat
    BY <1>4, ChunkAssumption, ChunkArithmetic DEF ChunksToCopy, IInv, TypeOK
  <2> QED
    BY <1>1, <2>1 DEF InLoop, ChunksToCopy
<1>8. Behind'
  <2> SUFFICES ASSUME NEW i \in 0 .. call.length - 1, Copied(i)'
               PROVE  /\ call.target + i \in Cells
                      /\ disk'[call.target + i] = before[call.source + i]
    BY <1>1 DEF Behind
  <2>1. CASE i \in BlockOffset .. BlockOffset + BlockSize - 1
    BY <1>3, <2>1
  <2>2. CASE i \notin BlockOffset .. BlockOffset + BlockSize - 1
    <3>1. Copied(i)
      BY <1>1, <1>2, <1>4, <1>5, <2>2 DEF Copied
    <3>2. call.target + i \notin Extent(WriteOffset, BlockSize)
      BY <1>2, <1>4, <2>2 DEF WriteOffset, Extent
    <3> QED
      BY <1>1, <1>3, <3>1, <3>2 DEF IInv, Behind
  <2> QED
    BY <2>1, <2>2
<1>9. Ahead'
  <2> SUFFICES ASSUME NEW i \in 0 .. call.length - 1, ~Copied(i)', call.source + i \in Cells
               PROVE  disk'[call.source + i] = before[call.source + i]
    BY <1>1 DEF Ahead
  <2>1. ~Copied(i)
    BY <1>1, <1>2, <1>4, <1>5 DEF Copied
  <2>2. call.source + i \notin Extent(WriteOffset, BlockSize)
    BY <1>1, <1>2, <1>4, <1>5 DEF Copied, WriteOffset, Extent, Right
  <2> QED
    BY <1>1, <1>3, <2>1, <2>2 DEF IInv, Ahead
<1>10. OnlyTargetWritten'
  BY <1>1, <1>3 DEF IInv, OnlyTargetWritten
<1> QED
  BY <1>1, <1>6, <1>7, <1>8, <1>9, <1>10 DEF IInv, SuccessMeansMoved

\* The remainder is stored: nothing is left, and success is answered.
LEMMA WriteRemainderStep ==
    ASSUME IInv, WriteRemainder
    PROVE  IInv'
<1>1. /\ UNCHANGED <<before, call, chunksCopied>> /\ pc = "write" /\ pc' = "replied"
      /\ success' = TRUE /\ ~InLoop
  BY DEF WriteRemainder, Reply
<1>2. /\ BlockOffset \in Nat
      /\ BlockSize \in Nat \ {0}
      /\ BlockOffset + BlockSize <= call.length
      /\ ChunkSize * chunksCopied \in Nat
      /\ ChunkSize * chunksCopied + BlockSize = call.length
      /\ Right => BlockOffset = 0
      /\ ~Right => BlockOffset = ChunkSize * chunksCopied
  BY <1>1, BlockInRange DEF IInv
<1>3. /\ disk' \in [Cells -> Data]
      /\ \A x \in Cells : x \notin Extent(WriteOffset, BlockSize) => disk'[x] = disk[x]
      /\ \A j \in BlockOffset .. BlockOffset + BlockSize - 1 :
            /\ call.target + j \in Cells
            /\ disk'[call.target + j] = before[call.source + j]
      /\ Extent(WriteOffset, BlockSize) \subseteq Extent(call.target, call.length)
  <2>1. BlockSize \in 0 .. BlockSize
    BY <1>2
  <2> QED
    BY <2>1, StoredBlock DEF WriteRemainder
<1>4. call \in [source : Nat, target : Nat, length : Nat]
  BY DEF IInv, TypeOK
<1>5. TypeOK' /\ chunksCopied' <= ChunksToCopy'
  BY <1>1, <1>3 DEF IInv, TypeOK, ChunksToCopy
<1>6. SuccessMeansMoved'
  <2> SUFFICES ASSUME NEW i \in 0 .. call.length - 1
               PROVE  disk'[call.target + i] = before[call.source + i]
    BY <1>1 DEF SuccessMeansMoved
  <2>1. CASE i \in BlockOffset .. BlockOffset + BlockSize - 1
    BY <1>3, <2>1
  <2>2. CASE i \notin BlockOffset .. BlockOffset + BlockSize - 1
    <3>1. Copied(i)
      BY <1>2, <1>4, <2>2 DEF Copied
    <3>2. call.target + i \notin Extent(WriteOffset, BlockSize)
      BY <1>2, <1>4, <2>2 DEF WriteOffset, Extent
    <3> QED
      BY <1>1, <1>3, <3>1, <3>2 DEF IInv, Behind
  <2> QED
    BY <2>1, <2>2
<1>7. OnlyTargetWritten'
  BY <1>1, <1>3 DEF IInv, OnlyTargetWritten
<1> QED
  BY <1>1, <1>5, <1>6, <1>7 DEF IInv

\* A write fails after a prefix of the block was stored.
LEMMA WriteFailsStep ==
    ASSUME IInv, WriteFails
    PROVE  IInv'
<1>1. /\ UNCHANGED <<before, call, chunksCopied>> /\ pc = "write" /\ pc' = "replied"
      /\ success' = FALSE
  BY DEF WriteFails, Reply
<1>2. PICK n \in 0 .. BlockSize - 1 : /\ Extent(WriteOffset, n) \subseteq Cells
                                      /\ disk' = Stored(WriteOffset, n)
  BY DEF WriteFails
<1>3. BlockSize \in Nat \ {0}
  BY BlockInRange, <1>1 DEF IInv
<1>4. /\ disk' \in [Cells -> Data]
      /\ \A x \in Cells : x \notin Extent(WriteOffset, n) => disk'[x] = disk[x]
      /\ Extent(WriteOffset, n) \subseteq Extent(call.target, call.length)
  <2>1. n \in 0 .. BlockSize
    BY <1>3
  <2> QED
    BY <1>1, <1>2, <2>1, StoredBlock
<1>5. TypeOK' /\ chunksCopied' <= ChunksToCopy'
  BY <1>1, <1>4 DEF IInv, TypeOK, ChunksToCopy
<1>6. OnlyTargetWritten'
  BY <1>1, <1>4 DEF IInv, OnlyTargetWritten
<1> QED
  BY <1>1, <1>5, <1>6 DEF IInv, SuccessMeansMoved

\* The loop ends and there is no remainder.
LEMMA NothingLeftStep ==
    ASSUME IInv, NothingLeft
    PROVE  IInv'
<1>1. /\ UNCHANGED <<disk, before, call, chunksCopied>> /\ pc = "read" /\ pc' = "replied"
      /\ success' = TRUE /\ ~HasBlock
  BY DEF NothingLeft, Reply
<1>2. call \in [source : Nat, target : Nat, length : Nat] /\ chunksCopied \in Nat
  BY DEF IInv, TypeOK
<1>3. ChunkSize * chunksCopied = call.length
  <2> DEFINE l == call.length
  <2>1. l \in Nat /\ ChunkSize \in Nat \ {0}
    BY <1>2, ChunkAssumption
  <2>2. l % ChunkSize = 0 /\ ~(chunksCopied < l \div ChunkSize) /\ chunksCopied <= l \div ChunkSize
    <3>1. l % ChunkSize \in Nat
      BY <2>1, ChunkArithmetic
    <3> QED
      BY <1>1, <3>1 DEF HasBlock, InLoop, LastBlock, ChunksToCopy, IInv
  <2>3. ChunkSize * chunksCopied \in Nat /\ ChunkSize * chunksCopied + (l % ChunkSize) = l
    BY <1>2, <2>1, <2>2, ChunkRest
  <2> QED
    BY <2>1, <2>2, <2>3
<1>4. \A i \in 0 .. call.length - 1 : Copied(i)
  BY <1>2, <1>3 DEF Copied
<1>5. SuccessMeansMoved'
  BY <1>1, <1>4 DEF IInv, Behind, SuccessMeansMoved
<1>6. TypeOK' /\ chunksCopied' <= ChunksToCopy' /\ OnlyTargetWritten'
  BY <1>1 DEF IInv, TypeOK, ChunksToCopy, OnlyTargetWritten
<1> QED
  BY <1>1, <1>5, <1>6 DEF IInv

\* A read that fails ends the copy with the device as it was.
LEMMA ReadFailsStep ==
    ASSUME IInv, ReadFails
    PROVE  IInv'
<1>1. /\ UNCHANGED <<disk, before, call, chunksCopied>> /\ pc' = "replied" /\ success' = FALSE
  BY DEF ReadFails, Reply
<1> QED
  BY <1>1 DEF IInv, TypeOK, ChunksToCopy, SuccessMeansMoved, OnlyTargetWritten

\* Stuttering and every step of the copy preserve it.
LEMMA StepInv == IInv /\ [Next]_vars => IInv'
<1> SUFFICES ASSUME IInv, [Next]_vars PROVE IInv'
  OBVIOUS
<1>1. CASE \E c \in Calls : Refuse(c) \/ Accept(c)
  BY <1>1, CallsAssumption, RequestStep
<1>2. CASE ReadBlock
  BY <1>2, ReadBlockStep
<1>3. CASE ReadFails
  BY <1>3, ReadFailsStep
<1>4. CASE WriteChunk
  BY <1>4, WriteChunkStep
<1>5. CASE WriteRemainder
  BY <1>5, WriteRemainderStep
<1>6. CASE WriteFails
  BY <1>6, WriteFailsStep
<1>7. CASE NothingLeft
  BY <1>7, NothingLeftStep
<1>8. CASE UNCHANGED vars
  BY <1>8 DEF vars, IInv, TypeOK, ChunksToCopy, Behind, Ahead, Copied, Right, HasBlock,
              InLoop, LastBlock, BlockSize, BlockOffset, ReadOffset, Loaded,
              SuccessMeansMoved, OnlyTargetWritten
<1> QED
  BY <1>1, <1>2, <1>3, <1>4, <1>5, <1>6, <1>7, <1>8 DEF Next, CopyStep

\* The invariant holds in every reachable state.
THEOREM Invariance == Spec => []IInv
  BY InitInv, StepInv, PTL DEF Spec

\* Every variable keeps its type.
THEOREM TypeCorrect == Spec => []TypeOK
<1>1. IInv => TypeOK
  BY DEF IInv
<1> QED
  BY <1>1, Invariance, PTL

\* For every device, chunk size and pair of ranges, a copy answered with success
\* has moved every byte as it was when the call came in.
THEOREM CopyCorrect == Spec => []SuccessMeansMoved
<1>1. IInv => SuccessMeansMoved
  BY DEF IInv
<1> QED
  BY <1>1, Invariance, PTL

\* No failure makes the helper write outside the target range.
THEOREM CopyConfined == Spec => []OnlyTargetWritten
<1>1. IInv => OnlyTargetWritten
  BY DEF IInv
<1> QED
  BY <1>1, Invariance, PTL

--------------------------------------------------------------------------------
(* The copy implements the copy through a snapshot.                        *)

\* The first state is one of the copy through a snapshot.
LEMMA RefineInit == Init => Snapshot!Init
  BY DEF Init, Snapshot!Init, SnapshotStatus

\* Storing a prefix of the loaded block is a transfer of the cells it fills.
LEMMA StoredIsTransfer ==
    ASSUME IInv, pc = "write", NEW n \in 0 .. BlockSize,
           Extent(WriteOffset, n) \subseteq Cells,
           disk' = Stored(WriteOffset, n)
    PROVE  /\ Extent(WriteOffset, n) \in
                 SUBSET (Snapshot!Cells \cap (call.target .. call.target + call.length - 1))
           /\ Snapshot!Transfer(Extent(WriteOffset, n))
<1> DEFINE S == Extent(WriteOffset, n)
<1>1. /\ disk' \in [Cells -> Data]
      /\ \A x \in Cells : x \notin S => disk'[x] = disk[x]
      /\ \A j \in BlockOffset .. BlockOffset + n - 1 :
            /\ call.target + j \in Cells
            /\ disk'[call.target + j] = before[call.source + j]
      /\ S \subseteq Extent(call.target, call.length)
  BY StoredBlock
<1>2. /\ call \in [source : Nat, target : Nat, length : Nat]
      /\ BlockOffset \in Nat /\ BlockSize \in Nat /\ n \in Nat
  BY BlockInRange DEF IInv, TypeOK
<1>3. Snapshot!Cells = Cells
  BY DEF Snapshot!Cells, Cells
<1>4. ASSUME NEW x \in S
      PROVE  disk'[x] = before[x - call.target + call.source]
  <2> DEFINE j == x - call.target
  <2>1. j \in BlockOffset .. BlockOffset + n - 1 /\ call.target + j = x
    BY <1>2 DEF WriteOffset, Extent
  <2>2. call.source + j = x - call.target + call.source
    BY <1>2, <2>1
  <2> QED
    BY <1>1, <2>1, <2>2
<1>5. disk' = [x \in Cells |-> IF x \in S THEN before[x - call.target + call.source]
                                        ELSE disk[x]]
  BY <1>1, <1>4
<1> QED
  BY <1>1, <1>3, <1>5 DEF Extent, Snapshot!Transfer

\* Every step is one of the copy through a snapshot, or it stutters.
LEMMA RefineStep == IInv /\ IInv' /\ [Next]_vars => [Snapshot!Next]_(Snapshot!vars)
<1> SUFFICES ASSUME IInv, IInv', [Next]_vars
             PROVE  [Snapshot!Next]_(Snapshot!vars)
  OBVIOUS
<1> USE DEF Snapshot!vars
<1>0. /\ disk \in [Cells -> Data] /\ Snapshot!Cells = Cells
      /\ {} \in SUBSET (Snapshot!Cells \cap (call.target .. call.target + call.length - 1))
      /\ disk = [x \in Cells |-> disk[x]]
  BY DEF IInv, TypeOK, Snapshot!Cells, Cells
<1>1. CASE pc = "idle" /\ \E c \in Calls : Refuse(c) \/ Accept(c)
  BY <1>1 DEF Refuse, Accept, Reply, Snapshot!Next, Snapshot!Accept, SnapshotStatus
<1>2. CASE ReadBlock
  BY <1>2 DEF ReadBlock, SnapshotStatus
<1>3. CASE ReadFails
  <2>1. Snapshot!Transfer({})
    BY <1>0, <1>3 DEF ReadFails, Snapshot!Transfer
  <2>2. SnapshotStatus = "busy" /\ SnapshotStatus' = "failed" /\ UNCHANGED <<before, call>>
    BY <1>3 DEF ReadFails, Reply, SnapshotStatus
  <2> QED
    BY <1>0, <2>1, <2>2 DEF Snapshot!Next, Snapshot!Move
<1>4. CASE WriteChunk
  <2>1. BlockSize \in 0 .. BlockSize
    BY <1>4, BlockInRange DEF IInv, WriteChunk
  <2>2. \E S \in SUBSET (Snapshot!Cells \cap (call.target .. call.target + call.length - 1)) :
           Snapshot!Transfer(S)
    BY <1>4, <2>1, StoredIsTransfer DEF WriteChunk
  <2>3. SnapshotStatus = "busy" /\ SnapshotStatus' = "busy" /\ UNCHANGED <<before, call>>
    BY <1>4 DEF WriteChunk, SnapshotStatus
  <2> QED
    BY <2>2, <2>3 DEF Snapshot!Next, Snapshot!Move
<1>5. CASE WriteRemainder
  <2>1. BlockSize \in 0 .. BlockSize
    BY <1>5, BlockInRange DEF IInv, WriteRemainder
  <2>2. \E S \in SUBSET (Snapshot!Cells \cap (call.target .. call.target + call.length - 1)) :
           Snapshot!Transfer(S)
    BY <1>5, <2>1, StoredIsTransfer DEF WriteRemainder
  <2>3. SnapshotStatus = "busy" /\ SnapshotStatus' = "done" /\ UNCHANGED <<before, call>>
    BY <1>5 DEF WriteRemainder, Reply, SnapshotStatus
  <2>4. \A i \in 0 .. call.length - 1 : disk'[call.target + i] = before[call.source + i]
    BY <1>5, <2>3 DEF IInv, SuccessMeansMoved, WriteRemainder, Reply
  <2> QED
    BY <2>2, <2>3, <2>4 DEF Snapshot!Next, Snapshot!Complete
<1>6. CASE WriteFails
  <2>1. PICK n \in 0 .. BlockSize - 1 : /\ Extent(WriteOffset, n) \subseteq Cells
                                        /\ disk' = Stored(WriteOffset, n)
    BY <1>6 DEF WriteFails
  <2>2. n \in 0 .. BlockSize
    BY <1>6, BlockInRange DEF IInv, WriteFails
  <2>3. \E S \in SUBSET (Snapshot!Cells \cap (call.target .. call.target + call.length - 1)) :
           Snapshot!Transfer(S)
    BY <1>6, <2>1, <2>2, StoredIsTransfer DEF WriteFails
  <2>4. SnapshotStatus = "busy" /\ SnapshotStatus' = "failed" /\ UNCHANGED <<before, call>>
    BY <1>6 DEF WriteFails, Reply, SnapshotStatus
  <2> QED
    BY <2>3, <2>4 DEF Snapshot!Next, Snapshot!Move
<1>7. CASE NothingLeft
  <2>1. Snapshot!Transfer({})
    BY <1>0, <1>7 DEF NothingLeft, Snapshot!Transfer
  <2>2. SnapshotStatus = "busy" /\ SnapshotStatus' = "done" /\ UNCHANGED <<before, call>>
    BY <1>7 DEF NothingLeft, Reply, SnapshotStatus
  <2>3. \A i \in 0 .. call.length - 1 : disk'[call.target + i] = before[call.source + i]
    BY <1>7, <2>2 DEF IInv, SuccessMeansMoved, NothingLeft, Reply
  <2> QED
    BY <1>0, <2>1, <2>2, <2>3 DEF Snapshot!Next, Snapshot!Complete
<1>8. CASE UNCHANGED vars
  BY <1>8 DEF vars, SnapshotStatus
<1> QED
  BY <1>1, <1>2, <1>3, <1>4, <1>5, <1>6, <1>7, <1>8 DEF Next, CopyStep

\* The copy in place implements the copy through a snapshot.
THEOREM CopyImplementsSnapshot == Spec => ImplementsSnapshot
<1>1. IInv /\ IInv' /\ [Next]_vars => [Snapshot!Next]_(Snapshot!vars)
  BY RefineStep
<1> QED
  BY <1>1, RefineInit, Invariance, PTL DEF Spec, ImplementsSnapshot, Snapshot!Spec

--------------------------------------------------------------------------------
(* The job.                                                                *)

Place(start) == [first |-> start, last |-> start + (move.last - move.first)]

\* What the job knows at each of its steps.
Progress ==
    /\ step = "start" => pc = "idle" /\ disk = original /\ ~lost
    /\ step \in {"copying", "copied", "failed"} => call = CopyCall /\ before = original
    /\ step = "rolling" => /\ call.length = 0 /\ Overlaps
                           /\ \A x \in Cells : disk[x] = before[x]
    /\ step \in {"copying", "rolling"} => pc # "idle"
    /\ step = "copied" => pc = "replied" /\ (~lost => success)
    /\ step = "failed" => pc = "replied" /\ ~lost
    /\ step \in {"start", "copying", "failed", "rolling"} => fs = Place(move.first)
    /\ step = "copied" => fs = Place(move.newStart)
    /\ step # "finished" => result = "none"

JobInv == /\ JobTypeOK
          /\ IInv
          /\ Progress
          /\ NeighboursUntouched
          /\ AnsweredSuccessIsTrue
          /\ FailureKeepsData

--------------------------------------------------------------------------------
(* Ranges.                                                                 *)

\* A job's parameters, and the lengths that follow from them.
LEMMA MoveRange ==
    ASSUME move \in Moves
    PROVE  /\ move \in [first : Nat, last : Nat, newStart : Nat]
           /\ Length \in Nat \ {0}
           /\ move.first + (move.last - move.first) = move.last
           /\ \A i \in 0 .. Length - 1 : move.first + i \in Cells
           /\ CopyCall \in [source : Nat, target : Nat, length : Nat]
           /\ RollbackCall \in [source : Nat, target : Nat, length : Nat]
           /\ RollbackCall.length = 0
<1>1. /\ move \in [first : Nat, last : Nat, newStart : Nat]
      /\ move.first <= move.last /\ move.last < DeviceSize
  BY MovesAssumption
<1>2. Length \in Nat \ {0}
  BY <1>1 DEF Length
<1>3. \A i \in 0 .. Length - 1 : move.first + i \in Cells
  BY <1>1, DeviceAssumption DEF Length, Cells
<1>4. move.last + 1 \in Nat /\ move.newStart + Length \in Nat
  BY <1>1, <1>2
<1> QED
  BY <1>1, <1>2, <1>3, <1>4 DEF CopyCall, RollbackCall, BytesWritten

\* CopySourceDevice::overlaps() misses no common sector of source and target.
LEMMA DisjointUnlessOverlaps ==
    ASSUME move \in Moves, ~Overlaps, NEW i \in 0 .. Length - 1
    PROVE  move.first + i \notin Extent(move.newStart, Length)
<1>1. move \in [first : Nat, last : Nat, newStart : Nat] /\ Length \in Nat \ {0}
  BY MoveRange
<1> QED
  BY <1>1 DEF Overlaps, SourceLast, TargetLast, Extent, Length

\* When the helper is lost, the copy stays as far as it got.
LEMMA LostStep ==
    ASSUME IInv, HelperLost
    PROVE  IInv'
<1>1. UNCHANGED <<disk, before, call, chunksCopied>> /\ pc' = "replied" /\ success' = FALSE
  BY DEF HelperLost, Reply
<1> QED
  BY <1>1 DEF IInv, TypeOK, ChunksToCopy, SuccessMeansMoved, OnlyTargetWritten

--------------------------------------------------------------------------------
(* The invariant.                                                          *)

\* No move has begun.
LEMMA JobInitInv == JobInit => JobInv
<1> SUFFICES ASSUME JobInit PROVE JobInv
  OBVIOUS
<1> USE DEF JobInit
<1>1. /\ move \in [first : Nat, last : Nat, newStart : Nat]
      /\ CopyCall \in [source : Nat, target : Nat, length : Nat]
      /\ move.first + (move.last - move.first) = move.last
  BY MoveRange
<1>2. TypeOK
  BY <1>1, DiskAssumption DEF TypeOK
<1>3. chunksCopied <= ChunksToCopy
  BY <1>1, ChunkAssumption, ChunkArithmetic DEF ChunksToCopy, CopyCall
<1>4. IInv
  BY <1>2, <1>3 DEF IInv, SuccessMeansMoved, OnlyTargetWritten
<1>5. JobTypeOK
  BY <1>1, <1>2, DiskAssumption DEF JobTypeOK
<1>6. Progress
  BY <1>1 DEF Progress, Place
<1> QED
  BY <1>4, <1>5, <1>6 DEF JobInv, NeighboursUntouched, AnsweredSuccessIsTrue, FailureKeepsData

\* Opening fails: nothing was touched.
LEMMA OpenFailsStep == ASSUME JobInv, OpenFails PROVE JobInv'
<1>1. /\ UNCHANGED vars /\ UNCHANGED <<move, original, fs, lost, rollback>>
      /\ step' = "finished" /\ result' = "error" /\ step = "start"
  BY DEF OpenFails, Finish
<1>2. IInv'
  BY <1>1, StepInv DEF JobInv
<1>3. JobTypeOK'
  BY <1>1, <1>2 DEF JobInv, JobTypeOK, IInv
<1>4. Progress'
  BY <1>1 DEF Progress
<1>5. FailureKeepsData'
  <2>1. disk = original /\ fs.first = move.first
    BY <1>1 DEF JobInv, Progress, Place
  <2> QED
    BY <1>1, <2>1 DEF FailureKeepsData, Image, OriginalImage, Length, vars
<1> QED
  BY <1>1, <1>2, <1>3, <1>4, <1>5 DEF JobInv, vars, NeighboursUntouched, Length, AnsweredSuccessIsTrue

\* The helper is asked to copy, and accepts or refuses.
LEMMA CopyBlocksStep == ASSUME JobInv, CopyBlocks PROVE JobInv'
<1>1. /\ Refuse(CopyCall) \/ Accept(CopyCall)
      /\ UNCHANGED <<move, original, fs, lost, rollback, result>>
      /\ step = "start" /\ step' = "copying"
  BY DEF CopyBlocks
<1>2. /\ UNCHANGED disk /\ before' = disk /\ call' = CopyCall /\ pc' # "idle"
  BY <1>1 DEF Refuse, Accept, Reply
<1>3. CopyCall \in [source : Nat, target : Nat, length : Nat]
  BY MoveRange DEF JobInv, JobTypeOK
<1>4. IInv'
  BY <1>1, <1>3, RequestStep DEF JobInv
<1>5. JobTypeOK'
  BY <1>1, <1>4 DEF JobInv, JobTypeOK, IInv
<1>6. CopyCall' = CopyCall
  BY <1>1 DEF CopyCall, Length
<1>7. Progress'
  BY <1>1, <1>2, <1>6 DEF JobInv, Progress, Place
<1> QED
  BY <1>1, <1>2, <1>4, <1>5, <1>7
  DEF JobInv, Progress, NeighboursUntouched, Length, AnsweredSuccessIsTrue, FailureKeepsData

\* The helper moves a block, fails, or answers.
LEMMA HelperStepStep == ASSUME JobInv, HelperStep \/ HelperLost PROVE JobInv'
<1>1. /\ UNCHANGED <<move, original, fs, step, rollback, result>>
      /\ step \in {"copying", "rolling"}
      /\ UNCHANGED <<before, call>> /\ pc' # "idle"
  BY DEF HelperStep, HelperLost, jobVars, CopyStep, ReadBlock, ReadFails, WriteChunk, WriteRemainder,
         WriteFails, NothingLeft, Reply
<1>2. IInv'
  <2>1. CASE HelperStep
    BY <2>1, StepInv DEF JobInv, HelperStep, Next
  <2>2. CASE HelperLost
    BY <2>2, LostStep DEF JobInv
  <2> QED
    BY <2>1, <2>2
<1>3. JobTypeOK'
  BY <1>1, <1>2 DEF JobInv, JobTypeOK, IInv, HelperStep, HelperLost, jobVars
<1>4. CopyCall' = CopyCall /\ Overlaps' = Overlaps /\ Length' = Length
  BY <1>1 DEF CopyCall, Length, Overlaps, SourceLast, TargetLast
<1>5. CASE step = "copying"
  <2>1. call' = CopyCall' /\ before' = original'
    BY <1>1, <1>4, <1>5 DEF JobInv, Progress
  <2>2. Progress'
    BY <1>1, <1>5, <2>1 DEF JobInv, Progress, Place
  <2>3. NeighboursUntouched'
    BY <1>2, <2>1 DEF IInv, OnlyTargetWritten, CopyCall, NeighboursUntouched
  <2> QED
    BY <1>1, <1>2, <1>3, <1>5, <2>2, <2>3
    DEF JobInv, Progress, AnsweredSuccessIsTrue, FailureKeepsData
<1>6. CASE step = "rolling"
  <2>1. \A x \in Cells : disk'[x] = before'[x]
    <3>1. call'.length = 0 /\ call' \in [source : Nat, target : Nat, length : Nat]
      BY <1>1, <1>2, <1>6 DEF JobInv, Progress, IInv, TypeOK
    <3>2. Extent(call'.target, call'.length) = {}
      BY <3>1 DEF Extent
    <3> QED
      BY <1>2, <3>2 DEF IInv, OnlyTargetWritten
  <2>2. Progress'
    BY <1>1, <1>4, <1>6, <2>1 DEF JobInv, Progress, Place
  <2>3. NeighboursUntouched'
    BY <1>1, <1>4, <1>6, <2>1 DEF JobInv, Progress, NeighboursUntouched
  <2> QED
    BY <1>1, <1>2, <1>3, <1>6, <2>2, <2>3
    DEF JobInv, Progress, AnsweredSuccessIsTrue, FailureKeepsData
<1> QED
  BY <1>1, <1>5, <1>6

\* The blocks are copied: the file system object goes to the new place.
LEMMA CopySucceedsStep == ASSUME JobInv, CopySucceeds PROVE JobInv'
<1>1. /\ UNCHANGED vars /\ UNCHANGED <<move, original, lost, rollback, result>>
      /\ step = "copying" /\ step' = "copied" /\ pc = "replied" /\ (~lost => success)
      /\ fs' = [first |-> move.newStart, last |-> move.newStart + (fs.last - fs.first)]
  BY DEF CopySucceeds, CopyBlocksReturned
<1>2. IInv'
  BY <1>1, StepInv DEF JobInv
<1>3. /\ move \in [first : Nat, last : Nat, newStart : Nat]
      /\ Length \in Nat \ {0}
      /\ fs = Place(move.first)
  BY <1>1, MoveRange DEF JobInv, JobTypeOK, Progress
<1>4. fs.last - fs.first = move.last - move.first /\ move.last - move.first \in Nat
  BY <1>3 DEF Place, Length
<1>5. fs' = Place(move.newStart)' /\ fs' \in [first : Nat, last : Nat]
  BY <1>1, <1>3, <1>4 DEF Place
<1>6. JobTypeOK'
  BY <1>1, <1>2, <1>5 DEF JobInv, JobTypeOK, IInv
<1>7. CopyCall' = CopyCall
  BY <1>1 DEF CopyCall, Length
<1>8. Progress'
  BY <1>1, <1>5, <1>7 DEF JobInv, Progress, vars
<1> QED
  BY <1>1, <1>2, <1>6, <1>8
  DEF JobInv, Progress, vars, NeighboursUntouched, Length, AnsweredSuccessIsTrue, FailureKeepsData

\* The copy failed: the object stays.
LEMMA CopyFailsStep == ASSUME JobInv, CopyFails PROVE JobInv'
<1>1. /\ UNCHANGED vars /\ UNCHANGED <<move, original, fs, lost, rollback, result>>
      /\ step = "copying" /\ step' = "failed" /\ pc = "replied" /\ ~lost
  BY DEF CopyFails, CopyBlocksReturned
<1>2. IInv'
  BY <1>1, StepInv DEF JobInv
<1>3. JobTypeOK'
  BY <1>1, <1>2 DEF JobInv, JobTypeOK, IInv
<1>4. CopyCall' = CopyCall
  BY <1>1 DEF CopyCall, Length
<1>5. Progress'
  BY <1>1, <1>4 DEF JobInv, Progress, Place, vars
<1> QED
  BY <1>1, <1>2, <1>3, <1>5
  DEF JobInv, Progress, vars, NeighboursUntouched, Length, AnsweredSuccessIsTrue, FailureKeepsData

\* What was copied and answered is what was to be moved, and the job ends with the result of the
\* boot sector's update.
LEMMA UpdateBootSectorStep == ASSUME JobInv, UpdateBootSector PROVE JobInv'
<1>1. /\ UNCHANGED vars /\ UNCHANGED <<move, original, fs, lost, rollback>>
      /\ step = "copied" /\ step' = "finished" /\ result' \in {"success", "error"}
  BY DEF UpdateBootSector, Finish
<1>2. IInv'
  BY <1>1, StepInv DEF JobInv
<1>3. JobTypeOK'
  BY <1>1, <1>2 DEF JobInv, JobTypeOK, IInv
<1>4. Progress'
  BY <1>1 DEF Progress
<1>5. ~lost => Image(move.newStart) = OriginalImage
  <2> SUFFICES ASSUME ~lost PROVE Image(move.newStart) = OriginalImage
    OBVIOUS
  <2>1. pc = "replied" /\ success /\ call = CopyCall /\ before = original /\ SuccessMeansMoved
    BY <1>1 DEF JobInv, Progress, IInv
  <2>2. \A i \in 0 .. Length - 1 : disk[move.newStart + i] = original[move.first + i]
    BY <2>1 DEF SuccessMeansMoved, CopyCall
  <2> QED
    BY <2>2 DEF Image, OriginalImage
<1>6. fs.first = move.newStart
  BY <1>1 DEF JobInv, Progress, Place
<1>7. ~lost' => (Image(move.newStart) = OriginalImage)' /\ fs'.first = move'.newStart
  BY <1>1, <1>5, <1>6 DEF Image, OriginalImage, Length, vars
<1>8. AnsweredSuccessIsTrue' /\ FailureKeepsData'
  BY <1>1, <1>6, <1>7 DEF AnsweredSuccessIsTrue, FailureKeepsData
<1> QED
  BY <1>1, <1>2, <1>3, <1>4, <1>8 DEF JobInv, vars, NeighboursUntouched, Length

\* The job ends after a failed copy whose rollback is not required or cannot begin.
LEMMA NoRollbackStep == ASSUME JobInv, RollbackNotRequired \/ RollbackOpenFails PROVE JobInv'
<1>1. /\ UNCHANGED vars /\ UNCHANGED <<move, original, fs, lost>>
      /\ step = "failed" /\ step' = "finished" /\ result' = "error" /\ rollback' \in {"true", "false"}
  BY DEF RollbackNotRequired, RollbackOpenFails, Finish
<1>2. IInv'
  BY <1>1, StepInv DEF JobInv
<1>3. JobTypeOK'
  BY <1>1, <1>2 DEF JobInv, JobTypeOK, IInv
<1>4. Progress'
  BY <1>1 DEF Progress
<1>5. ~Overlaps => Image(move.first) = OriginalImage
  <2> SUFFICES ASSUME ~Overlaps, NEW i \in 0 .. Length - 1
               PROVE  disk[move.first + i] = original[move.first + i]
    BY DEF Image, OriginalImage
  <2>1. /\ move.first + i \in Cells
        /\ move.first + i \notin Extent(move.newStart, Length)
    BY MoveRange, DisjointUnlessOverlaps DEF JobInv, JobTypeOK
  <2>2. OnlyTargetWritten /\ call = CopyCall /\ before = original
    BY <1>1 DEF JobInv, Progress, IInv
  <2> QED
    BY <2>1, <2>2 DEF OnlyTargetWritten, CopyCall
<1>6. fs.first = move.first
  BY <1>1 DEF JobInv, Progress, Place
<1>7. FailureKeepsData'
  BY <1>1, <1>5, <1>6 DEF FailureKeepsData, Image, OriginalImage, Length, Overlaps, SourceLast,
                          TargetLast, vars
<1> QED
  BY <1>1, <1>2, <1>3, <1>4, <1>7 DEF JobInv, vars, NeighboursUntouched, Length, AnsweredSuccessIsTrue

\* The rollback is asked for.
LEMMA RollbackCopyBlocksStep == ASSUME JobInv, RollbackCopyBlocks PROVE JobInv'
<1>1. /\ Refuse(RollbackCall) \/ Accept(RollbackCall)
      /\ UNCHANGED <<move, original, fs, rollback, result>> /\ lost' = FALSE
      /\ step = "failed" /\ step' = "rolling" /\ Overlaps
  BY DEF RollbackCopyBlocks
<1>2. /\ UNCHANGED disk /\ before' = disk /\ call' = RollbackCall /\ pc' # "idle"
  BY <1>1 DEF Refuse, Accept, Reply
<1>3. /\ RollbackCall \in [source : Nat, target : Nat, length : Nat]
      /\ RollbackCall.length = 0
  BY MoveRange DEF JobInv, JobTypeOK
<1>4. IInv'
  BY <1>1, <1>3, RequestStep DEF JobInv
<1>5. JobTypeOK'
  BY <1>1, <1>4 DEF JobInv, JobTypeOK, IInv
<1>6. Progress'
  BY <1>1, <1>2, <1>3 DEF JobInv, Progress, Place, Overlaps, SourceLast, TargetLast
<1> QED
  BY <1>1, <1>2, <1>4, <1>5, <1>6
  DEF JobInv, Progress, NeighboursUntouched, Length, AnsweredSuccessIsTrue, FailureKeepsData

\* The job ends after the rollback.
LEMMA RollbackReturnsStep == ASSUME JobInv, RollbackReturns PROVE JobInv'
<1>1. /\ UNCHANGED vars /\ UNCHANGED <<move, original, fs, lost>>
      /\ step = "rolling" /\ step' = "finished" /\ result' = "error" /\ rollback' \in {"true", "false"}
  BY DEF RollbackReturns, Finish
<1>2. IInv'
  BY <1>1, StepInv DEF JobInv
<1>3. JobTypeOK'
  BY <1>1, <1>2 DEF JobInv, JobTypeOK, IInv
<1>4. Progress'
  BY <1>1 DEF Progress
<1>5. Overlaps /\ fs.first = move.first
  BY <1>1 DEF JobInv, Progress, Place
<1>6. FailureKeepsData'
  BY <1>1, <1>5 DEF FailureKeepsData, Overlaps, SourceLast, TargetLast
<1> QED
  BY <1>1, <1>2, <1>3, <1>4, <1>6 DEF JobInv, vars, NeighboursUntouched, Length, AnsweredSuccessIsTrue

\* Every step of the job and of the helper preserves it.
LEMMA JobStepInv == JobInv /\ [JobNext]_allVars => JobInv'
<1> SUFFICES ASSUME JobInv, [JobNext]_allVars PROVE JobInv'
  OBVIOUS
<1>1. CASE JobStep
  BY <1>1, OpenFailsStep, CopyBlocksStep, CopySucceedsStep, CopyFailsStep, UpdateBootSectorStep,
     NoRollbackStep, RollbackCopyBlocksStep, RollbackReturnsStep DEF JobStep
<1>2. CASE HelperStep \/ HelperLost
  BY <1>2, HelperStepStep
<1>3. CASE UNCHANGED allVars
  <2>1. UNCHANGED vars /\ UNCHANGED jobVars
    BY <1>3 DEF allVars
  <2>2. IInv'
    BY <2>1, StepInv DEF JobInv
  <2>3. JobTypeOK'
    BY <2>1, <2>2 DEF JobInv, JobTypeOK, IInv, jobVars
  <2>4. Progress' /\ NeighboursUntouched'
    BY <2>1 DEF JobInv, Progress, NeighboursUntouched, Place, CopyCall, Length, Overlaps, SourceLast,
                TargetLast, vars, jobVars
  <2>5. AnsweredSuccessIsTrue' /\ FailureKeepsData'
    BY <2>1 DEF JobInv, AnsweredSuccessIsTrue, FailureKeepsData, Image, OriginalImage, Length,
                Overlaps, SourceLast, TargetLast, vars, jobVars
  <2> QED
    BY <2>2, <2>3, <2>4, <2>5 DEF JobInv
<1> QED
  BY <1>1, <1>2, <1>3 DEF JobNext

\* The invariant holds in every reachable state.
THEOREM JobInvariance == JobSpec => []JobInv
  BY JobInitInv, JobStepInv, PTL DEF JobSpec

\* A job that is answered and returns true has moved every byte and its object, overlapping or not.
THEOREM MoveCorrect == JobSpec => []AnsweredSuccessIsTrue
<1>1. JobInv => AnsweredSuccessIsTrue
  BY DEF JobInv
<1> QED
  BY <1>1, JobInvariance, PTL

\* A job that fails has the data where its object says, unless source and target overlap.
THEOREM FailedMoveKeepsData == JobSpec => []FailureKeepsData
<1>1. JobInv => FailureKeepsData
  BY DEF JobInv
<1> QED
  BY <1>1, JobInvariance, PTL

\* No failure of copy, helper or rollback changes a byte of a neighbouring partition.
THEOREM NeighboursKept == JobSpec => []NeighboursUntouched
<1>1. JobInv => NeighboursUntouched
  BY DEF JobInv
<1> QED
  BY <1>1, JobInvariance, PTL

--------------------------------------------------------------------------------
(* The copies of a job implement copies through a snapshot.                *)

\* The calls that jobs make, and those of their rollbacks, are calls that may be made.
CallsCovered ==
    \A m \in Moves :
        LET size == m.last - m.first + 1
        IN  /\ [source |-> m.first, target |-> m.newStart, length |-> size] \in Calls
            /\ [source |-> m.newStart + size, target |-> m.last + 1, length |-> 0] \in Calls
            /\ [source |-> m.newStart, target |-> m.first, length |-> 0] \in Calls

\* A job makes covered calls.
LEMMA JobCalls ==
    ASSUME CallsCovered, move \in Moves
    PROVE  CopyCall \in Calls /\ RollbackCall \in Calls
<1>1. move \in [first : Nat, last : Nat, newStart : Nat]
  BY MovesAssumption
<1>2. /\ [source |-> move.first, target |-> move.newStart, length |-> move.last - move.first + 1] \in Calls
      /\ [source |-> move.newStart + (move.last - move.first + 1), target |-> move.last + 1, length |-> 0] \in Calls
      /\ [source |-> move.newStart, target |-> move.first, length |-> 0] \in Calls
  BY DEF CallsCovered
<1>3. /\ move.newStart + Length - BytesWritten = move.newStart + (move.last - move.first + 1)
      /\ move.last - BytesWritten + 1 = move.last + 1
  BY <1>1 DEF Length, BytesWritten
<1> QED
  BY <1>1, <1>2, <1>3 DEF CopyCall, RollbackCall, Length, BytesWritten

\* A call that is made when none is served is accepted, or refused, by the abstract copy.
LEMMA RequestRefines ==
    ASSUME NEW c \in Calls, pc \in {"idle", "replied"}, Refuse(c) \/ Accept(c)
    PROVE  [Snapshot!Next]_(Snapshot!vars)
  BY DEF Refuse, Accept, Reply, Snapshot!Next, Snapshot!Accept, SnapshotStatus

\* A copy that is cut off fails.
LEMMA LostRefines ==
    ASSUME IInv, HelperLost
    PROVE  [Snapshot!Next]_(Snapshot!vars)
<1>1. /\ disk \in [Cells -> Data] /\ Snapshot!Cells = Cells
      /\ {} \in SUBSET (Snapshot!Cells \cap (call.target .. call.target + call.length - 1))
      /\ disk = [x \in Cells |-> disk[x]]
  BY DEF IInv, TypeOK, Snapshot!Cells, Cells
<1>2. Snapshot!Transfer({})
  BY <1>1 DEF HelperLost, Snapshot!Transfer
<1>3. SnapshotStatus = "busy" /\ SnapshotStatus' = "failed" /\ UNCHANGED <<before, call>>
  BY DEF HelperLost, Reply, SnapshotStatus
<1> QED
  BY <1>1, <1>2, <1>3 DEF Snapshot!Next, Snapshot!Move

\* Every step of a job is one of the copy through a snapshot, or it stutters.
LEMMA JobRefinesStep ==
    ASSUME CallsCovered, JobInv, JobInv', [JobNext]_allVars
    PROVE  [Snapshot!Next]_(Snapshot!vars)
<1>1. IInv /\ IInv' /\ move \in Moves
  BY DEF JobInv, JobTypeOK
<1>2. CASE CopyBlocks
  BY <1>1, <1>2, JobCalls, RequestRefines DEF CopyBlocks, JobInv, Progress
<1>3. CASE RollbackCopyBlocks
  BY <1>1, <1>3, JobCalls, RequestRefines DEF RollbackCopyBlocks, JobInv, Progress
<1>4. CASE HelperStep
  BY <1>1, <1>4, RefineStep DEF HelperStep, Next
<1>5. CASE HelperLost
  BY <1>1, <1>5, LostRefines
<1>6. CASE UNCHANGED vars
  BY <1>6, <1>1, RefineStep
<1>7. CASE JobStep /\ ~CopyBlocks /\ ~RollbackCopyBlocks
  BY <1>6, <1>7 DEF JobStep, OpenFails, CopySucceeds, CopyFails, UpdateBootSector,
     RollbackNotRequired, RollbackOpenFails, RollbackReturns
<1>8. CASE UNCHANGED allVars
  BY <1>6, <1>8 DEF allVars
<1> QED
  BY <1>2, <1>3, <1>4, <1>5, <1>7, <1>8 DEF JobNext

\* A job begins as a copy through a snapshot does.
LEMMA JobRefinesInit ==
    ASSUME CallsCovered, JobInit
    PROVE  Snapshot!Init
  BY JobCalls DEF JobInit, Snapshot!Init, SnapshotStatus

\* The copies that a job makes, cut off or not, and those of its rollback implement
\* copies through a snapshot.
THEOREM JobImplementsSnapshot ==
    ASSUME CallsCovered
    PROVE  JobSpec => ImplementsSnapshot
<1>1. JobInit => Snapshot!Init
  BY JobRefinesInit
<1>2. JobInv /\ JobInv' /\ [JobNext]_allVars => [Snapshot!Next]_(Snapshot!vars)
  BY JobRefinesStep
<1> QED
  BY <1>1, <1>2, JobInvariance, PTL DEF JobSpec, ImplementsSnapshot, Snapshot!Spec

--------------------------------------------------------------------------------
(* Resizing.                                                               *)

ShrunkPlace == From(Old.first, SizeOf(New))
MovedPlace  == From(New.first, MovedLength)

Placed ==
    /\ part = entry \/ (request.lvm /\ job = "error")
    /\ job \in {"check", "moveExtended", "shrinkFs", "shrinkGeom"} => entry = Old
    /\ job = "moveExtended" => request.extended
    /\ job \in Jobs \ {"check", "moveExtended"} => ~request.extended
    /\ job \in {"shrinkFs", "shrinkGeom"} => Shrink
    /\ job = "moveGeom" => Move /\ entry = IF Shrink THEN ShrunkPlace ELSE Old
    /\ job \in {"moveFs", "moveBack"} => Move /\ entry = MovedPlace /\ kept = Old.first
    /\ job = "growGeom" => Grow /\ entry = IF Move THEN MovedPlace ELSE Old
    /\ job \in {"growFs", "growBack"} => Grow /\ entry = New /\ kept = SizeOf(Old)
    /\ job \in {"checkResized", "success"} => entry = New
    /\ job = "error" => \/ entry \in {Old, New, MovedPlace}
                        \/ Shrink /\ entry = ShrunkPlace

Sized ==
    ~request.extended =>
    /\ content.length \in {request.fsLength, SizeOf(New)}
    /\ job \in {"check", "shrinkFs"} => content.length = request.fsLength
    /\ Shrink /\ job \notin {"check", "shrinkFs", "error"} => content.length = SizeOf(New)
    /\ ~Shrink /\ job \notin {"checkResized", "success", "error"} =>
          content.length = request.fsLength
    /\ Grow /\ job \in {"checkResized", "success"} => content.length = SizeOf(New)
    /\ ~Shrink /\ ~Grow => content.length = request.fsLength
    /\ job = "error" => \/ Grow /\ entry = New
                        \/ ~Shrink /\ content.length = request.fsLength
                        \/ Shrink /\ (entry = Old \/ content.length = SizeOf(New))

Located ==
    /\ fileSystem = From(content.first, content.length)
    /\ moved = "no" => content.first = Old.first /\ content.intact
    /\ moved = "yes" => content.first = New.first /\ content.intact
    /\ job \in {"check", "moveExtended", "shrinkFs", "shrinkGeom", "moveGeom", "moveFs"}
          => moved = "no"
    /\ job \in {"growGeom", "growFs", "growBack", "checkResized"}
          => moved = IF Move THEN "yes" ELSE "no"
    /\ job = "success" /\ ~request.extended => moved = IF Move THEN "yes" ELSE "no"
    /\ job = "moveBack" => moved \in {"boot", "failed"}

Returned == moved = "failed" => \/ job = "moveBack"
                                \/ job = "error" /\ entry = From(Old.first, MovedLength)

ResizeInv == ResizeTypeOK /\ Placed /\ Sized /\ Located /\ Returned

--------------------------------------------------------------------------------
(* What the requests guarantee.                                            *)

\* The fields of the operation, and the shape of its old and its new place.
LEMMA RequestFields ==
    ASSUME request \in Requests
    PROVE  /\ request.first \in Nat /\ request.last \in Nat
           /\ request.newFirst \in Nat /\ request.newLast \in Nat
           /\ request.fsLength \in Nat /\ request.fsLength >= 1
           /\ request.extended \in BOOLEAN /\ request.checks \in BOOLEAN
           /\ request.first <= request.last
           /\ request.newFirst <= request.newLast
           /\ request.fsLength <= request.last - request.first + 1
           /\ request.lvm \in BOOLEAN
           /\ request.lvm => ~request.extended /\ request.newFirst = request.first
BY RequestsAssumption

\* Every place the jobs use is a span of the disk's sectors.
LEMMA Places ==
    ASSUME request \in Requests
    PROVE  /\ Old \in Span /\ New \in Span
           /\ SizeOf(Old) \in Nat /\ SizeOf(Old) >= 1
           /\ SizeOf(New) \in Nat /\ SizeOf(New) >= 1
           /\ ShrunkPlace \in Span /\ MovedPlace \in Span
           /\ MovedLength \in Nat /\ MovedLength >= 1
           /\ request.fsLength <= SizeOf(Old)
BY RequestFields DEF Old, New, Span, SizeOf, ShrunkPlace, MovedPlace, From, MovedLength

--------------------------------------------------------------------------------
(* The invariant.                                                          *)

\* It holds when execute() starts.
LEMMA ResizeInitInv == ResizeInit => ResizeInv
<1> SUFFICES ASSUME ResizeInit PROVE ResizeInv
  OBVIOUS
<1>1. request \in Requests
  BY DEF ResizeInit
<1>2. ResizeTypeOK
  BY <1>1, RequestFields, Places
  DEF ResizeInit, ResizeTypeOK, Jobs, AfterCheck, AfterShrink, AfterMove, AfterGrow, From, Span, Old
<1>3. Placed
  BY <1>1, RequestFields, Places
  DEF ResizeInit, Placed, AfterCheck, AfterShrink, AfterMove, AfterGrow, Jobs,
      Old, New, SizeOf, Grow, Shrink, Move
<1>4. Sized
  BY <1>1, RequestFields, Places
  DEF ResizeInit, Sized, AfterCheck, AfterShrink, AfterMove, AfterGrow, Old, New, SizeOf, Grow, Shrink, Move
<1>5. Located
  BY <1>1, RequestFields, Places
  DEF ResizeInit, Located, AfterCheck, AfterShrink, AfterMove, AfterGrow,
      From, Old, New, SizeOf, Grow, Shrink, Move
<1>6. Returned
  BY DEF ResizeInit, Returned
<1> QED
  BY <1>2, <1>3, <1>4, <1>5, <1>6 DEF ResizeInv

\* A check changes nothing but the next job.
LEMMA CheckStep ==
    ASSUME ResizeInv, Check
    PROVE  ResizeInv'
<1>1. ResizeTypeOK'
  BY DEF ResizeInv, ResizeTypeOK, Check, Jobs, AfterCheck, AfterShrink, AfterMove, AfterGrow
<1>2. Placed'
  BY RequestFields
  DEF ResizeInv, ResizeTypeOK, Placed, Check, Jobs, AfterCheck, AfterShrink, AfterMove,
      AfterGrow, Old, New, SizeOf, Grow, Shrink, Move
<1>3. Sized'
  BY DEF ResizeInv, Placed, Sized, Check, AfterCheck, AfterShrink, AfterMove, Old, New, Grow,
         Shrink
<1>4. Located'
  BY DEF ResizeInv, Located, Check, AfterCheck, AfterShrink, AfterMove, AfterGrow, Old, New, Move
<1>5. Returned'
  BY DEF ResizeInv, Placed, Located, Returned, Check, Old, New, Move
<1> QED
  BY <1>1, <1>2, <1>3, <1>4, <1>5 DEF ResizeInv

\* An extended partition gets its new place in one job.
LEMMA MoveExtendedStep ==
    ASSUME ResizeInv, MoveExtended
    PROVE  ResizeInv'
<1>1. ResizeTypeOK'
  BY Places DEF ResizeInv, ResizeTypeOK, MoveExtended, SetGeometry, GeometrySet, GeometryFails
<1>2. Placed'
  BY DEF ResizeInv, Placed, MoveExtended, SetGeometry, GeometrySet, GeometryFails, Jobs, Old, New
<1>3. Sized'
  BY DEF ResizeInv, Placed, Sized, MoveExtended
<1>4. Located'
  BY DEF ResizeInv, Placed, Located, MoveExtended, SetGeometry, GeometrySet, GeometryFails, Old
<1>5. Returned'
  BY DEF ResizeInv, Placed, Located, Returned, MoveExtended, Old, New, Move
<1> QED
  BY <1>1, <1>2, <1>3, <1>4, <1>5 DEF ResizeInv

\* The file system is shrunk while its partition is still the old one.
LEMMA ShrinkFileSystemStep ==
    ASSUME ResizeInv, ShrinkFileSystem
    PROVE  ResizeInv'
<1>1. ResizeTypeOK'
  BY Places DEF ResizeInv, ResizeTypeOK, ShrinkFileSystem, ResizeFileSystem, Jobs, From, Span
<1>2. Placed'
  BY DEF ResizeInv, Placed, ShrinkFileSystem, ResizeFileSystem, Jobs, Old, New, Shrink
<1>3. Sized'
  BY DEF ResizeInv, ResizeTypeOK, Placed, Sized, ShrinkFileSystem, ResizeFileSystem, Old, New, Shrink
<1>4. Located'
  BY DEF ResizeInv, ResizeTypeOK, Located, ShrinkFileSystem, ResizeFileSystem, From, Old
<1>5. Returned'
  BY DEF ResizeInv, Placed, Located, Returned, ShrinkFileSystem, Old, New, Move
<1> QED
  BY <1>1, <1>2, <1>3, <1>4, <1>5 DEF ResizeInv

\* The entry is cut to the length the file system already has.
LEMMA ShrinkGeometryStep ==
    ASSUME ResizeInv, ShrinkGeometry
    PROVE  ResizeInv'
<1>1. ResizeTypeOK'
  BY Places
  DEF ResizeInv, ResizeTypeOK, ShrinkGeometry, SetGeometry, GeometrySet, GeometryFails, Jobs, AfterShrink, AfterMove,
      AfterGrow, From, Span
<1>2. Placed'
  BY RequestFields
  DEF ResizeInv, ResizeTypeOK, Placed, ShrinkGeometry, SetGeometry, GeometrySet, GeometryFails, AfterShrink, AfterMove,
      AfterGrow, From, Old, New, SizeOf, ShrunkPlace, Grow, Shrink, Move
<1>3. Sized'
  BY DEF ResizeInv, Sized, ShrinkGeometry, SetGeometry, GeometrySet, GeometryFails, AfterShrink, AfterMove, AfterGrow,
         Old, New, Grow, Shrink
<1>4. Located'
  BY DEF ResizeInv, Located, ShrinkGeometry, SetGeometry, GeometrySet, GeometryFails, AfterShrink, AfterMove, AfterGrow,
         Old, New, Move
<1>5. Returned'
  BY DEF ResizeInv, Placed, Located, Returned, ShrinkGeometry, Old, New, Move
<1> QED
  BY <1>1, <1>2, <1>3, <1>4, <1>5 DEF ResizeInv

\* The entry moves and its old start is kept.
LEMMA MoveGeometryStep ==
    ASSUME ResizeInv, MoveGeometry
    PROVE  ResizeInv'
<1>1. ResizeTypeOK'
  BY Places DEF ResizeInv, ResizeTypeOK, MoveGeometry, SetGeometry, GeometrySet, GeometryFails, Jobs, From, Span
<1>2. Placed'
  BY DEF ResizeInv, Placed, MoveGeometry, SetGeometry, GeometrySet, GeometryFails, Jobs, From, Old, New, ShrunkPlace,
         MovedPlace, MovedLength, Shrink, Move
<1>3. Sized'
  BY DEF ResizeInv, Sized, MoveGeometry, SetGeometry, GeometrySet, GeometryFails, Old, New, Shrink
<1>4. Located'
  BY DEF ResizeInv, Located, MoveGeometry, SetGeometry, GeometrySet, GeometryFails, Old
<1>5. Returned'
  BY DEF ResizeInv, Placed, Located, Returned, MoveGeometry, Old, New, Move
<1> QED
  BY <1>1, <1>2, <1>3, <1>4, <1>5 DEF ResizeInv

\* Blocks and FileSystem object follow the entry.
LEMMA MoveSucceedsStep ==
    ASSUME ResizeInv, MoveSucceeds
    PROVE  ResizeInv'
<1>0. SizeOf(fileSystem) \in Nat /\ SizeOf(fileSystem) >= 1
  BY RequestFields, Places
  DEF ResizeInv, ResizeTypeOK, Placed, Sized, Located, MoveSucceeds, From, SizeOf
<1>1. ResizeTypeOK'
  BY <1>0, Places DEF ResizeInv, ResizeTypeOK, MoveSucceeds, Jobs, AfterMove, AfterGrow, From, Span
<1>2. Placed'
  BY RequestFields
  DEF ResizeInv, ResizeTypeOK, Placed, MoveSucceeds, AfterMove, AfterGrow, From, Old, New,
      SizeOf, MovedPlace, MovedLength, Grow, Shrink, Move
<1>3. Sized'
  BY DEF ResizeInv, Sized, MoveSucceeds, AfterMove, AfterGrow, Old, New, Grow, Shrink
<1>4. Located'
  BY DEF ResizeInv, ResizeTypeOK, Placed, Located, MoveSucceeds, AfterMove, AfterGrow, From, Old,
         New, SizeOf, Move
<1>5. Returned'
  BY DEF Returned, MoveSucceeds
<1> QED
  BY <1>1, <1>2, <1>3, <1>4, <1>5 DEF ResizeInv

\* Blocks and FileSystem object follow, the operation fails.
LEMMA BootSectorFailsStep ==
    ASSUME ResizeInv, BootSectorFails
    PROVE  ResizeInv'
<1>0. SizeOf(fileSystem) \in Nat /\ SizeOf(fileSystem) >= 1
  BY RequestFields, Places
  DEF ResizeInv, ResizeTypeOK, Placed, Sized, Located, BootSectorFails, From, SizeOf
<1>1. ResizeTypeOK'
  BY <1>0, Places DEF ResizeInv, ResizeTypeOK, BootSectorFails, Jobs, From, Span
<1>2. Placed'
  BY DEF ResizeInv, ResizeTypeOK, Placed, BootSectorFails, Old, New, MovedPlace, MovedLength,
         Shrink, Move
<1>3. Sized'
  BY DEF ResizeInv, Sized, BootSectorFails, Old, New, Shrink
<1>4. Located'
  BY DEF ResizeInv, ResizeTypeOK, Located, BootSectorFails, From, SizeOf
<1>5. Returned'
  BY DEF Returned, BootSectorFails
<1> QED
  BY <1>1, <1>2, <1>3, <1>4, <1>5 DEF ResizeInv

\* Nothing but the intactness of the source is lost.
LEMMA MoveFailsStep ==
    ASSUME ResizeInv, MoveFails
    PROVE  ResizeInv'
<1>1. ResizeTypeOK'
  BY RequestFields, Places
  DEF ResizeInv, ResizeTypeOK, Placed, Sized, MoveFails, SetGeometry, GeometrySet, GeometryFails, ResizeFileSystem, Jobs,
      AfterCheck, AfterShrink, AfterMove, AfterGrow, From, Span, Old, New, SizeOf,
      ShrunkPlace, MovedPlace, MovedLength
<1>2. Placed'
  BY DEF ResizeInv, ResizeTypeOK, Placed, MoveFails, Old, New, MovedPlace, MovedLength, Shrink, Move
<1>3. Sized'
  BY DEF ResizeInv, Sized, MoveFails, Old, New, Shrink
<1>4. Located'
  BY DEF ResizeInv, Located, MoveFails
<1>5. Returned'
  BY DEF Returned, MoveFails
<1> QED
  BY <1>1, <1>2, <1>3, <1>4, <1>5 DEF ResizeInv

\* The entry returns to the kept start.
LEMMA MoveBackStep ==
    ASSUME ResizeInv, MoveBack
    PROVE  ResizeInv'
<1>1. ResizeTypeOK'
  BY Places DEF ResizeInv, ResizeTypeOK, Placed, MoveBack, GeometrySet, GeometryFails, From, Span, SizeOf, MovedPlace
<1>2. Placed'
  BY RequestFields
  DEF ResizeInv, ResizeTypeOK, Placed, MoveBack, GeometrySet, GeometryFails, From, Old, New, SizeOf,
      ShrunkPlace, MovedPlace, MovedLength, Shrink
<1>3. Sized'
  BY DEF ResizeInv, Sized, MoveBack, GeometrySet, GeometryFails, Old, New, Shrink
<1>4. Located'
  BY DEF ResizeInv, Placed, Located, MoveBack, GeometrySet, GeometryFails, Old
<1>5. Returned'
  BY RequestFields, Places
  DEF ResizeInv, ResizeTypeOK, Placed, MoveBack, GeometrySet, GeometryFails, Returned, From, Old, New, SizeOf,
      MovedPlace, MovedLength, Shrink
<1> QED
  BY <1>1, <1>2, <1>3, <1>4, <1>5 DEF ResizeInv

\* The entry grows before its file system and its old length is kept.
LEMMA GrowGeometryStep ==
    ASSUME ResizeInv, GrowGeometry
    PROVE  ResizeInv'
<1>1. ResizeTypeOK'
  BY RequestFields, Places
  DEF ResizeInv, ResizeTypeOK, Placed, GrowGeometry, SetGeometry, GeometrySet, GeometryFails, Jobs, From, New, SizeOf,
      MovedPlace
<1>2. Placed'
  BY RequestFields
  DEF ResizeInv, ResizeTypeOK, Placed, GrowGeometry, SetGeometry, GeometrySet, GeometryFails, From, Old, New, SizeOf,
      MovedPlace, MovedLength, Grow, Shrink
<1>3. Sized'
  BY DEF ResizeInv, Sized, GrowGeometry, SetGeometry, GeometrySet, GeometryFails, Old, New, Shrink
<1>4. Located'
  BY DEF ResizeInv, Located, GrowGeometry, SetGeometry, GeometrySet, GeometryFails, Old, New, Move
<1>5. Returned'
  BY DEF ResizeInv, Placed, Located, Returned, GrowGeometry, Old, New, Move
<1> QED
  BY <1>1, <1>2, <1>3, <1>4, <1>5 DEF ResizeInv

\* The file system grows to the length its entry already has.
LEMMA GrowFileSystemStep ==
    ASSUME ResizeInv, GrowFileSystem
    PROVE  ResizeInv'
<1>1. ResizeTypeOK'
  BY Places DEF ResizeInv, ResizeTypeOK, GrowFileSystem, ResizeFileSystem, Jobs, AfterGrow, From, Span
<1>2. Placed'
  BY DEF ResizeInv, Placed, GrowFileSystem, ResizeFileSystem, Jobs, AfterGrow, Old, New, Grow
<1>3. Sized'
  BY DEF ResizeInv, ResizeTypeOK, Placed, Sized, GrowFileSystem, ResizeFileSystem, AfterGrow, Old,
         New, Grow, Shrink
<1>4. Located'
  BY DEF ResizeInv, ResizeTypeOK, Located, GrowFileSystem, ResizeFileSystem, AfterGrow, From, Old,
         New, Move
<1>5. Returned'
  BY DEF ResizeInv, Placed, Located, Returned, GrowFileSystem, Old, New, Move
<1> QED
  BY <1>1, <1>2, <1>3, <1>4, <1>5 DEF ResizeInv

\* The entry gets its kept length back, which the file system never exceeded.
LEMMA GrowBackStep ==
    ASSUME ResizeInv, GrowBack
    PROVE  ResizeInv'
<1>1. ResizeTypeOK'
  BY Places DEF ResizeInv, ResizeTypeOK, Placed, GrowBack, SetGeometry, GeometrySet, GeometryFails, From, Span
<1>2. Placed'
  BY Places
  DEF ResizeInv, ResizeTypeOK, Placed, GrowBack, SetGeometry, GeometrySet, GeometryFails, Old, New, MovedPlace, MovedLength,
      Grow, Shrink
<1>3. Sized'
  BY DEF ResizeInv, Sized, GrowBack, SetGeometry, GeometrySet, GeometryFails, Old, New, Shrink
<1>4. Located'
  BY DEF ResizeInv, Located, GrowBack, SetGeometry, GeometrySet, GeometryFails, Old, New
<1>5. Returned'
  BY DEF ResizeInv, Placed, Located, Returned, GrowBack, Old, New, Move
<1> QED
  BY <1>1, <1>2, <1>3, <1>4, <1>5 DEF ResizeInv

\* Stuttering and every job preserve it.
LEMMA ResizeStepInv == ResizeInv /\ [ResizeNext]_resizeVars => ResizeInv'
<1> SUFFICES ASSUME ResizeInv, [ResizeNext]_resizeVars PROVE ResizeInv'
  OBVIOUS
<1>1. CASE Check            BY <1>1, CheckStep
<1>2. CASE MoveExtended     BY <1>2, MoveExtendedStep
<1>3. CASE ShrinkFileSystem BY <1>3, ShrinkFileSystemStep
<1>4. CASE ShrinkGeometry   BY <1>4, ShrinkGeometryStep
<1>5. CASE MoveGeometry     BY <1>5, MoveGeometryStep
<1>6. CASE MoveSucceeds     BY <1>6, MoveSucceedsStep
<1>7. CASE BootSectorFails  BY <1>7, BootSectorFailsStep
<1>8. CASE MoveFails        BY <1>8, MoveFailsStep
<1>9. CASE MoveBack         BY <1>9, MoveBackStep
<1>10. CASE GrowGeometry    BY <1>10, GrowGeometryStep
<1>11. CASE GrowFileSystem  BY <1>11, GrowFileSystemStep
<1>12. CASE GrowBack        BY <1>12, GrowBackStep
<1>13. CASE UNCHANGED resizeVars
  BY <1>13 DEF resizeVars, ResizeInv, ResizeTypeOK, Placed, Sized, Located, Returned,
     ShrunkPlace, MovedPlace, MovedLength, Old, New, Grow, Shrink, Move
<1> QED
  BY <1>1, <1>2, <1>3, <1>4, <1>5, <1>6, <1>7, <1>8, <1>9, <1>10, <1>11, <1>12, <1>13 DEF ResizeNext

\* Every state of every execution satisfies the invariant.
THEOREM ResizeInvariance == ResizeSpec => []ResizeInv
  BY ResizeInitInv, ResizeStepInv, PTL DEF ResizeSpec

--------------------------------------------------------------------------------
(* What follows from it.                                                   *)

\* Objects, entry and file system keep their types: no length ever becomes negative.
THEOREM ResizeTypeCorrect == ResizeSpec => []ResizeTypeOK
<1>1. ResizeInv => ResizeTypeOK
  BY DEF ResizeInv
<1> QED
  BY <1>1, ResizeInvariance, PTL

\* Whatever job fails, the table entry is never shorter than the file system in it.
THEOREM FileSystemNeverCut == ResizeSpec => []NeverCut
<1>1. ASSUME ResizeInv, ~request.extended
      PROVE  content.length <= SizeOf(entry)
  <2>1. request \in Requests
    BY <1>1 DEF ResizeInv, ResizeTypeOK
  <2>2. /\ SizeOf(ShrunkPlace) = SizeOf(New)
        /\ SizeOf(MovedPlace) = IF Shrink THEN SizeOf(New) ELSE SizeOf(Old)
    BY <2>1, RequestFields DEF ShrunkPlace, MovedPlace, MovedLength, From, SizeOf, Old, New
  <2>3. CASE job = "error"
    BY <1>1, <2>1, <2>2, <2>3, RequestFields, Places DEF ResizeInv, Placed, Sized, Grow, Shrink
  <2>4. CASE job \in {"checkResized", "success"}
    BY <1>1, <2>1, <2>2, <2>4, RequestFields, Places DEF ResizeInv, Placed, Sized, Grow, Shrink
  <2>5. CASE job \in Jobs \ {"checkResized"}
    BY <1>1, <2>1, <2>2, <2>5, RequestFields, Places
    DEF ResizeInv, Placed, Sized, Grow, Shrink, Jobs
  <2> QED
    BY <1>1, <2>3, <2>4, <2>5 DEF ResizeInv, ResizeTypeOK
<1>2. ResizeInv => NeverCut
  BY <1>1 DEF NeverCut
<1> QED
  BY <1>2, ResizeInvariance, PTL

\* The entry never leaves the sectors of the old and the new place.
THEOREM NeighboursSafe == ResizeSpec => []NoForeignSectors
<1>1. ResizeInv => NoForeignSectors
  BY RequestFields, Places DEF ResizeInv, ResizeTypeOK, Placed, NoForeignSectors, Sectors,
     ShrunkPlace, MovedPlace, MovedLength, From, SizeOf, Grow, Shrink, Move, Jobs, Old, New
<1> QED
  BY <1>1, ResizeInvariance, PTL

\* Partition and FileSystem object say where entry and file system are whenever a job still
\* takes its places from them, and at the end, but for a logical volume not resized.
THEOREM ObjectsCorrect == ResizeSpec => []ObjectsTrackDisk
<1>1. ResizeInv => ObjectsTrackDisk
  BY DEF ResizeInv, Placed, Located, ObjectsTrackDisk
<1> QED
  BY <1>1, ResizeInvariance, PTL

\* An execution that succeeds leaves entry, objects and file system at the new place.
THEOREM SuccessComplete == ResizeSpec => []SuccessIsComplete
<1>1. ResizeInv => SuccessIsComplete
  BY RequestFields, Places DEF ResizeInv, ResizeTypeOK, Placed, Sized, Located, SuccessIsComplete,
     SizeOf, Grow, Shrink, Move, Jobs, Old, New
<1> QED
  BY <1>1, ResizeInvariance, PTL

\* A partition whose blocks could not be moved has its old place and its length at the time
\* again, unless the job that moves it back failed.
THEOREM MovesBack == ResizeSpec => []MovedBack
<1>1. ResizeInv => MovedBack
  BY DEF ResizeInv, Returned, MovedBack
<1> QED
  BY <1>1, ResizeInvariance, PTL

--------------------------------------------------------------------------------
(* The widget and the unallocated space.                                   *)

Names == Primaries \cup Logicals \cup {Extended}

\* Room for metadata, which a logical partition has in front of it.
Margin(node) == IF node = None THEN 0 ELSE Alignment

\* The stretch r lies in the node and keeps clear of its children, "name" excepted.
Clear(node, r, name) ==
    /\ Start(node) + Margin(node) <= r.first /\ r.last <= End(node)
    /\ \A c \in Children(node) \ {name} : \/ layout[c].last + Margin(node) < r.first
                                          \/ r.last + Margin(node) < layout[c].first

\* A logical partition has an extended one around it.
Held(name) == name \in Logicals => Extended \in Present

LayoutTyped == /\ Present \subseteq Names
               /\ layout \in [Present -> [first : Nat, last : Nat]]
               /\ \A n \in Present : Held(n)

LayoutClear == \A n \in Present : Clear(Parent(n), layout[n], n) /\ LengthOf(layout[n]) >= MinSectors

DialogTyped == dialog \in [on : Names \cup {None}, first : Nat, last : Nat, minFirst : Nat, maxLast : Nat,
                           minLast : Nat \cup {-1}, align : BOOLEAN, move : BOOLEAN]

\* The limits that the widget was opened with are clear of the other partitions.
DialogClear ==
    dialog.on # None =>
        /\ Held(dialog.on) /\ Clear(Parent(dialog.on), Stretch(dialog.minFirst, dialog.maxLast), dialog.on)
        /\ dialog.minFirst <= dialog.first /\ dialog.last <= dialog.maxLast /\ LengthOf(dialog) >= MinSectors

\* An extended partition with logical ones keeps its start and their ends.
DialogHolds ==
    dialog.on = Extended /\ Children(Extended) # {} =>
        /\ ~dialog.move /\ dialog.first = layout[Extended].first
        /\ \A c \in Children(Extended) : layout[c].last <= dialog.minLast
        /\ dialog.minLast <= dialog.last

GeometryInv == LayoutTyped /\ LayoutClear /\ DialogTyped /\ DialogClear /\ DialogHolds

\* A new partition is begun only where its file system has room.
NewHasRoom == OpenNew => LengthOf(dialog') >= MinSectors

--------------------------------------------------------------------------------
(* Greatest and least numbers.                                             *)

\* The greatest number of a set is the one that no other exceeds.
LEMMA MaxIs == ASSUME NEW S, S \subseteq Int, NEW m \in S, \A x \in S : x <= m PROVE Max(S) = m
<1>1. \E x \in S : \A y \in S : x >= y
  OBVIOUS
<1>2. Max(S) \in S /\ \A y \in S : Max(S) >= y
  BY <1>1 DEF Max
<1>3. Max(S) \in Int /\ m \in Int /\ Max(S) >= m /\ Max(S) <= m
  BY <1>2
<1> HIDE DEF Max
<1> QED
  BY ONLY <1>3

\* The least number of a set is the one that none is below.
LEMMA MinIs == ASSUME NEW S, S \subseteq Int, NEW m \in S, \A x \in S : m <= x PROVE Min(S) = m
<1>1. \E x \in S : \A y \in S : x <= y
  OBVIOUS
<1>2. Min(S) \in S /\ \A y \in S : Min(S) <= y
  BY <1>1 DEF Min
<1>3. Min(S) \in Int /\ m \in Int /\ m <= Min(S) /\ Min(S) <= m
  BY <1>2
<1> HIDE DEF Min
<1> QED
  BY ONLY <1>3

\* The greater and the lesser of two numbers.
LEMMA OfTwo ==
    ASSUME NEW a \in Int, NEW b \in Int
    PROVE  Max({a, b}) = (IF a < b THEN b ELSE a) /\ Min({a, b}) = (IF a < b THEN a ELSE b)
<1>1. CASE a < b
  <2>1. Max({a, b}) = b
    BY <1>1, MaxIs
  <2>2. Min({a, b}) = a
    BY <1>1, MinIs
  <2> QED
    BY <1>1, <2>1, <2>2
<1>2. CASE ~ (a < b)
  <2>1. Max({a, b}) = a
    BY <1>2, MaxIs
  <2>2. Min({a, b}) = b
    BY <1>2, MinIs
  <2> QED
    BY <1>2, <2>1, <2>2
<1> QED
  BY <1>1, <1>2

\* A bounded set of numbers has a greatest one.
LEMMA MaxOf ==
    ASSUME NEW n \in Nat, NEW S, S \subseteq 0 .. n, S # {}
    PROVE  Max(S) \in S /\ \A x \in S : x <= Max(S)
<1> DEFINE R == OpToRel(<, Nat)
           D == { n - x : x \in S }
<1>1. D \subseteq Nat /\ D # {}
  <2>1. \A x \in S : n - x \in Nat
    OBVIOUS
  <2>2. PICK x \in S : TRUE
    OBVIOUS
  <2>3. n - x \in D
    BY <2>2
  <2> QED
    BY <2>1, <2>3
<1>2. PICK d \in D : \A e \in D : ~ (<<e, d>> \in R)
  <2>1. IsWellFoundedOn(R, Nat)
    BY NatLessThanWellFounded
  <2> HIDE DEF R, D
  <2> QED
    BY ONLY <1>1, <2>1, WFMin
<1>3. ASSUME NEW e \in D PROVE d <= e
  <2>1. d \in Nat /\ e \in Nat
    BY <1>1, <1>2
  <2>2. ~ (e < d)
    BY <1>2, <2>1 DEF OpToRel
  <2> QED
    BY <2>1, <2>2
<1>4. PICK m \in S : d = n - m
  OBVIOUS
<1>5. \A x \in S : n - x \in D
  OBVIOUS
<1>6. \A x \in S : n - m <= n - x
  <2> HIDE DEF D
  <2> QED
    BY <1>3, <1>4, <1>5
<1>7. \A x \in S : x <= m
  BY <1>4, <1>6
<1>8. S \subseteq Int
  OBVIOUS
<1>9. Max(S) = m
  BY <1>4, <1>7, <1>8, MaxIs
<1> QED
  BY <1>4, <1>7, <1>9

--------------------------------------------------------------------------------
(* Gaps between the partitions.                                            *)

\* The table, or an extended partition of it.
IsNode(node) == node = None \/ (node = Extended /\ Extended \in Present)

\* What a sound layout says of the children of a node.
LEMMA NodeFacts ==
    ASSUME LayoutTyped, LayoutClear, NEW node, IsNode(node)
    PROVE  /\ Start(node) \in Nat /\ End(node) \in Nat /\ Margin(node) \in Nat
           /\ Alignment <= Start(node) /\ Start(node) <= End(node) /\ End(node) < TotalSectors
           /\ Alignment \in Nat \ {0} /\ TotalSectors \in Nat
           /\ \A c \in Children(node) :
                 /\ c \in Present /\ Parent(c) = node /\ c # node /\ layout[c].first \in Nat /\ layout[c].last \in Nat
                 /\ Start(node) + Margin(node) <= layout[c].first /\ layout[c].first <= layout[c].last
                 /\ layout[c].last <= End(node) /\ LengthOf(layout[c]) >= MinSectors
           /\ \A c, d \in Children(node) : c # d =>
                 \/ layout[c].last + Margin(node) < layout[d].first
                 \/ layout[d].last + Margin(node) < layout[c].first
<1>1. /\ Alignment \in Nat \ {0} /\ TotalSectors \in Nat /\ TotalSectors > Alignment /\ MinSectors \in Nat \ {0}
      /\ None \notin Names /\ Extended \notin Logicals
  BY GeometryAssumption DEF Names
<1>2. /\ layout \in [Present -> [first : Nat, last : Nat]] /\ Present \subseteq Names
  BY DEF LayoutTyped
<1>3. \A c \in Present : /\ layout[c].first \in Nat /\ layout[c].last \in Nat
                         /\ LengthOf(layout[c]) >= MinSectors /\ layout[c].first <= layout[c].last
  <2>1. \A c \in Present : layout[c].first \in Nat /\ layout[c].last \in Nat /\ LengthOf(layout[c]) >= MinSectors
    BY <1>2 DEF LayoutClear
  <2> QED
    BY <1>1, <2>1 DEF LengthOf
<1>4. \A c \in Present \ Logicals : FirstUsable <= layout[c].first /\ layout[c].last <= LastUsable
  <2>1. ASSUME NEW c \in Present \ Logicals PROVE FirstUsable <= layout[c].first /\ layout[c].last <= LastUsable
    <3>1. Clear(None, layout[c], c)
      BY DEF LayoutClear, Parent
    <3> QED
      BY <1>1, <1>3, <3>1 DEF Clear, Start, End, Margin, FirstUsable
  <2> QED
    BY <2>1
<1>5. /\ Start(node) \in Nat /\ End(node) \in Nat /\ Margin(node) \in Nat
      /\ Alignment <= Start(node) /\ Start(node) <= End(node) /\ End(node) < TotalSectors
  <2>1. CASE node = None
    BY <1>1, <2>1 DEF Start, End, Margin, FirstUsable, LastUsable
  <2>2. CASE node # None /\ node = Extended /\ Extended \in Present
    <3>1. node \in Present \ Logicals
      BY <1>1, <2>2
    <3> QED
      BY <1>1, <1>3, <1>4, <2>2, <3>1 DEF Start, End, Margin, FirstUsable, LastUsable
  <2> QED
    BY <2>1, <2>2 DEF IsNode
<1>6. \A c \in Children(node) : c \in Present /\ Parent(c) = node /\ c # node
  BY <1>1, <1>2 DEF Children, Roots, Parent, IsNode, Names
<1>7. \A c \in Children(node) : Clear(node, layout[c], c)
  BY <1>6 DEF LayoutClear
<1>8. \A c \in Children(node) : Start(node) + Margin(node) <= layout[c].first /\ layout[c].last <= End(node)
  BY <1>7 DEF Clear
<1>9. \A c, d \in Children(node) : c # d =>
                 \/ layout[d].last + Margin(node) < layout[c].first
                 \/ layout[c].last + Margin(node) < layout[d].first
  BY <1>7 DEF Clear
<1> QED
  BY <1>1, <1>3, <1>5, <1>6, <1>8, <1>9

\* LastEnd() is the end of the last child in front of a sector, or the start of all.
LEMMA LastEndFacts ==
    ASSUME LayoutTyped, LayoutClear, NEW node, IsNode(node), NEW s \in Int
    PROVE  /\ LastEnd(node, s) \in Nat /\ Start(node) <= LastEnd(node, s)
           /\ \A c \in Children(node) : layout[c].first < s => layout[c].last < LastEnd(node, s)
           /\ \/ LastEnd(node, s) = Start(node)
              \/ \E c \in Children(node) : layout[c].first < s /\ LastEnd(node, s) = layout[c].last + 1
<1> DEFINE S == {Start(node)} \cup {layout[c].last + 1 : c \in {d \in Children(node) : layout[d].first < s}}
<1>1. /\ Start(node) \in Nat /\ End(node) \in Nat /\ Start(node) <= End(node)
      /\ \A c \in Children(node) : layout[c].last \in Nat /\ layout[c].last <= End(node)
  BY NodeFacts
<1>2. S \subseteq 0 .. End(node) + 1 /\ S # {} /\ End(node) + 1 \in Nat
  BY <1>1
<1>3. Max(S) \in S /\ \A x \in S : x <= Max(S)
  <2> HIDE DEF S
  <2> QED
    BY <1>2, MaxOf
<1>4. LastEnd(node, s) = Max(S)
  BY DEF LastEnd
<1>5. Max(S) \in Nat
  <2>1. Max(S) \in 0 .. End(node) + 1
    <3> HIDE DEF S
    <3> QED
      BY <1>2, <1>3
  <2> QED
    BY ONLY <1>2, <2>1
<1>6. \A c \in Children(node) : layout[c].first < s => layout[c].last + 1 \in S
  OBVIOUS
<1>7. \A x \in S : x = Start(node) \/ \E c \in Children(node) : layout[c].first < s /\ x = layout[c].last + 1
  OBVIOUS
<1>8. Start(node) \in S
  OBVIOUS
<1> HIDE DEF S
<1>9. \A c \in Children(node) : layout[c].first < s => layout[c].last < Max(S)
  BY <1>1, <1>3, <1>5, <1>6
<1> QED
  BY <1>3, <1>4, <1>5, <1>7, <1>8, <1>9


\* Where the gaps end, and the unallocated space that ends there.
Edges(node)     == {layout[c].first - 1 : c \in Children(node)} \cup {End(node)}
Ranged(node, l) == Stretch(LastEnd(node, l + 1) + Margin(node), IF l < End(node) THEN l - Margin(node) ELSE l)

\* A gap ends at the end of the node or in front of a child, and no child is in it.
LEMMA GapFacts ==
    ASSUME LayoutTyped, LayoutClear, NEW node, IsNode(node), NEW l \in Edges(node)
    PROVE  /\ l \in Int /\ l <= End(node) /\ LastEnd(node, l + 1) \in Nat /\ Start(node) <= LastEnd(node, l + 1)
           /\ l = End(node) \/ \E c \in Children(node) : l = layout[c].first - 1
           /\ \A c \in Children(node) : layout[c].last < LastEnd(node, l + 1) \/ l < layout[c].first
<1>1. /\ End(node) \in Nat
      /\ \A c \in Children(node) : layout[c].first \in Nat /\ layout[c].last \in Nat
                                   /\ layout[c].first <= layout[c].last /\ layout[c].last <= End(node)
  BY NodeFacts
<1>2. l \in Int /\ l <= End(node) /\ (l = End(node) \/ \E c \in Children(node) : l = layout[c].first - 1)
  BY <1>1 DEF Edges
<1>3. /\ LastEnd(node, l + 1) \in Nat /\ Start(node) <= LastEnd(node, l + 1)
      /\ \A c \in Children(node) : layout[c].first < l + 1 => layout[c].last < LastEnd(node, l + 1)
  <2>1. l + 1 \in Int
    BY <1>2
  <2> QED
    BY <2>1, LastEndFacts
<1>4. \A c \in Children(node) : layout[c].last < LastEnd(node, l + 1) \/ l < layout[c].first
  BY <1>1, <1>2, <1>3
<1> QED
  BY <1>2, <1>3, <1>4

\* Unallocated() is what is left of the gaps.
LEMMA UnallocatedIsRanged ==
    ASSUME LayoutTyped, LayoutClear, NEW node, IsNode(node)
    PROVE  Unallocated(node) = {u \in {Ranged(node, l) : l \in Edges(node)} : LengthOf(u) >= Alignment}
<1> DEFINE Gap(l) == Stretch(LastEnd(node, l + 1), l)
           gaps == {Stretch(LastEnd(node, layout[c].first), layout[c].first - 1) : c \in Children(node)}
                   \cup {Stretch(LastEnd(node, End(node) + 1), End(node))}
<1>1. \A c \in Children(node) : layout[c].first \in Nat /\ (layout[c].first - 1) + 1 = layout[c].first
  BY NodeFacts
<1>2. gaps = {Gap(l) : l \in Edges(node)}
  BY <1>1 DEF Edges
<1>3. \A l \in Edges(node) : UnallocatedRange(node, Gap(l)) = Ranged(node, l)
  <2>1. ASSUME NEW l \in Edges(node) PROVE UnallocatedRange(node, Gap(l)) = Ranged(node, l)
    <3>1. l \in Int /\ LastEnd(node, l + 1) \in Nat
      BY GapFacts
    <3>2. CASE node = None
      BY <3>1, <3>2 DEF UnallocatedRange, Ranged, Margin, Stretch
    <3>3. CASE node # None
      BY <3>1, <3>3 DEF UnallocatedRange, Ranged, Margin, Stretch
    <3> QED
      BY <3>2, <3>3
  <2> QED
    BY <2>1
<1>4. {UnallocatedRange(node, g) : g \in gaps} = {Ranged(node, l) : l \in Edges(node)}
  <2> HIDE DEF gaps, Gap
  <2> QED
    BY <1>2, <1>3
<1>5. Unallocated(node) = {u \in {UnallocatedRange(node, g) : g \in gaps} : LengthOf(u) >= Alignment}
  BY DEF Unallocated
<1> HIDE DEF gaps
<1> QED
  BY <1>4, <1>5

\* The unallocated space lies in its node and is clear of the children.
LEMMA UnallocatedIsClear ==
    ASSUME LayoutTyped, LayoutClear, NEW node, IsNode(node), NEW u \in Unallocated(node)
    PROVE  /\ u.first \in Nat /\ u.last \in Nat /\ LengthOf(u) >= Alignment /\ u = Stretch(u.first, u.last)
           /\ \A name : Clear(node, u, name)
<1>1. PICK l \in Edges(node) : u = Ranged(node, l) /\ LengthOf(u) >= Alignment
  BY UnallocatedIsRanged
<1>2. /\ l \in Int /\ l <= End(node) /\ LastEnd(node, l + 1) \in Nat /\ Start(node) <= LastEnd(node, l + 1)
      /\ \A c \in Children(node) : layout[c].last < LastEnd(node, l + 1) \/ l < layout[c].first
  BY GapFacts
<1>3. /\ Start(node) \in Nat /\ End(node) \in Nat /\ Margin(node) \in Nat /\ Alignment \in Nat \ {0}
      /\ \A c \in Children(node) : layout[c].first \in Nat /\ layout[c].last \in Nat
                                   /\ layout[c].first <= layout[c].last /\ layout[c].last <= End(node)
  BY NodeFacts
<1>4. /\ u.first = LastEnd(node, l + 1) + Margin(node) /\ u.last = IF l < End(node) THEN l - Margin(node) ELSE l
      /\ u = Stretch(u.first, u.last)
  BY <1>1 DEF Ranged, Stretch
<1>5. u.first \in Nat /\ u.last \in Int /\ u.last - u.first + 1 >= Alignment
  BY <1>1, <1>2, <1>3, <1>4 DEF LengthOf
<1>6. u.last \in Nat
  BY <1>3, <1>5
<1>7. Start(node) + Margin(node) <= u.first /\ u.last <= End(node)
  BY <1>2, <1>3, <1>4
<1>8. \A c \in Children(node) : layout[c].last + Margin(node) < u.first \/ u.last + Margin(node) < layout[c].first
  BY <1>2, <1>3, <1>4
<1> QED
  BY <1>1, <1>4, <1>5, <1>6, <1>7, <1>8 DEF Clear


\* What no child of the node has, and where a stretch of it ends.
FreeSectors(node) == (Start(node) .. End(node)) \ UNION {SectorsOf(layout[c]) : c \in Children(node)}
FreeEnds(node)    == {l \in FreeSectors(node) : l + 1 \notin FreeSectors(node)}

\* A sector is free if it is in the node and outside of every child.
LEMMA FreeIs ==
    ASSUME LayoutTyped, LayoutClear, NEW node, IsNode(node), NEW x \in Int
    PROVE  x \in FreeSectors(node) <=>
               /\ Start(node) <= x /\ x <= End(node)
               /\ \A c \in Children(node) : x < layout[c].first \/ layout[c].last < x
<1>1. /\ Start(node) \in Nat /\ End(node) \in Nat
      /\ \A c \in Children(node) : layout[c].first \in Nat /\ layout[c].last \in Nat
  BY NodeFacts
<1>2. x \in Start(node) .. End(node) <=> Start(node) <= x /\ x <= End(node)
  BY <1>1
<1>3. \A c \in Children(node) : x \in SectorsOf(layout[c]) <=> ~ (x < layout[c].first \/ layout[c].last < x)
  BY <1>1 DEF SectorsOf
<1>4. x \in FreeSectors(node) <=>
          x \in Start(node) .. End(node) /\ \A c \in Children(node) : x \notin SectorsOf(layout[c])
  BY DEF FreeSectors
<1> QED
  BY <1>2, <1>3, <1>4

\* A free stretch ends where a gap does, and starts at its start.
LEMMA FreeEndFacts ==
    ASSUME LayoutTyped, LayoutClear, NEW node, IsNode(node), NEW l \in FreeEnds(node)
    PROVE  /\ l \in Edges(node)
           /\ Min({f \in FreeSectors(node) : f .. l \subseteq FreeSectors(node)}) = LastEnd(node, l + 1)
<1> DEFINE F == LastEnd(node, l + 1)
           G == {f \in FreeSectors(node) : f .. l \subseteq FreeSectors(node)}
<1>1. /\ Start(node) \in Nat /\ End(node) \in Nat
      /\ \A c \in Children(node) : layout[c].first \in Nat /\ layout[c].last \in Nat
                                   /\ layout[c].first <= layout[c].last /\ layout[c].last <= End(node)
  BY NodeFacts
<1>2. FreeSectors(node) \subseteq Int
  BY <1>1 DEF FreeSectors
<1>3. l \in FreeSectors(node) /\ l + 1 \notin FreeSectors(node) /\ l \in Int /\ l + 1 \in Int
  BY <1>2 DEF FreeEnds
<1>4. /\ Start(node) <= l /\ l <= End(node)
      /\ \A c \in Children(node) : l < layout[c].first \/ layout[c].last < l
  BY <1>3, FreeIs
<1>5. \/ ~ (Start(node) <= l + 1 /\ l + 1 <= End(node))
      \/ \E c \in Children(node) : ~ (l + 1 < layout[c].first \/ layout[c].last < l + 1)
  <2>1. ~ (/\ Start(node) <= l + 1 /\ l + 1 <= End(node)
           /\ \A c \in Children(node) : l + 1 < layout[c].first \/ layout[c].last < l + 1)
    BY <1>3, FreeIs
  <2> QED
    BY <2>1
<1>6. l \in Edges(node)
  <2>1. CASE ~ (Start(node) <= l + 1 /\ l + 1 <= End(node))
    <3>1. l = End(node)
      BY <1>1, <1>3, <1>4, <2>1
    <3> QED
      BY <3>1 DEF Edges
  <2>2. CASE \E c \in Children(node) : ~ (l + 1 < layout[c].first \/ layout[c].last < l + 1)
    <3>1. PICK c \in Children(node) : ~ (l + 1 < layout[c].first \/ layout[c].last < l + 1)
      BY <2>2
    <3>2. l = layout[c].first - 1
      BY <1>1, <1>3, <1>4, <3>1
    <3> QED
      BY <3>2 DEF Edges
  <2> QED
    BY <1>5, <2>1, <2>2
<1>7. /\ F \in Nat /\ Start(node) <= F
      /\ \A c \in Children(node) : layout[c].first < l + 1 => layout[c].last < F
      /\ F = Start(node) \/ \E c \in Children(node) : layout[c].first < l + 1 /\ F = layout[c].last + 1
  BY <1>3, LastEndFacts
<1> HIDE DEF F
<1>8. F <= l
  BY <1>1, <1>3, <1>4, <1>7
<1>9. \A x \in F .. l : x \in FreeSectors(node)
  <2>1. ASSUME NEW x \in F .. l PROVE x \in FreeSectors(node)
    <3>1. x \in Int /\ F <= x /\ x <= l
      BY <1>3, <1>7
    <3>2. /\ Start(node) <= x /\ x <= End(node)
          /\ \A c \in Children(node) : x < layout[c].first \/ layout[c].last < x
      BY <1>1, <1>3, <1>4, <1>7, <3>1
    <3> QED
      BY <3>1, <3>2, FreeIs
  <2> QED
    BY <2>1
<1>10. F \in G
  <2>1. F \in F .. l
    BY <1>3, <1>7, <1>8
  <2> QED
    BY <1>9, <2>1
<1>11. ASSUME NEW f \in G PROVE F <= f
  <2>1. f \in FreeSectors(node) /\ f .. l \subseteq FreeSectors(node) /\ f \in Int
    BY <1>2
  <2>2. Start(node) <= f
    BY <2>1, FreeIs
  <2>3. ASSUME NEW c \in Children(node), layout[c].first < l + 1, F = layout[c].last + 1, f < F PROVE FALSE
    <3>1. layout[c].last \in f .. l
      BY <1>1, <1>3, <1>8, <2>1, <2>3
    <3>2. layout[c].last \in FreeSectors(node) /\ layout[c].last \in Int
      BY <1>1, <2>1, <3>1
    <3>3. layout[c].last < layout[c].first \/ layout[c].last < layout[c].last
      BY <3>2, FreeIs
    <3> QED
      BY <1>1, <3>3
  <2> QED
    BY <1>1, <1>7, <2>1, <2>2, <2>3
<1>12. Min(G) = F
  <2>1. G \subseteq Int
    BY <1>2
  <2> HIDE DEF G
  <2> QED
    BY <1>10, <1>11, <2>1, MinIs
<1> QED
  BY <1>6, <1>12 DEF F

\* A gap that no free stretch fills is none.
LEMMA EdgeFacts ==
    ASSUME LayoutTyped, LayoutClear, NEW node, IsNode(node), NEW l \in Edges(node),
           LengthOf(Ranged(node, l)) >= Alignment
    PROVE  l \in FreeEnds(node)
<1>1. /\ Start(node) \in Nat /\ End(node) \in Nat /\ Margin(node) \in Nat /\ Alignment \in Nat \ {0}
      /\ \A c \in Children(node) : layout[c].first \in Nat /\ layout[c].last \in Nat
                                   /\ layout[c].first <= layout[c].last /\ layout[c].last <= End(node)
  BY NodeFacts
<1>2. /\ l \in Int /\ l <= End(node) /\ LastEnd(node, l + 1) \in Nat /\ Start(node) <= LastEnd(node, l + 1)
      /\ l = End(node) \/ \E c \in Children(node) : l = layout[c].first - 1
      /\ \A c \in Children(node) : layout[c].last < LastEnd(node, l + 1) \/ l < layout[c].first
  BY GapFacts
<1>3. LastEnd(node, l + 1) <= l
  <2>1. (IF l < End(node) THEN l - Margin(node) ELSE l) - (LastEnd(node, l + 1) + Margin(node)) + 1 >= Alignment
    BY DEF Ranged, LengthOf, Stretch
  <2> QED
    BY <1>1, <1>2, <2>1
<1>4. /\ Start(node) <= l /\ l <= End(node)
      /\ \A c \in Children(node) : l < layout[c].first \/ layout[c].last < l
  BY <1>1, <1>2, <1>3
<1>5. l \in FreeSectors(node)
  BY <1>2, <1>4, FreeIs
<1>6. l + 1 \notin FreeSectors(node)
  <2>1. l + 1 \in Int
    BY <1>2
  <2>2. ~ (/\ Start(node) <= l + 1 /\ l + 1 <= End(node)
           /\ \A c \in Children(node) : l + 1 < layout[c].first \/ layout[c].last < l + 1)
    BY <1>1, <1>2
  <2> QED
    BY <2>1, <2>2, FreeIs
<1> QED
  BY <1>5, <1>6 DEF FreeEnds

\* The unallocated space is the free one, whenever the layout is sound.
LEMMA UnallocatedIsFreeIn ==
    ASSUME LayoutTyped, LayoutClear
    PROVE  UnallocatedIsFree
<1>1. ASSUME NEW node \in {None} \cup (Present \cap {Extended})
      PROVE  LET StretchTo(l) == Stretch(Min({f \in FreeSectors(node) : f .. l \subseteq FreeSectors(node)}), l)
                 Usable(l)  == IF node = None THEN StretchTo(l)
                               ELSE Stretch(StretchTo(l).first + Alignment,
                                            IF l = End(node) THEN l ELSE l - Alignment)
             IN  Unallocated(node) = {u \in {Usable(l) : l \in FreeEnds(node)} : LengthOf(u) >= Alignment}
  <2> DEFINE StretchTo(l) == Stretch(Min({f \in FreeSectors(node) : f .. l \subseteq FreeSectors(node)}), l)
             Usable(l)  == IF node = None THEN StretchTo(l)
                           ELSE Stretch(StretchTo(l).first + Alignment,
                                        IF l = End(node) THEN l ELSE l - Alignment)
  <2>1. IsNode(node)
    BY DEF IsNode
  <2>2. \A l \in FreeEnds(node) : l \in Edges(node) /\ Usable(l) = Ranged(node, l)
    <3>1. ASSUME NEW l \in FreeEnds(node) PROVE l \in Edges(node) /\ Usable(l) = Ranged(node, l)
      <4>1. l \in Edges(node) /\ StretchTo(l) = Stretch(LastEnd(node, l + 1), l)
        BY <2>1, FreeEndFacts
      <4>2. l \in Int /\ l <= End(node) /\ LastEnd(node, l + 1) \in Nat
        BY <2>1, <4>1, GapFacts
      <4>3. End(node) \in Nat
        BY <2>1, NodeFacts
      <4> HIDE DEF StretchTo
      <4>4. CASE node = None
        BY <4>1, <4>2, <4>3, <4>4 DEF Ranged, Margin, Stretch
      <4>5. CASE node # None
        BY <4>1, <4>2, <4>3, <4>5 DEF Ranged, Margin, Stretch
      <4> QED
        BY <4>1, <4>4, <4>5
    <3> QED
      BY <3>1
  <2>3. \A l \in Edges(node) : LengthOf(Ranged(node, l)) >= Alignment => l \in FreeEnds(node)
    BY <2>1, EdgeFacts
  <2>4. Unallocated(node) = {u \in {Ranged(node, l) : l \in Edges(node)} : LengthOf(u) >= Alignment}
    BY <2>1, UnallocatedIsRanged
  <2> HIDE DEF Usable
  <2>5. Unallocated(node) = {u \in {Usable(l) : l \in FreeEnds(node)} : LengthOf(u) >= Alignment}
    BY <2>2, <2>3, <2>4
  <2> QED
    BY <2>5 DEF Usable
<1> QED
  BY <1>1 DEF UnallocatedIsFree, FreeSectors, FreeEnds


--------------------------------------------------------------------------------
(* The limits the widget is opened with.                                   *)

\* A set of natural numbers has a least one.
LEMMA MinOf ==
    ASSUME NEW S, S \subseteq Nat, S # {}
    PROVE  Min(S) \in S /\ \A x \in S : Min(S) <= x
<1> DEFINE R == OpToRel(<, Nat)
<1>1. PICK m \in S : \A e \in S : ~ (<<e, m>> \in R)
  <2>1. IsWellFoundedOn(R, Nat)
    BY NatLessThanWellFounded
  <2> HIDE DEF R
  <2> QED
    BY ONLY <2>1, S \subseteq Nat, S # {}, WFMin
<1>2. ASSUME NEW e \in S PROVE m <= e
  <2>1. m \in Nat /\ e \in Nat
    OBVIOUS
  <2>2. ~ (e < m)
    BY <1>1, <2>1 DEF OpToRel
  <2> QED
    BY <2>1, <2>2
<1>3. S \subseteq Int
  OBVIOUS
<1>4. Min(S) = m
  BY <1>2, <1>3, MinIs
<1> QED
  BY <1>2, <1>4

\* A partition lies in a node, among the children of it.
LEMMA ParentFacts ==
    ASSUME LayoutTyped, NEW name \in Names, Held(name)
    PROVE  IsNode(Parent(name)) /\ (name \in Present => name \in Children(Parent(name)))
<1>1. Extended # None /\ Extended \notin Logicals
  BY GeometryAssumption
<1> QED
  BY <1>1 DEF IsNode, Parent, Held, Children, Roots

\* Between a partition and its unallocated neighbours there is no other partition.
LEMMA NeighbourFacts ==
    ASSUME LayoutTyped, LayoutClear, NEW name \in Present
    PROVE  /\ \A u \in Before(name) :
                 /\ u.first \in Nat /\ Start(Parent(name)) + Margin(Parent(name)) <= u.first
                 /\ \A c \in Children(Parent(name)) \ {name} :
                       \/ layout[c].last + Margin(Parent(name)) < u.first
                       \/ layout[name].last + Margin(Parent(name)) < layout[c].first
           /\ \A u \in After(name) :
                 /\ u.last \in Nat /\ u.last <= End(Parent(name))
                 /\ \A c \in Children(Parent(name)) \ {name} :
                       \/ layout[c].last + Margin(Parent(name)) < layout[name].first
                       \/ u.last + Margin(Parent(name)) < layout[c].first
<1> DEFINE P == Parent(name)
           r == layout[name]
<1>1. name \in Names /\ Held(name) /\ IsNode(P) /\ name \in Children(P)
  BY ParentFacts DEF LayoutTyped
<1>2. /\ Start(P) \in Nat /\ End(P) \in Nat /\ Margin(P) \in Nat /\ Alignment \in Nat \ {0}
      /\ \A c \in Children(P) : layout[c].first \in Nat /\ layout[c].last \in Nat /\ layout[c].first <= layout[c].last
      /\ \A c, d \in Children(P) : c # d =>
            layout[c].last + Margin(P) < layout[d].first \/ layout[d].last + Margin(P) < layout[c].first
  BY <1>1, NodeFacts
<1>3. /\ LastEnd(P, r.first) \in Nat
      /\ \A c \in Children(P) : layout[c].first < r.first => layout[c].last < LastEnd(P, r.first)
  <2>1. r.first \in Int
    BY <1>1, <1>2
  <2> QED
    BY <1>1, <2>1, LastEndFacts
<1>4. \A u \in Unallocated(P) : u.first \in Nat /\ u.last \in Nat /\ LengthOf(u) >= Alignment /\ Clear(P, u, None)
  BY <1>1, UnallocatedIsClear
<1>5. \A u \in Unallocated(P) :
         /\ u.first \in Nat /\ u.last \in Nat /\ u.first <= u.last
         /\ Start(P) + Margin(P) <= u.first /\ u.last <= End(P)
         /\ \A c \in Children(P) : layout[c].last + Margin(P) < u.first \/ u.last + Margin(P) < layout[c].first
  <2>1. None \notin Children(P)
    BY <1>1, GeometryAssumption DEF LayoutTyped, Names, Children, Roots
  <2> HIDE DEF P
  <2> QED
    BY <1>2, <1>4, <2>1 DEF Clear, LengthOf
<1>6. r.first \in Nat /\ r.last \in Nat /\ r.first <= r.last
  BY <1>1, <1>2
<1>7. ASSUME NEW u \in Before(name), NEW c \in Children(P) \ {name}
      PROVE  layout[c].last + Margin(P) < u.first \/ r.last + Margin(P) < layout[c].first
  <2>1. u \in Unallocated(P) /\ u.last < r.first /\ u.first >= LastEnd(P, r.first)
    BY DEF Before
  <2> HIDE DEF P, r
  <2>2. \/ layout[c].last + Margin(P) < r.first
        \/ r.last + Margin(P) < layout[c].first
    BY <1>1, <1>2 DEF r
  <2> QED
    BY <1>2, <1>3, <1>5, <1>6, <2>1, <2>2
<1>8. ASSUME NEW u \in After(name), NEW c \in Children(P) \ {name}
      PROVE  layout[c].last + Margin(P) < r.first \/ u.last + Margin(P) < layout[c].first
  <2>1. u \in Unallocated(P) /\ u.first > r.last
        /\ \A d \in Children(P) : layout[d].first < u.first => layout[d].first <= r.first
    BY DEF After
  <2> HIDE DEF P, r
  <2>2. \/ layout[c].last + Margin(P) < r.first
        \/ r.last + Margin(P) < layout[c].first
    BY <1>1, <1>2 DEF r
  <2> QED
    BY <1>2, <1>5, <1>6, <2>1, <2>2
<1>9. Before(name) \subseteq Unallocated(P) /\ After(name) \subseteq Unallocated(P)
  BY DEF Before, After
<1> HIDE DEF P, r
<1>10. \A u \in Before(name) :
                 /\ u.first \in Nat /\ Start(P) + Margin(P) <= u.first
                 /\ \A c \in Children(P) \ {name} :
                       \/ layout[c].last + Margin(P) < u.first
                       \/ r.last + Margin(P) < layout[c].first
  BY <1>5, <1>7, <1>9
<1>11. \A u \in After(name) :
                 /\ u.last \in Nat /\ u.last <= End(P)
                 /\ \A c \in Children(P) \ {name} :
                       \/ layout[c].last + Margin(P) < r.first
                       \/ u.last + Margin(P) < layout[c].first
  BY <1>5, <1>8, <1>9
<1> QED
  BY <1>10, <1>11 DEF P, r

\* A partition may be resized up to the other partitions and no further.
LEMMA ResizeLimits ==
    ASSUME LayoutTyped, LayoutClear, NEW name \in Present
    PROVE  /\ FirstFree(name) \in Nat /\ LastFree(name) \in Nat
           /\ FirstFree(name) <= layout[name].first /\ layout[name].last <= LastFree(name)
           /\ Clear(Parent(name), Stretch(FirstFree(name), LastFree(name)), name)
<1> DEFINE P == Parent(name)
           r == layout[name]
           S == {r.first} \cup {u.first : u \in Before(name)}
           T == {r.last} \cup {u.last : u \in After(name)}
<1>1. name \in Names /\ Held(name) /\ IsNode(P) /\ name \in Children(P)
  BY ParentFacts DEF LayoutTyped
<1>2. /\ Start(P) \in Nat /\ End(P) \in Nat /\ Margin(P) \in Nat
      /\ \A c \in Children(P) : layout[c].first \in Nat /\ layout[c].last \in Nat /\ layout[c].first <= layout[c].last
      /\ \A c, d \in Children(P) : c # d =>
            layout[c].last + Margin(P) < layout[d].first \/ layout[d].last + Margin(P) < layout[c].first
      /\ Start(P) + Margin(P) <= r.first /\ r.last <= End(P)
  BY <1>1, NodeFacts
<1>3. r.first \in Nat /\ r.last \in Nat /\ r.first <= r.last
  BY <1>1, <1>2
<1>4. /\ \A x \in S : /\ x \in Nat /\ Start(P) + Margin(P) <= x
                      /\ \A c \in Children(P) \ {name} : \/ layout[c].last + Margin(P) < x
                                                         \/ r.last + Margin(P) < layout[c].first
      /\ \A x \in T : /\ x \in Nat /\ x <= End(P)
                      /\ \A c \in Children(P) \ {name} : \/ layout[c].last + Margin(P) < r.first
                                                         \/ x + Margin(P) < layout[c].first
  <2>1. \A c \in Children(P) \ {name} : \/ layout[c].last + Margin(P) < r.first
                                        \/ r.last + Margin(P) < layout[c].first
    BY <1>1, <1>2
  <2> QED
    BY <1>2, <1>3, <2>1, NeighbourFacts
<1>5. r.first \in S /\ r.last \in T
  OBVIOUS
<1>6. FirstFree(name) = Min(S) /\ LastFree(name) = Max(T)
  BY DEF FirstFree, LastFree
<1> HIDE DEF S, T
<1>7. Min(S) \in S /\ \A x \in S : Min(S) <= x
  <2>1. S \subseteq Nat /\ S # {}
    BY <1>4, <1>5
  <2> QED
    BY <2>1, MinOf
<1>8. Max(T) \in T /\ \A x \in T : x <= Max(T)
  <2>1. T \subseteq 0 .. End(P) /\ T # {} /\ End(P) \in Nat
    BY <1>2, <1>4, <1>5
  <2> HIDE DEF P
  <2> QED
    BY ONLY <2>1, MaxOf
<1>9. PICK f, l : f = Min(S) /\ l = Max(T)
  OBVIOUS
<1>10. f \in S /\ l \in T /\ f \in Nat /\ l \in Nat /\ f <= r.first /\ r.last <= l
  BY <1>4, <1>5, <1>7, <1>8, <1>9
<1>11. Clear(P, Stretch(f, l), name)
  <2>1. Stretch(f, l).first = f /\ Stretch(f, l).last = l
    BY DEF Stretch
  <2> HIDE DEF P, r
  <2>2. ASSUME NEW c \in Children(P) \ {name} PROVE layout[c].last + Margin(P) < f \/ l + Margin(P) < layout[c].first
    BY <1>2, <1>3, <1>4, <1>10, <2>2
  <2> QED
    BY <1>4, <1>10, <2>1, <2>2 DEF Clear
<1> QED
  BY <1>6, <1>9, <1>10, <1>11


--------------------------------------------------------------------------------
(* Alignment.                                                              *)

\* Dividing by the alignment.
LEMMA DivideByAlignment ==
    ASSUME NEW A \in Nat \ {0}, NEW x \in Int
    PROVE  /\ x \div A \in Int /\ x % A \in 0 .. A - 1
           /\ x = A * (x \div A) + (x % A)
  OBVIOUS

\* Of two multiples the greater is greater by a unit at least.
LEMMA MultiplesApart ==
    ASSUME NEW A \in Nat \ {0}, NEW p \in Int, NEW q \in Int, A * p < A * q
    PROVE  A * p + A <= A * q
<1>1. p < q
  <2>1. SUFFICES ASSUME q <= p PROVE FALSE
    OBVIOUS
  <2>2. p - q \in Nat
    BY <2>1
  <2>3. A * (p - q) \in Nat /\ A * (p - q) = A * p - A * q
    BY <2>2
  <2> QED
    BY <2>3
<1>2. q - p - 1 \in Nat
  BY <1>1
<1>3. A * (q - p - 1) \in Nat /\ A * (q - p - 1) = A * q - A * p - A
  BY <1>2
<1>4. A * p \in Int /\ A * q \in Int
  OBVIOUS
<1> QED
  BY <1>3, <1>4

\* Alignment downwards does not pass an aligned number.
LEMMA AlignDown ==
    ASSUME NEW A \in Nat \ {0}, NEW x \in Int, NEW f \in Int, f % A = 0, f <= x
    PROVE  x - (x % A) \in Int /\ f <= x - (x % A) /\ x - (x % A) <= x
<1>1. x \div A \in Int /\ x % A \in 0 .. A - 1 /\ x = A * (x \div A) + (x % A)
  BY DivideByAlignment
<1>2. f \div A \in Int /\ f = A * (f \div A)
  <2>1. f \div A \in Int /\ f = A * (f \div A) + (f % A) /\ A * (f \div A) \in Int
    BY DivideByAlignment
  <2> QED
    BY <2>1
<1>3. PICK p, q, r : p = x \div A /\ q = f \div A /\ r = x % A
  OBVIOUS
<1>4. /\ p \in Int /\ q \in Int /\ r \in Int /\ 0 <= r /\ r < A /\ A \in Nat \ {0}
      /\ x = A * p + r /\ f = A * q /\ A * p \in Int /\ A * q \in Int /\ f <= x
  BY <1>1, <1>2, <1>3
<1>5. ~ (A * p < A * q)
  <2>1. SUFFICES ASSUME A * p < A * q PROVE FALSE
    OBVIOUS
  <2>2. A * p + A <= A * q
    BY <1>4, <2>1, MultiplesApart
  <2>3. PICK ap, aq : ap = A * p /\ aq = A * q
    OBVIOUS
  <2> QED
    BY ONLY <1>4, <2>2, <2>3
<1>6. PICK ap, aq : ap = A * p /\ aq = A * q
  OBVIOUS
<1>7. ap \in Int /\ aq \in Int /\ ~ (ap < aq) /\ x = ap + r /\ f = aq
  BY <1>4, <1>5, <1>6
<1>8. x - r = ap /\ aq <= ap /\ ap <= x
  BY ONLY <1>4, <1>7
<1> QED
  BY <1>3, <1>6, <1>7, <1>8

\* Alignment upwards does not pass an aligned number, and aligns.
LEMMA AlignUp ==
    ASSUME NEW A \in Nat \ {0}, NEW x \in Int, NEW f \in Int, f % A = 0, x <= f, x % A # 0
    PROVE  /\ x + A - (x % A) \in Int /\ x + A - (x % A) <= f /\ x < x + A - (x % A)
           /\ \E k \in Int : x + A - (x % A) = A * k
<1>1. x \div A \in Int /\ x % A \in 0 .. A - 1 /\ x = A * (x \div A) + (x % A)
  BY DivideByAlignment
<1>2. f \div A \in Int /\ f = A * (f \div A)
  <2>1. f \div A \in Int /\ f = A * (f \div A) + (f % A) /\ A * (f \div A) \in Int
    BY DivideByAlignment
  <2> QED
    BY <2>1
<1>3. PICK p, q, r : p = x \div A /\ q = f \div A /\ r = x % A
  OBVIOUS
<1>4. /\ p \in Int /\ q \in Int /\ r \in Int /\ 0 < r /\ r < A /\ A \in Nat \ {0}
      /\ x = A * p + r /\ f = A * q /\ A * p \in Int /\ A * q \in Int /\ x <= f
  BY <1>1, <1>2, <1>3
<1>5. PICK ap, aq : ap = A * p /\ aq = A * q
  OBVIOUS
<1>6. ap \in Int /\ aq \in Int /\ x = ap + r /\ f = aq
  BY <1>4, <1>5
<1>7. ap < aq
  BY ONLY <1>4, <1>6
<1>8. ap + A <= aq
  BY <1>4, <1>5, <1>7, MultiplesApart
<1>9. x + A - r = ap + A /\ x + A - r \in Int /\ x + A - r <= f /\ x < x + A - r
  BY ONLY <1>4, <1>6, <1>8
<1>10. A * (p + 1) = A * p + A /\ p + 1 \in Int
  BY <1>4
<1> QED
  BY <1>3, <1>5, <1>9, <1>10

\* Going down in whole steps ends at the bound if the bound is aligned like the start.
LEMMA StepDownFacts ==
    ASSUME NEW s \in Int, NEW high \in Int, NEW i \in Int, NEW j \in Int,
           s = Alignment * i - 1, high = Alignment * j - 1
    PROVE  StepDown(s, high) = IF s <= high THEN s ELSE high
<1>1. Alignment \in Nat \ {0}
  BY GeometryAssumption
<1>2. CASE s <= high
  BY <1>2 DEF StepDown
<1>3. CASE ~ (s <= high)
  <2>1. PICK A, k : A = Alignment /\ k = i - j
    OBVIOUS
  <2>2. A \in Nat \ {0} /\ k \in Int /\ s - high = A * k /\ A * k \in Int
    BY <1>1, <2>1
  <2>3. PICK t : t = A * k + A - 1
    OBVIOUS
  <2>4. t \in Int /\ t \div A \in Int /\ t % A \in 0 .. A - 1 /\ t = A * (t \div A) + (t % A)
    <3>1. t \in Int
      BY <2>2, <2>3
    <3> QED
      BY <2>2, <3>1, DivideByAlignment
  <2>5. t \div A = k
    <3>1. PICK q, r : q = t \div A /\ r = t % A
      OBVIOUS
    <3>2. /\ q \in Int /\ r \in Int /\ 0 <= r /\ r < A /\ A * q \in Int /\ A * q + r = A * k + A - 1
          /\ k \in Int /\ A * k \in Int /\ A \in Nat \ {0}
      BY <2>2, <2>3, <2>4, <3>1
    <3>3. PICK aq, ak : aq = A * q /\ ak = A * k
      OBVIOUS
    <3>4. aq \in Int /\ ak \in Int /\ aq + r = ak + A - 1 /\ 0 <= r /\ r < A /\ r \in Int /\ A \in Nat \ {0}
      BY <3>2, <3>3
    <3>5. ~ (aq < ak)
      <4>1. aq < ak => aq + A <= ak
        BY <3>2, <3>3, MultiplesApart
      <4> QED
        BY ONLY <3>4, <4>1
    <3>6. ~ (ak < aq)
      <4>1. ak < aq => ak + A <= aq
        BY <3>2, <3>3, MultiplesApart
      <4> QED
        BY ONLY <3>4, <4>1
    <3>7. A * q = A * k
      BY ONLY <3>3, <3>4, <3>5, <3>6
    <3>8. ~ (q < k)
      <4>1. SUFFICES ASSUME q < k PROVE FALSE
        OBVIOUS
      <4>2. k - q - 1 \in Nat
        BY <3>2, <4>1
      <4>3. A * (k - q - 1) \in Nat /\ A * (k - q - 1) = A * k - A * q - A
        BY <3>2, <4>2
      <4> QED
        BY <3>2, <3>7, <4>3
    <3>9. ~ (k < q)
      <4>1. SUFFICES ASSUME k < q PROVE FALSE
        OBVIOUS
      <4>2. q - k - 1 \in Nat
        BY <3>2, <4>1
      <4>3. A * (q - k - 1) \in Nat /\ A * (q - k - 1) = A * q - A * k - A
        BY <3>2, <4>2
      <4> QED
        BY <3>2, <3>7, <4>3
    <3> QED
      BY <3>1, <3>2, <3>8, <3>9
  <2>6. StepDown(s, high) = s - A * (t \div A)
    <3>1. s - high + Alignment - 1 = t
      BY <2>1, <2>2, <2>3
    <3> QED
      BY <1>3, <2>1, <3>1 DEF StepDown
  <2> QED
    BY <1>3, <2>2, <2>5, <2>6
<1> QED
  BY <1>2, <1>3

\* Going up in whole steps keeps the alignment and loses nothing.
LEMMA StepUpFacts ==
    ASSUME NEW s \in Int, NEW low \in Int, NEW i \in Int, s = Alignment * i - 1
    PROVE  /\ StepUp(s, low) \in Int /\ s <= StepUp(s, low)
           /\ \E k \in Int : StepUp(s, low) = Alignment * k - 1
           /\ s >= low => StepUp(s, low) = s
<1>1. Alignment \in Nat \ {0}
  BY GeometryAssumption
<1>2. CASE s >= low
  BY <1>2 DEF StepUp
<1>3. CASE ~ (s >= low)
  <2>1. PICK A, t, n : A = Alignment /\ t = low - s + A - 1 /\ n = t \div A
    OBVIOUS
  <2>2. A \in Nat \ {0} /\ t \in Nat
    BY <1>1, <1>3, <2>1
  <2>3. n \in Nat
    <3>1. t \div A \in Nat
      BY ONLY <2>2
    <3> QED
      BY <2>1, <3>1
  <2>4. StepUp(s, low) = s + A * n
    BY <1>3, <2>1 DEF StepUp
  <2>5. A * n \in Nat /\ A * (i + n) = A * i + A * n /\ A * i \in Int /\ i + n \in Int
    BY <2>2, <2>3
  <2>6. s + A * n = A * (i + n) - 1 /\ s + A * n \in Int /\ s <= s + A * n
    BY <2>1, <2>5
  <2> QED
    BY <1>3, <2>1, <2>4, <2>5, <2>6
<1> QED
  BY <1>2, <1>3


--------------------------------------------------------------------------------
(* Dragging.                                                               *)

\* The numbers of an open widget: the limits hold the partition and lie on the disk, and the
\* bounds on its length are those of its file system and of the limits.
LEMMA DialogNumbers ==
    ASSUME LayoutTyped, LayoutClear, DialogTyped, DialogClear, dialog.on # None, TotalSectors <= MaxSectors
    PROVE  /\ dialog.first \in Nat /\ dialog.last \in Nat /\ dialog.minFirst \in Nat /\ dialog.maxLast \in Nat
           /\ dialog.minLast \in Int /\ dialog.minLast >= -1 /\ dialog.align \in BOOLEAN
           /\ Alignment \in Nat \ {0} /\ MinSectors \in Nat \ {0} /\ TotalSectors \in Nat
           /\ Alignment <= dialog.minFirst /\ dialog.minFirst <= dialog.first
           /\ dialog.first + MinSectors - 1 <= dialog.last /\ dialog.last <= dialog.maxLast
           /\ dialog.maxLast < TotalSectors
           /\ Total = dialog.maxLast - dialog.minFirst + 1
           /\ MinLength = MinSectors /\ MaxLength = Total
<1>1. /\ dialog.first \in Nat /\ dialog.last \in Nat /\ dialog.minFirst \in Nat /\ dialog.maxLast \in Nat
      /\ dialog.minLast \in Int /\ dialog.minLast >= -1 /\ dialog.align \in BOOLEAN
      /\ dialog.on \in Names
  BY DEF DialogTyped
<1>2. /\ Alignment \in Nat \ {0} /\ MinSectors \in Nat \ {0} /\ TotalSectors \in Nat /\ MaxSectors \in Nat
  BY GeometryAssumption
<1>3. IsNode(Parent(dialog.on))
  BY <1>1, ParentFacts DEF DialogClear
<1>4. PICK P : P = Parent(dialog.on)
  OBVIOUS
<1>5. /\ Start(P) \in Nat /\ End(P) \in Nat /\ Margin(P) \in Nat /\ Alignment <= Start(P) /\ End(P) < TotalSectors
  BY <1>3, <1>4, NodeFacts
<1>6. Start(P) + Margin(P) <= dialog.minFirst /\ dialog.maxLast <= End(P)
  BY <1>4 DEF DialogClear, Clear, Stretch
<1>7. dialog.minFirst <= dialog.first /\ dialog.last <= dialog.maxLast /\ dialog.last - dialog.first + 1 >= MinSectors
  BY DEF DialogClear, LengthOf
<1>8. /\ Alignment <= dialog.minFirst /\ dialog.first + MinSectors - 1 <= dialog.last /\ dialog.maxLast < TotalSectors
  BY <1>1, <1>2, <1>5, <1>6, <1>7
<1>9. PICK t : t = dialog.maxLast - dialog.minFirst + 1
  OBVIOUS
<1>10. t \in Nat /\ MinSectors <= t /\ t <= MaxSectors
  BY <1>1, <1>2, <1>7, <1>8, <1>9
<1>11. Total = t
  BY <1>9 DEF Total
<1>12. Bounded(MinSectors) = MinSectors
  <2>1. Min({MinSectors, t}) = MinSectors
    BY <1>2, <1>10, OfTwo
  <2>2. Max({0, MinSectors}) = MinSectors
    BY <1>2, OfTwo
  <2> QED
    BY <1>11, <2>1, <2>2 DEF Bounded
<1>13. Bounded(MaxSectors) = t
  <2>1. Min({MaxSectors, t}) = t
    BY <1>2, <1>10, OfTwo
  <2>2. Max({0, t}) = t
    BY <1>10, OfTwo
  <2> QED
    BY <1>11, <2>1, <2>2 DEF Bounded
<1> QED
  BY <1>1, <1>2, <1>7, <1>8, <1>9, <1>11, <1>12, <1>13 DEF MinLength, MaxLength

\* The lowest aligned start lies at the lower limit or behind it.
LEMMA MinimumFirst ==
    ASSUME NEW A \in Nat \ {0}, A = Alignment, dialog.minFirst \in Nat, A <= dialog.minFirst, dialog.align \in BOOLEAN
    PROVE  /\ MinimumFirstSector \in Nat /\ dialog.minFirst <= MinimumFirstSector /\ MinimumFirstSector > 0
           /\ dialog.align => MinimumFirstSector % A = 0
           /\ ~dialog.align => MinimumFirstSector = dialog.minFirst
<1>1. PICK m : m = dialog.minFirst
  OBVIOUS
<1>2. m \in Nat /\ A <= m /\ m % A \in 0 .. A - 1 /\ m \div A \in Int /\ m = A * (m \div A) + (m % A)
  <2>1. m \in Nat /\ A <= m
    BY <1>1
  <2>2. m % A \in 0 .. A - 1 /\ m \div A \in Int /\ m = A * (m \div A) + (m % A)
    BY <2>1, DivideByAlignment
  <2> QED
    BY ONLY <2>1, <2>2
<1>3. m - (m % A) + A \in Nat /\ m <= m - (m % A) + A /\ m > 0
  BY <1>2
<1>4. (m - (m % A) + A) % A = 0
  <2>1. m - (m % A) + A = A * (m \div A + 1)
    BY <1>2
  <2>2. m \div A + 1 \in Int
    BY <1>2
  <2>3. \A k \in Int : (A * k) % A = 0
    OBVIOUS
  <2> QED
    BY <2>1, <2>2, <2>3
<1>5. MinimumFirstSector = IF ~dialog.align \/ m % A = 0 THEN m ELSE m - (m % A) + A
  BY <1>1 DEF MinimumFirstSector, firstDelta
<1>6. PICK up, r : up = m - (m % A) + A /\ r = m % A
  OBVIOUS
<1>7. /\ MinimumFirstSector = IF ~dialog.align \/ r = 0 THEN m ELSE up
      /\ up \in Nat /\ m <= up /\ m > 0 /\ up % A = 0 /\ r = m % A /\ m \in Nat
  BY <1>2, <1>3, <1>4, <1>5, <1>6
<1>8. CASE ~dialog.align \/ r = 0
  <2>1. MinimumFirstSector = m
    BY <1>7, <1>8
  <2> QED
    BY <1>1, <1>7, <1>8, <2>1
<1>9. CASE ~(~dialog.align \/ r = 0)
  <2>1. MinimumFirstSector = up
    BY <1>7, <1>9
  <2> QED
    BY <1>1, <1>7, <1>9, <2>1
<1> QED
  BY <1>8, <1>9

\* The highest aligned end lies at the upper limit or in front of it.
LEMMA MaximumLast ==
    ASSUME NEW A \in Nat \ {0}, A = Alignment, dialog.maxLast \in Nat, A <= dialog.maxLast, dialog.align \in BOOLEAN
    PROVE  /\ MaximumLastSector \in Nat /\ MaximumLastSector <= dialog.maxLast /\ MaximumLastSector > 0
           /\ dialog.align => (MaximumLastSector + 1) % A = 0 /\ \E k \in Int : MaximumLastSector = A * k - 1
           /\ ~dialog.align => MaximumLastSector = dialog.maxLast
<1>1. PICK m : m = dialog.maxLast
  OBVIOUS
<1>2. m \in Nat /\ A <= m /\ m + 1 \in Int
  BY <1>1
<1>3. (m + 1) % A \in 0 .. A - 1 /\ (m + 1) \div A \in Int /\ m + 1 = A * ((m + 1) \div A) + ((m + 1) % A)
  BY <1>2, DivideByAlignment
<1>4. PICK r, k, ak : r = (m + 1) % A /\ k = (m + 1) \div A /\ ak = A * k
  OBVIOUS
<1>5. r \in Int /\ 0 <= r /\ r < A /\ k \in Int /\ ak \in Int /\ m + 1 = ak + r
  <2>1. r \in 0 .. A - 1 /\ k \in Int /\ m + 1 = A * k + r
    BY ONLY <1>3, <1>4
  <2>2. A * k \in Int
    BY ONLY <2>1, A \in Nat \ {0}
  <2> QED
    BY ONLY <1>4, <2>1, <2>2, A \in Nat \ {0}
<1>6. m - r \in Nat /\ m - r <= m /\ (m - r) + 1 = ak /\ m - r = ak - 1
  BY ONLY <1>2, <1>5, A \in Nat \ {0}
<1>7. m - r > 0
  <2>1. CASE A = 1
    BY <1>2, <1>5, <2>1
  <2>2. CASE A # 1
    BY <1>2, <1>5, <2>2
  <2> QED
    BY <2>1, <2>2
<1>8. ak % A = 0
  <2>1. \A i \in Int : (A * i) % A = 0
    OBVIOUS
  <2> QED
    BY <1>4, <1>5, <2>1
<1>9. MaximumLastSector = IF dialog.align THEN m - r ELSE m
  BY <1>1, <1>4 DEF MaximumLastSector, lastDelta
<1>10. CASE dialog.align
  <2>1. MaximumLastSector = m - r /\ (MaximumLastSector + 1) % A = 0
    BY ONLY <1>6, <1>8, <1>9, <1>10
  <2>2. \E i \in Int : MaximumLastSector = A * i - 1
    BY ONLY <1>4, <1>5, <1>6, <2>1
  <2> QED
    BY <1>1, <1>6, <1>7, <1>10, <2>1, <2>2
<1>11. CASE ~dialog.align
  <2>1. MaximumLastSector = m
    BY <1>9, <1>11
  <2>2. m > 0 /\ m \in Nat
    BY <1>2
  <2> QED
    BY ONLY <1>1, <1>11, <2>1, <2>2
<1> QED
  BY <1>10, <1>11


\* Aligning a start that has room on both sides moves it down, but not below the lower limit.
LEMMA AlignedFirst ==
    ASSUME NEW f \in Nat, NEW x \in Nat, NEW m \in Nat \ {0}, NEW e \in Nat, NEW t \in Nat,
           f % Alignment = 0, Alignment <= f, f <= x, x + m - 1 <= e, e < TotalSectors, e - t + 1 <= f
    PROVE  /\ alignedFirstSector(e, x, f, m, t) \in Nat
           /\ f <= alignedFirstSector(e, x, f, m, t) /\ alignedFirstSector(e, x, f, m, t) <= x
<1>1. Alignment \in Nat \ {0} /\ TotalSectors \in Nat
  BY GeometryAssumption
<1>2. CASE firstDelta(x) = 0
  BY <1>2 DEF alignedFirstSector
<1>3. CASE firstDelta(x) # 0
  <2>1. PICK y : y = x - firstDelta(x)
    OBVIOUS
  <2>2. y \in Int /\ f <= y /\ y <= x
    BY <1>1, <2>1, AlignDown DEF firstDelta
  <2>3. PICK low : low = Max({FirstUsable, f} \cup IF t > -1 THEN {e - t + 1} ELSE {})
    OBVIOUS
  <2>4. low = f
    <3>1. PICK S : S = {FirstUsable, f} \cup IF t > -1 THEN {e - t + 1} ELSE {}
      OBVIOUS
    <3>2. S \subseteq Int /\ f \in S /\ \A z \in S : z <= f
      BY <1>1, <3>1 DEF FirstUsable
    <3>3. Max(S) = f
      BY <3>2, MaxIs
    <3> QED
      BY <2>3, <3>1, <3>3
  <2>5. PICK high : high = Min({LastUsable, e - m + 1})
    OBVIOUS
  <2>6. high \in Int /\ y <= high
    <3>1. LastUsable \in Int /\ e - m + 1 \in Int /\ y <= LastUsable /\ y <= e - m + 1
      BY <1>1, <2>2 DEF LastUsable
    <3>2. high = IF LastUsable < e - m + 1 THEN LastUsable ELSE e - m + 1
      BY <2>5, <3>1, OfTwo
    <3> QED
      BY ONLY <3>1, <3>2
  <2>7. StepUp(y, low) = y /\ StepDown(y, high) = y
    BY <2>2, <2>4, <2>6 DEF StepUp, StepDown
  <2>8. alignedFirstSector(e, x, f, m, t) = StepDown(StepUp(y, low), high)
    BY <1>3, <2>1, <2>3, <2>5 DEF alignedFirstSector
  <2> QED
    BY <2>2, <2>7, <2>8
<1> QED
  BY <1>2, <1>3

\* Dragged to any sector, the start of a partition stays behind the lower limit and leaves the
\* room that the file system needs.
LEMMA NewFirstFits ==
    ASSUME LayoutTyped, LayoutClear, DialogTyped, DialogClear, dialog.on # None, TotalSectors <= MaxSectors,
           RoomForFirst, NEW s \in FirstUsable .. LastUsable
    PROVE  /\ NewFirst(s) \in Nat /\ dialog.minFirst <= NewFirst(s)
           /\ NewFirst(s) + MinSectors - 1 <= dialog.last
<1>1. PICK f, a, m, b, e, g, n, t :
          /\ f = MinimumFirstSector /\ a = Alignment /\ m = MinSectors /\ b = dialog.minFirst /\ e = dialog.last
          /\ g = dialog.maxLast /\ n = TotalSectors /\ t = Total
  OBVIOUS
<1>2. /\ e \in Nat /\ b \in Nat /\ g \in Nat /\ a \in Nat \ {0} /\ m \in Nat \ {0} /\ n \in Nat
      /\ dialog.align \in BOOLEAN /\ a <= b /\ b + m - 1 <= e /\ e <= g /\ g < n /\ t = g - b + 1
      /\ MinLength = m /\ MaxLength = t
  BY <1>1, DialogNumbers
<1>3. /\ f \in Nat /\ b <= f /\ f > 0 /\ (dialog.align => f % a = 0) /\ (~dialog.align => f = b)
  BY <1>1, <1>2, MinimumFirst
<1>4. f + m - 1 <= e
  <2>1. CASE dialog.align
    BY <1>1, <1>2, <2>1 DEF RoomForFirst
  <2>2. CASE ~dialog.align
    BY <1>2, <1>3, <2>2
  <2> QED
    BY <1>2, <2>1, <2>2
<1>5. PICK i : i = Max({s, f})
  OBVIOUS
<1>6. s \in Int
  BY <1>1, <1>2 DEF FirstUsable, LastUsable
<1>7. i \in Nat /\ f <= i
  <2>1. i = IF s < f THEN f ELSE s
    BY <1>3, <1>5, <1>6, OfTwo
  <2> QED
    BY ONLY <1>3, <1>6, <2>1
<1>8. PICK d, u : d = Max({0, m - (e - i + 1)}) /\ u = Max({0, (e - i + 1) - t})
  OBVIOUS
<1>9. d = (IF 0 < m - (e - i + 1) THEN m - (e - i + 1) ELSE 0) /\ u = 0
  <2>1. m - (e - i + 1) \in Int /\ (e - i + 1) - t \in Int /\ ~ (0 < (e - i + 1) - t)
    BY ONLY <1>2, <1>3, <1>7
  <2> QED
    BY <1>8, <2>1, OfTwo
<1>10. PICK x : x = i - d - u
  OBVIOUS
<1>11. x \in Nat /\ f <= x /\ x + m - 1 <= e
  BY ONLY <1>2, <1>3, <1>4, <1>7, <1>9, <1>10
<1>12. NewFirst(s) = IF dialog.align THEN alignedFirstSector(e, x, f, m, t) ELSE x
  BY <1>1, <1>2, <1>3, <1>5, <1>8, <1>10 DEF NewFirst
<1>13. CASE dialog.align
  <2>1. t \in Nat /\ e - t + 1 <= f /\ f % a = 0 /\ a <= f /\ e < n
    BY ONLY <1>2, <1>3, <1>13
  <2>2. PICK r : r = alignedFirstSector(e, x, f, m, t)
    OBVIOUS
  <2>3. r \in Nat /\ f <= r /\ r <= x
    BY <1>1, <1>2, <1>3, <1>11, <2>1, <2>2, AlignedFirst
  <2>4. NewFirst(s) = r /\ b <= r /\ r + m - 1 <= e
    BY <1>2, <1>3, <1>11, <1>12, <1>13, <2>2, <2>3
  <2> QED
    BY <1>1, <2>3, <2>4
<1>14. CASE ~dialog.align
  <2>1. NewFirst(s) = x /\ b <= x
    BY <1>3, <1>11, <1>12, <1>14
  <2> QED
    BY <1>1, <1>11, <2>1
<1> QED
  BY <1>13, <1>14


\* The greatest of three numbers.
LEMMA OfThree ==
    ASSUME NEW a \in Int, NEW b \in Int, NEW c \in Int
    PROVE  Max({a, b, c}) \in {a, b, c} /\ a <= Max({a, b, c}) /\ b <= Max({a, b, c}) /\ c <= Max({a, b, c})
<1>1. PICK S : S = {a, b, c}
  OBVIOUS
<1>2. \E m \in S : \A x \in S : x <= m
  <2>1. a <= b /\ c <= b => b \in S /\ \A x \in S : x <= b
    BY <1>1
  <2>2. b <= a /\ c <= a => a \in S /\ \A x \in S : x <= a
    BY <1>1
  <2>3. a <= c /\ b <= c => c \in S /\ \A x \in S : x <= c
    BY <1>1
  <2>4. (a <= b /\ c <= b) \/ (b <= a /\ c <= a) \/ (a <= c /\ b <= c)
    OBVIOUS
  <2> QED
    BY <2>1, <2>2, <2>3, <2>4
<1>3. PICK m \in S : \A x \in S : x <= m
  BY <1>2
<1>4. Max(S) = m
  <2>1. S \subseteq Int
    BY <1>1
  <2> QED
    BY <1>3, <2>1, MaxIs
<1>5. a \in S /\ b \in S /\ c \in S
  BY <1>1
<1> QED
  BY <1>1, <1>3, <1>4, <1>5

\* Aligning an end upwards to an aligned limit.
LEMMA NextAligned ==
    ASSUME NEW x \in Int, NEW g \in Int, NEW k \in Int, g = Alignment * k - 1, x <= g, lastDelta(x) # 0
    PROVE  /\ x + Alignment - lastDelta(x) \in Int /\ x < x + Alignment - lastDelta(x)
           /\ x + Alignment - lastDelta(x) <= g
           /\ \E i \in Int : x + Alignment - lastDelta(x) = Alignment * i - 1
<1>1. PICK A, y, h, r : A = Alignment /\ y = x + 1 /\ h = g + 1 /\ r = (x + 1) % Alignment
  OBVIOUS
<1>2. A \in Nat \ {0} /\ y \in Int /\ h \in Int /\ y <= h /\ r = y % A /\ r # 0
  BY <1>1, GeometryAssumption DEF lastDelta
<1>3. h % A = 0
  <2>1. \A i \in Int : (A * i) % A = 0
    BY <1>2
  <2>2. A * k \in Int
    BY <1>2
  <2>3. h = A * k
    BY <1>1, <2>2
  <2> QED
    BY <2>1, <2>3
<1>4. /\ y + A - (y % A) \in Int /\ y + A - (y % A) <= h /\ y < y + A - (y % A)
      /\ \E i \in Int : y + A - (y % A) = A * i
  BY <1>2, <1>3, AlignUp
<1>5. PICK i \in Int : y + A - r = A * i
  BY <1>2, <1>4
<1>6. r \in Int
  BY <1>2
<1>7. x + A - r \in Int /\ x < x + A - r /\ x + A - r <= g /\ x + A - r = A * i - 1
  <2>1. PICK ai : ai = A * i
    OBVIOUS
  <2>2. y + A - r = ai /\ y + A - r <= h /\ y < y + A - r
    BY <1>2, <1>4, <1>5, <2>1
  <2>3. x + A - r = ai - 1 /\ x + A - r \in Int /\ x < x + A - r /\ x + A - r <= g
    BY ONLY <1>1, <1>2, <1>6, <2>2, x \in Int, g \in Int
  <2> QED
    BY <2>1, <2>3
<1> QED
  BY <1>1, <1>7 DEF lastDelta

\* Aligning an end that has room on both sides moves it up, but not above the upper limit.
LEMMA AlignedLast ==
    ASSUME NEW b \in Nat, NEW x \in Nat, NEW l \in Int, NEW g \in Int, NEW m \in Nat \ {0}, NEW t \in Nat,
           NEW k \in Int, g = Alignment * k - 1,
           l <= x, Alignment <= x, b + m - 1 <= x, x <= g, g < TotalSectors, g <= b + t - 1
    PROVE  /\ alignedLastSector(b, x, l, g, m, t, FALSE) \in Nat
           /\ x <= alignedLastSector(b, x, l, g, m, t, FALSE) /\ alignedLastSector(b, x, l, g, m, t, FALSE) <= g
<1>1. Alignment \in Nat \ {0} /\ TotalSectors \in Nat
  BY GeometryAssumption
<1>2. CASE lastDelta(x) = 0
  BY <1>2 DEF alignedLastSector
<1>3. CASE lastDelta(x) # 0
  <2>1. PICK y : y = x + Alignment - lastDelta(x)
    OBVIOUS
  <2>2. y \in Int /\ x < y /\ y <= g
    BY <1>3, <2>1, NextAligned
  <2>3. PICK low : low = Max({FirstUsable, l, b + m - 1})
    OBVIOUS
  <2>4. low \in Int /\ low <= x
    <3>1. FirstUsable \in Int /\ b + m - 1 \in Int /\ FirstUsable <= x
      BY <1>1 DEF FirstUsable
    <3>2. low \in {FirstUsable, l, b + m - 1}
      BY <2>3, <3>1, OfThree
    <3> QED
      BY <3>1, <3>2
  <2>5. PICK high : high = Min({LastUsable, g} \cup IF t > -1 THEN {b + t - 1} ELSE {})
    OBVIOUS
  <2>6. high = g
    <3>1. PICK S : S = {LastUsable, g} \cup IF t > -1 THEN {b + t - 1} ELSE {}
      OBVIOUS
    <3>2. S \subseteq Int /\ g \in S /\ \A z \in S : g <= z
      BY <1>1, <3>1 DEF LastUsable
    <3>3. Min(S) = g
      BY <3>2, MinIs
    <3> QED
      BY <2>5, <3>1, <3>3
  <2>7. StepUp(y, low) = y /\ StepDown(y, high) = y
    BY <2>2, <2>4, <2>6 DEF StepUp, StepDown
  <2>8. alignedLastSector(b, x, l, g, m, t, FALSE) = StepDown(StepUp(y, low), high)
    BY <1>3, <2>1, <2>3, <2>5 DEF alignedLastSector
  <2>9. y \in Nat /\ x <= y /\ y <= g
    BY ONLY <2>2, x \in Nat
  <2>10. alignedLastSector(b, x, l, g, m, t, FALSE) = y
    BY ONLY <2>7, <2>8
  <2> QED
    BY ONLY <2>9, <2>10
<1> QED
  BY <1>2, <1>3

\* The lowest aligned end is not below the lower limit.
LEMMA MinimumLast ==
    ASSUME dialog.minLast \in Int, dialog.minLast >= -1, dialog.align \in BOOLEAN
    PROVE  /\ MinimumLastSector \in Int /\ dialog.minLast <= MinimumLastSector /\ MinimumLastSector >= -1
           /\ ~dialog.align => MinimumLastSector = dialog.minLast
<1>1. PICK l, A, r : l = dialog.minLast /\ A = Alignment /\ r = lastDelta(dialog.minLast)
  OBVIOUS
<1>2. A \in Nat \ {0} /\ l \in Int /\ l >= -1
  BY <1>1, GeometryAssumption
<1>3. r \in 0 .. A - 1
  <2>1. l + 1 \in Int /\ r = (l + 1) % A
    BY <1>1, <1>2 DEF lastDelta
  <2> QED
    BY ONLY <1>2, <2>1, DivideByAlignment
<1>4. MinimumLastSector = IF ~dialog.align \/ r = 1 THEN l ELSE l - r + 1 + A
  BY <1>1 DEF MinimumLastSector
<1>5. l - r + 1 + A \in Int /\ l <= l - r + 1 + A
  BY ONLY <1>2, <1>3
<1> QED
  BY <1>1, <1>2, <1>4, <1>5


\* Dragged to any sector, the end of a partition stays in front of the upper limit, leaves the
\* room that the file system needs, and does not pass the children of an extended partition.
LEMMA NewLastFits ==
    ASSUME LayoutTyped, LayoutClear, DialogTyped, DialogClear, dialog.on # None, TotalSectors <= MaxSectors,
           RoomForLast, NEW s \in FirstUsable .. LastUsable
    PROVE  /\ NewLast(s) \in Nat /\ NewLast(s) <= dialog.maxLast
           /\ dialog.first + MinSectors - 1 <= NewLast(s)
           /\ dialog.minLast <= dialog.last => dialog.minLast <= NewLast(s)
<1>1. PICK f, a, m, b, e, g, n, t, x, l :
          /\ f = dialog.first /\ a = Alignment /\ m = MinSectors /\ b = dialog.minFirst /\ e = dialog.last
          /\ g = dialog.maxLast /\ n = TotalSectors /\ t = Total /\ x = MaximumLastSector /\ l = MinimumLastSector
  OBVIOUS
<1>2. PICK q : q = dialog.minLast
  OBVIOUS
<1>3. /\ e \in Nat /\ b \in Nat /\ g \in Nat /\ f \in Nat /\ a \in Nat \ {0} /\ m \in Nat \ {0} /\ n \in Nat
      /\ dialog.align \in BOOLEAN /\ a <= b /\ b <= f /\ f + m - 1 <= e /\ e <= g /\ g < n /\ t = g - b + 1
      /\ MinLength = m /\ MaxLength = t /\ q \in Int /\ q >= -1
  BY <1>1, <1>2, DialogNumbers
<1>4. /\ x \in Nat /\ x <= g /\ x > 0 /\ (~dialog.align => x = g)
      /\ dialog.align => \E k \in Int : x = a * k - 1
  <2>1. a <= g
    BY ONLY <1>3
  <2> QED
    BY <1>1, <1>3, <2>1, MaximumLast
<1>5. l \in Int /\ q <= l /\ l >= -1 /\ (~dialog.align => l = q)
  BY <1>1, <1>2, <1>3, MinimumLast
<1>6. f + m - 1 <= x /\ (dialog.align => l <= x)
  <2>1. CASE dialog.align
    <3>1. x >= Max({f + m - 1, l})
      BY <1>1, <1>3, <2>1 DEF RoomForLast
    <3>2. f + m - 1 \in Int
      BY ONLY <1>3
    <3>3. Max({f + m - 1, l}) = IF f + m - 1 < l THEN l ELSE f + m - 1
      BY <1>5, <3>2, OfTwo
    <3> QED
      BY ONLY <1>4, <1>5, <3>1, <3>2, <3>3
  <2>2. CASE ~dialog.align
    BY ONLY <1>3, <1>4, <2>2
  <2> QED
    BY <1>3, <2>1, <2>2
<1>7. s \in Nat
  BY <1>1, <1>3 DEF FirstUsable, LastUsable
<1>8. PICK i : i = IF l > -1 THEN Max({s, l}) ELSE s
  OBVIOUS
<1>9. i \in Nat /\ s <= i /\ l <= i
  <2>1. s \in Int
    BY <1>7
  <2>2. i = IF l > -1 THEN (IF s < l THEN l ELSE s) ELSE s
    BY <1>5, <1>8, <2>1, OfTwo
  <2> QED
    BY ONLY <1>5, <1>7, <2>2
<1>10. PICK j : j = IF x > 0 THEN Min({i, x}) ELSE i
  OBVIOUS
<1>11. j = (IF i < x THEN i ELSE x)
  <2>1. i \in Int /\ x \in Int /\ x > 0
    BY <1>4, <1>9
  <2>2. Min({i, x}) = IF i < x THEN i ELSE x
    BY <2>1, OfTwo
  <2> QED
    BY ONLY <1>10, <2>1, <2>2
<1>12. j \in Nat /\ j <= x /\ (l <= x => l <= j)
  BY ONLY <1>4, <1>5, <1>9, <1>11
<1>13. PICK d, u : d = Max({0, m - (j - f + 1)}) /\ u = Max({0, (j - f + 1) - t})
  OBVIOUS
<1>14. d = (IF 0 < m - (j - f + 1) THEN m - (j - f + 1) ELSE 0) /\ u = 0
  <2>1. m - (j - f + 1) \in Int /\ (j - f + 1) - t \in Int /\ ~ (0 < (j - f + 1) - t)
    BY ONLY <1>3, <1>4, <1>12
  <2> QED
    BY <1>13, <2>1, OfTwo
<1>15. PICK y : y = j + d - u
  OBVIOUS
<1>16. y \in Nat /\ f + m - 1 <= y /\ y <= x /\ (l <= x => l <= y)
  BY ONLY <1>3, <1>4, <1>5, <1>6, <1>12, <1>14, <1>15
<1>17. NewLast(s) = IF dialog.align THEN alignedLastSector(f, y, l, x, m, t, FALSE) ELSE y
  BY <1>1, <1>3, <1>8, <1>10, <1>13, <1>15 DEF NewLast
<1>18. CASE dialog.align
  <2>1. PICK k \in Int : x = a * k - 1
    BY <1>4, <1>18
  <2>2. PICK r : r = alignedLastSector(f, y, l, x, m, t, FALSE)
    OBVIOUS
  <2>3. l <= y /\ a <= y /\ x < n /\ x <= f + t - 1 /\ t \in Nat /\ x \in Int
    BY ONLY <1>3, <1>4, <1>6, <1>16, <1>18
  <2>4. r \in Nat /\ y <= r /\ r <= x
    BY <1>1, <1>3, <1>5, <1>16, <2>1, <2>2, <2>3, AlignedLast
  <2>5. NewLast(s) = r
    BY <1>17, <1>18, <2>2
  <2>6. r <= g /\ f + m - 1 <= r /\ q <= r
    BY ONLY <1>3, <1>4, <1>5, <1>16, <2>3, <2>4
  <2> QED
    BY <1>1, <1>2, <2>4, <2>5, <2>6
<1>19. CASE ~dialog.align
  <2>1. NewLast(s) = y
    BY <1>17, <1>19
  <2>2. y <= g /\ (q <= e => q <= y)
    BY ONLY <1>3, <1>4, <1>5, <1>16, <1>19
  <2> QED
    BY <1>1, <1>2, <1>16, <2>1, <2>2
<1> QED
  BY <1>18, <1>19


\* Aligning without a length in mind yields a sector.
LEMMA AlignedFirstInt ==
    ASSUME NEW e \in Int, NEW x \in Int, NEW f \in Int
    PROVE  alignedFirstSector(e, x, f, -1, -1) \in Int
<1>1. Alignment \in Nat \ {0} /\ TotalSectors \in Nat
  BY GeometryAssumption
<1>2. \A p, q \in Int : StepUp(p, q) \in Int /\ StepDown(p, q) \in Int
  BY <1>1 DEF StepUp, StepDown
<1>3. CASE firstDelta(x) = 0
  BY <1>3 DEF alignedFirstSector
<1>4. CASE firstDelta(x) # 0
  <2>1. PICK low, high : low = Max({FirstUsable, f} \cup IF -1 > -1 THEN {e - (-1) + 1} ELSE {})
                         /\ high = Min({LastUsable, e - (-1) + 1})
    OBVIOUS
  <2>2. low \in Int /\ high \in Int
    <3>1. {FirstUsable, f} \cup (IF -1 > -1 THEN {e - (-1) + 1} ELSE {}) = {FirstUsable, f}
      OBVIOUS
    <3>2. FirstUsable \in Int /\ LastUsable \in Int /\ e - (-1) + 1 \in Int
      BY <1>1 DEF FirstUsable, LastUsable
    <3>3. Max({FirstUsable, f}) \in Int
      <4>1. Max({FirstUsable, f}) = IF FirstUsable < f THEN f ELSE FirstUsable
        BY <3>2, OfTwo
      <4> QED
        BY <3>2, <4>1
    <3>4. Min({LastUsable, e - (-1) + 1}) \in Int
      <4>1. PICK c : c = e - (-1) + 1
        OBVIOUS
      <4>2. c \in Int
        BY <3>2, <4>1
      <4>3. Min({LastUsable, c}) = IF LastUsable < c THEN LastUsable ELSE c
        BY <3>2, <4>2, OfTwo
      <4> QED
        BY <3>2, <4>1, <4>2, <4>3
    <3> QED
      BY <2>1, <3>1, <3>3, <3>4
  <2>3. x - firstDelta(x) \in Int
    BY <1>1 DEF firstDelta
  <2>4. alignedFirstSector(e, x, f, -1, -1) = StepDown(StepUp(x - firstDelta(x), low), high)
    BY <1>4, <2>1 DEF alignedFirstSector
  <2>5. StepUp(x - firstDelta(x), low) \in Int
    BY <1>2, <2>2, <2>3
  <2>6. StepDown(StepUp(x - firstDelta(x), low), high) \in Int
    BY <1>2, <2>2, <2>5
  <2> QED
    BY ONLY <2>4, <2>6
<1> QED
  BY <1>3, <1>4

\* Aligning without a length in mind yields a sector, in front of the limit behind the given one.
LEMMA AlignedLastGrows ==
    ASSUME NEW b \in Int, NEW x \in Int, NEW l \in Int, NEW g \in Int, NEW keep \in BOOLEAN
    PROVE  /\ alignedLastSector(b, x, l, g, -1, -1, keep) \in Int
           /\ ~keep /\ x <= g /\ g < TotalSectors /\ (\E k \in Int : g = Alignment * k - 1)
                 => x <= alignedLastSector(b, x, l, g, -1, -1, keep)
<1>1. Alignment \in Nat \ {0} /\ TotalSectors \in Nat
  BY GeometryAssumption
<1>2. \A p, q \in Int : StepUp(p, q) \in Int /\ StepDown(p, q) \in Int
  BY <1>1 DEF StepUp, StepDown
<1>3. CASE lastDelta(x) = 0
  BY <1>3 DEF alignedLastSector
<1>4. CASE lastDelta(x) # 0
  <2>1. PICK low, high : low = Max({FirstUsable, l, b + (-1) - 1})
                         /\ high = Min({LastUsable, g} \cup IF -1 > -1 THEN {b + (-1) - 1} ELSE {})
    OBVIOUS
  <2>2. low \in Int /\ high = IF LastUsable < g THEN LastUsable ELSE g
    <3>1. {LastUsable, g} \cup (IF -1 > -1 THEN {b + (-1) - 1} ELSE {}) = {LastUsable, g}
      OBVIOUS
    <3>2. FirstUsable \in Int /\ LastUsable \in Int /\ b + (-1) - 1 \in Int
      BY <1>1 DEF FirstUsable, LastUsable
    <3>3. Max({FirstUsable, l, b + (-1) - 1}) \in {FirstUsable, l, b + (-1) - 1}
      BY <3>2, OfThree
    <3>4. low \in Int
      BY <2>1, <3>2, <3>3
    <3>5. Min({LastUsable, g}) = IF LastUsable < g THEN LastUsable ELSE g
      BY <3>2, OfTwo
    <3> QED
      BY ONLY <2>1, <3>1, <3>4, <3>5
  <2>3. high \in Int
    BY <1>1, <2>2 DEF LastUsable
  <2>4. PICK y, z : y = x + Alignment - lastDelta(x) /\ z = IF keep THEN y - Alignment ELSE y
    OBVIOUS
  <2>5. y \in Int /\ z \in Int
    BY <1>1, <2>4 DEF lastDelta
  <2>6. alignedLastSector(b, x, l, g, -1, -1, keep) = StepDown(StepUp(z, low), high)
    BY <1>4, <2>1, <2>4 DEF alignedLastSector
  <2>7. alignedLastSector(b, x, l, g, -1, -1, keep) \in Int
    <3>1. StepUp(z, low) \in Int
      BY <1>2, <2>2, <2>5
    <3>2. StepDown(StepUp(z, low), high) \in Int
      BY <1>2, <2>3, <3>1
    <3> QED
      BY ONLY <2>6, <3>2
  <2>8. ASSUME ~keep, x <= g, g < TotalSectors, NEW k \in Int, g = Alignment * k - 1
        PROVE  x <= alignedLastSector(b, x, l, g, -1, -1, keep)
    <3>1. z = y /\ high = g
      <4>1. ~(LastUsable < g)
        BY <1>1, <2>8 DEF LastUsable
      <4> QED
        BY <2>2, <2>4, <2>8, <4>1
    <3>2. x < y /\ \E i \in Int : y = Alignment * i - 1
      BY <1>4, <2>4, <2>8, NextAligned
    <3>3. PICK i \in Int : y = Alignment * i - 1
      BY <3>2
    <3>4. PICK v : v = StepUp(y, low)
      OBVIOUS
    <3>5. v \in Int /\ y <= v /\ \E j \in Int : v = Alignment * j - 1
      BY <2>2, <2>5, <3>3, <3>4, StepUpFacts
    <3>6. PICK j \in Int : v = Alignment * j - 1
      BY <3>5
    <3>7. StepDown(v, g) = IF v <= g THEN v ELSE g
      BY <2>8, <3>5, <3>6, StepDownFacts
    <3>8. x <= (IF v <= g THEN v ELSE g)
      <4>1. x < y /\ y <= v /\ x <= g /\ y \in Int /\ v \in Int
        BY <2>5, <2>8, <3>2, <3>5
      <4> QED
        BY ONLY <4>1, x \in Int, g \in Int
    <3> QED
      BY <2>6, <3>1, <3>4, <3>7, <3>8
  <2> QED
    BY <2>7, <2>8
<1> QED
  BY <1>3, <1>4

\* Moved to where it is accepted, a partition stays within the limits and no shorter than what its
\* file system needs.
LEMMA MovedFits ==
    ASSUME LayoutTyped, LayoutClear, DialogTyped, DialogClear, dialog.on # None, TotalSectors <= MaxSectors,
           NEW s \in FirstUsable .. LastUsable, Acceptable(Moved(s))
    PROVE  /\ Moved(s).first \in Nat /\ Moved(s).last \in Nat
           /\ dialog.minFirst <= Moved(s).first /\ Moved(s).last <= dialog.maxLast
           /\ Moved(s).first + MinSectors - 1 <= Moved(s).last
<1>1. PICK f, a, m, b, e, g, n, x, l, F, M :
          /\ f = dialog.first /\ a = Alignment /\ m = MinSectors /\ b = dialog.minFirst /\ e = dialog.last
          /\ g = dialog.maxLast /\ n = TotalSectors /\ x = MaximumLastSector /\ l = MinimumLastSector
          /\ F = MinimumFirstSector /\ M = MovedFirst(s)
  OBVIOUS
<1>2. PICK L, p, q : L = LengthOf(dialog) /\ p = Moved(s).first /\ q = Moved(s).last
  OBVIOUS
<1>3. /\ e \in Nat /\ b \in Nat /\ g \in Nat /\ f \in Nat /\ a \in Nat \ {0} /\ m \in Nat \ {0} /\ n \in Nat
      /\ dialog.align \in BOOLEAN /\ a <= b /\ b <= f /\ f + m - 1 <= e /\ e <= g /\ g < n
  BY <1>1, DialogNumbers
<1>4. /\ x \in Nat /\ x <= g /\ x > 0
      /\ dialog.align => \E k \in Int : x = a * k - 1
  <2>1. a <= g
    BY ONLY <1>3
  <2> QED
    BY <1>1, <1>3, <2>1, MaximumLast
<1>5. l \in Int /\ F \in Nat /\ L \in Int /\ L = e - f + 1
  <2>1. dialog.minLast \in Int /\ dialog.minLast >= -1
    BY DialogNumbers
  <2>2. l \in Int
    BY <1>1, <1>3, <2>1, MinimumLast
  <2>3. F \in Nat
    BY <1>1, <1>3, MinimumFirst
  <2> QED
    BY <1>1, <1>2, <1>3, <2>2, <2>3 DEF LengthOf
<1>6. M \in Int
  <2>1. s \in Int
    BY <1>1, <1>3 DEF FirstUsable, LastUsable
  <2>2. PICK i : i = IF F > 0 THEN Max({s, F}) ELSE s
    OBVIOUS
  <2>3. i \in Int
    <3>1. Max({s, F}) = IF s < F THEN F ELSE s
      BY <1>5, <2>1, OfTwo
    <3> QED
      BY ONLY <1>5, <2>1, <2>2, <3>1
  <2>4. M = IF dialog.align THEN alignedFirstSector(e, i, F, -1, -1) ELSE i
    BY <1>1, <2>2 DEF MovedFirst
  <2>5. alignedFirstSector(e, i, F, -1, -1) \in Int
    BY <1>3, <1>5, <2>3, AlignedFirstInt
  <2> QED
    BY <2>3, <2>4, <2>5
<1>7. PICK w, lo, up, z :
          /\ w = e + (M - f)
          /\ lo = IF l > -1 THEN Max({0, l - w}) ELSE 0
          /\ up = IF x > 0 THEN Max({0, w + lo - x}) ELSE 0
          /\ z = w + lo - up
  OBVIOUS
<1>8. w \in Int /\ lo \in Int
  <2>1. w \in Int /\ l - w \in Int
    BY ONLY <1>3, <1>5, <1>6, <1>7
  <2>2. Max({0, l - w}) = IF 0 < l - w THEN l - w ELSE 0
    BY <2>1, OfTwo
  <2> QED
    BY ONLY <1>5, <1>7, <2>1, <2>2
<1>9. up \in Int /\ z \in Int /\ z <= x /\ M + lo - up \in Int /\ z - (M + lo - up) = e - f
  <2>1. w + lo - x \in Int
    BY ONLY <1>4, <1>8
  <2>2. Max({0, w + lo - x}) = IF 0 < w + lo - x THEN w + lo - x ELSE 0
    BY <2>1, OfTwo
  <2> QED
    BY ONLY <1>3, <1>4, <1>6, <1>7, <1>8, <2>1, <2>2
<1>10. PICK keep \in BOOLEAN : keep = (LengthOf(dialog) % Alignment = 0)
  OBVIOUS
<1>11. Moved(s) = Stretch(M + lo - up, IF dialog.align THEN alignedLastSector(f, z, l, x, -1, -1, keep) ELSE z)
  BY <1>1, <1>7, <1>10 DEF Moved
<1>12. p = M + lo - up /\ q = IF dialog.align THEN alignedLastSector(f, z, l, x, -1, -1, keep) ELSE z
  BY <1>2, <1>11 DEF Stretch
<1>13. /\ keep => q - p + 1 = L
       /\ b = 0 \/ p >= b
       /\ g = 0 \/ q <= g
  BY <1>1, <1>2, <1>10 DEF Acceptable, LengthOf
<1>14. p \in Int /\ q \in Int
  <2>1. alignedLastSector(f, z, l, x, -1, -1, keep) \in Int
    BY <1>3, <1>4, <1>5, <1>9, AlignedLastGrows
  <2> QED
    BY <1>9, <1>12, <2>1
<1>15. ~keep => z <= q
  <2>1. SUFFICES ASSUME ~keep PROVE z <= q
    OBVIOUS
  <2>2. CASE dialog.align
    <3>1. PICK k \in Int : x = Alignment * k - 1
      BY <1>1, <1>4, <2>2
    <3>2. x < TotalSectors /\ x \in Int
      BY <1>1, <1>3, <1>4
    <3>3. z <= alignedLastSector(f, z, l, x, -1, -1, keep)
      BY <1>3, <1>5, <1>9, <2>1, <3>1, <3>2, AlignedLastGrows
    <3> QED
      BY <1>12, <2>2, <3>3
  <2>3. CASE ~dialog.align
    BY <1>9, <1>12, <2>3
  <2> QED
    BY <1>3, <2>2, <2>3
<1>16. b <= p /\ q <= g /\ p + m - 1 <= q
  BY ONLY <1>3, <1>5, <1>9, <1>10, <1>12, <1>13, <1>14, <1>15
<1>17. p \in Nat /\ q \in Nat
  BY ONLY <1>3, <1>14, <1>16
<1> QED
  BY <1>1, <1>2, <1>16, <1>17


--------------------------------------------------------------------------------
(* Steps of the widget.                                                    *)

\* What the invariant says of a widget that is in the state D.
DialogFits(D) ==
    /\ D \in [on : Names \cup {None}, first : Nat, last : Nat, minFirst : Nat, maxLast : Nat,
              minLast : Nat \cup {-1}, align : BOOLEAN, move : BOOLEAN]
    /\ D.on # None =>
           /\ Held(D.on) /\ Clear(Parent(D.on), Stretch(D.minFirst, D.maxLast), D.on)
           /\ D.minFirst <= D.first /\ D.last <= D.maxLast /\ LengthOf(D) >= MinSectors
    /\ D.on = Extended /\ Children(Extended) # {} =>
           /\ ~D.move /\ D.first = layout[Extended].first
           /\ \A c \in Children(Extended) : layout[c].last <= D.minLast
           /\ D.minLast <= D.last

\* The invariant of the layout and of the widget, whatever their states are called.
LEMMA DialogAgain ==
    ASSUME LayoutTyped, LayoutClear, UNCHANGED layout, NEW D, dialog' = D, DialogFits(D)
    PROVE  GeometryInv'
<1>1. LayoutTyped' /\ LayoutClear'
  BY DEF LayoutTyped, LayoutClear, Held, Clear, Present, Children, Roots, Start, End
<1>2. DialogTyped'
  BY DEF DialogTyped, DialogFits
<1>3. DialogClear'
  BY DEF DialogClear, DialogFits, Held, Clear, Present, Children, Roots, Start, End, LengthOf
<1>4. DialogHolds'
  BY DEF DialogHolds, DialogFits, Present, Children, Roots
<1> QED
  BY <1>1, <1>2, <1>3, <1>4 DEF GeometryInv

\* An open widget fits before it is dragged.
LEMMA FitsBefore == ASSUME DialogTyped, DialogClear, DialogHolds PROVE DialogFits(dialog)
  BY DEF DialogTyped, DialogClear, DialogHolds, DialogFits

\* A closed widget fits any layout.
LEMMA ClosedAgain == ASSUME dialog' = Closed PROVE DialogTyped' /\ DialogClear' /\ DialogHolds'
<1>1. dialog'.on = None /\ None # Extended
  BY GeometryAssumption DEF Closed
<1>2. DialogTyped'
  BY DEF DialogTyped, Closed
<1>3. DialogClear'
  BY <1>1 DEF DialogClear
<1>4. DialogHolds'
  BY <1>1 DEF DialogHolds
<1> QED
  BY <1>2, <1>3, <1>4

\* The widget is opened for sectors between limits that are clear of the other partitions.
LEMMA OpenFits ==
    ASSUME LayoutTyped, LayoutClear, UNCHANGED layout, NEW name \in Names, Held(name), NEW r, NEW f, NEW l,
           NEW moves \in BOOLEAN, r.first \in Nat, r.last \in Nat, f \in Nat, l \in Nat,
           f <= r.first, r.last <= l, LengthOf(r) >= MinSectors, Clear(Parent(name), Stretch(f, l), name),
           name = Extended /\ Children(Extended) # {} => ~moves /\ r = layout[Extended],
           Open(name, r, f, l, moves)
    PROVE  GeometryInv'
<1> DEFINE ends == {layout[c].last : c \in Children(name)}
<1>0. PICK m : m = IF name = Extended /\ name \in Present /\ Children(name) # {} THEN Max(ends) ELSE -1
  OBVIOUS
<1>1. PICK align \in BOOLEAN :
          dialog' = [on |-> name, first |-> r.first, last |-> r.last, minFirst |-> f, maxLast |-> l,
                     minLast |-> m, align |-> align, move |-> moves]
  BY <1>0 DEF Open
<1>2. name = Extended /\ Children(Extended) # {} =>
          m \in Nat /\ (\A c \in Children(Extended) : layout[c].last <= m) /\ m <= r.last
  <2>1. SUFFICES ASSUME name = Extended, Children(Extended) # {}
                 PROVE  m \in Nat /\ (\A c \in Children(Extended) : layout[c].last <= m) /\ m <= r.last
    OBVIOUS
  <2>2. Extended \in Present /\ Extended # None
    BY <2>1, GeometryAssumption DEF Children, LayoutTyped, Held
  <2>3. IsNode(Extended)
    BY <2>2 DEF IsNode
  <2>4. /\ End(Extended) \in Nat
        /\ \A c \in Children(Extended) : layout[c].last \in Nat /\ layout[c].last <= End(Extended)
    BY <2>3, NodeFacts
  <2>5. End(Extended) = r.last
    BY <2>1, <2>2 DEF End
  <2>6. ends \subseteq 0 .. r.last /\ ends # {}
    BY <2>1, <2>4, <2>5
  <2>7. m = Max(ends)
    BY <1>0, <2>1, <2>2
  <2>8. \A c \in Children(Extended) : layout[c].last \in ends
    BY <2>1
  <2> HIDE DEF ends
  <2>9. Max(ends) \in ends /\ \A x \in ends : x <= Max(ends)
    BY <2>6, MaxOf
  <2>10. m \in 0 .. r.last /\ \A c \in Children(Extended) : layout[c].last <= m
    BY <2>6, <2>7, <2>8, <2>9
  <2>11. m \in Nat /\ m <= r.last
    BY <2>10
  <2> QED
    BY <2>10, <2>11
<1> HIDE DEF ends
<1>3. m \in Nat \cup {-1}
  <2>1. CASE name = Extended /\ name \in Present /\ Children(name) # {}
    BY <1>2, <2>1
  <2>2. CASE ~ (name = Extended /\ name \in Present /\ Children(name) # {})
    BY <1>0, <2>2
  <2> QED
    BY <2>1, <2>2
<1>4. PICK D : D = [on |-> name, first |-> r.first, last |-> r.last, minFirst |-> f, maxLast |-> l,
                    minLast |-> m, align |-> align, move |-> moves]
  OBVIOUS
<1>5. /\ D.on = name /\ D.first = r.first /\ D.last = r.last /\ D.minFirst = f /\ D.maxLast = l
      /\ D.minLast = m /\ D.align = align /\ D.move = moves
  BY <1>4
<1>6. D \in [on : Names \cup {None}, first : Nat, last : Nat, minFirst : Nat, maxLast : Nat,
             minLast : Nat \cup {-1}, align : BOOLEAN, move : BOOLEAN]
  BY <1>3, <1>4
<1>7. LengthOf(D) = LengthOf(r)
  BY <1>5 DEF LengthOf
<1>8. D.on = Extended /\ Children(Extended) # {} =>
           /\ ~D.move /\ D.first = layout[Extended].first
           /\ \A c \in Children(Extended) : layout[c].last <= D.minLast
           /\ D.minLast <= D.last
  BY <1>2, <1>5
<1>9. DialogFits(D)
  BY <1>5, <1>6, <1>7, <1>8 DEF DialogFits
<1> QED
  BY <1>1, <1>4, <1>9, DialogAgain

\* A new partition is first all of the unallocated space that it is created in.
LEMMA OpenNewFits == ASSUME GeometryInv, OpenNew, NewHasRoom PROVE GeometryInv'
<1>1. LayoutTyped /\ LayoutClear /\ UNCHANGED layout /\ LengthOf(dialog') >= MinSectors
  BY DEF GeometryInv, OpenNew, NewHasRoom
<1>2. PICK name \in (Primaries \cup Logicals \cup {Extended}) \ Present :
          /\ name \in Logicals => Extended \in Present
          /\ \E u \in Unallocated(Parent(name)) : Open(name, u, u.first, u.last, TRUE)
  BY DEF OpenNew
<1>3. PICK u \in Unallocated(Parent(name)) : Open(name, u, u.first, u.last, TRUE)
  BY <1>2
<1>4. name \in Names /\ Held(name)
  BY <1>2 DEF Names, Held
<1>5. /\ u.first \in Nat /\ u.last \in Nat /\ u = Stretch(u.first, u.last)
      /\ Clear(Parent(name), u, name)
  BY <1>1, <1>4, ParentFacts, UnallocatedIsClear
<1>6. LengthOf(u) >= MinSectors
  BY <1>1, <1>3 DEF Open, LengthOf
<1>7. ~ (name = Extended /\ Children(Extended) # {})
  BY <1>1, <1>2, GeometryAssumption DEF Children, LayoutTyped, Held
<1>8. Clear(Parent(name), Stretch(u.first, u.last), name) /\ u.first <= u.first /\ u.last <= u.last
  BY <1>5
<1> QED
  BY <1>1, <1>3, <1>4, <1>5, <1>6, <1>7, <1>8, OpenFits

\* The limits of a partition that is resized are the unallocated spaces next to it.
LEMMA OpenResizeFits == ASSUME GeometryInv, OpenResize PROVE GeometryInv'
<1>1. LayoutTyped /\ LayoutClear /\ UNCHANGED layout
  BY DEF GeometryInv, OpenResize
<1>2. PICK name \in Present : Open(name, layout[name], FirstFree(name), LastFree(name),
                                   name # Extended \/ Children(name) = {})
  BY DEF OpenResize
<1>3. name \in Names /\ Held(name) /\ layout[name].first \in Nat /\ layout[name].last \in Nat
  BY <1>1 DEF LayoutTyped
<1>4. LengthOf(layout[name]) >= MinSectors
  BY <1>1 DEF LayoutClear
<1>5. PICK f, l, r, moves : /\ f = FirstFree(name) /\ l = LastFree(name) /\ r = layout[name]
                            /\ moves = (name # Extended \/ Children(name) = {})
  OBVIOUS
<1>6. f \in Nat /\ l \in Nat /\ f <= r.first /\ r.last <= l /\ Clear(Parent(name), Stretch(f, l), name)
  BY <1>1, <1>5, ResizeLimits
<1>7. moves \in BOOLEAN /\ (name = Extended /\ Children(Extended) # {} => ~moves /\ r = layout[Extended])
  BY <1>5
<1>8. Open(name, r, f, l, moves)
  BY <1>2, <1>5
<1>9. r.first \in Nat /\ r.last \in Nat /\ LengthOf(r) >= MinSectors
  BY <1>3, <1>4, <1>5
<1> QED
  BY ONLY <1>1, <1>3, <1>6, <1>7, <1>8, <1>9, OpenFits

\* What dragging needs: the sectors stay within the limits, and an extended partition around
\* others keeps its start and their ends.
LEMMA DragFits ==
    ASSUME GeometryInv, UNCHANGED layout, dialog.on # None, NEW f \in Nat, NEW l \in Nat,
           dialog' = [dialog EXCEPT !.first = f, !.last = l],
           dialog.minFirst <= f, l <= dialog.maxLast, f + MinSectors - 1 <= l,
           dialog.move \/ f = dialog.first, dialog.move \/ (dialog.minLast <= dialog.last => dialog.minLast <= l)
    PROVE  GeometryInv'
<1>1. LayoutTyped /\ LayoutClear /\ DialogFits(dialog)
  BY FitsBefore DEF GeometryInv
<1>2. PICK D : D = [dialog EXCEPT !.first = f, !.last = l]
  OBVIOUS
<1>3. PICK B : B = dialog
  OBVIOUS
<1>4. B \in [on : Names \cup {None}, first : Nat, last : Nat, minFirst : Nat, maxLast : Nat,
             minLast : Nat \cup {-1}, align : BOOLEAN, move : BOOLEAN]
  BY <1>1, <1>3 DEF DialogFits
<1>5. D = [B EXCEPT !.first = f, !.last = l]
  BY <1>2, <1>3
<1>6. /\ D \in [on : Names \cup {None}, first : Nat, last : Nat, minFirst : Nat, maxLast : Nat,
                minLast : Nat \cup {-1}, align : BOOLEAN, move : BOOLEAN]
      /\ D.on = B.on /\ D.first = f /\ D.last = l /\ D.minFirst = B.minFirst /\ D.maxLast = B.maxLast
      /\ D.minLast = B.minLast /\ D.move = B.move
  BY <1>4, <1>5
<1>7. LengthOf(D) >= MinSectors
  <2>1. LengthOf(D) = l - f + 1
    BY <1>6 DEF LengthOf
  <2> QED
    BY <2>1, GeometryAssumption
<1>8. DialogFits(D)
  BY <1>1, <1>3, <1>6, <1>7 DEF DialogFits
<1> QED
  BY <1>1, <1>2, <1>8, DialogAgain


\* The start of a partition is dragged.
LEMMA DragFirstFits ==
    ASSUME GeometryInv, TotalSectors <= MaxSectors, ~AllowTight, DragFirst
    PROVE  GeometryInv'
<1>1. PICK s \in FirstUsable .. LastUsable :
          /\ dialog.on # None /\ dialog.move /\ RoomForFirst
          /\ dialog' = [dialog EXCEPT !.first = NewFirst(s)]
          /\ UNCHANGED layout
  BY DEF DragFirst
<1>2. LayoutTyped /\ LayoutClear /\ DialogTyped /\ DialogClear
  BY DEF GeometryInv
<1>3. PICK f, l : f = NewFirst(s) /\ l = dialog.last
  OBVIOUS
<1>4. /\ f \in Nat /\ dialog.minFirst <= f /\ f + MinSectors - 1 <= l
      /\ l \in Nat /\ l <= dialog.maxLast
  BY <1>1, <1>2, <1>3, NewFirstFits, DialogNumbers
<1>5. dialog' = [dialog EXCEPT !.first = f, !.last = l]
  BY <1>1, <1>2, <1>3 DEF DialogTyped
<1> QED
  BY <1>1, <1>4, <1>5, DragFits

\* The end of a partition is dragged.
LEMMA DragLastFits ==
    ASSUME GeometryInv, TotalSectors <= MaxSectors, ~AllowTight, DragLast
    PROVE  GeometryInv'
<1>1. PICK s \in FirstUsable .. LastUsable :
          /\ dialog.on # None /\ RoomForLast
          /\ dialog' = [dialog EXCEPT !.last = NewLast(s)]
          /\ UNCHANGED layout
  BY DEF DragLast
<1>2. LayoutTyped /\ LayoutClear /\ DialogTyped /\ DialogClear
  BY DEF GeometryInv
<1>3. PICK f, l : f = dialog.first /\ l = NewLast(s)
  OBVIOUS
<1>4. /\ f \in Nat /\ dialog.minFirst <= f /\ f + MinSectors - 1 <= l
      /\ l \in Nat /\ l <= dialog.maxLast /\ (dialog.minLast <= dialog.last => dialog.minLast <= l)
  BY <1>1, <1>2, <1>3, NewLastFits, DialogNumbers
<1>5. dialog' = [dialog EXCEPT !.first = f, !.last = l]
  BY <1>1, <1>2, <1>3 DEF DialogTyped
<1> QED
  BY <1>1, <1>3, <1>4, <1>5, DragFits

\* All of a partition is dragged.
LEMMA DragAllFits ==
    ASSUME GeometryInv, TotalSectors <= MaxSectors, DragAll
    PROVE  GeometryInv'
<1>1. PICK s \in FirstUsable .. LastUsable :
          /\ dialog.on # None /\ dialog.move /\ Acceptable(Moved(s))
          /\ dialog' = [dialog EXCEPT !.first = Moved(s).first, !.last = Moved(s).last]
          /\ UNCHANGED layout
  BY DEF DragAll
<1>2. LayoutTyped /\ LayoutClear /\ DialogTyped /\ DialogClear
  BY DEF GeometryInv
<1>3. PICK f, l : f = Moved(s).first /\ l = Moved(s).last
  OBVIOUS
<1>4. /\ f \in Nat /\ dialog.minFirst <= f /\ f + MinSectors - 1 <= l
      /\ l \in Nat /\ l <= dialog.maxLast
  BY <1>1, <1>2, <1>3, MovedFits
<1>5. dialog' = [dialog EXCEPT !.first = f, !.last = l]
  BY <1>1, <1>3
<1> QED
  BY <1>1, <1>4, <1>5, DragFits

--------------------------------------------------------------------------------
(* Steps of the layout.                                                    *)

\* What the invariant says of a layout that is in the state L.
LayoutFits(L) ==
    /\ DOMAIN L \subseteq Names /\ L \in [DOMAIN L -> [first : Nat, last : Nat]]
    /\ \A n \in DOMAIN L : LengthOf(L[n]) >= MinSectors
    /\ \A n \in DOMAIN L \ Logicals :
           /\ FirstUsable <= L[n].first /\ L[n].last <= LastUsable
           /\ \A c \in (DOMAIN L \ Logicals) \ {n} : L[c].last < L[n].first \/ L[n].last < L[c].first
    /\ \A n \in DOMAIN L \cap Logicals :
           /\ Extended \in DOMAIN L
           /\ L[Extended].first + Alignment <= L[n].first /\ L[n].last <= L[Extended].last
           /\ \A c \in (DOMAIN L \cap Logicals) \ {n} :
                  L[c].last + Alignment < L[n].first \/ L[n].last + Alignment < L[c].first

\* The layout fits as long as the invariant holds.
LEMMA FitsNow == ASSUME LayoutTyped, LayoutClear PROVE LayoutFits(layout)
<1>1. Extended # None /\ None \notin Names /\ Alignment \in Nat
  BY GeometryAssumption DEF Names
<1>2. /\ DOMAIN layout \subseteq Names /\ layout \in [DOMAIN layout -> [first : Nat, last : Nat]]
      /\ \A n \in DOMAIN layout : n \in Logicals => Extended \in DOMAIN layout
  BY DEF LayoutTyped, Present, Held
<1>3. \A n \in DOMAIN layout : layout[n].first \in Nat /\ layout[n].last \in Nat
  BY <1>2
<1>4. \A n \in DOMAIN layout : LengthOf(layout[n]) >= MinSectors
  BY DEF LayoutClear, Present
<1>5. \A n \in DOMAIN layout \ Logicals : Clear(None, layout[n], n)
  BY DEF LayoutClear, Present, Parent
<1>6. ASSUME NEW n \in DOMAIN layout \ Logicals
      PROVE  /\ FirstUsable <= layout[n].first /\ layout[n].last <= LastUsable
             /\ \A c \in (DOMAIN layout \ Logicals) \ {n} :
                    layout[c].last < layout[n].first \/ layout[n].last < layout[c].first
  <2>1. Clear(None, layout[n], n) /\ FirstUsable + 0 = FirstUsable
    BY <1>1, <1>5 DEF FirstUsable
  <2> QED
    BY <1>3, <2>1 DEF Clear, Start, End, Margin, Children, Roots, Present
<1>7. ASSUME NEW n \in DOMAIN layout \cap Logicals
      PROVE  /\ Extended \in DOMAIN layout
             /\ layout[Extended].first + Alignment <= layout[n].first /\ layout[n].last <= layout[Extended].last
             /\ \A c \in (DOMAIN layout \cap Logicals) \ {n} :
                    layout[c].last + Alignment < layout[n].first \/ layout[n].last + Alignment < layout[c].first
  <2>1. Clear(Extended, layout[n], n)
    BY DEF LayoutClear, Present, Parent
  <2> QED
    BY <1>1, <1>2, <2>1 DEF Clear, Start, End, Margin, Children, Present
<1> QED
  BY <1>2, <1>4, <1>6, <1>7 DEF LayoutFits

\* A layout that fits is as the invariant says.
LEMMA FitsThen == ASSUME NEW L, layout' = L, LayoutFits(L) PROVE LayoutTyped' /\ LayoutClear'
<1>1. Extended # None /\ None \notin Names /\ Alignment \in Nat
  BY GeometryAssumption DEF Names
<1>2. /\ DOMAIN L \subseteq Names /\ L \in [DOMAIN L -> [first : Nat, last : Nat]]
      /\ \A n \in DOMAIN L : n \in Logicals => Extended \in DOMAIN L
  BY DEF LayoutFits
<1>3. LayoutTyped'
  BY <1>2 DEF LayoutTyped, Present, Held
<1>4. \A n \in DOMAIN L : L[n].first \in Nat /\ L[n].last \in Nat
  BY <1>2
<1>5. ASSUME NEW n \in DOMAIN L PROVE Clear(Parent(n), L[n], n)' /\ LengthOf(L[n]) >= MinSectors
  <2>1. CASE n \in Logicals
    <3>1. Parent(n) = Extended
      BY <2>1 DEF Parent
    <3> QED
      BY <1>1, <2>1, <3>1 DEF LayoutFits, Clear, Start, End, Margin, Children, Roots, Present
  <2>2. CASE n \notin Logicals
    <3>1. Parent(n) = None
      BY <2>2 DEF Parent
    <3>2. FirstUsable + 0 = FirstUsable
      BY <1>1 DEF FirstUsable
    <3> QED
      BY <1>1, <1>4, <2>2, <3>1, <3>2 DEF LayoutFits, Clear, Start, End, Margin, Children, Roots, Present
  <2> QED
    BY <2>1, <2>2
<1>6. LayoutClear'
  <2>1. LayoutClear' <=> \A n \in DOMAIN L : Clear(Parent(n), L[n], n)' /\ LengthOf(L[n]) >= MinSectors
    BY DEF LayoutClear, Present, Clear, Start, End, Children, Roots, LengthOf
  <2> QED
    BY <1>5, <2>1
<1> QED
  BY <1>3, <1>6


\* The sectors that are accepted lie where the widget was allowed to put them, and what lies
\* in an extended partition stays in it.
LEMMA AcceptFits == ASSUME GeometryInv, AcceptSectors PROVE GeometryInv'
<1>1. /\ dialog.on # None /\ dialog' = Closed
      /\ layout' = [c \in Present \cup {dialog.on} |->
                       IF c = dialog.on THEN Stretch(dialog.first, dialog.last) ELSE layout[c]]
  BY DEF AcceptSectors
<1>2. LayoutFits(layout) /\ DialogTyped /\ DialogClear /\ DialogHolds
  BY FitsNow DEF GeometryInv
<1>3. PICK L, n, r, p, f, l :
          /\ L = layout' /\ n = dialog.on /\ r = Stretch(dialog.first, dialog.last) /\ p = Parent(dialog.on)
          /\ f = dialog.minFirst /\ l = dialog.maxLast
  OBVIOUS
<1>4. /\ n \in Names /\ r.first \in Nat /\ r.last \in Nat /\ r \in [first : Nat, last : Nat]
      /\ r.first = dialog.first /\ r.last = dialog.last /\ f \in Nat /\ l \in Nat
  BY <1>1, <1>2, <1>3 DEF DialogTyped, Stretch
<1>5. /\ Held(n) /\ Clear(p, Stretch(f, l), n) /\ f <= r.first /\ r.last <= l /\ LengthOf(r) >= MinSectors
  <2>1. LengthOf(r) = LengthOf(dialog)
    BY <1>4 DEF LengthOf
  <2> QED
    BY <1>1, <1>2, <1>3, <1>4, <2>1 DEF DialogClear
<1>6. DOMAIN L = Present \cup {n} /\ L[n] = r /\ \A c \in Present \ {n} : L[c] = layout[c]
  BY <1>1, <1>3
<1>7. /\ Present \subseteq Names /\ \A c \in Present : layout[c] \in [first : Nat, last : Nat]
      /\ \A c \in Present : layout[c].first \in Nat /\ layout[c].last \in Nat /\ LengthOf(layout[c]) >= MinSectors
  BY <1>2 DEF LayoutFits, Present
<1>8. L \in [DOMAIN L -> [first : Nat, last : Nat]]
  <2>1. L = [c \in DOMAIN L |-> L[c]]
    BY <1>1, <1>3
  <2>2. \A c \in DOMAIN L : L[c] \in [first : Nat, last : Nat]
    BY <1>4, <1>6, <1>7
  <2> QED
    BY <2>1, <2>2
<1>9. Extended # None /\ Extended \notin Logicals /\ None \notin Names /\ Alignment \in Nat \ {0}
  BY GeometryAssumption DEF Names
<1>10. /\ \A c \in DOMAIN L : L[c].first \in Nat /\ L[c].last \in Nat /\ LengthOf(L[c]) >= MinSectors
  BY <1>4, <1>5, <1>6, <1>7
<1>11. MinSectors \in Nat \ {0} /\ \A c \in DOMAIN L : L[c].first <= L[c].last
  <2>1. MinSectors \in Nat \ {0}
    BY GeometryAssumption
  <2> QED
    BY <1>10, <2>1 DEF LengthOf
<1>12. \A c \in Present \ Logicals :
           /\ FirstUsable <= layout[c].first /\ layout[c].last <= LastUsable
           /\ \A d \in (Present \ Logicals) \ {c} :
                  layout[d].last < layout[c].first \/ layout[c].last < layout[d].first
  BY <1>2 DEF LayoutFits, Present
<1>13. \A c \in Present \cap Logicals :
           /\ Extended \in Present
           /\ layout[Extended].first + Alignment <= layout[c].first /\ layout[c].last <= layout[Extended].last
           /\ \A d \in (Present \cap Logicals) \ {c} :
                  layout[d].last + Alignment < layout[c].first \/ layout[c].last + Alignment < layout[d].first
  BY <1>2 DEF LayoutFits, Present
<1>14. n \notin Logicals => /\ FirstUsable <= r.first /\ r.last <= LastUsable
                            /\ \A d \in (Present \ Logicals) \ {n} :
                                   layout[d].last < r.first \/ r.last < layout[d].first
  <2>1. SUFFICES ASSUME n \notin Logicals
                 PROVE  /\ FirstUsable <= r.first /\ r.last <= LastUsable
                        /\ \A d \in (Present \ Logicals) \ {n} :
                               layout[d].last < r.first \/ r.last < layout[d].first
    OBVIOUS
  <2>2. p = None
    BY <1>3, <2>1 DEF Parent
  <2>3. /\ FirstUsable + 0 <= f /\ l <= LastUsable
        /\ \A d \in (Present \ Logicals) \ {n} : layout[d].last + 0 < f \/ l + 0 < layout[d].first
    BY <1>5, <2>2 DEF Clear, Stretch, Start, End, Margin, Children, Roots
  <2>4. FirstUsable \in Nat /\ LastUsable \in Int
    BY GeometryAssumption DEF FirstUsable, LastUsable
  <2> QED
    BY <1>4, <1>5, <1>7, <2>3, <2>4
<1>15. n \in Logicals => /\ Extended \in Present
                         /\ layout[Extended].first + Alignment <= r.first /\ r.last <= layout[Extended].last
                         /\ \A d \in (Present \cap Logicals) \ {n} :
                                layout[d].last + Alignment < r.first \/ r.last + Alignment < layout[d].first
  <2>1. SUFFICES ASSUME n \in Logicals
                 PROVE  /\ Extended \in Present
                        /\ layout[Extended].first + Alignment <= r.first /\ r.last <= layout[Extended].last
                        /\ \A d \in (Present \cap Logicals) \ {n} :
                               layout[d].last + Alignment < r.first \/ r.last + Alignment < layout[d].first
    OBVIOUS
  <2>2. p = Extended /\ Extended \in Present
    BY <1>3, <1>5, <2>1 DEF Parent, Held
  <2>3. /\ layout[Extended].first + Alignment <= f /\ l <= layout[Extended].last
        /\ \A d \in (Present \cap Logicals) \ {n} : layout[d].last + Alignment < f \/ l + Alignment < layout[d].first
    BY <1>5, <1>9, <2>2 DEF Clear, Stretch, Start, End, Margin, Children
  <2> QED
    BY <1>4, <1>5, <1>7, <1>9, <2>2, <2>3
<1>16. n = Extended /\ Present \cap Logicals # {} =>
           r.first = layout[Extended].first /\ \A c \in Present \cap Logicals : layout[c].last <= r.last
  <2>1. SUFFICES ASSUME n = Extended, Present \cap Logicals # {}
                 PROVE  r.first = layout[Extended].first /\ \A c \in Present \cap Logicals : layout[c].last <= r.last
    OBVIOUS
  <2>2. Children(Extended) = Present \cap Logicals
    BY <1>9 DEF Children
  <2>3. /\ dialog.first = layout[Extended].first /\ dialog.minLast <= dialog.last
        /\ \A c \in Present \cap Logicals : layout[c].last <= dialog.minLast
    BY <1>2, <1>3, <2>1, <2>2 DEF DialogHolds
  <2>4. dialog.minLast \in Int
    BY <1>2 DEF DialogTyped
  <2> QED
    BY <1>4, <1>7, <2>3, <2>4
<1>17. ASSUME NEW c \in DOMAIN L \ Logicals
       PROVE  /\ FirstUsable <= L[c].first /\ L[c].last <= LastUsable
              /\ \A d \in (DOMAIN L \ Logicals) \ {c} : L[d].last < L[c].first \/ L[c].last < L[d].first
  <2>1. CASE c = n
    BY <1>6, <1>14, <2>1
  <2>2. CASE c # n
    <3>1. c \in Present \ Logicals /\ L[c] = layout[c]
      BY <1>6, <2>2
    <3>2. ASSUME NEW d \in (DOMAIN L \ Logicals) \ {c} PROVE L[d].last < L[c].first \/ L[c].last < L[d].first
      <4>1. CASE d = n
        BY <1>6, <1>14, <2>2, <3>1, <4>1
      <4>2. CASE d # n
        BY <1>6, <1>12, <3>1, <4>2
      <4> QED
        BY <4>1, <4>2
    <3> QED
      BY <1>12, <3>1, <3>2
  <2> QED
    BY <2>1, <2>2
<1>18. ASSUME NEW c \in DOMAIN L \cap Logicals
       PROVE  /\ Extended \in DOMAIN L
              /\ L[Extended].first + Alignment <= L[c].first /\ L[c].last <= L[Extended].last
              /\ \A d \in (DOMAIN L \cap Logicals) \ {c} :
                     L[d].last + Alignment < L[c].first \/ L[c].last + Alignment < L[d].first
  <2>1. CASE c = n
    <3>1. n # Extended /\ n \in Logicals
      BY <1>9, <2>1
    <3>2. Extended \in Present /\ L[Extended] = layout[Extended]
      BY <1>6, <1>15, <3>1
    <3> QED
      BY <1>6, <1>15, <2>1, <3>1, <3>2
  <2>2. CASE c # n
    <3>1. c \in Present \cap Logicals /\ L[c] = layout[c] /\ Extended \in Present /\ Extended \in DOMAIN L
      BY <1>6, <1>13, <2>2
    <3>2. L[Extended].first + Alignment <= L[c].first /\ L[c].last <= L[Extended].last
      <4>1. CASE n = Extended
        <5>1. L[Extended] = r /\ r.first = layout[Extended].first /\ layout[c].last <= r.last
          BY <1>6, <1>16, <3>1, <4>1
        <5>2. layout[Extended].first + Alignment <= layout[c].first
          BY <1>13, <3>1
        <5> QED
          BY <3>1, <5>1, <5>2
      <4>2. CASE n # Extended
        <5>1. L[Extended] = layout[Extended]
          BY <1>6, <3>1, <4>2
        <5> QED
          BY <1>13, <3>1, <5>1
      <4> QED
        BY <4>1, <4>2
    <3>3. ASSUME NEW d \in (DOMAIN L \cap Logicals) \ {c}
          PROVE  L[d].last + Alignment < L[c].first \/ L[c].last + Alignment < L[d].first
      <4>1. CASE d = n
        BY <1>6, <1>15, <2>2, <3>1, <4>1
      <4>2. CASE d # n
        BY <1>6, <1>13, <3>1, <4>2
      <4> QED
        BY <4>1, <4>2
    <3> QED
      BY <3>1, <3>2, <3>3
  <2> QED
    BY <2>1, <2>2
<1>19. LayoutFits(L)
  <2>1. DOMAIN L \subseteq Names
    BY <1>4, <1>6, <1>7
  <2> QED
    BY <1>8, <1>10, <1>17, <1>18, <2>1 DEF LayoutFits
<1>20. LayoutTyped' /\ LayoutClear'
  BY <1>3, <1>19, FitsThen
<1>21. DialogTyped' /\ DialogClear' /\ DialogHolds'
  BY <1>1, ClosedAgain
<1> QED
  BY <1>20, <1>21 DEF GeometryInv

\* A partition is deleted, an extended one only when it is empty.
LEMMA DeleteFits == ASSUME GeometryInv, Delete PROVE GeometryInv'
<1>1. dialog.on = None /\ UNCHANGED dialog
  BY DEF Delete
<1>2. PICK name \in Present : /\ name = Extended => Children(name) = {}
                              /\ layout' = [n \in Present \ {name} |-> layout[n]]
  BY DEF Delete
<1>3. LayoutFits(layout) /\ DialogTyped /\ DialogClear /\ DialogHolds
  BY FitsNow DEF GeometryInv
<1>4. PICK L : L = layout'
  OBVIOUS
<1>5. DOMAIN L = Present \ {name} /\ \A n \in DOMAIN L : L[n] = layout[n]
  BY <1>2, <1>4
<1>6. Extended # None
  BY GeometryAssumption
<1>7. \A n \in DOMAIN L \cap Logicals : Extended \in DOMAIN L
  <2>1. name = Extended => Present \cap Logicals = {}
    BY <1>2, <1>6 DEF Children
  <2>2. \A n \in Present \cap Logicals : Extended \in Present
    BY <1>3 DEF LayoutFits, Present
  <2> QED
    BY <1>5, <2>1, <2>2
<1>8. L \in [DOMAIN L -> [first : Nat, last : Nat]]
  <2>1. \A n \in Present : layout[n] \in [first : Nat, last : Nat]
    BY <1>3 DEF LayoutFits, Present
  <2> QED
    BY <1>2, <1>4, <1>5, <2>1
<1>9. LayoutFits(L)
  <2>1. /\ DOMAIN L \subseteq Names
        /\ \A n \in DOMAIN L : LengthOf(L[n]) >= MinSectors
    BY <1>3, <1>5 DEF LayoutFits, Present
  <2>2. \A n \in DOMAIN L \ Logicals :
           /\ FirstUsable <= L[n].first /\ L[n].last <= LastUsable
           /\ \A c \in (DOMAIN L \ Logicals) \ {n} : L[c].last < L[n].first \/ L[n].last < L[c].first
    BY <1>3, <1>5 DEF LayoutFits, Present
  <2>3. \A n \in DOMAIN L \cap Logicals :
           /\ L[Extended].first + Alignment <= L[n].first /\ L[n].last <= L[Extended].last
           /\ \A c \in (DOMAIN L \cap Logicals) \ {n} :
                  L[c].last + Alignment < L[n].first \/ L[n].last + Alignment < L[c].first
    BY <1>3, <1>5, <1>7 DEF LayoutFits, Present
  <2> QED
    BY <1>7, <1>8, <2>1, <2>2, <2>3 DEF LayoutFits
<1>10. LayoutTyped' /\ LayoutClear'
  BY <1>4, <1>9, FitsThen
<1>11. dialog'.on = None
  BY <1>1
<1>12. DialogTyped'
  BY <1>1, <1>3 DEF DialogTyped
<1>13. DialogClear'
  BY <1>11 DEF DialogClear
<1>14. DialogHolds'
  BY <1>6, <1>11 DEF DialogHolds
<1> QED
  BY <1>10, <1>12, <1>13, <1>14 DEF GeometryInv

--------------------------------------------------------------------------------
(* What holds after any sequence of steps.                                 *)

\* The invariant says that no partition shares a sector with another one.
LEMMA InvIsSound == ASSUME LayoutTyped, LayoutClear PROVE LayoutSound
<1>1. \A node \in {None} \cup (Present \cap {Extended}) : IsNode(node)
  BY DEF IsNode
<1>2. ASSUME NEW node \in {None} \cup (Present \cap {Extended}),
             NEW m \in Children(node), NEW n \in Children(node), m # n
      PROVE  SectorsOf(layout[m]) \cap SectorsOf(layout[n]) = {}
  <2>1. /\ Margin(node) \in Nat
        /\ layout[m].first \in Nat /\ layout[m].last \in Nat /\ layout[n].first \in Nat /\ layout[n].last \in Nat
        /\ layout[m].last + Margin(node) < layout[n].first \/ layout[n].last + Margin(node) < layout[m].first
    BY <1>1, <1>2, NodeFacts
  <2> QED
    BY <2>1 DEF SectorsOf
<1>3. ASSUME NEW n \in Present
      PROVE  layout[n].first <= layout[n].last /\ SectorsOf(layout[n]) \subseteq Start(Parent(n)) .. End(Parent(n))
  <2>1. n \in Names /\ Held(n)
    BY DEF LayoutTyped
  <2>2. IsNode(Parent(n)) /\ n \in Children(Parent(n))
    BY <2>1, ParentFacts
  <2>3. PICK p : p = Parent(n)
    OBVIOUS
  <2>4. /\ Start(p) \in Nat /\ End(p) \in Nat /\ Margin(p) \in Nat
        /\ layout[n].first \in Nat /\ layout[n].last \in Nat /\ layout[n].first <= layout[n].last
        /\ Start(p) + Margin(p) <= layout[n].first /\ layout[n].last <= End(p)
    BY <2>2, <2>3, NodeFacts
  <2> QED
    BY <2>3, <2>4 DEF SectorsOf
<1>4. ASSUME NEW n \in Present \cap Logicals
      PROVE  LET metadata == (layout[n].first - Alignment) .. (layout[n].first - 1)
             IN  /\ metadata \subseteq SectorsOf(layout[Extended])
                 /\ \A m \in Present \cap Logicals : metadata \cap SectorsOf(layout[m]) = {}
  <2>1. Extended \in Present /\ Extended # None /\ IsNode(Extended)
    BY GeometryAssumption DEF LayoutTyped, Held, IsNode
  <2>2. Children(Extended) = Present \cap Logicals /\ Margin(Extended) = Alignment
        /\ Start(Extended) = layout[Extended].first /\ End(Extended) = layout[Extended].last
    BY <2>1 DEF Children, Margin, Start, End
  <2>3. /\ Alignment \in Nat \ {0} /\ layout[Extended].first \in Nat /\ layout[Extended].last \in Nat
        /\ \A c \in Present \cap Logicals :
              /\ layout[c].first \in Nat /\ layout[c].last \in Nat /\ layout[c].first <= layout[c].last
              /\ layout[Extended].first + Alignment <= layout[c].first /\ layout[c].last <= layout[Extended].last
        /\ \A c, d \in Present \cap Logicals : c # d =>
              layout[c].last + Alignment < layout[d].first \/ layout[d].last + Alignment < layout[c].first
    BY <2>1, <2>2, NodeFacts
  <2>4. (layout[n].first - Alignment) .. (layout[n].first - 1) \subseteq SectorsOf(layout[Extended])
    BY <2>3 DEF SectorsOf
  <2>5. ASSUME NEW m \in Present \cap Logicals
        PROVE  ((layout[n].first - Alignment) .. (layout[n].first - 1)) \cap SectorsOf(layout[m]) = {}
    <3>1. CASE m = n
      BY <2>3, <3>1 DEF SectorsOf
    <3>2. CASE m # n
      BY <2>3, <3>2 DEF SectorsOf
    <3> QED
      BY <3>1, <3>2
  <2> QED
    BY <2>4, <2>5
<1> QED
  BY <1>2, <1>3, <1>4 DEF LayoutSound

\* The invariant holds at first, and every step keeps it whose partitions are begun with room.
LEMMA GeometryStart == ASSUME GeometryInit PROVE GeometryInv
<1>1. DOMAIN layout = {} /\ layout \in [{} -> [first : Nat, last : Nat]] /\ dialog = Closed
  BY DEF GeometryInit
<1>2. LayoutTyped /\ LayoutClear
  BY <1>1 DEF LayoutTyped, LayoutClear, Present
<1>3. dialog.on = None /\ None # Extended
  BY <1>1, GeometryAssumption DEF Closed
<1>4. DialogTyped
  BY <1>1 DEF DialogTyped, Closed
<1> QED
  BY <1>2, <1>3, <1>4 DEF GeometryInv, DialogClear, DialogHolds

\* One step per action. The widget may be dragged as far as its limits, which were clear of the
\* other partitions when it was opened, and no other partition changes while it is open.
LEMMA GeometryStep ==
    ASSUME TotalSectors <= MaxSectors, ~AllowTight, GeometryInv,
           [GeometryNext]_geometryVars, [NewHasRoom]_geometryVars
    PROVE  GeometryInv'
<1>1. CASE UNCHANGED geometryVars
  <2>1. UNCHANGED layout /\ UNCHANGED dialog /\ LayoutTyped /\ LayoutClear /\ DialogFits(dialog)
    BY <1>1, FitsBefore DEF geometryVars, GeometryInv
  <2> QED
    BY <2>1, DialogAgain
<1>2. CASE NewHasRoom /\ OpenNew
  BY <1>2, OpenNewFits
<1>3. CASE OpenResize
  BY <1>3, OpenResizeFits
<1>4. CASE DragFirst
  BY <1>4, DragFirstFits
<1>5. CASE DragLast
  BY <1>5, DragLastFits
<1>6. CASE DragAll
  BY <1>6, DragAllFits
<1>7. CASE AcceptSectors
  BY <1>7, AcceptFits
<1>8. CASE Cancel
  <2>1. UNCHANGED layout /\ dialog' = Closed /\ LayoutTyped /\ LayoutClear
    BY <1>8 DEF Cancel, GeometryInv
  <2>2. LayoutTyped' /\ LayoutClear'
    BY <2>1 DEF LayoutTyped, LayoutClear, Held, Clear, Present, Children, Roots, Start, End
  <2> QED
    BY <2>1, <2>2, ClosedAgain DEF GeometryInv
<1>9. CASE Delete
  BY <1>9, DeleteFits
<1> QED
  BY <1>1, <1>2, <1>3, <1>4, <1>5, <1>6, <1>7, <1>8, <1>9 DEF GeometryNext

\* Where the file system needs no more than an alignment unit, every unallocated space has room.
LEMMA RoomInAnySpace ==
    ASSUME MinSectors <= Alignment, GeometryInv, [GeometryNext]_geometryVars
    PROVE  [NewHasRoom]_geometryVars
<1>1. SUFFICES ASSUME OpenNew PROVE LengthOf(dialog') >= MinSectors
  BY DEF NewHasRoom
<1>2. PICK name \in (Primaries \cup Logicals \cup {Extended}) \ Present :
          /\ name \in Logicals => Extended \in Present
          /\ \E u \in Unallocated(Parent(name)) : Open(name, u, u.first, u.last, TRUE)
  BY <1>1 DEF OpenNew
<1>3. PICK u \in Unallocated(Parent(name)) : Open(name, u, u.first, u.last, TRUE)
  BY <1>2
<1>4. name \in Names /\ Held(name) /\ LayoutTyped /\ LayoutClear
  BY <1>2 DEF Names, Held, GeometryInv
<1>5. u.first \in Nat /\ u.last \in Nat /\ LengthOf(u) >= Alignment
  BY <1>4, ParentFacts, UnallocatedIsClear
<1>6. LengthOf(dialog') = LengthOf(u)
  BY <1>3 DEF Open, LengthOf
<1>7. LengthOf(u) \in Int
  BY <1>5 DEF LengthOf
<1> QED
  BY <1>5, <1>6, <1>7, GeometryAssumption

\* The invariant of the layout and the widget. It needs what the counterexamples to the properties
\* below lack: a file system that may fill the disk, an edge that is dragged only where an aligned
\* sector is left, and a new partition that is begun only where its file system has room.
THEOREM GeometryInvariance ==
    ASSUME TotalSectors <= MaxSectors, ~AllowTight
    PROVE  GeometrySpec /\ [][NewHasRoom]_geometryVars => []GeometryInv
<1>1. GeometryInit => GeometryInv
  BY GeometryStart
<1>2. GeometryInv /\ [GeometryNext]_geometryVars /\ [NewHasRoom]_geometryVars => GeometryInv'
  BY GeometryStep
<1> QED
  BY <1>1, <1>2, PTL DEF GeometrySpec

\* Creating, resizing, moving and deleting, aligned or not, never makes two partitions overlap, nor
\* takes the sectors that the metadata of a logical partition needs.
THEOREM LayoutStaysSound ==
    ASSUME TotalSectors <= MaxSectors, ~AllowTight
    PROVE  GeometrySpec /\ [][NewHasRoom]_geometryVars => []LayoutSound
<1>1. GeometryInv => LayoutSound
  BY InvIsSound DEF GeometryInv
<1>2. GeometrySpec /\ [][NewHasRoom]_geometryVars => []GeometryInv
  BY GeometryInvariance
<1> QED
  BY <1>1, <1>2, PTL

\* The unallocated space that is shown is at all times what the partitions leave free.
THEOREM UnallocatedStaysFree ==
    ASSUME TotalSectors <= MaxSectors, ~AllowTight
    PROVE  GeometrySpec /\ [][NewHasRoom]_geometryVars => []UnallocatedIsFree
<1>1. GeometryInv => UnallocatedIsFree
  BY UnallocatedIsFreeIn DEF GeometryInv
<1>2. GeometrySpec /\ [][NewHasRoom]_geometryVars => []GeometryInv
  BY GeometryInvariance
<1> QED
  BY <1>1, <1>2, PTL

\* Both hold of every behaviour if the file system needs no more than an alignment unit: a space that
\* is shown is never shorter.
COROLLARY SmallFileSystemsFit ==
    ASSUME TotalSectors <= MaxSectors, ~AllowTight, MinSectors <= Alignment
    PROVE  GeometrySpec => [](LayoutSound /\ UnallocatedIsFree)
<1>1. GeometryInit => GeometryInv
  BY GeometryStart
<1>2. GeometryInv /\ [GeometryNext]_geometryVars => GeometryInv'
  <2>1. SUFFICES ASSUME GeometryInv, [GeometryNext]_geometryVars PROVE GeometryInv'
    OBVIOUS
  <2>2. [NewHasRoom]_geometryVars
    BY <2>1, RoomInAnySpace
  <2> QED
    BY <2>1, <2>2, GeometryStep
<1>3. GeometryInv => LayoutSound /\ UnallocatedIsFree
  BY InvIsSound, UnallocatedIsFreeIn DEF GeometryInv
<1> QED
  BY <1>1, <1>2, <1>3, PTL DEF GeometrySpec
================================================================================
