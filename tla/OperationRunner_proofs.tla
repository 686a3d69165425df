------------------------ MODULE OperationRunner_proofs ------------------------
(***************************************************************************)
(* Proofs about the runner, for every device, every stack the front end    *)
(* can build and every moment of a cancel or a suspension.  Two invariants *)
(* carry them.  IInv says that the operations before "current", and no     *)
(* others, were executed, and that the one just before it is the only one  *)
(* that can have failed.  LayoutInv says that the preview shows the level  *)
(* of the stack that these operations lead to, and so does the disk unless *)
(* one failed.                                                             *)
(***************************************************************************)
EXTENDS OperationRunner, OperationStack_proofs

Statuses == {"None", "Running"} \cup Executed

\* Types of what the runner keeps.
RunTypes ==
    /\ thread \in {"idle", "starting", "waiting", "deciding", "executing", "leaving", "ended"}
    /\ statuses \in Seq(Statuses) /\ current \in Nat \ {0}
    /\ ok \in BOOLEAN /\ cancelling \in BOOLEAN

\* What the statuses say of the operations before and behind the current one.
Progress ==
    \A i \in 1 .. Len(statuses) :
        /\ statuses[i] \in Executed <=> i < current
        /\ statuses[i] = "Error" <=> ~ok /\ i = current - 1

\* Where the thread is.
Where ==
    /\ thread = "idle" => statuses = <<>> /\ current = 1 /\ ok
    /\ thread # "idle" => Len(statuses) = Len(operations)
    /\ thread \in {"starting", "waiting", "leaving"} => current <= Len(statuses) + 1
    /\ thread \in {"deciding", "executing"} => current <= Len(statuses)
    /\ thread = "executing" => ok
    /\ thread = "leaving" => current > Len(statuses) \/ ~ok \/ cancelling
    /\ ok \/ current > 1

\* What was emitted.
Told ==
    /\ thread # "ended" => signal = "none"
    /\ signal = "error" => ~ok
    /\ signal \in {"cancelled", "finished"} => ok
    /\ signal = "finished" => current > Len(statuses)

IInv == Stacked /\ RunTypes /\ Progress /\ Where /\ Told

--------------------------------------------------------------------------------
(* The run.                                                                *)

\* How an operation may end.
LEMMA HowItEnds ==
    ASSUME NEW op, NEW out
    PROVE  /\ out \in Failures(op) => out.status = "Error"
           /\ out \in Successes(op) => out.status \in {"Success", "Warning"}
<1>1. ASSUME NEW s, NEW disks, NEW created, out \in Outcomes(s, disks, created) PROVE out.status = s
  BY <1>1 DEF Outcomes
<1>2. ASSUME out \in Failures(op) PROVE out.status = "Error"
  BY <1>1, <1>2 DEF Failures
<1>3. ASSUME out \in Successes(op) PROVE out.status \in {"Success", "Warning"}
  BY <1>1, <1>3 DEF Successes
<1> QED
  BY <1>2, <1>3

\* The scan.
LEMMA InitInv == RunnerInit => IInv
<1> SUFFICES ASSUME RunnerInit PROVE IInv
  OBVIOUS
<1>1. /\ operations = <<>> /\ statuses = <<>> /\ thread = "idle" /\ current = 1 /\ ok = TRUE
      /\ cancelling = FALSE /\ signal = "none"
  BY DEF RunnerInit, Init
<1>2. Len(<<>>) = 0 /\ <<>> \in Seq(Statuses)
  BY EmptySeq
<1>3. RunTypes
  <2>1. current \in Nat \ {0}
    BY <1>1
  <2> QED
    BY <1>1, <1>2, <2>1, Zenon DEF RunTypes
<1>4. Progress
  BY <1>1, <1>2 DEF Progress
<1> QED
  BY <1>1, <1>2, <1>3, <1>4 DEF IInv, Stacked, Where, Told

\* The user edits the stack: nothing runs.
LEMMA EditStep == ASSUME IInv, Edit PROVE IInv'
<1>1. thread = "idle" /\ UNCHANGED runVars
  BY DEF Edit
<1>2. Stacked'
  BY NextStacked DEF Edit, IInv
<1>3. UNCHANGED <<thread, statuses, current, ok, cancelling, signal>>
  BY <1>1 DEF runVars
<1>4. RunTypes'
  BY <1>3, Zenon DEF IInv, RunTypes
<1> QED
  BY <1>1, <1>2, <1>3, <1>4 DEF IInv, Progress, Where, Told

\* All operations get the status "None".
LEMMA ApplyStep == ASSUME IInv, Apply PROVE IInv'
<1>1. /\ thread = "idle" /\ operations # <<>> /\ thread' = "starting"
      /\ statuses' = [i \in DOMAIN operations |-> "None"]
      /\ UNCHANGED <<operations, current, ok, cancelling, signal>>
  BY DEF Apply
<1>2. Len(operations) \in Nat /\ DOMAIN operations = 1 .. Len(operations) /\ Len(operations) >= 1
  BY <1>1, Lengths DEF IInv, Stacked
<1>3. statuses' \in Seq(Statuses) /\ Len(statuses') = Len(operations)
  <2> DEFINE n == Len(operations)
  <2>1. statuses' \in [1 .. n -> Statuses]
    BY <1>1, <1>2 DEF Statuses
  <2>2. statuses' \in Seq(Statuses)
    BY <1>2, <2>1, SeqDef
  <2>3. Len(statuses') \in Nat /\ DOMAIN statuses' = 1 .. Len(statuses')
    BY <2>2, LenProperties
  <2>4. DOMAIN statuses' = 1 .. n
    BY <2>1
  <2>5. n \in Nat
    BY <1>2
  <2> DEFINE size == Len(statuses')
  <2>6. 1 .. size = 1 .. n /\ size \in Nat
    BY <2>3, <2>4
  <2> HIDE DEF n, size
  <2>7. size = n
    <3>1. \A k \in Int : (1 <= k /\ k <= size) <=> (1 <= k /\ k <= n)
      BY <2>5, <2>6
    <3> QED
      BY <2>5, <2>6, <3>1
  <2> QED
    BY <2>2, <2>7 DEF n, size
<1>4. current = 1 /\ ok
  BY <1>1 DEF IInv, Where
<1>5. RunTypes'
  BY <1>1, <1>3, Zenon DEF IInv, RunTypes
<1>6. Progress'
  BY <1>1, <1>2, <1>3, <1>4 DEF Progress, Executed
<1>7. Stacked' /\ Told' /\ Where'
  BY <1>1, <1>2, <1>3, <1>4 DEF IInv, Stacked, Told, Where
<1> QED
  BY <1>5, <1>6, <1>7 DEF IInv

\* The steps that change neither statuses nor results.
LEMMA ThreadStep ==
    ASSUME IInv, Begin \/ PassMutex \/ Leave \/ Cancel \/ Suspend \/ Resume
    PROVE  IInv'
<1>1. UNCHANGED <<operations, statuses, current, ok, signal>>
  BY DEF Begin, PassMutex, Leave, Cancel, Suspend, Resume, vars
<1>2. /\ thread' \in {"waiting", "deciding", "leaving", thread}
      /\ cancelling' \in {TRUE, FALSE, cancelling}
  BY DEF Begin, PassMutex, Leave, Cancel, Suspend, Resume
<1>3. Stacked' /\ Progress'
  BY <1>1 DEF IInv, Stacked, Progress
<1>4. RunTypes'
  BY <1>1, <1>2, Zenon DEF IInv, RunTypes
<1>5. Len(statuses) \in Nat /\ current \in Nat
  BY LenProperties DEF IInv, RunTypes
<1>6. Where' /\ Told'
  <2>1. CASE Begin
    BY <1>1, <1>5, <2>1 DEF Begin, IInv, Where, Told
  <2>2. CASE PassMutex
    BY <1>1, <1>5, <2>2 DEF PassMutex, IInv, Where, Told
  <2>3. CASE Leave
    BY <1>1, <1>5, <2>3 DEF Leave, IInv, Where, Told
  <2>4. CASE Cancel
    BY <1>1, <1>5, <2>4 DEF Cancel, IInv, Where, Told
  <2>5. CASE Suspend \/ Resume
    BY <1>1, <1>5, <2>5 DEF Suspend, Resume, IInv, Where, Told
  <2> QED
    BY <2>1, <2>2, <2>3, <2>4, <2>5
<1> QED
  BY <1>3, <1>4, <1>6 DEF IInv

\* The current operation runs, and none before it failed.
LEMMA StartStep == ASSUME IInv, Start PROVE IInv'
<1>1. /\ thread = "deciding" /\ ok /\ thread' = "executing"
      /\ statuses' = [statuses EXCEPT ![current] = "Running"]
      /\ UNCHANGED <<operations, current, ok, cancelling, signal>>
  BY DEF Start, vars
<1>2. /\ statuses \in Seq(Statuses) /\ Len(statuses) \in Nat /\ current \in 1 .. Len(statuses)
      /\ "Running" \in Statuses
  BY <1>1, LenProperties DEF IInv, RunTypes, Where, Statuses
<1>3. /\ statuses' \in Seq(Statuses) /\ Len(statuses') = Len(statuses)
      /\ \A i \in 1 .. Len(statuses) : statuses'[i] = IF i = current THEN "Running" ELSE statuses[i]
  BY <1>1, <1>2, ExceptSeq
<1>4. RunTypes'
  BY <1>1, <1>3, Zenon DEF IInv, RunTypes
<1>5. Progress'
  BY <1>1, <1>2, <1>3 DEF IInv, Progress, Executed
<1> QED
  BY <1>1, <1>2, <1>3, <1>4, <1>5 DEF IInv, Stacked, Where, Told

\* execute() and preview(): the current operation was executed, well or not.
LEMMA ExecuteStep == ASSUME IInv, Execute PROVE IInv'
<1>1. PICK out \in Failures(operations[current]) \cup Successes(operations[current]) :
          /\ statuses' = [statuses EXCEPT ![current] = out.status]
          /\ ok' = (out.status # "Error")
  BY DEF Execute
<1>2. /\ thread = "executing" /\ thread' = "waiting" /\ current' = current + 1
      /\ UNCHANGED <<operations, cancelling, signal>>
  BY DEF Execute
<1>3. out.status \in Executed
  BY HowItEnds DEF Executed
<1>4. /\ statuses \in Seq(Statuses) /\ Len(statuses) \in Nat /\ current \in 1 .. Len(statuses)
      /\ out.status \in Statuses /\ ok
  BY <1>2, <1>3, LenProperties DEF IInv, RunTypes, Where, Statuses
<1>5. /\ statuses' \in Seq(Statuses) /\ Len(statuses') = Len(statuses)
      /\ \A i \in 1 .. Len(statuses) : statuses'[i] = IF i = current THEN out.status ELSE statuses[i]
  BY <1>1, <1>4, ExceptSeq
<1>6. RunTypes'
  <2>1. current' \in Nat \ {0}
    BY <1>2, <1>4
  <2>2. ok' \in BOOLEAN
    BY <1>1
  <2> QED
    BY <1>2, <1>5, <2>1, <2>2, Zenon DEF IInv, RunTypes
<1>7. Progress'
  <2>1. SUFFICES ASSUME NEW i \in 1 .. Len(statuses)
                 PROVE  /\ statuses'[i] \in Executed <=> i < current + 1
                        /\ statuses'[i] = "Error" <=> ~ok' /\ i = current
    BY <1>2, <1>4, <1>5 DEF Progress
  <2>2. /\ statuses[i] \in Executed <=> i < current
        /\ statuses[i] # "Error"
    BY <1>4 DEF IInv, Progress
  <2>3. CASE i = current
    <3>1. statuses'[i] = out.status /\ i < current + 1
      BY <1>4, <1>5, <2>3
    <3>2. out.status = "Error" <=> ~ok'
      BY <1>1, Zenon
    <3> QED
      BY <1>3, <2>3, <3>1, <3>2
  <2>4. CASE i # current
    BY <1>4, <1>5, <2>2, <2>4
  <2> QED
    BY <2>3, <2>4
<1> QED
  BY <1>2, <1>4, <1>5, <1>6, <1>7 DEF IInv, Stacked, Where, Told

\* The signal is chosen by the results.
LEMMA EmitStep == ASSUME IInv, Emit PROVE IInv'
<1>1. /\ thread = "leaving" /\ thread' = "ended"
      /\ signal' = IF ~ok THEN "error" ELSE IF cancelling THEN "cancelled" ELSE "finished"
      /\ UNCHANGED <<operations, statuses, current, ok, cancelling>>
  BY DEF Emit, vars
<1>2. RunTypes'
  BY <1>1, Zenon DEF IInv, RunTypes
<1>3. Stacked' /\ Progress' /\ Where'
  BY <1>1 DEF IInv, Stacked, Progress, Where
<1>4. Told'
  BY <1>1 DEF IInv, Where, Told
<1> QED
  BY <1>2, <1>3, <1>4 DEF IInv

\* Clearing the stack takes the last operation and its status away.
LEMMA ClearStep == ASSUME IInv, ClearOne PROVE IInv'
<1>1. /\ thread = "ended" /\ operations # <<>> /\ operations' = Front(operations)
      /\ statuses' = Front(statuses)
      /\ UNCHANGED <<thread, current, ok, cancelling, signal>>
  BY DEF ClearOne
<1>2. PICK S : operations \in Seq(S)
  BY DEF IInv, Stacked
<1>3. operations' \in Seq(S) /\ Len(operations') = Len(operations) - 1
  BY <1>1, <1>2, FrontOfSeq
<1>4. Len(operations) \in Nat /\ Len(operations) >= 1
  BY <1>1, <1>2, Lengths
<1>5. statuses \in Seq(Statuses) /\ Len(statuses) = Len(operations) /\ statuses # <<>>
  BY <1>1, <1>4, EmptySeq DEF IInv, RunTypes, Where
<1>6. /\ statuses' \in Seq(Statuses) /\ Len(statuses') = Len(statuses) - 1
      /\ \A i \in 1 .. Len(statuses) - 1 : statuses'[i] = statuses[i]
  BY <1>1, <1>5, FrontOfSeq
<1>7. RunTypes'
  BY <1>1, <1>6, Zenon DEF IInv, RunTypes
<1>8. Progress'
  BY <1>1, <1>4, <1>5, <1>6 DEF IInv, Progress
<1>9. current \in Nat
  BY DEF IInv, RunTypes
<1> QED
  BY <1>1, <1>3, <1>4, <1>5, <1>6, <1>7, <1>8, <1>9 DEF IInv, Stacked, Where, Told

\* Every step, and a stutter, keeps the invariant.
LEMMA StepInv == IInv /\ [RunnerNext]_runnerVars => IInv'
<1> SUFFICES ASSUME IInv, [RunnerNext]_runnerVars PROVE IInv'
  OBVIOUS
<1>1. CASE UNCHANGED runnerVars
  <2>1. UNCHANGED <<operations, thread, statuses, current, ok, cancelling, signal>>
    BY <1>1 DEF runnerVars, vars, runVars
  <2>2. RunTypes'
    BY <2>1, Zenon DEF IInv, RunTypes
  <2> QED
    BY <2>1, <2>2 DEF IInv, Stacked, Progress, Where, Told
<1> QED
  BY <1>1, EditStep, ApplyStep, ThreadStep, StartStep, ExecuteStep, EmitStep, ClearStep
     DEF RunnerNext, Runner

--------------------------------------------------------------------------------
(* What a level of the stack shows of the partition table.                 *)
(*                                                                         *)
(* A run applies the operations of the stack one after the other.  The     *)
(* preview then shows the levels again, with one difference: a partition   *)
(* that is overwritten by a restore was taken out of the preview in the    *)
(* constructor, and it is not when the operation is previewed again, so    *)
(* that it stays in the tree, a ghost beside the one that took its place.  *)

\* The entries of the partitions of P that belong to the table of the level v.
InTable(v, P) == { p \in P : Root(v, p) = v.table }
Entries(v, P) == { EntryOf(v, p) : p \in InTable(v, P) }

\* The partitions overwritten by the restores among the first c operations.
Ghosts(ops, c) == { q \in PartIds : \E i \in 1 .. c : ops[i].kind = "Restore" /\ ops[i].over = q }

InTree(sc, ops, c) == Present(sc, ops, c) \cup Ghosts(ops, c)

\* The partitions and the tree on a level.
LEMMA LevelTree ==
    ASSUME NEW sc \in Devices, NEW ops, NEW pv0, NEW l, Owned(sc, ops, pv0), Layered(sc, ops, pv0, l), NEW k \in 0 .. Len(ops)
    PROVE  LET v == l[k]
               K == Known(sc, ops)
               P == Present(sc, ops, k)
           IN  /\ P \subseteq K /\ K \subseteq PartIds /\ v.table \in TableIds /\ Sound(v, P)
               /\ \A q \in K : /\ v.parts[q] \in Partition
                               /\ v.parts[q].role = pv0.parts[q].role /\ v.parts[q].parent = pv0.parts[q].parent
                               /\ v.parts[q].role = "logical" <=> v.parts[q].parent \notin TableIds
                               /\ v.parts[q].parent \notin TableIds =>
                                     LET m == v.parts[q].parent
                                     IN  m \in K /\ v.parts[m].role = "extended" /\ v.parts[m].parent \in TableIds
               /\ \A q \in P : v.parts[q].parent \in TableIds \/ v.parts[q].parent \in P
<1> DEFINE v == l[k]
           K == Known(sc, ops)
           P == Present(sc, ops, k)
<1>1. Typed(sc, ops, pv0) /\ Rooted(sc, ops, pv0)
  BY DEF Owned
<1>2. /\ P \subseteq K /\ K \subseteq PartIds /\ pv0.parts \in [PartIds -> Partition]
      /\ Nodes = TableIds \cup PartIds /\ PartIds \cap TableIds = {}
  BY <1>1, GoodTypes
<1>3. /\ v.table \in TableIds /\ v.parts \in [PartIds -> Partition]
      /\ \A q \in K : v.parts[q].role = pv0.parts[q].role /\ v.parts[q].parent = pv0.parts[q].parent
  BY <1>1, LevelsKeep
<1>4. \A q \in K : pv0.parts[q].parent \in Nodes
  BY <1>2 DEF Partition
<1>5. \A q \in K : /\ pv0.parts[q].role = "logical" <=> pv0.parts[q].parent \in PartIds
                   /\ pv0.parts[q].parent \in PartIds =>
                         pv0.parts[q].parent \in K /\ pv0.parts[pv0.parts[q].parent].role = "extended"
  BY <1>1 DEF Rooted
<1>6. \A q \in P : pv0.parts[q].parent \in PartIds => pv0.parts[q].parent \in P
  BY ParentPresent
<1>7. Sound(v, P)
  BY DEF Layered
<1>8. \A q \in K : v.parts[q] \in Partition
  BY <1>2, <1>3
<1> HIDE DEF v, K, P
<1>9. ASSUME NEW q \in K
      PROVE  /\ v.parts[q].role = "logical" <=> v.parts[q].parent \notin TableIds
             /\ v.parts[q].parent \notin TableIds =>
                   v.parts[q].parent \in K /\ v.parts[v.parts[q].parent].role = "extended"
                   /\ v.parts[v.parts[q].parent].parent \in TableIds
  <2>1. pv0.parts[q].parent \in PartIds <=> v.parts[q].parent \notin TableIds
    BY <1>2, <1>3, <1>4
  <2>2. ASSUME NEW m \in K, pv0.parts[m].role = "extended" PROVE v.parts[m].role = "extended" /\ v.parts[m].parent \in TableIds
    BY <1>2, <1>3, <1>4, <1>5, <2>2
  <2> QED
    BY <1>3, <1>5, <2>1, <2>2
<1>10. \A q \in P : v.parts[q].parent \in TableIds \/ v.parts[q].parent \in P
  BY <1>2, <1>3, <1>4, <1>6
<1> QED
  BY <1>2, <1>3, <1>7, <1>8, <1>9, <1>10 DEF v, K, P

\* Ranges that are the same have the same ends.
LEMMA SameEnds ==
    ASSUME NEW a \in Int, NEW b \in Int, NEW c \in Int, NEW d \in Int, a <= b, a .. b = c .. d
    PROVE  a = c /\ b = d
<1>1. \A x \in Int : (a <= x /\ x <= b) <=> (c <= x /\ x <= d)
  OBVIOUS
<1> QED
  BY <1>1

\* A partition that a restore overwrote is not in the level's tree any more.
LEMMA GhostFacts ==
    ASSUME NEW sc \in Devices, NEW ops, NEW pv0, Owned(sc, ops, pv0), NEW c \in 0 .. Len(ops), NEW g \in Ghosts(ops, c)
    PROVE  /\ g \in Known(sc, ops) /\ g \notin Present(sc, ops, c) /\ pv0.parts[g].role # "extended"
           /\ \E i \in 1 .. c : ops[i].kind = "Restore" /\ ops[i].over = g /\ g \in Removes(ops[i]) /\ g \in Uses(ops[i])
<1> DEFINE n == Len(ops)
           K == Known(sc, ops)
<1>1. Typed(sc, ops, pv0) /\ Placed(sc, ops, pv0)
  BY DEF Owned
<1>2. /\ n \in Nat /\ DOMAIN ops = 1 .. n
      /\ \A i \in 1 .. n : IsOp(ops[i]) /\ Uses(ops[i]) \subseteq K
  BY <1>1, GoodTypes
<1>3. PICK i \in 1 .. c : ops[i].kind = "Restore" /\ ops[i].over = g
  BY DEF Ghosts
<1>4. i \in 1 .. n
  BY <1>2
<1>5. g \in PartIds /\ g # None
  BY StackAssumption DEF Ghosts
<1>6. Replacing(ops[i])
  BY <1>3, <1>5 DEF Replacing
<1>7. g \in Removes(ops[i]) /\ g \in Uses(ops[i])
  BY <1>2, <1>3, <1>4, <1>6, OperandFacts
<1>8. pv0.parts[g].role # "extended"
  BY <1>1, <1>2, <1>3, <1>4, <1>6 DEF Placed
<1>9. g \notin Present(sc, ops, c)
  BY <1>3, <1>7 DEF Present
<1> QED
  BY <1>2, <1>3, <1>4, <1>7, <1>8, <1>9

--------------------------------------------------------------------------------
(* What is shown during a run and after it.                                *)

\* The preview pv shows the level l[c], with the ghosts but without those of F.
RunShows(sc, ops, pv0, l, c, F, pv) ==
    /\ pv \in Previews /\ pv.table = l[c].table
    /\ \A m \in Nodes : pv.children[m] = (InTree(sc, ops, c) \ F) \cap Below(pv0, m)
    /\ \A q \in Known(sc, ops) \ F : EntryOf(pv, q) = EntryOf(l[c], q) /\ pv.parts[q].parent = pv0.parts[q].parent

\* What is visible then: the partitions of the level's table, and ghosts.
SeenAs(sc, ops, l, c, F, pv) ==
    /\ Visible(pv) \subseteq InTable(l[c], InTree(sc, ops, c) \ F)
    /\ InTable(l[c], Present(sc, ops, c)) \subseteq Visible(pv)
    /\ \A p \in InTree(sc, ops, c) \ F : EntryOf(pv, p) = EntryOf(l[c], p)

\* A preview of the level is seen so.
LEMMA RunVisible ==
    ASSUME NEW sc \in Devices, NEW ops, NEW pv0, NEW l, Owned(sc, ops, pv0), Layered(sc, ops, pv0, l),
           NEW c \in 0 .. Len(ops), NEW F, F \cap Present(sc, ops, c) = {}, NEW pv, RunShows(sc, ops, pv0, l, c, F, pv)
    PROVE  SeenAs(sc, ops, l, c, F, pv)
<1> DEFINE v == l[c]
           t == v.table
           K == Known(sc, ops)
           P == Present(sc, ops, c)
           T == InTree(sc, ops, c) \ F
<1>1. /\ P \subseteq K /\ K \subseteq PartIds /\ t \in TableIds
      /\ \A q \in K : v.parts[q].parent = pv0.parts[q].parent
      /\ \A q \in K : v.parts[q].parent \notin TableIds => v.parts[v.parts[q].parent].parent \in TableIds
      /\ \A q \in P : v.parts[q].parent \in TableIds \/ v.parts[q].parent \in P
  BY LevelTree
<1>2. \A g \in Ghosts(ops, c) : g \in K
  BY GhostFacts
<1>3. P \subseteq T /\ T \subseteq K \ F
  BY <1>1, <1>2 DEF InTree
<1>4. \A q \in T : EntryOf(pv, q) = EntryOf(v, q)
  BY <1>3 DEF RunShows
<1>5. /\ pv.table = t /\ PartIds \cap TableIds = {} /\ Nodes = TableIds \cup PartIds
      /\ \A m \in Nodes : pv.children[m] = T \cap Below(pv0, m)
  BY StackAssumption DEF RunShows, Nodes
<1> HIDE DEF v, K, P, T, t
<1>6. \A m \in Nodes : \A q : q \in pv.children[m] <=> q \in T /\ v.parts[q].parent = m
  BY <1>1, <1>3, <1>5 DEF Below
<1>7. Visible(pv) = pv.children[t] \cup UNION { pv.children[q] : q \in pv.children[t] }
  BY <1>5 DEF Visible
<1>8. ASSUME NEW p \in Visible(pv) PROVE p \in T /\ Root(v, p) = t
  <2>1. CASE p \in pv.children[t]
    BY <1>1, <1>5, <1>6, <2>1 DEF Root
  <2>2. CASE \E q \in pv.children[t] : p \in pv.children[q]
    BY <1>1, <1>3, <1>5, <1>6, <2>2 DEF Root
  <2> QED
    BY <1>7, <2>1, <2>2
<1>9. ASSUME NEW p \in P, Root(v, p) = t PROVE p \in Visible(pv)
  <2>1. CASE v.parts[p].parent \in TableIds
    BY <1>1, <1>3, <1>5, <1>6, <1>7, <1>9, <2>1 DEF Root
  <2>2. CASE v.parts[p].parent \notin TableIds
    <3>1. v.parts[p].parent \in P /\ v.parts[v.parts[p].parent].parent = t
      BY <1>1, <1>9, <2>2 DEF Root
    <3>2. v.parts[p].parent \in pv.children[t] /\ p \in pv.children[v.parts[p].parent]
      BY <1>1, <1>3, <1>5, <1>6, <3>1
    <3> QED
      BY <1>7, <3>2
  <2> QED
    BY <2>1, <2>2
<1>10. Visible(pv) \subseteq InTable(v, T) /\ InTable(v, P) \subseteq Visible(pv)
  BY <1>8, <1>9 DEF InTable, t
<1> QED
  BY <1>4, <1>10 DEF SeenAs, T, P, v

\* The entries of the level are shown, and no others when there are no ghosts.
EntriesShown(sc, ops, l, c, F, pv) ==
    /\ Entries(l[c], Present(sc, ops, c)) \subseteq Shown(pv)
    /\ InTree(sc, ops, c) \ F = Present(sc, ops, c) => Shown(pv) = Entries(l[c], Present(sc, ops, c))

\* A preview of the level shows them.
LEMMA RunEntries ==
    ASSUME NEW sc \in Devices, NEW ops, NEW pv0, NEW l, Owned(sc, ops, pv0), Layered(sc, ops, pv0, l),
           NEW c \in 0 .. Len(ops), NEW F, F \cap Present(sc, ops, c) = {}, NEW pv, RunShows(sc, ops, pv0, l, c, F, pv)
    PROVE  EntriesShown(sc, ops, l, c, F, pv)
<1> DEFINE v == l[c]
           P == Present(sc, ops, c)
           T == InTree(sc, ops, c) \ F
<1>1. /\ Visible(pv) \subseteq InTable(v, T) /\ InTable(v, P) \subseteq Visible(pv)
      /\ \A p \in T : EntryOf(pv, p) = EntryOf(v, p)
  <2>1. SeenAs(sc, ops, l, c, F, pv)
    BY RunVisible
  <2> QED
    BY <2>1 DEF SeenAs
<1>2. P \subseteq T
  BY DEF InTree
<1> HIDE DEF v, P, T
<1>3. Entries(v, P) \subseteq Shown(pv)
  BY <1>1, <1>2 DEF Entries, InTable, Shown
<1>4. ASSUME T = P PROVE Shown(pv) = Entries(v, P)
  <2>1. Visible(pv) = InTable(v, P)
    BY <1>1, <1>4
  <2> QED
    BY <1>1, <1>4, <2>1 DEF Entries, InTable, Shown
<1> QED
  BY <1>3, <1>4 DEF EntriesShown, v, P, T

\* Two partitions of one table are apart, or one lies in the other.
LEMMA Apart ==
    ASSUME NEW sc \in Devices, NEW ops, NEW pv0, NEW l, Owned(sc, ops, pv0), Layered(sc, ops, pv0, l),
           NEW k \in 0 .. Len(ops), NEW p \in InTable(l[k], Present(sc, ops, k)),
           NEW q \in InTable(l[k], Present(sc, ops, k)), p # q
    PROVE  \/ Extent(l[k], p) \cap Extent(l[k], q) = {}
           \/ l[k].parts[p].parent = q /\ l[k].parts[p].role = "logical" /\ l[k].parts[q].role = "extended"
           \/ l[k].parts[q].parent = p /\ l[k].parts[q].role = "logical" /\ l[k].parts[p].role = "extended"
<1> DEFINE v == l[k]
           P == Present(sc, ops, k)
           up(x) == v.parts[x].parent
<1>1. /\ P \subseteq PartIds /\ v.table \in TableIds /\ PartIds \cap TableIds = {}
      /\ \A x \in P : v.parts[x].role = "logical" <=> up(x) \notin TableIds
      /\ \A x \in P : up(x) \notin TableIds =>
                          up(x) \in P /\ v.parts[up(x)].role = "extended" /\ up(up(x)) \in TableIds
      /\ Sound(v, P)
  BY LevelTree, StackAssumption
<1>2. p \in P /\ q \in P /\ Root(v, p) = v.table /\ Root(v, q) = v.table
  BY DEF InTable
<1> HIDE DEF v, P
<1>3. \A x \in P, y \in P : x # y /\ up(x) = up(y) => Extent(v, x) \cap Extent(v, y) = {}
  BY <1>1 DEF Sound
<1>4. \A x \in P : up(x) \notin TableIds => Extent(v, x) \subseteq Extent(v, up(x)) /\ up(up(x)) = Root(v, x)
  BY <1>1 DEF Sound, Bounds, Extent, Root
<1>5. \A x \in P : up(x) \in TableIds => up(x) = Root(v, x)
  BY DEF Root
<1>6. ASSUME NEW x \in P, NEW y \in P, x # y, Root(v, x) = v.table, Root(v, y) = v.table, up(x) \in TableIds
      PROVE  Extent(v, x) \cap Extent(v, y) = {}
             \/ (up(y) = x /\ v.parts[y].role = "logical" /\ v.parts[x].role = "extended")
  <2>1. CASE up(y) \in TableIds
    BY <1>3, <1>5, <1>6, <2>1
  <2>2. CASE up(y) \notin TableIds
    <3>1. up(y) \in P /\ up(up(y)) = v.table /\ up(x) = v.table
      BY <1>1, <1>4, <1>5, <1>6, <2>2
    <3>2. CASE up(y) = x
      BY <1>1, <2>2, <3>2
    <3>3. CASE up(y) # x
      <4>1. Extent(v, x) \cap Extent(v, up(y)) = {}
        BY <1>3, <3>1, <3>3
      <4> QED
        BY <1>4, <2>2, <4>1
    <3> QED
      BY <3>2, <3>3
  <2> QED
    BY <2>1, <2>2
<1>7. CASE up(p) \in TableIds
  BY <1>2, <1>6, <1>7 DEF v
<1>8. CASE up(q) \in TableIds
  <2>1. \/ Extent(v, q) \cap Extent(v, p) = {}
        \/ up(p) = q /\ v.parts[p].role = "logical" /\ v.parts[q].role = "extended"
    BY <1>2, <1>6, <1>8
  <2> QED
    BY <2>1 DEF v
<1>9. CASE up(p) \notin TableIds /\ up(q) \notin TableIds
  <2>1. CASE up(p) = up(q)
    BY <1>2, <1>3, <2>1 DEF v
  <2>2. CASE up(p) # up(q)
    <3>1. up(p) \in P /\ up(q) \in P /\ up(up(p)) = up(up(q))
      BY <1>1, <1>2, <1>4, <1>9
    <3>2. Extent(v, up(p)) \cap Extent(v, up(q)) = {}
      BY <1>3, <2>2, <3>1
    <3>3. Extent(v, p) \cap Extent(v, q) = {}
      BY <1>2, <1>4, <1>9, <3>2
    <3> QED
      BY <3>3 DEF v
  <2> QED
    BY <2>1, <2>2
<1> QED
  BY <1>7, <1>8, <1>9

\* No two of them have the same entry.
LEMMA EntryUnique ==
    ASSUME NEW sc \in Devices, NEW ops, NEW pv0, NEW l, Owned(sc, ops, pv0), Layered(sc, ops, pv0, l),
           NEW k \in 0 .. Len(ops), NEW p \in InTable(l[k], Present(sc, ops, k)),
           NEW q \in InTable(l[k], Present(sc, ops, k)), p # q
    PROVE  EntryOf(l[k], p) # EntryOf(l[k], q)
<1> DEFINE v == l[k]
           P == Present(sc, ops, k)
<1>1. /\ P \subseteq Known(sc, ops) /\ Sound(v, P) /\ \A x \in Known(sc, ops) : v.parts[x] \in Partition
  BY LevelTree
<1>2. p \in P /\ q \in P
  BY DEF InTable
<1>3. \/ Extent(v, p) \cap Extent(v, q) = {}
      \/ v.parts[p].role # v.parts[q].role
  <2>1. \/ Extent(l[k], p) \cap Extent(l[k], q) = {}
        \/ l[k].parts[p].parent = q /\ l[k].parts[p].role = "logical" /\ l[k].parts[q].role = "extended"
        \/ l[k].parts[q].parent = p /\ l[k].parts[q].role = "logical" /\ l[k].parts[p].role = "extended"
    BY Apart
  <2> QED
    BY <2>1
<1> HIDE DEF v, P
<1>4. v.parts[p].first \in Int /\ v.parts[p].last \in Int /\ v.parts[p].first <= v.parts[p].last
  BY <1>1, <1>2 DEF Sound, Partition, Sectors
<1>5. v.parts[p].first \in Extent(v, p)
  BY <1>4 DEF Extent
<1>6. EntryOf(v, p) # EntryOf(v, q)
  <2> SUFFICES ASSUME EntryOf(v, p) = EntryOf(v, q) PROVE FALSE
    OBVIOUS
  <2>1. v.parts[p].first = v.parts[q].first /\ v.parts[p].last = v.parts[q].last /\ v.parts[p].role = v.parts[q].role
    BY DEF EntryOf
  <2>2. Extent(v, p) = Extent(v, q)
    BY <2>1 DEF Extent
  <2> QED
    BY <1>3, <1>5, <2>1, <2>2
<1> QED
  BY <1>6 DEF v

--------------------------------------------------------------------------------
(* One operation of the stack: from a level to the one above it.           *)

\* The partitions that an operation takes out of the tree when it is previewed again.
Takes(op) == IF op.kind = "Restore" THEN {} ELSE Removes(op)

\* The tree above an operation, from the one below it, without and with the ghosts.
LEMMA TreeAbove ==
    ASSUME NEW sc \in Devices, NEW ops, NEW pv0, Owned(sc, ops, pv0), NEW i \in 1 .. Len(ops)
    PROVE  /\ Present(sc, ops, i) = (Present(sc, ops, i - 1) \ Removes(ops[i])) \cup Creates(ops[i])
           /\ InTree(sc, ops, i) = (InTree(sc, ops, i - 1) \ Takes(ops[i])) \cup Creates(ops[i])
           /\ Removes(ops[i]) \subseteq Present(sc, ops, i - 1)
           /\ Creates(ops[i]) \cap Present(sc, ops, i - 1) = {}
<1> DEFINE K == Known(sc, ops)
           op == ops[i]
           R == Removes(op)
           C == Creates(op)
           A == Present(sc, ops, i - 1)
           B == Present(sc, ops, i)
           G == Ghosts(ops, i - 1)
           H == Ghosts(ops, i)
<1>1. Typed(sc, ops, pv0) /\ Fresh(sc, ops, pv0) /\ Gone(sc, ops, pv0)
  BY DEF Owned
<1>2. /\ Len(ops) \in Nat /\ DOMAIN ops = 1 .. Len(ops)
      /\ \A j \in 1 .. Len(ops) : /\ IsOp(ops[j]) /\ Uses(ops[j]) \subseteq K
                                  /\ Creates(ops[j]) \subseteq Uses(ops[j]) /\ Removes(ops[j]) \subseteq Uses(ops[j])
  BY <1>1, GoodTypes
<1>3. \A p \in C : p \notin R /\ \A j \in 1 .. i - 1 : p \notin Uses(ops[j])
  BY <1>1, <1>2 DEF Fresh
<1>4. R \subseteq A /\ C \cap A = {}
  BY <1>2, <1>3, OperandsPresent
<1>5. A = (B \ C) \cup R
  BY PresentBelow
<1>6. R \cap B = {}
  <2>1. i \in 1 .. i
    BY <1>2
  <2> QED
    BY <2>1 DEF Present
<1>7. C \subseteq B
  <2> SUFFICES ASSUME NEW p \in C PROVE p \in B
    OBVIOUS
  <2>1. p \in K /\ i \in 1 .. i
    BY <1>2
  <2>2. ASSUME NEW j \in 1 .. i PROVE p \notin Removes(ops[j])
    <3>1. CASE j = i
      BY <1>3, <3>1
    <3>2. CASE j # i
      <4>1. j \in 1 .. i - 1 /\ j \in 1 .. Len(ops)
        BY <1>2, <3>2
      <4> QED
        BY <1>2, <1>3, <4>1
    <3> QED
      BY <3>1, <3>2
  <2> HIDE DEF K
  <2> QED
    BY <2>1, <2>2 DEF Present, K
<1>8. B = (A \ R) \cup C
  <2> HIDE DEF A, B, C, R
  <2> QED
    BY <1>4, <1>5, <1>6, <1>7
<1>9. H = G \cup (IF op.kind = "Restore" THEN R ELSE {})
  <2>1. \A j \in 1 .. i : j \in 1 .. i - 1 \/ j = i
    BY <1>2
  <2>2. \A j \in 1 .. i - 1 : j \in 1 .. i
    BY <1>2
  <2>3. i \in 1 .. i
    BY <1>2
  <2>4. op.kind = "Restore" => R = { q \in PartIds : op.over = q }
    BY <1>2, StackAssumption DEF IsOp, Removes, Replacing
  <2> HIDE DEF R
  <2> QED
    BY <2>1, <2>2, <2>3, <2>4 DEF Ghosts
<1>10. R \cap G = {}
  <2> SUFFICES ASSUME NEW g \in G, g \in R PROVE FALSE
    OBVIOUS
  <2>1. PICK j \in 1 .. i - 1 : ops[j].kind = "Restore" /\ ops[j].over = g
    BY DEF Ghosts
  <2>2. j \in 1 .. Len(ops) /\ i \in j + 1 .. Len(ops) /\ g # None
    BY <1>2, StackAssumption DEF Ghosts
  <2>3. g \in Removes(ops[j])
    BY <2>1, <2>2 DEF Removes, Replacing
  <2> QED
    BY <1>1, <1>2, <2>2, <2>3 DEF Gone
<1>11. B \cup H = ((A \cup G) \ Takes(op)) \cup C
  <2>1. Takes(op) = IF op.kind = "Restore" THEN {} ELSE R
    BY DEF Takes
  <2> HIDE DEF A, B, C, R, G, H
  <2> QED
    BY <1>4, <1>8, <1>9, <1>10, <2>1
<1> QED
  BY <1>4, <1>8, <1>11 DEF InTree

\* The levels a and b below and above an operation, of which K are the known partitions.
Passes(K, op, a, b) ==
    /\ b.table = IF op.kind = "Table" THEN op.new ELSE a.table
    /\ \A q \in K : /\ EntryOf(b, q) = IF op.kind = "Resize" /\ op.part = q
                                       THEN [EntryOf(a, q) EXCEPT !.first = op.newFirst, !.last = op.newLast]
                                       ELSE EntryOf(a, q)
                    /\ b.parts[q].parent = a.parts[q].parent /\ Root(b, q) = Root(a, q)
    /\ op.kind # "Table" => \A p \in Uses(op) : Root(a, p) = a.table
    /\ Replacing(op) => EntryOf(a, op.part) = EntryOf(a, op.over)

\* What an operation leaves of the entries of a level.
LEMMA LevelStep ==
    ASSUME NEW sc \in Devices, NEW ops, NEW pv0, NEW l, Owned(sc, ops, pv0), Layered(sc, ops, pv0, l), NEW i \in 1 .. Len(ops)
    PROVE  Passes(Known(sc, ops), ops[i], l[i - 1], l[i])
<1> DEFINE op == ops[i]
           a == l[i - 1]
           b == l[i]
           K == Known(sc, ops)
<1>1. Typed(sc, ops, pv0) /\ Placed(sc, ops, pv0) /\ Fresh(sc, ops, pv0)
  BY DEF Owned
<1>2. /\ Len(ops) \in Nat /\ DOMAIN ops = 1 .. Len(ops) /\ K \subseteq PartIds
      /\ IsOp(op) /\ Uses(op) \subseteq K
  BY <1>1, GoodTypes
<1>3. i - 1 \in 0 .. Len(ops) /\ i \in 0 .. Len(ops)
  BY <1>2
<1>4. Leads(K, op, a, b)
  BY <1>2 DEF Layered
<1>5. \A q \in K : /\ a.parts[q] \in Partition /\ b.parts[q] \in Partition
                   /\ a.parts[q].role = pv0.parts[q].role
                   /\ a.parts[q].parent = pv0.parts[q].parent /\ b.parts[q].parent = pv0.parts[q].parent
                   /\ a.parts[q].parent \notin TableIds => a.parts[q].parent \in K
  BY <1>3, LevelTree
<1>6. \A q \in K : b.parts[q].parent = a.parts[q].parent /\ Root(b, q) = Root(a, q)
  BY <1>5 DEF Root
<1>7. /\ b.table = IF op.kind = "Table" THEN op.new ELSE a.table
      /\ op.kind # "Table" => \A p \in Uses(op) : Root(a, p) = a.table
  BY <1>4 DEF Leads
<1>8. ASSUME NEW q \in K
      PROVE  EntryOf(b, q) = IF op.kind = "Resize" /\ op.part = q
                             THEN [EntryOf(a, q) EXCEPT !.first = op.newFirst, !.last = op.newLast]
                             ELSE EntryOf(a, q)
  <2>1. Alters(op, q, a.parts[q], b.parts[q]) /\ a.parts[q] \in Partition
    BY <1>4, <1>5 DEF Leads
  <2> HIDE DEF a, b, op, K
  <2> QED
    BY <2>1 DEF Alters, EntryOf, Partition
<1>9. ASSUME Replacing(op) PROVE EntryOf(a, op.part) = EntryOf(a, op.over)
  <2>1. op.part \in K /\ op.over \in K /\ Creates(op) = {op.part} /\ Removes(op) = {op.over} /\ op.over \in Uses(op)
    BY <1>2, <1>9, OperandFacts
  <2>2. Extent(a, op.part) = Extent(a, op.over)
    BY <1>4, <1>9 DEF Leads
  <2>3. a.parts[op.part].role = a.parts[op.over].role
    BY <1>1, <1>2, <1>5, <1>9, <2>1 DEF Placed
  <2>4. op.over \in Present(sc, ops, i - 1)
    BY <2>1, TreeAbove
  <2>5. a.parts[op.over].first <= a.parts[op.over].last
    BY <1>3, <2>4 DEF Layered, Sound
  <2>6. a.parts[op.part] \in Partition /\ a.parts[op.over] \in Partition
    BY <1>5, <2>1
  <2> HIDE DEF a, op
  <2>7. a.parts[op.part].first = a.parts[op.over].first /\ a.parts[op.part].last = a.parts[op.over].last
    <3>1. /\ a.parts[op.part].first \in Int /\ a.parts[op.part].last \in Int
          /\ a.parts[op.over].first \in Int /\ a.parts[op.over].last \in Int
      BY <2>6 DEF Partition, Sectors
    <3> QED
      BY <2>2, <2>5, <3>1, SameEnds DEF Extent
  <2> QED
    BY <2>3, <2>7 DEF EntryOf
<1> HIDE DEF a, b, op, K
<1>10. Passes(K, op, a, b)
  BY <1>6, <1>7, <1>8, <1>9 DEF Passes
<1> QED
  BY <1>10 DEF a, b, op, K

\* The partitions of the table above an operation.
LEMMA TableAbove ==
    ASSUME NEW sc \in Devices, NEW ops, NEW pv0, NEW l, Owned(sc, ops, pv0), Layered(sc, ops, pv0, l), NEW i \in 1 .. Len(ops)
    PROVE  /\ ops[i].kind = "Table" => InTable(l[i], Present(sc, ops, i)) = {}
           /\ ops[i].kind # "Table" =>
                 InTable(l[i], Present(sc, ops, i)) =
                    (InTable(l[i - 1], Present(sc, ops, i - 1)) \ Removes(ops[i])) \cup Creates(ops[i])
<1> DEFINE op == ops[i]
           a == l[i - 1]
           b == l[i]
           K == Known(sc, ops)
           A == Present(sc, ops, i - 1)
           B == Present(sc, ops, i)
<1>1. Typed(sc, ops, pv0) /\ Fresh(sc, ops, pv0)
  BY DEF Owned
<1>2. /\ Len(ops) \in Nat /\ DOMAIN ops = 1 .. Len(ops) /\ K \subseteq PartIds /\ A \subseteq K /\ B \subseteq K
      /\ IsOp(op) /\ Uses(op) \subseteq K /\ Creates(op) \subseteq Uses(op)
      /\ \A j \in 1 .. Len(ops) : Creates(ops[j]) \subseteq Uses(ops[j])
  BY <1>1, GoodTypes
<1>3. B = (A \ Removes(op)) \cup Creates(op)
  BY TreeAbove
<1>4. /\ b.table = IF op.kind = "Table" THEN op.new ELSE a.table
      /\ \A q \in K : Root(b, q) = Root(a, q)
      /\ op.kind # "Table" => \A p \in Uses(op) : Root(a, p) = a.table
  <2>1. Passes(K, op, a, b)
    BY LevelStep
  <2> HIDE DEF K, op, a, b
  <2> QED
    BY <2>1 DEF Passes
<1>5. CASE op.kind = "Table"
  <2> SUFFICES ASSUME NEW q \in B, Root(b, q) = b.table PROVE FALSE
    BY <1>5 DEF InTable
  <2>1. b.table = op.new /\ q \in K
    BY <1>2, <1>4, <1>5
  <2>2. Root(pv0, q) = Root(b, q)
    <3>1. i \in 0 .. Len(ops)
      BY <1>2
    <3>2. \A x \in K : b.parts[x].parent = pv0.parts[x].parent /\ (b.parts[x].parent \notin TableIds => b.parts[x].parent \in K)
      BY <3>1, LevelTree
    <3> QED
      BY <2>1, <3>2 DEF Root
  <2>3. Good(sc, ops, pv0)
    BY DEF Good
  <2>4. PICK j \in i + 1 .. Len(ops) : q \in Creates(ops[j])
    BY <1>5, <2>1, <2>2, <2>3, RootsCreated
  <2>5. j \in 1 .. Len(ops) /\ i <= j - 1 /\ j - 1 \in Nat
    BY <1>2
  <2>6. q \notin sc.live /\ \A m \in 1 .. Len(ops) : m # j => q \notin Creates(ops[m])
    BY <1>1, <1>2, <2>4, <2>5 DEF Fresh
  <2>7. \A m \in 1 .. i : m \in 1 .. Len(ops) /\ m # j
    BY <1>2, <2>5
  <2> HIDE DEF K, A, op, a, b
  <2> QED
    BY <2>6, <2>7 DEF Present
<1>6. CASE op.kind # "Table"
  <2>1. b.table = a.table /\ \A p \in Creates(op) : Root(a, p) = a.table
    BY <1>2, <1>4, <1>6
  <2>2. InTable(b, B) = { q \in B : Root(a, q) = a.table }
    BY <1>2, <1>4, <2>1 DEF InTable
  <2> HIDE DEF K, A, B, a, b, op
  <2>3. InTable(b, B) = (InTable(a, A) \ Removes(op)) \cup Creates(op)
    BY <1>3, <2>1, <2>2 DEF InTable
  <2> QED
    BY <1>6, <2>3 DEF A, B, a, b, op
<1> QED
  BY <1>5, <1>6

\* The entries A and B below and above an operation on a partition with the entry e.
EntriesStep(op, e, A, B) ==
    /\ op.kind = "Table" => B = {}
    /\ op.kind = "Delete" => e \in A /\ B = A \ {e}
    /\ op.kind = "Resize" => e \in A /\ B = (A \ {e}) \cup {[e EXCEPT !.first = op.newFirst, !.last = op.newLast]}
    /\ op.kind \in Creating /\ ~ Replacing(op) =>
          /\ B = A \cup {e}
          /\ \A x \in A : (e.role = "logical" /\ x.role = "extended") \/ (x.first .. x.last) \cap (e.first .. e.last) = {}
    /\ Replacing(op) => e \in A /\ B = A
    /\ op.kind \notin Creating \cup {"Table", "Delete", "Resize"} => B = A

\* A new partition lies apart from those that are there, unless it is put into one of them.
LEMMA CreatedApart ==
    ASSUME NEW sc \in Devices, NEW ops, NEW pv0, NEW l, Owned(sc, ops, pv0), Layered(sc, ops, pv0, l), NEW i \in 1 .. Len(ops),
           ops[i].kind \in Creating, ~ Replacing(ops[i]), NEW q \in InTable(l[i - 1], Present(sc, ops, i - 1))
    PROVE  \/ l[i - 1].parts[ops[i].part].role = "logical" /\ l[i - 1].parts[q].role = "extended"
           \/ Extent(l[i - 1], q) \cap Extent(l[i - 1], ops[i].part) = {}
<1> DEFINE op == ops[i]
           p == op.part
           a == l[i - 1]
           b == l[i]
           K == Known(sc, ops)
<1>1. Typed(sc, ops, pv0) /\ Fresh(sc, ops, pv0) /\ Rooted(sc, ops, pv0) /\ Kept(sc, pv0)
  BY DEF Owned
<1>2. /\ Len(ops) \in Nat /\ DOMAIN ops = 1 .. Len(ops) /\ K \subseteq PartIds /\ PartIds \cap TableIds = {}
      /\ IsOp(op) /\ Uses(op) \subseteq K
      /\ Present(sc, ops, i - 1) \subseteq K
  BY <1>1, GoodTypes
<1>3. i - 1 \in 0 .. Len(ops) /\ i \in 0 .. Len(ops)
  BY <1>2
<1>4. Creates(op) = {p} /\ Removes(op) = {} /\ op.kind # "Table" /\ op.kind # "Resize"
  BY DEF Creates, Removes, Creating
<1>5. p \in K /\ q \in K /\ q \in Present(sc, ops, i - 1) /\ p \notin Present(sc, ops, i - 1)
  BY <1>2, <1>4, TreeAbove, OperandFacts DEF InTable
<1>6. p \in InTable(b, Present(sc, ops, i)) /\ q \in InTable(b, Present(sc, ops, i))
  <2>1. InTable(b, Present(sc, ops, i)) = (InTable(a, Present(sc, ops, i - 1)) \ Removes(op)) \cup Creates(op)
    BY <1>4, TableAbove
  <2> QED
    BY <1>4, <2>1
<1>7. \/ Extent(b, p) \cap Extent(b, q) = {}
      \/ b.parts[p].parent = q /\ b.parts[p].role = "logical" /\ b.parts[q].role = "extended"
      \/ b.parts[q].parent = p /\ b.parts[q].role = "logical" /\ b.parts[p].role = "extended"
  <2>1. p # q
    BY <1>5
  <2> HIDE DEF p, b
  <2>2. \/ Extent(l[i], p) \cap Extent(l[i], q) = {}
        \/ l[i].parts[p].parent = q /\ l[i].parts[p].role = "logical" /\ l[i].parts[q].role = "extended"
        \/ l[i].parts[q].parent = p /\ l[i].parts[q].role = "logical" /\ l[i].parts[p].role = "extended"
    BY <1>3, <1>6, <2>1, Apart DEF b
  <2> QED
    BY <2>2 DEF b
<1>8. EntryOf(b, p) = EntryOf(a, p) /\ EntryOf(b, q) = EntryOf(a, q)
  <2>1. Passes(K, op, a, b)
    BY LevelStep
  <2> HIDE DEF K, op, a, b, p
  <2> QED
    BY <1>4, <1>5, <2>1 DEF Passes
<1>9. b.parts[q].parent # p
  <2>1. b.parts[q].parent = pv0.parts[q].parent
    BY <1>3, <1>5, LevelTree
  <2>2. SUFFICES ASSUME pv0.parts[q].parent = p PROVE FALSE
    BY <2>1
  <2>3. p \notin sc.live
    BY <1>1, <1>2, <1>4 DEF Fresh
  <2>4. CASE q \in sc.live
    BY <1>1, <1>2, <1>5, <2>2, <2>3, <2>4, ScanFacts DEF Kept
  <2>5. CASE q \notin sc.live
    <3>1. PICK j \in 1 .. i - 1 : q \in Creates(ops[j])
      BY <1>5, <2>5 DEF Present
    <3>2. j \in 1 .. Len(ops) /\ i \in j .. Len(ops)
      BY <1>2
    <3> QED
      BY <1>1, <1>2, <1>4, <1>5, <2>2, <3>1, <3>2 DEF Rooted
  <2> QED
    BY <2>4, <2>5
<1>10. /\ Extent(b, p) = Extent(a, p) /\ Extent(b, q) = Extent(a, q)
       /\ b.parts[p].role = a.parts[p].role /\ b.parts[q].role = a.parts[q].role
  <2> HIDE DEF a, b, p
  <2> QED
    BY <1>8 DEF EntryOf, Extent
<1> HIDE DEF a, b, p
<1>11. \/ a.parts[p].role = "logical" /\ a.parts[q].role = "extended"
       \/ Extent(a, q) \cap Extent(a, p) = {}
  BY <1>7, <1>9, <1>10
<1> QED
  BY <1>11 DEF a, p, op

\* What each operation makes of the entries.
LEMMA EntriesAbove ==
    ASSUME NEW sc \in Devices, NEW ops, NEW pv0, NEW l, Owned(sc, ops, pv0), Layered(sc, ops, pv0, l), NEW i \in 1 .. Len(ops)
    PROVE  EntriesStep(ops[i], EntryOf(l[i - 1], ops[i].part),
                       Entries(l[i - 1], Present(sc, ops, i - 1)), Entries(l[i], Present(sc, ops, i)))
<1> DEFINE op == ops[i]
           p == op.part
           a == l[i - 1]
           b == l[i]
           K == Known(sc, ops)
           R == Removes(op)
           C == Creates(op)
           S == InTable(a, Present(sc, ops, i - 1))
           T == InTable(b, Present(sc, ops, i))
           A == { EntryOf(a, q) : q \in S }
           B == { EntryOf(b, q) : q \in T }
           e == EntryOf(a, p)
<1>1. Typed(sc, ops, pv0)
  BY DEF Owned
<1>2. /\ Len(ops) \in Nat /\ i - 1 \in 0 .. Len(ops) /\ IsOp(op) /\ Uses(op) \subseteq K
      /\ Present(sc, ops, i - 1) \subseteq K
  BY <1>1, GoodTypes
<1>3. /\ op.kind \in Kinds /\ (op.kind # "Table" => p \in Uses(op))
      /\ Replacing(op) => op.over \in Uses(op) /\ R = {op.over} /\ C = {p}
  BY <1>2, OperandFacts DEF IsOp
<1>4. /\ op.kind = "Delete" => R = {p} /\ C = {}
      /\ op.kind \in Creating /\ ~ Replacing(op) => R = {} /\ C = {p}
      /\ op.kind \notin Creating \cup {"Delete"} => R = {} /\ C = {}
      /\ Replacing(op) => op.kind \in Creating
  BY DEF Removes, Creates, Creating, Replacing
<1>5. Passes(K, op, a, b)
  BY LevelStep
<1>6. (op.kind = "Table" => T = {}) /\ (op.kind # "Table" => T = (S \ R) \cup C)
  BY TableAbove
<1>7. op.kind # "Table" => \A q \in Uses(op) \ C : q \in S
  <2> SUFFICES ASSUME op.kind # "Table", NEW q \in Uses(op) \ C PROVE q \in S
    OBVIOUS
  <2>1. q \in Present(sc, ops, i - 1)
    BY OperandsPresent
  <2>2. Root(a, q) = a.table
    BY <1>5 DEF Passes
  <2> QED
    BY <2>1, <2>2 DEF InTable
<1>8. \A x \in S, y \in S : x # y => EntryOf(a, x) # EntryOf(a, y)
  <2> SUFFICES ASSUME NEW x \in S, NEW y \in S, x # y PROVE EntryOf(a, x) # EntryOf(a, y)
    OBVIOUS
  <2> QED
    BY <1>2, EntryUnique
<1>9. S \subseteq K
  BY <1>2 DEF InTable
<1>10. \A q \in K : op.kind # "Resize" => EntryOf(b, q) = EntryOf(a, q)
  BY <1>5 DEF Passes
<1>11. ASSUME op.kind \in Creating, ~ Replacing(op), NEW x \in A
       PROVE  (e.role = "logical" /\ x.role = "extended") \/ (x.first .. x.last) \cap (e.first .. e.last) = {}
  <2>1. PICK q \in S : x = EntryOf(a, q)
    OBVIOUS
  <2>2. \/ a.parts[p].role = "logical" /\ a.parts[q].role = "extended"
        \/ Extent(a, q) \cap Extent(a, p) = {}
    BY <1>11, CreatedApart
  <2> HIDE DEF a, p, S
  <2> QED
    BY <2>1, <2>2 DEF EntryOf, Extent
<1> HIDE DEF K, S, T, R, C, a, b, p, op
<1>12. op.kind # "Resize" /\ op.kind # "Table" => B = { EntryOf(a, q) : q \in (S \ R) \cup C }
  <2>1. ASSUME op.kind # "Table" PROVE C \subseteq K
    BY <1>2, <1>3, <1>4, <2>1 DEF Kinds
  <2> QED
    BY <1>6, <1>9, <1>10, <2>1
<1>13. CASE op.kind = "Table"
  <2>1. B = {}
    BY <1>6, <1>13
  <2> QED
    BY <1>4, <1>13, <2>1 DEF EntriesStep, Entries, S, T, a, b, p, op, Creating
<1>14. CASE op.kind = "Delete"
  <2>1. p \in S /\ R = {p} /\ C = {}
    BY <1>3, <1>4, <1>7, <1>14
  <2>2. B = { EntryOf(a, q) : q \in S \ {p} }
    BY <1>12, <1>14, <2>1
  <2>3. e \in A /\ B = A \ {e}
    BY <1>8, <2>1, <2>2
  <2> HIDE DEF A, B, e
  <2>4. EntriesStep(op, e, A, B)
    BY <1>4, <1>14, <2>3 DEF EntriesStep, Creating
  <2> QED
    BY <2>4 DEF A, B, e, Entries, S, T, a, b, p, op
<1>15. CASE op.kind = "Resize"
  <2> DEFINE f == [e EXCEPT !.first = op.newFirst, !.last = op.newLast]
  <2>1. p \in S /\ T = S
    BY <1>3, <1>4, <1>6, <1>7, <1>15 DEF Creating
  <2>2. EntryOf(b, p) = f /\ \A q \in K : q # p => EntryOf(b, q) = EntryOf(a, q)
    BY <1>5, <1>9, <1>15, <2>1 DEF Passes, p
  <2> HIDE DEF f
  <2>3. e \in A /\ B = (A \ {e}) \cup {f}
    BY <1>8, <1>9, <2>1, <2>2
  <2> HIDE DEF A, B, e
  <2>4. EntriesStep(op, e, A, B)
    BY <1>4, <1>15, <2>3 DEF EntriesStep, Creating, f
  <2> QED
    BY <2>4 DEF A, B, e, Entries, S, T, a, b, p, op
<1>16. CASE op.kind \in Creating /\ ~ Replacing(op)
  <2>1. op.kind # "Resize" /\ op.kind # "Table" /\ op.kind # "Delete"
    BY <1>16 DEF Creating
  <2>2. B = { EntryOf(a, q) : q \in S \cup {p} }
    BY <1>4, <1>12, <1>16, <2>1
  <2>3. B = A \cup {e}
    BY <2>2
  <2>4. \A x \in A : (e.role = "logical" /\ x.role = "extended") \/ (x.first .. x.last) \cap (e.first .. e.last) = {}
    BY <1>11, <1>16
  <2> HIDE DEF A, B, e
  <2>5. EntriesStep(op, e, A, B)
    BY <1>16, <2>1, <2>3, <2>4 DEF EntriesStep
  <2> QED
    BY <2>5 DEF A, B, e, Entries, S, T, a, b, p, op
<1>17. CASE Replacing(op)
  <2> DEFINE o == op.over
  <2>1. op.kind \in Creating /\ op.kind # "Resize" /\ op.kind # "Table" /\ op.kind # "Delete"
    BY <1>4, <1>17 DEF Creating
  <2>2. R = {o} /\ C = {p} /\ o \in Uses(op)
    BY <1>3, <1>17
  <2>3. EntryOf(a, p) = EntryOf(a, o)
    BY <1>5, <1>17 DEF Passes, p
  <2>4. o \in S
    <3>1. o \in R /\ R \subseteq Present(sc, ops, i - 1) /\ C \cap Present(sc, ops, i - 1) = {}
      BY <2>2, TreeAbove DEF R, C, op
    <3> QED
      BY <1>7, <2>1, <2>2, <3>1
  <2>5. B = { EntryOf(a, q) : q \in (S \ {o}) \cup {p} }
    BY <1>12, <2>1, <2>2
  <2> HIDE DEF o
  <2>6. e \in A /\ B = A
    BY <2>3, <2>4, <2>5
  <2> HIDE DEF A, B, e
  <2>7. EntriesStep(op, e, A, B)
    BY <1>17, <2>1, <2>6 DEF EntriesStep
  <2> QED
    BY <2>7 DEF A, B, e, Entries, S, T, a, b, p, op
<1>18. CASE op.kind \notin Creating \cup {"Table", "Delete", "Resize"}
  <2>1. R = {} /\ C = {} /\ ~ Replacing(op)
    BY <1>4, <1>18
  <2>2. B = A
    BY <1>12, <1>18, <2>1
  <2> HIDE DEF A, B, e
  <2>3. EntriesStep(op, e, A, B)
    BY <1>18, <2>1, <2>2 DEF EntriesStep
  <2> QED
    BY <2>3 DEF A, B, e, Entries, S, T, a, b, p, op
<1> QED
  BY <1>13, <1>14, <1>15, <1>16, <1>17, <1>18

--------------------------------------------------------------------------------
(* One operation executed: what its preview makes of what is shown.        *)

\* What preview() makes of any preview.
Previewed(op, pv, w) ==
    /\ w \in Previews
    /\ w.table = IF op.kind = "Table" THEN op.new ELSE pv.table
    /\ \A q \in PartIds : /\ EntryOf(w, q) = IF op.kind = "Resize" /\ op.part = q
                                             THEN [EntryOf(pv, q) EXCEPT !.first = op.newFirst, !.last = op.newLast]
                                             ELSE EntryOf(pv, q)
                          /\ w.parts[q].parent = pv.parts[q].parent
    /\ \A m \in Nodes : w.children[m] = (pv.children[m] \ (Takes(op) \cap Below(pv, m))) \cup (Creates(op) \cap Below(pv, m))

\* Every operation does so.
LEMMA PreviewFacts ==
    ASSUME NEW op, IsOp(op), NEW pv \in Previews
    PROVE  Previewed(op, pv, Preview(op, pv))
<1> DEFINE p == op.part
           w == Preview(op, pv)
<1>1. op.kind \in Kinds /\ (op.kind # "Table" => p \in PartIds)
  BY DEF IsOp
<1>2. op.kind \notin Creating \cup {"Delete"} => Creates(op) = {} /\ Takes(op) = {}
  BY <1>1 DEF Creates, Takes, Removes, Replacing, Creating
<1>3. /\ op.kind = "Delete" => Creates(op) = {} /\ Takes(op) = {p}
      /\ op.kind \in {"New", "Restore"} => Creates(op) = {p} /\ Takes(op) = {}
      /\ op.kind = "Copy" => /\ Creates(op) = {p}
                             /\ op.over = None => Takes(op) = {}
                             /\ op.over # None => Takes(op) = {op.over} /\ op.over \in PartIds
  BY DEF Creates, Takes, Removes, Replacing, Creating, IsOp
<1> HIDE DEF p
<1>4. ASSUME op.kind \in {"New", "Restore"} \/ (op.kind = "Copy" /\ op.over = None) PROVE Previewed(op, pv, w)
  <2>1. w = InsertPreview(pv, p)
    BY <1>4 DEF Preview, p
  <2>2. p \in PartIds /\ Creates(op) = {p} /\ Takes(op) = {}
    BY <1>1, <1>3, <1>4
  <2> HIDE DEF w
  <2>3. /\ w \in Previews /\ w.parts = pv.parts /\ w.table = pv.table
        /\ \A m \in Nodes : w.children[m] = pv.children[m] \cup ({p} \cap Below(pv, m))
    BY <2>1, <2>2, TreeFacts
  <2> QED
    BY <1>4, <2>2, <2>3 DEF Previewed, EntryOf
<1>5. ASSUME op.kind = "Copy", op.over # None PROVE Previewed(op, pv, w)
  <2> DEFINE o == op.over
             u == RemovePreview(pv, o)
  <2>1. w = InsertPreview(u, p)
    BY <1>5 DEF Preview, p
  <2>2. p \in PartIds /\ o \in PartIds /\ Creates(op) = {p} /\ Takes(op) = {o}
    BY <1>1, <1>3, <1>5
  <2> HIDE DEF w, o
  <2>3. /\ u \in Previews /\ u.parts = pv.parts /\ u.table = pv.table
        /\ \A m \in Nodes : u.children[m] = pv.children[m] \ ({o} \cap Below(pv, m))
    BY <2>2, TreeFacts
  <2> HIDE DEF u
  <2>4. /\ w \in Previews /\ w.parts = u.parts /\ w.table = u.table
        /\ \A m \in Nodes : w.children[m] = u.children[m] \cup ({p} \cap Below(u, m))
    <3>1. u \in Previews /\ p \in PartIds
      BY <2>2, <2>3
    <3>2. /\ InsertPreview(u, p) \in Previews /\ InsertPreview(u, p).parts = u.parts /\ InsertPreview(u, p).table = u.table
          /\ \A m \in Nodes : InsertPreview(u, p).children[m] = u.children[m] \cup ({p} \cap Below(u, m))
      BY ONLY <3>1, TreeFacts
    <3> QED
      BY <2>1, <3>2
  <2>5. \A m : Below(u, m) = Below(pv, m)
    BY <2>3 DEF Below
  <2> QED
    BY <1>5, <2>2, <2>3, <2>4, <2>5 DEF Previewed, EntryOf
<1>6. ASSUME op.kind = "Delete" PROVE Previewed(op, pv, w)
  <2>1. w = RemovePreview(pv, p)
    BY <1>6 DEF Preview, p
  <2>2. p \in PartIds /\ Creates(op) = {} /\ Takes(op) = {p}
    BY <1>1, <1>3, <1>6
  <2> HIDE DEF w
  <2>3. /\ w \in Previews /\ w.parts = pv.parts /\ w.table = pv.table
        /\ \A m \in Nodes : w.children[m] = pv.children[m] \ ({p} \cap Below(pv, m))
    BY <2>1, <2>2, TreeFacts
  <2> QED
    BY <1>6, <2>2, <2>3 DEF Previewed, EntryOf
<1>7. ASSUME op.kind \in {"Resize", "Flags", "Format"} PROVE Previewed(op, pv, w)
  <2> DEFINE y == pv.parts[p]
             x == IF op.kind = "Resize" THEN [y EXCEPT !.first = op.newFirst, !.last = op.newLast]
                  ELSE IF op.kind = "Flags" THEN [y EXCEPT !.flags = op.new]
                  ELSE [y EXCEPT !.fs = op.new]
  <2>1. p \in PartIds /\ pv.parts \in [PartIds -> Partition] /\ y \in Partition
    BY <1>1, <1>7 DEF Previews
  <2>2. /\ op.kind = "Resize" => op.newFirst \in Sectors /\ op.newLast \in Sectors
        /\ op.kind = "Flags" => op.new \in FlagSets
        /\ op.kind = "Format" => op.new \in FsIds
    BY DEF IsOp
  <2>3. w = WithContent(pv, p, x)
    <3>1. CASE op.kind = "Resize"
      BY <2>1, <3>1 DEF Preview, SetSectors, WithContent, p, Previews, Partition
    <3>2. CASE op.kind = "Flags"
      BY <2>1, <3>2 DEF Preview, WithContent, p, Previews, Partition
    <3>3. CASE op.kind = "Format"
      BY <2>1, <3>3 DEF Preview, WithContent, p, Previews, Partition
    <3> QED
      BY <1>7, <3>1, <3>2, <3>3
  <2> HIDE DEF y
  <2>4. /\ x \in Partition /\ x.parent = y.parent /\ x.role = y.role
        /\ op.kind = "Resize" => x.first = op.newFirst /\ x.last = op.newLast
        /\ op.kind # "Resize" => x.first = y.first /\ x.last = y.last
    BY <1>7, <2>1, <2>2 DEF Partition
  <2> HIDE DEF w, x
  <2>5. /\ w \in Previews /\ w.table = pv.table /\ w.children = pv.children
        /\ w.parts[p] = x /\ \A q \in PartIds \ {p} : w.parts[q] = pv.parts[q]
    <3>1. pv \in Previews /\ p \in PartIds /\ x \in Partition
      BY <2>1, <2>4
    <3> QED
      BY ONLY <2>3, <3>1, ContentChanged
  <2>6. Creates(op) = {} /\ Takes(op) = {} /\ op.kind # "Table"
    BY <1>2, <1>7 DEF Creating
  <2>7. ASSUME NEW q \in PartIds
        PROVE  /\ EntryOf(w, q) = IF op.kind = "Resize" /\ op.part = q
                                  THEN [EntryOf(pv, q) EXCEPT !.first = op.newFirst, !.last = op.newLast]
                                  ELSE EntryOf(pv, q)
               /\ w.parts[q].parent = pv.parts[q].parent
    <3>1. CASE q = p
      BY <2>4, <2>5, <3>1 DEF EntryOf, y, p
    <3>2. CASE q # p
      BY <2>5, <3>2 DEF EntryOf, p
    <3> QED
      BY <3>1, <3>2
  <2> QED
    BY <2>5, <2>6, <2>7 DEF Previewed
<1>8. ASSUME op.kind = "Label" PROVE Previewed(op, pv, w)
  <2>1. w = [pv EXCEPT !.labels[pv.parts[p].fs] = op.new] /\ op.new \in Labels \cup {None}
    BY <1>8 DEF Preview, IsOp, p
  <2> HIDE DEF w
  <2>2. w \in Previews /\ w.parts = pv.parts /\ w.table = pv.table /\ w.children = pv.children
    BY <2>1 DEF Previews
  <2>3. Creates(op) = {} /\ Takes(op) = {}
    BY <1>2, <1>8 DEF Creating
  <2> QED
    BY <1>8, <2>2, <2>3 DEF Previewed, EntryOf
<1>9. ASSUME op.kind = "Table" PROVE Previewed(op, pv, w)
  <2>1. w = [pv EXCEPT !.table = op.new] /\ op.new \in TableIds
    BY <1>9 DEF Preview, IsOp
  <2> HIDE DEF w
  <2>2. w \in Previews /\ w.parts = pv.parts /\ w.table = op.new /\ w.children = pv.children
    BY <2>1 DEF Previews
  <2>3. Creates(op) = {} /\ Takes(op) = {}
    BY <1>2, <1>9 DEF Creating
  <2> QED
    BY <1>9, <2>2, <2>3 DEF Previewed, EntryOf
<1>10. ASSUME op.kind \in {"Check", "Backup"} PROVE Previewed(op, pv, w)
  <2>1. w = pv
    BY <1>10 DEF Preview
  <2> HIDE DEF w
  <2>2. Creates(op) = {} /\ Takes(op) = {}
    BY <1>2, <1>10 DEF Creating
  <2> QED
    BY <1>10, <2>1, <2>2 DEF Previewed, EntryOf
<1> QED
  BY <1>1, <1>4, <1>5, <1>6, <1>7, <1>8, <1>9, <1>10 DEF Kinds, Creating

\* An executed operation gives the partition that it created the state "None", which is not shown.
LEMMA StateOnly ==
    ASSUME NEW sc, NEW ops, Known(sc, ops) \subseteq PartIds, NEW pv0, NEW l, NEW c, NEW F, NEW pv,
           RunShows(sc, ops, pv0, l, c, F, pv), NEW p \in PartIds, NEW w, w = [pv EXCEPT !.parts[p].state = "None"]
    PROVE  RunShows(sc, ops, pv0, l, c, F, w)
<1> DEFINE x == [pv.parts[p] EXCEPT !.state = "None"]
<1>1. pv \in Previews /\ pv.parts \in [PartIds -> Partition] /\ pv.parts[p] \in Partition
  BY DEF RunShows, Previews
<1>2. w = WithContent(pv, p, x)
  BY <1>1 DEF WithContent, Previews, Partition
<1>3. x \in Partition /\ x.parent = pv.parts[p].parent
      /\ x.first = pv.parts[p].first /\ x.last = pv.parts[p].last /\ x.role = pv.parts[p].role
  BY <1>1 DEF Partition, States, EntryOf
<1> HIDE DEF x
<1>4. /\ w \in Previews /\ w.table = pv.table /\ w.children = pv.children
      /\ w.parts[p] = x /\ \A q \in PartIds \ {p} : w.parts[q] = pv.parts[q]
  <2>1. pv \in Previews /\ x \in Partition
    BY <1>1, <1>3
  <2>2. p \in PartIds
    OBVIOUS
  <2> QED
    BY ONLY <1>2, <2>1, <2>2, ContentChanged
<1>5. \A q : q \in PartIds => EntryOf(w, q) = EntryOf(pv, q) /\ w.parts[q].parent = pv.parts[q].parent
  BY <1>3, <1>4 DEF EntryOf
<1> QED
  BY <1>4, <1>5 DEF RunShows

\* An operation that is previewed again leads to the next level.
LEMMA RunStep ==
    ASSUME NEW sc \in Devices, NEW ops, NEW pv0, NEW l, Owned(sc, ops, pv0), Layered(sc, ops, pv0, l), NEW i \in 1 .. Len(ops),
           NEW pv, RunShows(sc, ops, pv0, l, i - 1, {}, pv)
    PROVE  RunShows(sc, ops, pv0, l, i, {}, Preview(ops[i], pv))
<1> DEFINE op == ops[i]
           w == Preview(op, pv)
           a == l[i - 1]
           b == l[i]
           K == Known(sc, ops)
           X == InTree(sc, ops, i - 1)
           Y == InTree(sc, ops, i)
<1>1. Typed(sc, ops, pv0)
  BY DEF Owned
<1>2. /\ Len(ops) \in Nat /\ i - 1 \in 0 .. Len(ops) /\ K \subseteq PartIds
      /\ IsOp(op) /\ Uses(op) \subseteq K /\ Creates(op) \subseteq K /\ Removes(op) \subseteq K
      /\ Present(sc, ops, i - 1) \subseteq K
  <2>1. /\ Len(ops) \in Nat /\ K \subseteq PartIds /\ \A k : Present(sc, ops, k) \subseteq K
        /\ \A j \in 1 .. Len(ops) : /\ IsOp(ops[j]) /\ Uses(ops[j]) \subseteq K
                                    /\ Creates(ops[j]) \subseteq Uses(ops[j]) /\ Removes(ops[j]) \subseteq Uses(ops[j])
    BY <1>1, GoodTypes
  <2> HIDE DEF K
  <2>2. IsOp(op) /\ Uses(op) \subseteq K /\ Creates(op) \subseteq Uses(op) /\ Removes(op) \subseteq Uses(op)
    BY <2>1
  <2> HIDE DEF op
  <2> QED
    BY <2>1, <2>2
<1>3. X \subseteq K /\ Takes(op) \subseteq K
  BY <1>2, GhostFacts DEF InTree, Takes
<1>4. Y = (X \ Takes(op)) \cup Creates(op)
  BY TreeAbove
<1>5. Passes(K, op, a, b)
  BY LevelStep
<1>6. /\ pv \in Previews /\ pv.table = a.table
      /\ \A m \in Nodes : pv.children[m] = X \cap Below(pv0, m)
      /\ \A q \in K : EntryOf(pv, q) = EntryOf(a, q) /\ pv.parts[q].parent = pv0.parts[q].parent
  BY DEF RunShows
<1>7. Previewed(op, pv, w)
  BY <1>2, <1>6, PreviewFacts
<1> HIDE DEF op, w, a, b, K, X, Y
<1>8. /\ w \in Previews /\ w.table = b.table
      /\ \A q \in K : EntryOf(w, q) = EntryOf(b, q) /\ w.parts[q].parent = pv0.parts[q].parent
  <2>1. w \in Previews /\ w.table = b.table
    BY <1>5, <1>6, <1>7 DEF Previewed, Passes
  <2>2. ASSUME NEW q \in K PROVE EntryOf(w, q) = EntryOf(b, q)
    <3>1. EntryOf(w, q) = IF op.kind = "Resize" /\ op.part = q
                          THEN [EntryOf(pv, q) EXCEPT !.first = op.newFirst, !.last = op.newLast]
                          ELSE EntryOf(pv, q)
      BY <1>2, <1>7 DEF Previewed
    <3>2. EntryOf(b, q) = IF op.kind = "Resize" /\ op.part = q
                          THEN [EntryOf(a, q) EXCEPT !.first = op.newFirst, !.last = op.newLast]
                          ELSE EntryOf(a, q)
      BY <1>5 DEF Passes
    <3>3. EntryOf(pv, q) = EntryOf(a, q)
      BY <1>6
    <3> QED
      BY <3>1, <3>2, <3>3
  <2>3. \A q \in K : w.parts[q].parent = pv0.parts[q].parent
    BY <1>2, <1>6, <1>7 DEF Previewed
  <2> QED
    BY <2>1, <2>2, <2>3
<1>9. ASSUME NEW m \in Nodes PROVE w.children[m] = Y \cap Below(pv0, m)
  <2> DEFINE c == Below(pv, m)
             d == Below(pv0, m)
  <2>1. \A q \in K : q \in c <=> q \in d
    BY <1>6 DEF Below
  <2>2. w.children[m] = ((X \cap d) \ (Takes(op) \cap c)) \cup (Creates(op) \cap c)
    BY <1>6, <1>7 DEF Previewed
  <2> HIDE DEF c, d
  <2>3. w.children[m] = ((X \ Takes(op)) \cup Creates(op)) \cap d
    BY <1>2, <1>3, <2>1, <2>2
  <2> QED
    BY <1>4, <2>3 DEF d
<1>10. RunShows(sc, ops, pv0, l, i, {}, w)
  BY <1>8, <1>9 DEF RunShows, Y, K, b
<1> QED
  BY <1>10 DEF w, op

\* The disk is what the level shows, and so is the preview, before an operation is executed.
Ready(pv0, l, i) ==
    /\ scanned \in Devices /\ Owned(scanned, operations, pv0) /\ Layered(scanned, operations, pv0, l)
    /\ i \in 1 .. Len(operations)
    /\ RunShows(scanned, operations, pv0, l, i - 1, {}, preview)
    /\ disk = Entries(l[i - 1], Present(scanned, operations, i - 1))

\* Its jobs find what they need, and have made of the disk what the next level shows.
LEMMA RunSucceeds ==
    ASSUME NEW pv0, NEW l, NEW i, Ready(pv0, l, i)
    PROVE  /\ Feasible(operations[i])
           /\ SuccessDisk(operations[i]) = Entries(l[i], Present(scanned, operations, i))
<1> DEFINE op == operations[i]
           e == EntryOf(preview, op.part)
           A == disk
           B == Entries(l[i], Present(scanned, operations, i))
<1>1. /\ scanned \in Devices /\ Owned(scanned, operations, pv0) /\ Layered(scanned, operations, pv0, l)
      /\ i \in 1 .. Len(operations)
      /\ RunShows(scanned, operations, pv0, l, i - 1, {}, preview)
      /\ disk = Entries(l[i - 1], Present(scanned, operations, i - 1))
  BY DEF Ready
<1>2. IsOp(op) /\ Uses(op) \subseteq Known(scanned, operations)
  <2>1. Typed(scanned, operations, pv0)
    BY <1>1 DEF Owned
  <2> QED
    BY <1>1, <2>1, GoodTypes
<1>3. EntriesStep(op, EntryOf(l[i - 1], op.part), A, B)
  BY <1>1, EntriesAbove
<1>4. op.kind # "Table" => e = EntryOf(l[i - 1], op.part)
  <2> SUFFICES ASSUME op.kind # "Table" PROVE e = EntryOf(l[i - 1], op.part)
    OBVIOUS
  <2>1. op.part \in Known(scanned, operations)
    BY <1>2, OperandFacts
  <2> QED
    BY <1>1, <2>1 DEF RunShows
<1>5. op.kind # "Table" => EntriesStep(op, e, A, B)
  BY <1>3, <1>4
<1>6. /\ Overwrites(op) <=> Replacing(op)
      /\ Replacing(op) => op.kind \in Creating
      /\ e.first .. e.last = Extent(preview, op.part)
      /\ e.role = EntryOf(preview, op.part).role
  BY DEF Overwrites, Replacing, Creating, EntryOf, Extent
<1> HIDE DEF op, B
<1>7. CASE op.kind = "Table"
  <2>1. B = {}
    BY <1>3, <1>7 DEF EntriesStep
  <2>2. ~ Overwrites(op) /\ op.kind \notin Creating /\ op.kind \notin {"Delete", "Resize"}
    BY <1>6, <1>7 DEF Creating
  <2>3. SuccessDisk(op) = {}
    BY <1>7, <2>2 DEF SuccessDisk
  <2>4. Feasible(op)
    BY <2>2 DEF Feasible
  <2> QED
    BY <2>1, <2>3, <2>4 DEF op, B
<1>8. CASE op.kind = "Delete"
  <2>1. e \in A /\ B = A \ {e}
    BY <1>5, <1>8 DEF EntriesStep
  <2>2. SuccessDisk(op) = A \ {e}
    BY <1>8 DEF SuccessDisk, Creating
  <2>3. Feasible(op)
    BY <1>6, <1>8, <2>1 DEF Feasible, Creating
  <2> QED
    BY <2>1, <2>2, <2>3 DEF op, B
<1>9. CASE op.kind = "Resize"
  <2>1. e \in A /\ B = (A \ {e}) \cup {[e EXCEPT !.first = op.newFirst, !.last = op.newLast]}
    BY <1>5, <1>9 DEF EntriesStep
  <2>2. SuccessDisk(op) = (A \ {e}) \cup {[e EXCEPT !.first = op.newFirst, !.last = op.newLast]}
    BY <1>9 DEF SuccessDisk, Replaced, Creating
  <2>3. Feasible(op)
    BY <1>6, <1>9, <2>1 DEF Feasible, Creating
  <2> QED
    BY <2>1, <2>2, <2>3 DEF op, B
<1>10. CASE op.kind \in Creating /\ ~ Replacing(op)
  <2>1. /\ B = A \cup {e}
        /\ \A x \in A : (e.role = "logical" /\ x.role = "extended") \/ (x.first .. x.last) \cap (e.first .. e.last) = {}
    BY <1>5, <1>10 DEF EntriesStep, Creating
  <2>2. op.kind \notin {"Table", "Delete", "Resize"} /\ ~ Overwrites(op)
    BY <1>6, <1>10 DEF Creating
  <2>3. SuccessDisk(op) = A \cup {e}
    BY <1>10, <2>2 DEF SuccessDisk
  <2>4. Feasible(op)
    BY <1>6, <1>10, <2>1, <2>2 DEF Feasible
  <2> QED
    BY <2>1, <2>3, <2>4 DEF op, B
<1>11. CASE Replacing(op)
  <2>1. op.kind \in Creating /\ op.kind \notin {"Table", "Delete", "Resize"} /\ Overwrites(op)
    BY <1>6, <1>11 DEF Creating
  <2>2. e \in A /\ B = A
    BY <1>5, <1>11, <2>1 DEF EntriesStep
  <2>3. SuccessDisk(op) = A
    BY <2>1 DEF SuccessDisk
  <2>4. Feasible(op)
    BY <2>1, <2>2 DEF Feasible
  <2> QED
    BY <2>2, <2>3, <2>4 DEF op, B
<1>12. CASE op.kind \notin Creating \cup {"Table", "Delete", "Resize"}
  <2>1. B = A
    BY <1>5, <1>12 DEF EntriesStep
  <2>2. ~ Overwrites(op)
    BY <1>6, <1>12
  <2>3. SuccessDisk(op) = A
    BY <1>12, <2>2 DEF SuccessDisk
  <2>4. Feasible(op)
    BY <1>12, <2>2 DEF Feasible
  <2> QED
    BY <2>1, <2>3, <2>4 DEF op, B
<1> QED
  BY <1>6, <1>7, <1>8, <1>9, <1>10, <1>11, <1>12

\* ~Partition(): the partition leaves the tree, and so do the children that are left.
LEMMA FreeTree ==
    ASSUME scanned \in Devices, NEW pv \in Previews, NEW p \in PartIds
    PROVE  /\ FreePartition(pv, p) \in Previews /\ FreePartition(pv, p).table = pv.table
           /\ \A n \in Nodes : FreePartition(pv, p).children[n]
                                = IF n = p THEN {} ELSE pv.children[n] \ ({p} \cap Below(pv, n))
           /\ \A q \in PartIds \ ({p} \cup pv.children[p]) : FreePartition(pv, p).parts[q] = pv.parts[q]
<1> DEFINE freed == {p} \cup pv.children[p]
           r == RemovePreview(pv, p)
           rest == FreeFileSystems(r, { pv.parts[q].fs : q \in freed })
           kids == [r.children EXCEPT ![p] = {}]
           live == r.live \ freed
           parts == [q \in PartIds |-> IF q \in freed THEN scanned.parts[q] ELSE r.parts[q]]
<1>1. FreePartition(pv, p) = [rest EXCEPT !.live = @ \ freed, !.children[p] = {},
                                          !.parts = [q \in PartIds |-> IF q \in freed THEN scanned.parts[q] ELSE @[q]]]
  BY DEF FreePartition
<1> HIDE DEF freed
<1>2. /\ r \in Previews /\ r.parts = pv.parts /\ r.table = pv.table
      /\ \A n \in Nodes : r.children[n] = pv.children[n] \ ({p} \cap Below(pv, n))
  BY TreeFacts
<1>3. scanned \in Previews
  BY ScanFacts
<1> HIDE DEF r
<1>4. rest \in Previews /\ rest.live = r.live /\ rest.parts = r.parts /\ rest.table = r.table /\ rest.children = r.children
  BY <1>2, <1>3 DEF FreeFileSystems, Previews
<1> HIDE DEF rest
<1>5. /\ p \in Nodes /\ kids \in [Nodes -> SUBSET PartIds] /\ live \in SUBSET PartIds
      /\ \A n \in Nodes : kids[n] = IF n = p THEN {} ELSE r.children[n]
  BY <1>2 DEF Previews, Nodes
<1>6. parts \in [PartIds -> Partition] /\ \A q \in PartIds \ freed : parts[q] = pv.parts[q]
  BY <1>2, <1>3 DEF Previews
<1>7. FreePartition(pv, p) = [rest EXCEPT !.live = live, !.children = kids, !.parts = parts]
  <2> DEFINE alive == rest.live \ freed
             all   == [q \in PartIds |-> IF q \in freed THEN scanned.parts[q] ELSE rest.parts[q]]
  <2>1. alive = live /\ all = parts
    BY <1>4
  <2>2. FreePartition(pv, p) = [rest EXCEPT !.live = alive, !.children[p] = {}, !.parts = all]
    BY <1>1
  <2> HIDE DEF alive, all, parts, live
  <2>3. [rest EXCEPT !.live = alive, !.children[p] = {}, !.parts = all]
          = [rest EXCEPT !.live = alive, !.children = [rest.children EXCEPT ![p] = {}], !.parts = all]
    BY <1>4 DEF Previews
  <2> QED
    BY <1>4, <2>1, <2>2, <2>3
<1> HIDE DEF kids, parts, live
<1>8. /\ FreePartition(pv, p).table = pv.table
      /\ FreePartition(pv, p).children = kids /\ FreePartition(pv, p).parts = parts
  BY <1>2, <1>4, <1>7 DEF Previews
<1>9. FreePartition(pv, p) \in Previews
  BY <1>4, <1>5, <1>6, <1>7 DEF Previews
<1> QED
  BY <1>2, <1>5, <1>6, <1>8, <1>9 DEF freed

\* The destructor of the operation m frees what is in G and not in F.
Frees(O, pv0, l, c, F, G, m, w) ==
    /\ F \subseteq G
    /\ \A q \in G \ F : \E j \in 1 .. m : q \in Removes(O[j])
    /\ RunShows(scanned, O, pv0, l, c, G, w)

\* The destructor of an operation that was executed frees what the level does not show: a partition
\* that it removed, and what an operation below removed from it.
LEMMA FreeShows ==
    ASSUME scanned \in Devices, NEW ops, NEW pv0, NEW l, Owned(scanned, ops, pv0),
           NEW c \in 0 .. Len(ops), NEW F, NEW pv, RunShows(scanned, ops, pv0, l, c, F, pv),
           NEW i \in 1 .. c, NEW p \in Removes(ops[i])
    PROVE  \E G : Frees(ops, pv0, l, c, F, G, i, FreePartition(pv, p))
<1> DEFINE K == Known(scanned, ops)
           T == InTree(scanned, ops, c)
           w == FreePartition(pv, p)
           G == F \cup {p} \cup pv.children[p]
<1>1. Typed(scanned, ops, pv0) /\ Gone(scanned, ops, pv0)
  BY DEF Owned
<1>2. /\ Len(ops) \in Nat /\ DOMAIN ops = 1 .. Len(ops) /\ K \subseteq PartIds /\ PartIds \cap TableIds = {}
      /\ Nodes = TableIds \cup PartIds
      /\ \A j \in 1 .. Len(ops) : Removes(ops[j]) \subseteq Uses(ops[j]) /\ Uses(ops[j]) \subseteq K
  BY <1>1, GoodTypes
<1>3. i \in 1 .. Len(ops) /\ p \in K /\ p \in PartIds /\ p \in Nodes
  BY <1>2
<1>4. /\ pv \in Previews /\ pv.table = l[c].table
      /\ \A m \in Nodes : pv.children[m] = (T \ F) \cap Below(pv0, m)
      /\ \A q \in K \ F : EntryOf(pv, q) = EntryOf(l[c], q) /\ pv.parts[q].parent = pv0.parts[q].parent
  BY DEF RunShows
<1>5. T \subseteq K
  BY GhostFacts DEF InTree, Present
<1>6. ASSUME NEW q \in G \ F PROVE \E j \in 1 .. i : q \in Removes(ops[j])
  <2>1. CASE q = p
    <3>1. i \in 1 .. i
      BY <1>3
    <3> QED
      BY <2>1, <3>1
  <2>2. CASE q \in pv.children[p]
    <3>1. q \in K /\ pv0.parts[q].parent = p
      BY <1>3, <1>4, <1>5, <2>2 DEF Below
    <3>2. PICK j \in 1 .. i - 1 : q \in Removes(ops[j])
      BY <1>1, <1>2, <1>3, <3>1 DEF Gone
    <3>3. j \in 1 .. i
      BY <1>3
    <3> QED
      BY <3>2, <3>3
  <2> QED
    BY <1>6, <2>1, <2>2
<1>7. /\ w \in Previews /\ w.table = pv.table
      /\ \A m \in Nodes : w.children[m] = IF m = p THEN {} ELSE pv.children[m] \ ({p} \cap Below(pv, m))
      /\ \A q \in PartIds \ ({p} \cup pv.children[p]) : w.parts[q] = pv.parts[q]
  BY <1>3, <1>4, FreeTree
<1> HIDE DEF w, K, T
<1>8. \A q \in K \ G : EntryOf(w, q) = EntryOf(l[c], q) /\ w.parts[q].parent = pv0.parts[q].parent
  BY <1>2, <1>4, <1>7 DEF EntryOf
<1>9. ASSUME NEW m \in Nodes PROVE w.children[m] = (T \ G) \cap Below(pv0, m)
  <2> DEFINE x == Below(pv, m)
             y == Below(pv0, m)
             z == Below(pv0, p)
  <2>1. pv.children[m] = (T \ F) \cap y /\ pv.children[p] = (T \ F) \cap z
    BY <1>3, <1>4
  <2>2. CASE m = p
    <3> HIDE DEF x, y, z
    <3>1. w.children[m] = {} /\ (T \ G) \cap y = {}
      BY <1>7, <2>1, <2>2
    <3> QED
      BY <3>1 DEF y
  <2>3. CASE m # p
    <3>1. p \notin F => (p \in x <=> p \in y)
      BY <1>3, <1>4 DEF Below
    <3>2. y \cap z = {}
      BY <2>3 DEF Below
    <3>3. w.children[m] = ((T \ F) \cap y) \ ({p} \cap x)
      BY <1>7, <2>1, <2>3
    <3> HIDE DEF x, y, z
    <3>4. w.children[m] = (T \ G) \cap y
      BY <2>1, <3>1, <3>2, <3>3
    <3> QED
      BY <3>4 DEF y
  <2> QED
    BY <2>2, <2>3
<1>10. F \subseteq G
  OBVIOUS
<1> HIDE DEF G
<1>11. RunShows(scanned, ops, pv0, l, c, G, w)
  BY <1>4, <1>7, <1>8, <1>9 DEF RunShows, K, T
<1>12. Frees(ops, pv0, l, c, F, G, i, w)
  BY <1>6, <1>10, <1>11 DEF Frees
<1> QED
  BY <1>12 DEF w

\* Freeing file systems shows nothing else.
LEMMA FreeFsShows ==
    ASSUME scanned \in Devices, NEW ops, NEW pv0, NEW l, NEW c, NEW F, NEW pv, RunShows(scanned, ops, pv0, l, c, F, pv), NEW fs
    PROVE  RunShows(scanned, ops, pv0, l, c, F, FreeFileSystems(pv, fs))
<1> DEFINE w == FreeFileSystems(pv, fs)
<1>1. pv \in Previews /\ scanned \in Previews
  BY ScanFacts DEF RunShows
<1>2. w \in Previews /\ w.parts = pv.parts /\ w.table = pv.table /\ w.children = pv.children
  BY <1>1 DEF FreeFileSystems, Previews
<1> HIDE DEF w
<1>3. RunShows(scanned, ops, pv0, l, c, F, w)
  BY <1>2 DEF RunShows, EntryOf
<1> QED
  BY <1>3 DEF w

--------------------------------------------------------------------------------
(* The invariant of tree and disk.                                         *)

\* A run of the stack O, whose last level is the preview pv0 that the user applied: before, at
\* and after each operation the preview shows the level that the operations executed lead to,
\* and so does the disk unless one failed.  F are the ghosts and the removed partitions that
\* clearing the stack has deleted.
RunOf(O, pv0, l, F) ==
    /\ scanned \in Devices /\ Owned(scanned, O, pv0) /\ Layered(scanned, O, pv0, l)
    /\ current - 1 \in 0 .. Len(O)
    /\ Len(operations) <= Len(O) /\ \A i \in 1 .. Len(operations) : operations[i] = O[i]
    /\ thread # "ended" => operations = O /\ F = {}
    /\ F \cap Present(scanned, O, current - 1) = {}
    /\ RunShows(scanned, O, pv0, l, current - 1, F, preview)
    /\ planned = Entries(l[Len(O)], Present(scanned, O, Len(O)))
    /\ ok => disk = Entries(l[current - 1], Present(scanned, O, current - 1))
    /\ signal = "finished" => current - 1 = Len(O)

LayoutInv ==
    /\ thread = "idle" => StackInv /\ disk = Shown(scanned)
    /\ thread # "idle" => \E O, pv0, l, F : RunOf(O, pv0, l, F)

RunnerInv == IInv /\ LayoutInv

\* No edit of the stack changes what was scanned.
LEMMA ScanStays == Next => scanned' = scanned
<1>1. \A op, pv : Push(op, pv) => scanned' = scanned
  BY DEF Push
<1>2. PushNew \/ PushDelete \/ PushResize => scanned' = scanned
  BY <1>1 DEF PushNew, PushDelete, PushResize
<1>3. PushCopyToFree \/ PushCopyOver \/ PushRestoreToFree \/ PushRestoreOver => scanned' = scanned
  BY <1>1 DEF PushCopyToFree, PushCopyOver, PushRestoreToFree, PushRestoreOver
<1>4. PushFlags \/ PushLabel \/ PushFormat \/ PushCheck \/ PushBackup \/ PushTable => scanned' = scanned
  BY <1>1 DEF PushFlags, PushLabel, PushFormat, PushCheck, PushBackup, PushTable
<1>5. Pop \/ Clear => scanned' = scanned
  BY DEF Pop, Clear
<1> QED
  BY <1>2, <1>3, <1>4, <1>5 DEF Next

\* The scan is what is on the disk.
LEMMA LayoutInit == CarefulFrontEnd /\ RunnerInit => LayoutInv
<1> SUFFICES ASSUME CarefulFrontEnd, RunnerInit PROVE LayoutInv
  OBVIOUS
<1>1. Init /\ disk = Shown(scanned) /\ thread = "idle"
  BY DEF RunnerInit
<1>2. StackInv
  BY <1>1, StackInit
<1> QED
  BY <1>1, <1>2 DEF LayoutInv

\* The user edits the stack.
LEMMA EditLayout == ASSUME LayoutInv, Edit PROVE LayoutInv'
<1>1. thread = "idle" /\ Next /\ thread' = thread /\ disk' = disk
  BY DEF Edit, runVars
<1>2. StackInv /\ disk = Shown(scanned)
  BY <1>1 DEF LayoutInv
<1>3. StackInv'
  BY <1>1, <1>2, StackStep
<1>4. scanned' = scanned
  BY <1>1, ScanStays
<1> QED
  BY <1>1, <1>2, <1>3, <1>4 DEF LayoutInv

\* What the preview shows before the run, with no ghosts, and what it shows undone.
LEMMA AppliedShows ==
    ASSUME StackInv, NEW l, Layered(scanned, operations, preview, l)
    PROVE  LET n == Len(operations)
           IN  /\ RunShows(scanned, operations, preview, l, n, Ghosts(operations, n), preview)
               /\ Ghosts(operations, n) \cap Present(scanned, operations, n) = {}
               /\ InTree(scanned, operations, n) \ Ghosts(operations, n) = Present(scanned, operations, n)
               /\ InTree(scanned, operations, 0) \ {} = Present(scanned, operations, 0)
               /\ RunShows(scanned, operations, preview, l, 0, {}, Unwound[0])
<1> DEFINE n == Len(operations)
           K == Known(scanned, operations)
           P(k) == Present(scanned, operations, k)
           G == Ghosts(operations, n)
<1>1. /\ scanned \in Devices /\ Owned(scanned, operations, preview) /\ n \in Nat /\ preview \in Previews
      /\ \A m \in Nodes : preview.children[m] = P(n) \cap Below(preview, m)
  BY TreeShown
<1>2. n \in 0 .. n /\ 0 \in 0 .. n
  BY <1>1
<1>3. \A g \in G : g \in K /\ g \notin P(n)
  BY <1>1, <1>2, GhostFacts
<1>4. G \cap P(n) = {} /\ InTree(scanned, operations, n) \ G = P(n)
  <2> HIDE DEF K, P, G
  <2>1. InTree(scanned, operations, n) = P(n) \cup G
    BY DEF InTree, P, G
  <2> QED
    BY <1>3, <2>1
<1>5. l[n].table = preview.table /\ \A q \in K : l[n].parts[q] = preview.parts[q]
  BY DEF Layered, Ends
<1>6. RunShows(scanned, operations, preview, l, n, G, preview)
  <2> HIDE DEF n, G, K, P
  <2>1. \A q \in K \ G : EntryOf(preview, q) = EntryOf(l[n], q)
    BY <1>5 DEF EntryOf
  <2> QED
    BY <1>1, <1>4, <1>5, <2>1 DEF RunShows, K
<1>7. ShowsLevel(Unwound[0], l[0], P(0), K)
  BY <1>2, UnwoundLevels
<1>8. InTree(scanned, operations, 0) \ {} = P(0)
  BY DEF InTree, Ghosts
<1>9. \A q \in K : l[0].parts[q].parent = preview.parts[q].parent
  BY <1>1, <1>2, LevelTree
<1> HIDE DEF n, G, K, P
<1>10. RunShows(scanned, operations, preview, l, 0, {}, Unwound[0])
  <2> DEFINE w == Unwound[0]
  <2>1. /\ w \in Previews /\ w.table = l[0].table /\ \A q \in K : w.parts[q] = l[0].parts[q]
        /\ \A m \in Nodes : w.children[m] = P(0) \cap Below(preview, m)
    BY <1>7 DEF ShowsLevel
  <2> HIDE DEF w
  <2>2. \A q \in K : EntryOf(w, q) = EntryOf(l[0], q) /\ w.parts[q].parent = preview.parts[q].parent
    BY <1>9, <2>1 DEF EntryOf
  <2>3. RunShows(scanned, operations, preview, l, 0, {}, w)
    BY <1>8, <2>1, <2>2 DEF RunShows, K
  <2> QED
    BY <2>3 DEF w
<1> QED
  BY <1>4, <1>6, <1>8, <1>10 DEF n, G, P

\* All previews are undone: the run begins at the lowest level.
LEMMA ApplyLayout == ASSUME IInv, LayoutInv, Apply PROVE LayoutInv'
<1>1. /\ thread = "idle" /\ thread' = "starting" /\ planned' = Shown(preview) /\ preview' = Unwound[0]
      /\ operations' = operations /\ scanned' = scanned /\ disk' = disk /\ current' = current
      /\ ok' = ok /\ signal' = signal
  BY DEF Apply
<1>2. StackInv /\ disk = Shown(scanned)
  BY <1>1 DEF LayoutInv
<1>3. current = 1 /\ signal = "none"
  BY <1>1 DEF IInv, Where, Told
<1>4. PICK l : Layered(scanned, operations, preview, l)
  BY <1>2 DEF StackInv, Good
<1> DEFINE n == Len(operations)
           w == Unwound[0]
           P(k) == Present(scanned, operations, k)
<1>5. /\ scanned \in Devices /\ Owned(scanned, operations, preview) /\ n \in Nat /\ n \in 0 .. n /\ 0 \in 0 .. n
  BY <1>2, TreeShown
<1>6. /\ RunShows(scanned, operations, preview, l, n, Ghosts(operations, n), preview)
      /\ Ghosts(operations, n) \cap P(n) = {}
      /\ InTree(scanned, operations, n) \ Ghosts(operations, n) = P(n) /\ InTree(scanned, operations, 0) \ {} = P(0)
      /\ RunShows(scanned, operations, preview, l, 0, {}, w)
  BY <1>2, <1>4, AppliedShows
<1>7. Shown(preview) = Entries(l[n], P(n))
  <2> DEFINE G == Ghosts(operations, n)
  <2> HIDE DEF G
  <2>1. G \cap P(n) = {} /\ RunShows(scanned, operations, preview, l, n, G, preview)
    BY <1>6 DEF G
  <2>2. EntriesShown(scanned, operations, l, n, G, preview)
    BY <1>4, <1>5, <2>1, RunEntries
  <2> QED
    BY <1>6, <2>2 DEF EntriesShown, G
<1>8. Shown(w) = Entries(l[0], P(0))
  <2>1. {} \cap P(0) = {}
    OBVIOUS
  <2>2. EntriesShown(scanned, operations, l, 0, {}, w)
    BY <1>4, <1>5, <1>6, <2>1, RunEntries
  <2> QED
    BY <1>6, <2>2 DEF EntriesShown
<1>9. Shown(w) = Shown(scanned)
  <2>1. Layout(w) = Layout(scanned)
    BY <1>2, InvRestores DEF UndoRestoresLayout
  <2> DEFINE f == [p \in Visible(w) |-> [w.parts[p] EXCEPT !.state = "None"]]
             g == [p \in Visible(scanned) |-> [scanned.parts[p] EXCEPT !.state = "None"]]
  <2>2. f = g
    BY <2>1 DEF Layout
  <2>3. DOMAIN f = Visible(w) /\ DOMAIN g = Visible(scanned)
    OBVIOUS
  <2>4. Visible(w) = Visible(scanned)
    BY <2>2, <2>3
  <2>5. ASSUME NEW p \in Visible(w) PROVE EntryOf(w, p) = EntryOf(scanned, p)
    <3>1. w.parts[p] \in Partition /\ scanned.parts[p] \in Partition
      <4>1. Visible(w) \subseteq PartIds /\ scanned \in Previews /\ w \in Previews
        <5>1. w \in Previews /\ scanned \in Previews
          BY <1>5, <1>6, ScanFacts DEF RunShows
        <5>2. scanned.live \subseteq PartIds /\ Visible(scanned) = scanned.live
          BY <1>5, DevicesAssumption, ScanFacts DEF IsScan
        <5> QED
          BY <2>4, <5>1, <5>2
      <4>2. w.parts \in [PartIds -> Partition] /\ scanned.parts \in [PartIds -> Partition]
        BY <4>1 DEF Previews
      <4> HIDE DEF w
      <4> QED
        BY <4>1, <4>2
    <3>2. [w.parts[p] EXCEPT !.state = "None"] = [scanned.parts[p] EXCEPT !.state = "None"]
      <4>1. f[p] = [w.parts[p] EXCEPT !.state = "None"] /\ g[p] = [scanned.parts[p] EXCEPT !.state = "None"]
        BY <2>4
      <4> HIDE DEF f, g
      <4> QED
        BY <2>2, <4>1
    <3> DEFINE x == w.parts[p]
               y == scanned.parts[p]
    <3> HIDE DEF x, y
    <3>3. x.first = y.first /\ x.last = y.last /\ x.role = y.role
      <4>1. x \in Partition /\ y \in Partition /\ [x EXCEPT !.state = "None"] = [y EXCEPT !.state = "None"]
        BY <3>1, <3>2 DEF x, y
      <4>2. /\ [x EXCEPT !.state = "None"].first = x.first /\ [x EXCEPT !.state = "None"].last = x.last
            /\ [x EXCEPT !.state = "None"].role = x.role
            /\ [y EXCEPT !.state = "None"].first = y.first /\ [y EXCEPT !.state = "None"].last = y.last
            /\ [y EXCEPT !.state = "None"].role = y.role
        BY <4>1 DEF Partition
      <4> QED
        BY <4>1, <4>2
    <3> QED
      BY <3>3 DEF EntryOf, x, y
  <2> HIDE DEF w
  <2> QED
    BY <2>4, <2>5 DEF Shown
<1> HIDE DEF w, P, n
<1>10. PICK O, pv0 : O = operations /\ pv0 = preview
  OBVIOUS
<1>11. RunOf(O, pv0, l, {})'
  <2>1. scanned \in Devices /\ Owned(scanned, O, pv0) /\ Layered(scanned, O, pv0, l)
    BY <1>4, <1>5, <1>10
  <2>2. Len(O) = n /\ Len(operations') = n /\ operations' = O
    BY <1>1, <1>10 DEF n
  <2>3. RunShows(scanned, O, pv0, l, 0, {}, preview')
    BY <1>1, <1>6, <1>10 DEF w
  <2>4. planned' = Entries(l[Len(O)], Present(scanned, O, Len(O)))
    BY <1>1, <1>7, <1>10, <2>2 DEF P
  <2>5. disk' = Entries(l[0], Present(scanned, O, 0))
    BY <1>1, <1>2, <1>8, <1>9, <1>10 DEF P
  <2>6. current' - 1 = 0 /\ signal' = "none"
    BY <1>1, <1>3
  <2> HIDE DEF n
  <2> QED
    BY <1>1, <1>5, <2>1, <2>2, <2>3, <2>4, <2>5, <2>6 DEF RunOf
<1> QED
  BY <1>1, <1>11 DEF LayoutInv

\* What an operation that ended has done.
LEMMA OutcomeDisk ==
    ASSUME NEW op, NEW out
    PROVE  /\ out \in Failures(op) => out.status = "Error" /\ (out.created => op.kind \in Creating)
           /\ out \in Successes(op) => /\ out.status # "Error" /\ out.disk = SuccessDisk(op)
                                       /\ (out.created => op.kind \in Creating)
<1>1. ASSUME NEW s, NEW disks, NEW created, out \in Outcomes(s, disks, created)
      PROVE  out.status = s /\ out.disk \in disks /\ out.created = created
  BY <1>1 DEF Outcomes
<1>2. ASSUME out \in Failures(op) PROVE out.status = "Error" /\ (out.created => op.kind \in Creating)
  <2>1. CASE op.kind \in Creating
    BY <1>2, <2>1, HowItEnds
  <2>2. CASE op.kind \notin Creating
    <3>1. op.kind \notin {"New", "Copy", "Restore"}
      BY <2>2 DEF Creating
    <3>2. \E disks : out \in Outcomes("Error", disks, FALSE)
      BY <1>2, <3>1 DEF Failures
    <3> QED
      BY <1>1, <3>2
  <2> QED
    BY <2>1, <2>2
<1>3. ASSUME out \in Successes(op)
      PROVE  out.status # "Error" /\ out.disk = SuccessDisk(op) /\ (out.created => op.kind \in Creating)
  <2>1. PICK s \in {"Success", "Warning"} : out \in Outcomes(s, {SuccessDisk(op)}, op.kind \in Creating)
    BY <1>3 DEF Successes
  <2>2. out.status = s /\ out.disk \in {SuccessDisk(op)} /\ out.created = (op.kind \in Creating)
    BY <1>1, <2>1
  <2> QED
    BY <2>1, <2>2, Zenon
<1> QED
  BY <1>2, <1>3

\* An operation is executed and previewed: the run goes on to the next level.
LEMMA ExecuteLayout == ASSUME IInv, LayoutInv, Execute PROVE LayoutInv'
<1> DEFINE op == operations[current]
<1>1. PICK out \in Failures(op) \cup (IF Feasible(op) THEN Successes(op) ELSE {}) :
          /\ disk' = out.disk
          /\ ok' = (out.status # "Error")
          /\ preview' = Preview(op, IF out.created THEN [preview EXCEPT !.parts[op.part].state = "None"] ELSE preview)
  BY DEF Execute, Reviewed
<1>2. /\ thread = "executing" /\ thread' = "waiting" /\ current' = current + 1
      /\ operations' = operations /\ scanned' = scanned /\ signal' = signal /\ planned' = planned
  BY DEF Execute
<1>3. PICK O, pv0, l, F : RunOf(O, pv0, l, F)
  BY <1>2 DEF LayoutInv
<1>4. /\ scanned \in Devices /\ Owned(scanned, O, pv0) /\ Layered(scanned, O, pv0, l)
      /\ operations = O /\ F = {}
      /\ RunShows(scanned, O, pv0, l, current - 1, {}, preview)
      /\ planned = Entries(l[Len(O)], Present(scanned, O, Len(O)))
      /\ ok => disk = Entries(l[current - 1], Present(scanned, O, current - 1))
  BY <1>2, <1>3 DEF RunOf
<1>5. Len(O) \in Nat /\ current \in 1 .. Len(O) /\ ok /\ signal = "none"
  <2>1. Typed(scanned, O, pv0)
    BY <1>4 DEF Owned
  <2>2. Len(O) \in Nat
    BY <1>4, <2>1, GoodTypes
  <2>3. current \in Nat \ {0} /\ current <= Len(statuses) /\ Len(statuses) = Len(operations) /\ ok /\ signal = "none"
    BY <1>2 DEF IInv, RunTypes, Where, Told
  <2> QED
    BY <1>4, <2>2, <2>3
<1>6. Ready(pv0, l, current)
  BY <1>4, <1>5 DEF Ready
<1>7. /\ IsOp(op) /\ Known(scanned, O) \subseteq PartIds
  <2>1. Typed(scanned, O, pv0)
    BY <1>4 DEF Owned
  <2>2. Known(scanned, O) \subseteq PartIds /\ \A j \in 1 .. Len(O) : IsOp(O[j])
    BY <1>4, <2>1, GoodTypes
  <2> QED
    BY <1>4, <1>5, <2>2
<1>8. SuccessDisk(op) = Entries(l[current], Present(scanned, O, current))
  BY <1>4, <1>6, RunSucceeds
<1> DEFINE start == IF out.created THEN [preview EXCEPT !.parts[op.part].state = "None"] ELSE preview
<1>9. (out.created => op.kind \in Creating) /\ (ok' => out.disk = SuccessDisk(op))
  <2> HIDE DEF op
  <2> QED
    BY <1>1, OutcomeDisk
<1>10. RunShows(scanned, O, pv0, l, current - 1, {}, start)
  <2>1. CASE out.created
    <3>1. op.part \in PartIds
      BY <1>7, <1>9, <2>1 DEF IsOp, Creating
    <3> DEFINE x == [preview EXCEPT !.parts[op.part].state = "None"]
    <3>2. RunShows(scanned, O, pv0, l, current - 1, {}, x)
      <4> HIDE DEF op
      <4> QED
        BY <1>4, <1>7, <3>1, StateOnly
    <3> QED
      BY <2>1, <3>2
  <2>2. CASE ~ out.created
    BY <1>4, <2>2
  <2> QED
    BY <2>1, <2>2
<1>11. preview' = Preview(O[current], start)
  BY <1>1, <1>4
<1> HIDE DEF start, op
<1>12. RunShows(scanned, O, pv0, l, current, {}, preview')
  <2>1. RunShows(scanned, O, pv0, l, current, {}, Preview(O[current], start))
    BY <1>4, <1>5, <1>10, RunStep
  <2> QED
    BY <1>11, <2>1
<1>13. ok' => disk' = Entries(l[current], Present(scanned, O, current))
  BY <1>1, <1>8, <1>9
<1>14. current' - 1 = current /\ current \in 0 .. Len(O) /\ signal' = "none" /\ operations' = O
  BY <1>2, <1>4, <1>5
<1>15. RunOf(O, pv0, l, {})'
  BY <1>2, <1>4, <1>5, <1>12, <1>13, <1>14 DEF RunOf
<1> QED
  BY <1>2, <1>15 DEF LayoutInv

\* The steps that change neither preview nor disk.
LEMMA ThreadLayout ==
    ASSUME IInv, LayoutInv, Begin \/ PassMutex \/ Start \/ Leave \/ Emit \/ Cancel \/ Suspend \/ Resume
    PROVE  LayoutInv'
<1>1. /\ vars' = vars /\ disk' = disk /\ current' = current /\ ok' = ok /\ planned' = planned
  BY DEF Begin, PassMutex, Start, Leave, Emit, Cancel, Suspend, Resume
<1>2. operations' = operations /\ preview' = preview /\ scanned' = scanned
  BY <1>1 DEF vars
<1>3. \/ thread' = thread /\ signal' = signal
      \/ thread \in {"starting", "waiting", "deciding"} /\ thread' \in {"waiting", "deciding", "executing", "leaving"}
         /\ signal' = signal
      \/ Emit
  BY DEF Begin, PassMutex, Start, Leave, Cancel, Suspend, Resume
<1>4. Emit => /\ thread = "leaving" /\ thread' = "ended"
              /\ signal' = IF ~ok THEN "error" ELSE IF cancelling THEN "cancelled" ELSE "finished"
  BY DEF Emit
<1>5. CASE thread = "idle"
  <2>1. thread' = "idle"
    BY <1>3, <1>4, <1>5
  <2>2. StackInv' <=> StackInv
    BY <1>2 DEF StackInv
  <2> QED
    BY <1>1, <1>2, <1>5, <2>1, <2>2 DEF LayoutInv
<1>6. CASE thread # "idle"
  <2>1. PICK O, pv0, l, F : RunOf(O, pv0, l, F)
    BY <1>6 DEF LayoutInv
  <2>2. thread' # "ended" => thread # "ended"
    BY <1>3, <1>4
  <2>3. signal' = "finished" => current - 1 = Len(O)
    <3>1. CASE signal' = signal
      BY <2>1, <3>1 DEF RunOf
    <3>2. CASE Emit
      <4> SUFFICES ASSUME signal' = "finished" PROVE current - 1 = Len(O)
        OBVIOUS
      <4>1. thread = "leaving" /\ ok /\ ~cancelling
        BY <1>4, <3>2
      <4>2. current > Len(statuses) /\ Len(statuses) = Len(operations) /\ current \in Nat
        BY <4>1 DEF IInv, Where, RunTypes
      <4>3. operations = O /\ current - 1 \in 0 .. Len(O) /\ Typed(scanned, O, pv0) /\ scanned \in Devices
        BY <2>1, <4>1 DEF RunOf, Owned
      <4>4. Len(O) \in Nat
        BY <4>3, GoodTypes
      <4> QED
        BY <4>2, <4>3, <4>4
    <3> QED
      BY <1>3, <3>1, <3>2
  <2>4. RunOf(O, pv0, l, F)'
    BY <1>1, <1>2, <2>1, <2>2, <2>3 DEF RunOf
  <2>5. thread' # "idle"
    BY <1>3, <1>4, <1>6
  <2> QED
    BY <2>4, <2>5 DEF LayoutInv
<1> QED
  BY <1>5, <1>6

\* The destructor of the last operation: what it frees is not in what is shown.
LEMMA DestroyShows ==
    ASSUME scanned \in Devices, NEW O, NEW pv0, NEW l, Owned(scanned, O, pv0), Layered(scanned, O, pv0, l),
           NEW c \in 0 .. Len(O), NEW F, F \cap Present(scanned, O, c) = {}, NEW pv, RunShows(scanned, O, pv0, l, c, F, pv),
           NEW m \in 1 .. Len(O), NEW status, status \in Executed <=> m <= c
    PROVE  \E G : Frees(O, pv0, l, c, F, G, m, Destroyed(O[m], status, pv)) /\ G \cap Present(scanned, O, c) = {}
<1> DEFINE op == O[m]
           w == Destroyed(op, status, pv)
           P == Present(scanned, O, c)
<1>1. Overwrites(op) => Replacing(op) /\ op.kind # "Delete"
  BY DEF Overwrites, Replacing
<1>2. ASSUME NEW p \in Removes(op), m <= c, w = FreePartition(pv, p)
      PROVE  \E G : Frees(O, pv0, l, c, F, G, m, w) /\ G \cap P = {}
  <2>1. Len(O) \in Nat
    <3>1. Typed(scanned, O, pv0)
      BY DEF Owned
    <3> QED
      BY <3>1, GoodTypes
  <2>2. m \in 1 .. c
    BY <1>2, <2>1
  <2> HIDE DEF w
  <2>3. PICK G : Frees(O, pv0, l, c, F, G, m, FreePartition(pv, p))
    BY <2>2, FreeShows
  <2>4. \A j \in 1 .. m : j \in 1 .. c
    BY <2>1, <2>2
  <2>5. \A q \in G \ F : q \notin P
    BY <2>3, <2>4 DEF Frees, Present
  <2> HIDE DEF P
  <2>6. G \cap P = {}
    BY <2>5 DEF P
  <2> QED
    BY <1>2, <2>3, <2>6
<1>3. CASE op.kind = "Delete" /\ status \in Executed
  <2>1. w = FreePartition(pv, op.part) /\ op.part \in Removes(op)
    <3>1. ~ MustDelete(op)
      BY <1>1, <1>3 DEF MustDelete
    <3> QED
      BY <1>3, <3>1 DEF Destroyed, Removes
  <2> QED
    BY <1>2, <1>3, <2>1
<1>4. CASE MustDelete(op) /\ status \in Executed
  <2>1. op.kind \in {"Copy", "Restore"} /\ Replacing(op)
    BY <1>1, <1>4 DEF MustDelete, Replacing
  <2>2. w = FreePartition(pv, op.over) /\ op.over \in Removes(op)
    BY <1>4, <2>1 DEF Destroyed, Removes
  <2> QED
    BY <1>2, <1>4, <2>2
<1>5. CASE op.kind = "Format"
  <2> DEFINE fs == {IF pv.parts[op.part].fs = op.new THEN op.old ELSE op.new}
  <2>1. w = FreeFileSystems(pv, fs)
    <3>1. ~ MustDelete(op)
      BY <1>5 DEF MustDelete, Overwrites
    <3> QED
      BY <1>5, <3>1 DEF Destroyed
  <2> HIDE DEF fs, w
  <2>2. RunShows(scanned, O, pv0, l, c, F, FreeFileSystems(pv, fs))
    BY FreeFsShows
  <2>3. Frees(O, pv0, l, c, F, F, m, w)
    BY <2>1, <2>2 DEF Frees
  <2> QED
    BY <2>3 DEF w
<1>6. CASE ~ (op.kind = "Delete" /\ status \in Executed) /\ ~ (MustDelete(op) /\ status \in Executed) /\ op.kind # "Format"
  <2>1. w = pv
    BY <1>6 DEF Destroyed
  <2> HIDE DEF w
  <2>2. Frees(O, pv0, l, c, F, F, m, w)
    BY <2>1 DEF Frees
  <2> QED
    BY <2>2 DEF w
<1>7. \E G : Frees(O, pv0, l, c, F, G, m, w) /\ G \cap P = {}
  BY <1>3, <1>4, <1>5, <1>6
<1> QED
  BY <1>7 DEF w, op, P

\* Clearing one operation shows the same.
LEMMA ClearLayout ==
    ASSUME IInv, ClearOne, NEW O, NEW pv0, NEW l, NEW F, RunOf(O, pv0, l, F)
    PROVE  \E G : /\ RunOf(O, pv0, l, G)' /\ F \subseteq G
                  /\ \A q \in G \ F : \E j \in 1 .. Len(operations) : q \in Removes(O[j])
<1>1. /\ thread = "ended" /\ operations # <<>> /\ operations' = Front(operations) /\ thread' = "ended"
      /\ preview' = Destroyed(Last(operations), Last(statuses), preview)
      /\ scanned' = scanned /\ disk' = disk /\ current' = current /\ ok' = ok /\ signal' = signal /\ planned' = planned
  BY DEF ClearOne
<1> DEFINE m == Len(operations)
           c == current - 1
<1>2. /\ scanned \in Devices /\ Owned(scanned, O, pv0) /\ Layered(scanned, O, pv0, l)
      /\ c \in 0 .. Len(O) /\ m <= Len(O) /\ \A i \in 1 .. m : operations[i] = O[i]
      /\ F \cap Present(scanned, O, c) = {} /\ RunShows(scanned, O, pv0, l, c, F, preview)
  BY DEF RunOf
<1>3. PICK S : operations \in Seq(S)
  BY DEF IInv, Stacked
<1>4. m \in Nat /\ m >= 1
  BY <1>1, <1>3, Lengths
<1>5. Len(operations') = m - 1 /\ \A i \in 1 .. m - 1 : operations'[i] = operations[i]
  BY <1>1, <1>3, FrontOfSeq
<1>6. Len(O) \in Nat
  <2>1. Typed(scanned, O, pv0)
    BY <1>2 DEF Owned
  <2> QED
    BY <1>2, <2>1, GoodTypes
<1>7. m \in 1 .. Len(O) /\ Last(operations) = O[m]
  BY <1>2, <1>4, <1>6 DEF Last
<1>8. Last(statuses) \in Executed <=> m <= c
  <2>1. Len(statuses) = m /\ current \in Nat
    BY <1>1 DEF IInv, Where, RunTypes
  <2>2. statuses[m] \in Executed <=> m < current
    BY <1>4, <2>1 DEF IInv, Progress
  <2> HIDE DEF m
  <2> QED
    BY <1>4, <2>1, <2>2 DEF Last
<1> DEFINE status == Last(statuses)
<1> HIDE DEF m, c, status
<1>9. \E G : Frees(O, pv0, l, c, F, G, m, Destroyed(O[m], status, preview)) /\ G \cap Present(scanned, O, c) = {}
  <2>1. status \in Executed <=> m <= c
    BY <1>8 DEF status
  <2> QED
    BY <1>2, <1>7, <2>1, DestroyShows
<1>10. PICK G : /\ G \cap Present(scanned, O, c) = {} /\ F \subseteq G
                /\ \A q \in G \ F : \E j \in 1 .. m : q \in Removes(O[j])
                /\ RunShows(scanned, O, pv0, l, c, G, preview')
  BY <1>1, <1>7, <1>9 DEF Frees, status
<1>11. Len(operations') <= Len(O) /\ \A i \in 1 .. Len(operations') : operations'[i] = O[i]
  BY <1>2, <1>4, <1>5, <1>6
<1>12. RunOf(O, pv0, l, G)'
  <2>1. RunOf(O, pv0, l, F)
    OBVIOUS
  <2>2. current' - 1 = c
    BY <1>1 DEF c
  <2>3. /\ planned = Entries(l[Len(O)], Present(scanned, O, Len(O)))
        /\ ok => disk = Entries(l[c], Present(scanned, O, c))
        /\ signal = "finished" => c = Len(O)
    BY DEF RunOf, c
  <2> QED
    BY <1>1, <1>2, <1>10, <1>11, <2>2, <2>3 DEF RunOf
<1> QED
  BY <1>10, <1>12 DEF m

\* Every step, and a stutter, keeps the invariant.
LEMMA RunnerStep == RunnerInv /\ [RunnerNext]_runnerVars => RunnerInv'
<1> SUFFICES ASSUME RunnerInv, [RunnerNext]_runnerVars PROVE RunnerInv'
  OBVIOUS
<1>1. IInv /\ LayoutInv
  BY DEF RunnerInv
<1>2. IInv'
  BY <1>1, StepInv
<1>3. CASE UNCHANGED runnerVars
  <2>1. /\ UNCHANGED <<operations, preview, scanned, disk, thread, current, ok, signal, planned>>
    BY <1>3 DEF runnerVars, vars, runVars
  <2>2. StackInv' <=> StackInv
    BY <2>1 DEF StackInv
  <2>3. ASSUME NEW O, NEW pv0, NEW l, NEW F PROVE RunOf(O, pv0, l, F)' <=> RunOf(O, pv0, l, F)
    BY <2>1 DEF RunOf
  <2>4. LayoutInv'
    BY <1>1, <2>1, <2>2, <2>3 DEF LayoutInv
  <2> QED
    BY <1>2, <2>4 DEF RunnerInv
<1>4. CASE ClearOne
  <2>1. thread = "ended" /\ thread' = "ended"
    BY <1>4 DEF ClearOne
  <2>2. PICK O, pv0, l, F : RunOf(O, pv0, l, F)
    BY <1>1, <2>1 DEF LayoutInv
  <2>3. \E G : RunOf(O, pv0, l, G)'
    BY <1>1, <1>4, <2>2, ClearLayout
  <2>4. LayoutInv'
    BY <2>1, <2>3 DEF LayoutInv
  <2> QED
    BY <1>2, <2>4 DEF RunnerInv
<1>5. CASE Edit \/ Apply \/ Execute
  <2>1. LayoutInv'
    BY <1>1, <1>5, EditLayout, ApplyLayout, ExecuteLayout
  <2> QED
    BY <1>2, <2>1 DEF RunnerInv
<1>6. CASE Begin \/ PassMutex \/ Start \/ Leave \/ Emit \/ Cancel \/ Suspend \/ Resume
  <2>1. LayoutInv'
    BY <1>1, <1>6, ThreadLayout
  <2> QED
    BY <1>2, <2>1 DEF RunnerInv
<1> QED
  BY <1>3, <1>4, <1>5, <1>6 DEF RunnerNext, Runner

--------------------------------------------------------------------------------
(* What the invariant says of disk and preview.                            *)

\* The operation that runs finds what it needs.
LEMMA InvFinds == RunnerInv => JobsFindTheirPlaces
<1> SUFFICES ASSUME RunnerInv, thread = "executing" PROVE Feasible(operations[current])
  BY DEF JobsFindTheirPlaces
<1>1. PICK O, pv0, l, F : RunOf(O, pv0, l, F)
  BY DEF RunnerInv, LayoutInv
<1>2. /\ ok /\ current \in Nat \ {0} /\ current <= Len(operations)
  BY DEF RunnerInv, IInv, Where, RunTypes
<1>3. /\ operations = O /\ F = {} /\ current - 1 \in 0 .. Len(O)
      /\ scanned \in Devices /\ Owned(scanned, O, pv0) /\ Layered(scanned, O, pv0, l)
      /\ RunShows(scanned, O, pv0, l, current - 1, {}, preview)
      /\ disk = Entries(l[current - 1], Present(scanned, O, current - 1))
  BY <1>1, <1>2 DEF RunOf
<1>4. Len(O) \in Nat
  <2>1. Typed(scanned, O, pv0)
    BY <1>3 DEF Owned
  <2> QED
    BY <1>3, <2>1, GoodTypes
<1>5. current \in 1 .. Len(operations)
  BY <1>2, <1>3, <1>4
<1>6. Ready(pv0, l, current)
  BY <1>3, <1>5 DEF Ready
<1> QED
  BY <1>6, RunSucceeds

\* When all operations were executed, disk and preview show the highest level.
LEMMA InvFulfils == RunnerInv => PlanFulfilled
<1> SUFFICES ASSUME RunnerInv, signal = "finished" PROVE disk = planned /\ disk \subseteq Shown(preview)
  BY DEF PlanFulfilled
<1>1. thread = "ended" /\ ok
  BY DEF RunnerInv, IInv, Told
<1>2. PICK O, pv0, l, F : RunOf(O, pv0, l, F)
  BY <1>1 DEF RunnerInv, LayoutInv
<1> DEFINE c == current - 1
<1>3. /\ scanned \in Devices /\ Owned(scanned, O, pv0) /\ Layered(scanned, O, pv0, l)
      /\ c \in 0 .. Len(O) /\ c = Len(O)
      /\ F \cap Present(scanned, O, c) = {} /\ RunShows(scanned, O, pv0, l, c, F, preview)
      /\ planned = Entries(l[Len(O)], Present(scanned, O, Len(O)))
      /\ disk = Entries(l[c], Present(scanned, O, c))
  BY <1>1, <1>2 DEF RunOf
<1> HIDE DEF c
<1>4. EntriesShown(scanned, O, l, c, F, preview)
  BY <1>3, RunEntries
<1> QED
  BY <1>3, <1>4 DEF EntriesShown

\* What clearing an operation takes out of what is shown is a ghost of a restore that is on the stack.
LEMMA GhostCleared ==
    ASSUME IInv, ClearOne, NEW O, NEW pv0, NEW l, NEW F, RunOf(O, pv0, l, F), NEW G, RunOf(O, pv0, l, G)',
           F \subseteq G, \A q \in G \ F : \E j \in 1 .. Len(operations) : q \in Removes(O[j])
    PROVE  /\ Visible(preview) \ Visible(preview') \subseteq Restored
           /\ \A p \in Visible(preview') : EntryOf(preview', p) = EntryOf(preview, p)
<1> DEFINE c == current - 1
           v == l[c]
           t == v.table
           K == Known(scanned, O)
           P == Present(scanned, O, c)
           T == InTree(scanned, O, c)
           w == preview'
           m == Len(operations)
<1>1. thread = "ended" /\ operations # <<>> /\ scanned' = scanned /\ current' = current
  BY DEF ClearOne
<1>2. /\ scanned \in Devices /\ Owned(scanned, O, pv0) /\ Layered(scanned, O, pv0, l) /\ c \in 0 .. Len(O)
      /\ F \cap P = {} /\ RunShows(scanned, O, pv0, l, c, F, preview)
      /\ m <= Len(O) /\ \A i \in 1 .. m : operations[i] = O[i]
  BY DEF RunOf
<1>3. G \cap P = {} /\ RunShows(scanned, O, pv0, l, c, G, w)
  BY <1>1 DEF RunOf
<1>4. Typed(scanned, O, pv0) /\ Gone(scanned, O, pv0)
  BY <1>2 DEF Owned
<1>5. /\ Len(O) \in Nat /\ DOMAIN O = 1 .. Len(O) /\ K \subseteq PartIds /\ PartIds \cap TableIds = {}
      /\ Nodes = TableIds \cup PartIds
  BY <1>2, <1>4, GoodTypes
<1>6. m \in Nat /\ DOMAIN operations = 1 .. m
  <2>1. \E S : operations \in Seq(S)
    BY DEF IInv, Stacked
  <2> QED
    BY <2>1, Lengths
<1>7. /\ Visible(preview) \subseteq InTable(v, T \ F) /\ InTable(v, P) \subseteq Visible(preview)
      /\ \A p \in T \ F : EntryOf(preview, p) = EntryOf(v, p)
  <2>1. SeenAs(scanned, O, l, c, F, preview)
    BY <1>2, RunVisible
  <2> QED
    BY <2>1 DEF SeenAs
<1>8. /\ Visible(w) \subseteq InTable(v, T \ G) /\ InTable(v, P) \subseteq Visible(w)
      /\ \A p \in T \ G : EntryOf(w, p) = EntryOf(v, p)
  <2> HIDE DEF w, c
  <2>1. SeenAs(scanned, O, l, c, G, w)
    BY <1>2, <1>3, RunVisible
  <2> QED
    BY <2>1 DEF SeenAs
<1>9. /\ t \in TableIds
      /\ \A q \in K : v.parts[q].parent = pv0.parts[q].parent
      /\ \A q \in K : v.parts[q].parent \notin TableIds =>
                           v.parts[q].parent \in K /\ pv0.parts[v.parts[q].parent].role = "extended"
  <2>1. /\ v.table \in TableIds
        /\ \A q \in K : /\ v.parts[q].role = pv0.parts[q].role /\ v.parts[q].parent = pv0.parts[q].parent
                        /\ v.parts[q].parent \notin TableIds =>
                              LET n == v.parts[q].parent IN n \in K /\ v.parts[n].role = "extended"
    BY <1>2, LevelTree
  <2> HIDE DEF v, K
  <2> QED
    BY <2>1
<1>10. /\ preview.table = t /\ \A n \in Nodes : preview.children[n] = (T \ F) \cap Below(pv0, n)
       /\ w.table = t /\ \A n \in Nodes : w.children[n] = (T \ G) \cap Below(pv0, n)
  BY <1>2, <1>3 DEF RunShows
<1>11. \A g \in Ghosts(O, c) :
          /\ g \in K /\ g \notin P /\ pv0.parts[g].role # "extended"
          /\ \E i \in 1 .. c : O[i].kind = "Restore" /\ O[i].over = g /\ g \in Removes(O[i]) /\ g \in Uses(O[i])
  BY <1>2, GhostFacts
<1>12. T = P \cup Ghosts(O, c)
  BY DEF InTree
<1>13. P \subseteq K
  BY DEF Present
<1>14. Visible(w) = w.children[t] \cup UNION { w.children[q] : q \in w.children[t] }
  BY <1>10 DEF Visible
<1>15. ASSUME NEW p \in Visible(preview), p \notin Visible(w) PROVE p \in G \ F
  <2> HIDE DEF v, t, K, P, T, w, c, m
  <2>1. p \in T \ F /\ Root(v, p) = t /\ p \in K
    BY <1>7, <1>11, <1>12, <1>13, <1>15 DEF InTable, t
  <2>2. p \in PartIds
    BY <1>5, <2>1
  <2> SUFFICES ASSUME p \notin G PROVE FALSE
    BY <2>1
  <2>3. CASE v.parts[p].parent \in TableIds
    <3>1. pv0.parts[p].parent = t
      BY <1>9, <2>1, <2>3 DEF Root
    <3>2. p \in w.children[t]
      <4>1. t \in Nodes
        BY <1>5, <1>9
      <4>2. w.children[t] = (T \ G) \cap Below(pv0, t)
        BY <1>10, <4>1
      <4>3. p \in Below(pv0, t)
        BY <2>2, <3>1 DEF Below
      <4> QED
        BY <2>1, <4>2, <4>3
    <3> QED
      BY <1>14, <1>15, <3>2
  <2>4. CASE v.parts[p].parent \notin TableIds
    <3> DEFINE e == v.parts[p].parent
    <3>1. e \in K /\ pv0.parts[e].role = "extended" /\ pv0.parts[p].parent = e /\ v.parts[e].parent = t
      BY <1>9, <2>1, <2>4 DEF Root
    <3>2. pv0.parts[e].parent = t /\ e \in PartIds
      BY <1>5, <1>9, <3>1
    <3>3. p \in preview.children[e] \/ p \in preview.children[t]
      BY <1>5, <1>10, <2>1, <2>2, <3>1, <3>2 DEF Below
    <3>4. e \in preview.children[t]
      <4>1. Visible(preview) = preview.children[t] \cup UNION { preview.children[q] : q \in preview.children[t] }
        BY <1>10 DEF Visible
      <4>2. p \notin preview.children[t]
        BY <1>5, <1>9, <1>10, <3>1, <3>2 DEF Below
      <4>3. PICK q \in preview.children[t] : p \in preview.children[q]
        BY <4>1, <4>2
      <4>4. q \in T \ F /\ q \in PartIds
        BY <1>5, <1>9, <1>10, <4>3 DEF Below
      <4>5. q = e
        BY <1>5, <1>10, <3>1, <4>3, <4>4 DEF Below
      <4> QED
        BY <4>3, <4>5
    <3>5. e \in T
      BY <1>5, <1>9, <1>10, <3>4
    <3>6. e \in P
      BY <1>11, <1>12, <3>1, <3>5
    <3>7. e \in w.children[t]
      BY <1>3, <1>5, <1>9, <1>10, <3>2, <3>5, <3>6 DEF Below, P
    <3>8. p \in w.children[e]
      BY <1>5, <1>10, <2>1, <2>2, <3>1, <3>2 DEF Below
    <3> QED
      BY <1>14, <1>15, <3>7, <3>8
  <2> QED
    BY <2>3, <2>4
<1>16. ASSUME NEW p \in Visible(preview), p \notin Visible(w) PROVE p \in Restored
  <2>1. p \in G \ F
    BY <1>15, <1>16
  <2>2. PICK j \in 1 .. m : p \in Removes(O[j])
    BY <2>1
  <2>3. p \in Ghosts(O, c)
    <3>1. p \in T \ F /\ p \notin P
      BY <1>3, <1>7, <1>16, <2>1 DEF InTable
    <3> HIDE DEF T, P
    <3> QED
      BY <1>12, <3>1
  <2>4. PICK i \in 1 .. c : O[i].kind = "Restore" /\ O[i].over = p /\ p \in Uses(O[i])
    BY <1>11, <2>3
  <2>5. i \in 1 .. m
    <3>1. j \in 1 .. Len(O) /\ i \in 1 .. Len(O) /\ m <= Len(O)
      BY <1>2, <1>5, <1>6
    <3>2. i \notin j + 1 .. Len(O)
      BY <1>4, <1>5, <2>2, <2>4, <3>1 DEF Gone
    <3> HIDE DEF m
    <3> QED
      BY <1>5, <1>6, <3>1, <3>2
  <2>6. operations[i] \in Range(operations) /\ operations[i].kind = "Restore" /\ operations[i].over = p
    BY <1>2, <1>6, <2>4, <2>5 DEF Range
  <2> QED
    BY <2>6 DEF Restored
<1>17. ASSUME NEW p \in Visible(w) PROVE EntryOf(w, p) = EntryOf(preview, p)
  <2> HIDE DEF v, t, K, P, T, w, c, m
  <2>1. p \in T \ G /\ EntryOf(w, p) = EntryOf(v, p)
    BY <1>8, <1>17 DEF InTable
  <2>2. p \in T \ F
    BY <2>1
  <2> QED
    BY <1>7, <2>1, <2>2
<1> QED
  BY <1>16, <1>17 DEF w

\* After the run only clearing changes the preview.
LEMMA ClearKeeps ==
    ASSUME RunnerInv, RunnerNext, thread = "ended"
    PROVE  /\ Visible(preview) \ Visible(preview') \subseteq Restored
           /\ \A p \in Visible(preview') : EntryOf(preview', p) = EntryOf(preview, p)
<1>1. CASE ClearOne
  <2>1. PICK O, pv0, l, F : RunOf(O, pv0, l, F)
    BY DEF RunnerInv, LayoutInv
  <2>2. PICK G : /\ RunOf(O, pv0, l, G)' /\ F \subseteq G
                 /\ \A q \in G \ F : \E j \in 1 .. Len(operations) : q \in Removes(O[j])
    BY <1>1, <2>1, ClearLayout DEF RunnerInv
  <2> QED
    BY <1>1, <2>1, <2>2, GhostCleared DEF RunnerInv
<1>2. CASE ~ ClearOne
  <2>1. Resume
    BY <1>2 DEF RunnerNext, Runner, Edit, Apply, Begin, PassMutex, Start, Execute, Leave, Emit, Cancel, Suspend, Running
  <2>2. preview' = preview
    BY <2>1 DEF Resume, vars
  <2> QED
    BY <2>2
<1> QED
  BY <1>1, <1>2

--------------------------------------------------------------------------------
(* The theorems.                                                           *)

\* What the invariant says of the signal.
LEMMA InvTells == IInv => SignalTellsOutcome
<1> SUFFICES ASSUME IInv PROVE SignalTellsOutcome
  OBVIOUS
<1> DEFINE n      == Len(statuses)
           m      == IF current - 1 <= n THEN current - 1 ELSE n
           done   == { i \in DOMAIN statuses : statuses[i] \in Executed }
           failed == { i \in DOMAIN statuses : statuses[i] = "Error" }
<1>1. DOMAIN statuses = 1 .. n /\ n \in Nat /\ current \in Nat \ {0} /\ m \in Nat
  <2>1. statuses \in Seq(Statuses) /\ current \in Nat \ {0}
    BY DEF IInv, RunTypes
  <2> QED
    BY <2>1, LenProperties
<1>2. done = 1 .. m
  BY <1>1 DEF IInv, Progress
<1>3. Cardinality(done) = m
  <2> HIDE DEF m, done
  <2>1. Cardinality(1 .. m) = IF 1 > m THEN 0 ELSE m - 1 + 1
    BY <1>1, FS_Interval
  <2> QED
    BY <1>1, <1>2, <2>1
<1>4. \A i \in failed : ~ok /\ i = current - 1 /\ i = m
  BY <1>1 DEF IInv, Progress
<1>5. ~ok => current > 1 /\ (current - 1 <= n => current - 1 \in failed)
  BY <1>1 DEF IInv, Progress, Where
<1>6. signal # "none" => n = Len(operations)
  BY DEF IInv, Where, Told
<1>7. signal = "error" => failed # {} \/ Len(operations) < current - 1
  BY <1>1, <1>5, <1>6 DEF IInv, Told
<1>8. signal \in {"cancelled", "finished"} => failed = {}
  BY <1>4 DEF IInv, Told
<1>9. signal = "finished" => done = DOMAIN statuses
  BY <1>1, <1>2 DEF IInv, Told
<1>10. done = 1 .. Cardinality(done) /\ \A i \in failed : done = 1 .. i
  BY <1>2, <1>3, <1>4
<1> QED
  BY <1>7, <1>8, <1>9, <1>10 DEF SignalTellsOutcome

\* The invariant of a run: the operations before the current one, and no others, were executed, and
\* only the last of them can have failed (OperationRunner::run()).
THEOREM RunInvariance == RunnerSpec => []IInv
<1>1. IInv /\ [RunnerNext]_runnerVars => IInv'
  BY StepInv
<1> QED
  BY <1>1, InitInv, PTL DEF RunnerSpec

\* The signal that the runner emits says how the run went, for every device, every stack, every
\* failure and every moment of a cancel (OperationRunner::run()).
THEOREM SignalCorrect == RunnerSpec => []SignalTellsOutcome
<1>1. IInv => SignalTellsOutcome
  BY InvTells
<1> QED
  BY <1>1, RunInvariance, PTL

\* At every moment of a run, and while the stack is cleared after it, the preview shows the
\* layout that the operations executed lead to, and so does the disk unless one failed
\* (OperationRunner::run(), Operation::execute(), preview()).
THEOREM RunKeepsLayout == CarefulFrontEnd => (RunnerSpec => []RunnerInv)
<1> SUFFICES ASSUME CarefulFrontEnd PROVE RunnerSpec => []RunnerInv
  OBVIOUS
<1>1. RunnerInit => RunnerInv
  BY InitInv, LayoutInit DEF RunnerInv
<1>2. RunnerInv /\ [RunnerNext]_runnerVars => RunnerInv'
  BY RunnerStep
<1> QED
  BY <1>1, <1>2, PTL DEF RunnerSpec

\* The jobs of an operation find the disk as their operation expects it, for every stack and
\* whatever was merged in it (Operation::execute() and preview() in OperationRunner::run()).
THEOREM JobsFind == CarefulFrontEnd => (RunnerSpec => []JobsFindTheirPlaces)
  BY RunKeepsLayout, InvFinds, PTL

\* A run that finished has made of the disk what the user saw when applying the stack, and all of
\* it is shown (OperationRunner::run()).
THEOREM PlansAreFulfilled == CarefulFrontEnd => (RunnerSpec => []PlanFulfilled)
  BY RunKeepsLayout, InvFulfils, PTL

\* Clearing the stack after a run, however it ended, takes no partition out of what is shown but
\* one that a restore has overwritten (operation.h: "it no longer owns anything").
THEOREM ClearingKeepsShown == CarefulFrontEnd => (RunnerSpec => ClearKeepsShown)
<1>1. RunnerInv /\ [RunnerNext]_runnerVars =>
         [thread = "ended" => /\ Visible(preview) \ Visible(preview') \subseteq Restored
                              /\ \A p \in Visible(preview') : EntryOf(preview', p) = EntryOf(preview, p)]_runnerVars
  BY ClearKeeps
<1> QED
  BY <1>1, RunKeepsLayout, PTL DEF RunnerSpec, ClearKeepsShown
================================================================================
