----------------------------- MODULE OperationRunner -----------------------------
(***************************************************************************)
(* Applying the stack: the runner's thread executes the operations one by  *)
(* one and previews each after its execution, while the user's thread may  *)
(* suspend it through the mutex or cancel it.  Afterwards the scanner      *)
(* clears the stack, and the operations delete the partitions they own.    *)
(* The disk is the set of entries in the device's partition table.         *)
(*                                                                         *)
(* Before the thread starts, the front end undoes all previews and sets    *)
(* the statuses to StatusNone (see the README).                            *)
(***************************************************************************)
EXTENDS OperationStack

CONSTANT MaxSuspends   \* bound: how often the user suspends a run

VARIABLES disk,        \* the entries of the partition table on the disk
          thread,      \* where the two threads are
          statuses,    \* the operations' statuses while they are not pending
          current,     \* i, the operation to execute next
          ok,          \* "status", the result of the last operation
          cancelling,  \* m_Cancelling
          mutex,       \* who holds m_SuspendMutex
          suspends,    \* bound: how often the run was suspended
          signal,      \* what the runner emitted last
          planned      \* history: the entries shown when the user applied the stack

runVars    == <<disk, thread, statuses, current, ok, cancelling, mutex, suspends, signal, planned>>
runnerVars == <<vars, runVars>>

EntryOf(pv, p) == [first |-> pv.parts[p].first, last |-> pv.parts[p].last,
                   role |-> pv.parts[p].role]
Shown(pv)      == { EntryOf(pv, p) : p \in Visible(pv) }

Executed == {"Success", "Warning", "Error"}
Overwrites(op) == op.kind \in {"Copy", "Restore"} /\ op.over # None

--------------------------------------------------------------------------------
(* Operation::execute(): what the jobs make of the disk, and whether they  *)
(* got as far as giving the created partition the state "None".            *)

Outcomes(status, disks, created) == { [status |-> status, disk |-> d, created |-> created] : d \in disks }

Replaced(old, new) == (disk \ {old}) \cup {new}

\* All jobs did their work.
SuccessDisk(op) ==
    CASE op.kind = "Table"    -> {}
      [] op.kind = "Delete"   -> disk \ {EntryOf(preview, op.part)}
      [] op.kind = "Resize"   -> Replaced(EntryOf(preview, op.part),
                                          [EntryOf(preview, op.part) EXCEPT
                                             !.first = op.newFirst, !.last = op.newLast])
      [] op.kind \in Creating /\ ~Overwrites(op) -> disk \cup {EntryOf(preview, op.part)}
      [] OTHER -> disk

\* The places where a resize that fails may leave its entry (see ResizeOperation).
StrandedAt(op) ==
    LET old     == EntryOf(preview, op.part)
        size    == op.oldLast - op.oldFirst + 1
        newSize == op.newLast - op.newFirst + 1
        shorter == IF newSize < size THEN newSize ELSE size
    IN  {old} \cup { [old EXCEPT !.first = op.newFirst, !.last = l] :
                        l \in {op.newLast, op.newFirst + shorter - 1} }
              \cup { [old EXCEPT !.last = op.oldFirst + shorter - 1] }

\* A job failed: earlier ones have done their work.
Failures(op) ==
    CASE op.kind = "Resize" ->
            Outcomes("Error", { Replaced(EntryOf(preview, op.part), e) : e \in StrandedAt(op) }, FALSE)
      [] op.kind = "New" -> Outcomes("Error", {disk}, FALSE) \cup Outcomes("Error", {SuccessDisk(op)}, TRUE)
      [] op.kind \in {"Copy", "Restore"} ->
            Outcomes("Error", {disk, SuccessDisk(op)}, TRUE) \cup
            (IF op.kind = "Restore" /\ Overwrites(op) THEN {} ELSE Outcomes("Error", {disk}, FALSE))
      [] OTHER -> Outcomes("Error", {disk}, FALSE)

\* Maximizing the file system behind a copy or a restore only warns.
Successes(op) ==
    UNION { Outcomes(s, {SuccessDisk(op)}, op.kind \in Creating) :
              s \in {"Success"} \cup (IF op.kind \in {"Copy", "Restore"} THEN {"Warning"} ELSE {}) }

\* What the jobs find on the disk when they begin.
Feasible(op) ==
    CASE op.kind \in {"Delete", "Resize"} -> EntryOf(preview, op.part) \in disk
      [] Overwrites(op) -> EntryOf(preview, op.part) \in disk
      [] op.kind \in Creating /\ ~Overwrites(op) ->
            \A e \in disk : \/ EntryOf(preview, op.part).role = "logical" /\ e.role = "extended"
                            \/ (e.first .. e.last) \cap Extent(preview, op.part) = {}
      [] OTHER -> TRUE

--------------------------------------------------------------------------------
RunnerInit == /\ Init
              /\ disk = Shown(scanned)
              /\ thread = "idle"
              /\ statuses = <<>>
              /\ current = 1
              /\ ok = TRUE
              /\ cancelling = FALSE
              /\ mutex = "free"
              /\ suspends = 0
              /\ signal = "none"
              /\ planned = {}

\* The user edits the stack.
Edit == thread = "idle" /\ Next /\ UNCHANGED runVars

\* The front end undoes all operations and starts the thread.
Apply == /\ thread = "idle"
         /\ operations # <<>>
         /\ planned' = Shown(preview)
         /\ preview' = Unwound[0]
         /\ statuses' = [i \in DOMAIN operations |-> "None"]
         /\ thread' = "starting"
         /\ UNCHANGED <<operations, scanned, disk, current, ok, cancelling, mutex, suspends, signal>>

\* run() up to the loop.
Begin == /\ thread = "starting"
         /\ cancelling' = FALSE
         /\ thread' = "waiting"
         /\ UNCHANGED <<vars, disk, statuses, current, ok, mutex, suspends, signal, planned>>

\* (mutant) The runner does not unlock the mutex.
KeepMutex == /\ thread = "waiting"
             /\ current <= Len(operations)
             /\ mutex = "free"
             /\ mutex' = "runner"
             /\ thread' = "deciding"
             /\ UNCHANGED <<vars, disk, statuses, current, ok, cancelling, suspends, signal, planned>>

\* The runner locks and unlocks the mutex once.
PassMutex == /\ thread = "waiting"
             /\ current <= Len(operations)
             /\ mutex = "free"
             /\ thread' = "deciding"
             /\ UNCHANGED <<vars, disk, statuses, current, ok, cancelling, mutex, suspends, signal, planned>>

\* (mutant) The loop goes on after an operation that failed.
StartAlways == /\ thread = "deciding"
               /\ ~cancelling
               /\ statuses' = [statuses EXCEPT ![current] = "Running"]
               /\ thread' = "executing"
               /\ UNCHANGED <<vars, disk, current, ok, cancelling, mutex, suspends, signal, planned>>

Start == /\ thread = "deciding"
         /\ ok /\ ~cancelling
         /\ statuses' = [statuses EXCEPT ![current] = "Running"]
         /\ thread' = "executing"
         /\ UNCHANGED <<vars, disk, current, ok, cancelling, mutex, suspends, signal, planned>>

\* (mutant) The operation is not previewed after its execution; the jobs of a resize
\* have set the partition's sectors.
Unpreviewed(op, pv) == IF op.kind = "Resize" THEN Preview(op, pv) ELSE pv

Reviewed(op, pv) == Preview(op, pv)

\* execute() and preview()
Execute ==
    LET op == operations[current] IN
    /\ thread = "executing"
    /\ \E out \in Failures(op) \cup (IF Feasible(op) THEN Successes(op) ELSE {}) :
        /\ disk' = out.disk
        /\ statuses' = [statuses EXCEPT ![current] = out.status]
        /\ ok' = (out.status # "Error")
        /\ preview' = Reviewed(op, IF out.created THEN [preview EXCEPT !.parts[op.part].state = "None"]
                                                  ELSE preview)
    /\ current' = current + 1
    /\ thread' = "waiting"
    /\ UNCHANGED <<operations, scanned, cancelling, mutex, suspends, signal, planned>>

\* The loop ends or breaks.
Leave == /\ \/ thread = "waiting" /\ current > Len(operations)
            \/ thread = "deciding" /\ (~ok \/ cancelling)
         /\ thread' = "leaving"
         /\ UNCHANGED <<vars, disk, statuses, current, ok, cancelling, mutex, suspends, signal, planned>>

\* (mutant) Cancelling is looked at first.
EmitCancelledFirst == /\ thread = "leaving"
                      /\ signal' = IF cancelling THEN "cancelled" ELSE IF ~ok THEN "error" ELSE "finished"
                      /\ thread' = "ended"
                      /\ UNCHANGED <<vars, disk, statuses, current, ok, cancelling, mutex, suspends, planned>>

Emit == /\ thread = "leaving"
        /\ signal' = IF ~ok THEN "error" ELSE IF cancelling THEN "cancelled" ELSE "finished"
        /\ thread' = "ended"
        /\ UNCHANGED <<vars, disk, statuses, current, ok, cancelling, mutex, suspends, planned>>

Running == thread \in {"starting", "waiting", "deciding", "executing", "leaving"}

\* cancel(), also when run() has not got to its first line yet.
Cancel == /\ Running
          /\ cancelling' = TRUE
          /\ UNCHANGED <<vars, disk, thread, statuses, current, ok, mutex, suspends, signal, planned>>

\* The front end holds the mutex while it asks the user.
Suspend == /\ Running
           /\ mutex = "free"
           /\ suspends < MaxSuspends
           /\ mutex' = "user"
           /\ suspends' = suspends + 1
           /\ UNCHANGED <<vars, disk, thread, statuses, current, ok, cancelling, signal, planned>>

Resume == /\ mutex = "user"
          /\ mutex' = "free"
          /\ UNCHANGED <<vars, disk, thread, statuses, current, ok, cancelling, suspends, signal, planned>>

\* m_MustDeleteOverwritten: the overwritten partition was on the disk.
MustDelete(op) == Overwrites(op) /\ op.over \in scanned.live

\* (mutant) The created partition is deleted although the operation was executed.
DestroysCreated(op, status, pv) ==
    IF status \in Executed /\ op.kind \in Creating THEN FreePartition(pv, op.part) ELSE pv

\* The destructor of an operation that was undone (StatusNone) or executed.
Destroyed(op, status, pv) ==
    CASE op.kind = "Delete" /\ status \in Executed -> FreePartition(pv, op.part)
      [] MustDelete(op) /\ status \in Executed     -> FreePartition(pv, op.over)
      [] op.kind = "Format" ->
            FreeFileSystems(pv, {IF pv.parts[op.part].fs = op.new THEN op.old ELSE op.new})
      [] OTHER -> pv

\* clearOperations() after a run: from the last to the first.
ClearOne == /\ thread = "ended"
            /\ operations # <<>>
            /\ preview' = Destroyed(Last(operations), Last(statuses), preview)
            /\ operations' = Front(operations)
            /\ statuses' = Front(statuses)
            /\ UNCHANGED <<scanned, disk, thread, current, ok, cancelling, mutex, suspends, signal, planned>>

Runner == Begin \/ PassMutex \/ Start \/ Execute \/ Leave \/ Emit

RunnerNext == Edit \/ Apply \/ Runner \/ Cancel \/ Suspend \/ Resume \/ ClearOne

\* The thread goes on unless it waits for the mutex; the user answers the question.
RunnerSpec == RunnerInit /\ [][RunnerNext]_runnerVars
              /\ WF_runnerVars(Runner) /\ WF_runnerVars(Resume)

--------------------------------------------------------------------------------
(* Properties                                                              *)

\* The runner's signal says how the run went: operations are executed from the first
\* on, none after one that failed, "error" says that one failed, "cancelled" that none
\* did, "finished" that all were executed (OperationRunner::run()).  The operation that
\* failed may have been cleared since.
SignalTellsOutcome ==
    LET done   == { i \in DOMAIN statuses : statuses[i] \in Executed }
        failed == { i \in DOMAIN statuses : statuses[i] = "Error" }
    IN  /\ done = 1 .. Cardinality(done)
        /\ \A i \in failed : done = 1 .. i
        /\ signal = "error" => failed # {} \/ Len(operations) < current - 1
        /\ signal \in {"cancelled", "finished"} => failed = {}
        /\ signal = "finished" => done = DOMAIN statuses

\* The jobs of the next operation find the disk as their operation expects it: what
\* is shown when the runner previews each operation after its execution is on the disk.
JobsFindTheirPlaces == thread = "executing" => Feasible(operations[current])

\* What a run that finished has made of the disk is what the user saw when applying
\* the stack, whatever was merged, and all of it is shown (OperationRunner::run()).
PlanFulfilled == signal = "finished" => disk = planned /\ disk \subseteq Shown(preview)

\* Nothing else is shown (operation.h: an operation modifies the preview "to show the user a
\* state as if the Operation had already been applied").  It is not so for a partition that
\* a restore overwrites: the constructor takes it out of the preview, undo() puts it back,
\* and preview() does not take it out again.
ShowsNothingElse == signal = "finished" => Shown(preview) \subseteq disk

\* Executed operations own nothing that is left (operation.h: "as soon as an Operation
\* has been successfully executed, it no longer owns anything"): however the run ended,
\* clearing the stack takes no partition out of what is shown but one that a restore has
\* overwritten, and moves none.
Restored == { op.over : op \in { o \in Range(operations) : o.kind = "Restore" } }

ClearKeepsShown ==
    [][thread = "ended" => /\ Visible(preview) \ Visible(preview') \subseteq Restored
                           /\ \A p \in Visible(preview') : EntryOf(preview', p) = EntryOf(preview, p)]_runnerVars

\* A run that was started ends.
RunEnds == thread = "starting" ~> thread = "ended"
================================================================================
