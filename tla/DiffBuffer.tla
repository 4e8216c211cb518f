----------------------------- MODULE DiffBuffer -----------------------------
(***************************************************************************)
(* The synchronisation of the database with the full frontier              *)
(* (persistent_frontier/sync.ml, diff_buffer.ml, the worker's `perform'    *)
(* and its supervisor): notifications are collected in a buffer, a flush   *)
(* job hands them to the worker in batches, and a close copies the rest.   *)
(*                                                                         *)
(* Every wait on a deferred is a step of its own, so that notifications    *)
(* and a close come between the worker's being done, the supervisor's      *)
(* callback and the flush job's going on.  The buffer's timer is created   *)
(* and never started, so there is no flush on a timeout.                   *)
(***************************************************************************)
EXTENDS Integers, Sequences

CONSTANTS
  Diff,            \* the diffs
  FlushCapacity,   \* Capacity.flush
  MaxBatch,        \* bound: diffs in one notification
  MaxDiffs         \* bound: diffs in a behaviour

ASSUME BufferAssumption ==
  /\ FlushCapacity \in Nat \ {0}
  /\ MaxBatch \in Nat \ {0}
  /\ MaxDiffs \in Nat

VARIABLES
  diff_array,   \* the buffer
  flush_job,    \* "none", "waiting" on the worker, "returned"
  thread,       \* of the supervisor: "none", "pending" or "determined"
  work,         \* what the worker has still to apply
  applied,      \* what it has applied
  closing,      \* "open", "waiting", "copying" or "closed"
  raised        \* the exceptions raised

vars == <<diff_array, flush_job, thread, work, applied, closing, raised>>

Capacity_max == 4 * FlushCapacity

should_flush(buffer) == Len(buffer) >= FlushCapacity

Init ==
  /\ diff_array = << >> /\ work = << >> /\ applied = << >>
  /\ flush_job = "none" /\ thread = "none" /\ closing = "open"
  /\ raised = {}

\* Worker_supervisor.assert_not_working, with is_working as it is written.
is_working == thread = "determined"

\* Mutants: the batch is taken for one diff; the buffer is not cleared.
dispatch_as_one(buffer) ==
  /\ diff_array' = << >> /\ flush_job' = "waiting" /\ thread' = "pending"
  /\ work' = Append(work, buffer) /\ UNCHANGED raised

dispatch_without_clear(buffer) ==
  /\ diff_array' = buffer /\ flush_job' = "waiting" /\ thread' = "pending"
  /\ work' = work \o buffer /\ UNCHANGED raised

\* The first part of flush_job: empty the buffer into the worker.
dispatch(buffer) ==
  /\ diff_array' = << >>
  /\ flush_job' = "waiting"
  /\ IF is_working
     THEN raised' = raised \cup {"busy worker"} /\ UNCHANGED <<work, thread>>
     ELSE work' = work \o buffer /\ thread' = "pending" /\ UNCHANGED raised

\* Mutant: flushes although a flush job is under way.
write_in_parallel(diffs) ==
  LET buffer == diff_array \o diffs IN
  /\ raised = {} /\ closing = "open"
  /\ Len(applied \o work \o buffer) <= MaxDiffs
  /\ IF should_flush(buffer) THEN dispatch(buffer)
     ELSE diff_array' = buffer /\ UNCHANGED <<flush_job, thread, work, raised>>
  /\ UNCHANGED <<applied, closing>>

\* Sync.notify.  A notification after the close raises; the frontier that is
\* being closed makes none.
write(diffs) ==
  LET buffer == diff_array \o diffs IN
  /\ raised = {} /\ closing = "open"
  /\ Len(applied \o work \o buffer) <= MaxDiffs
  /\ IF should_flush(buffer) /\ flush_job = "none"
     THEN dispatch(buffer)
     ELSE /\ diff_array' = buffer
          /\ raised' = IF Len(buffer) > Capacity_max
                       THEN {"persistence buffer overflow"} ELSE raised
          /\ UNCHANGED <<flush_job, thread, work>>
  /\ UNCHANGED <<applied, closing>>

\* Worker.perform: one diff in a scheduler cycle.
handle_diff ==
  /\ raised = {} /\ work # << >>
  /\ applied' = Append(applied, Head(work)) /\ work' = Tail(work)
  /\ UNCHANGED <<diff_array, flush_job, thread, closing, raised>>

performed ==
  /\ raised = {} /\ work = << >> /\ thread = "pending"
  /\ thread' = "determined"
  /\ UNCHANGED <<diff_array, flush_job, work, applied, closing, raised>>

\* Mutant: the flush job is not told.
returned_silently ==
  /\ raised = {} /\ thread = "determined"
  /\ thread' = "none"
  /\ UNCHANGED <<diff_array, flush_job, work, applied, closing, raised>>

\* The supervisor's callback, which determines what dispatch returned.
returned ==
  /\ raised = {} /\ thread = "determined"
  /\ thread' = "none" /\ flush_job' = "returned"
  /\ UNCHANGED <<diff_array, work, applied, closing, raised>>

\* Mutant: the flush job ends without another look at the buffer.
flush_ends ==
  /\ raised = {} /\ flush_job = "returned"
  /\ flush_job' = "none"
  /\ UNCHANGED <<diff_array, thread, work, applied, closing, raised>>

\* The rest of flush_job.
flush_goes_on ==
  /\ raised = {} /\ flush_job = "returned"
  /\ IF should_flush(diff_array)
     THEN dispatch(diff_array)
     ELSE /\ flush_job' = "none"
          /\ UNCHANGED <<diff_array, thread, work, raised>>
  /\ UNCHANGED <<applied, closing>>

\* Sync.close: refuse more, wait for the flush job, flush what is left, wait
\* again, close the worker.
close ==
  /\ raised = {} /\ closing = "open"
  /\ closing' = "waiting"
  /\ UNCHANGED <<diff_array, flush_job, thread, work, applied, raised>>

\* Mutant: the rest of the buffer is not flushed.
finish_without_copy ==
  /\ raised = {} /\ closing = "waiting" /\ flush_job = "none"
  /\ closing' = "copying"
  /\ UNCHANGED <<diff_array, flush_job, thread, work, applied, raised>>

finish_copy ==
  /\ raised = {} /\ closing = "waiting" /\ flush_job = "none"
  /\ closing' = "copying"
  /\ IF diff_array # << >>
     THEN dispatch(diff_array)
     ELSE UNCHANGED <<diff_array, flush_job, thread, work, raised>>
  /\ UNCHANGED applied

close_worker ==
  /\ raised = {} /\ closing = "copying" /\ flush_job = "none"
  /\ closing' = "closed"
  /\ raised' = IF is_working THEN {"busy worker"} ELSE {}
  /\ UNCHANGED <<diff_array, flush_job, thread, work, applied>>

Copy == handle_diff \/ performed \/ returned \/ flush_goes_on

Close == finish_copy \/ close_worker

Batch == UNION { [1 .. n -> Diff] : n \in 1 .. MaxBatch }

Next == \/ \E diffs \in Batch : write(diffs)
        \/ Copy \/ close \/ Close

Spec == Init /\ [][Next]_vars

\* The scheduler runs the jobs that are ready.
FairSpec == Spec /\ WF_vars(Copy) /\ WF_vars(Close)

-----------------------------------------------------------------------------
(* Properties. *)

\* Buffer, batch and applied diffs are sequences of diffs, and the flags
\* have their values.
TypeOK ==
  /\ diff_array \in Seq(Diff) /\ work \in Seq(Diff) /\ applied \in Seq(Diff)
  /\ flush_job \in {"none", "waiting", "returned"}
  /\ thread \in {"none", "pending", "determined"}
  /\ closing \in {"open", "waiting", "copying", "closed"}
  /\ raised \subseteq {"busy worker", "persistence buffer overflow"}

\* The worker is busy exactly while the flush job waits for it: a batch is
\* dispatched only to an idle worker, although the supervisor's check lets
\* a busy one through and stops one that is done.
OneBatchAtATime ==
  /\ "busy worker" \notin raised
  /\ thread # "none" <=> flush_job = "waiting"
  /\ work # << >> => thread = "pending"

\* A buffer that is full enough is always being flushed: no notification
\* falls between the last look at the buffer and the end of the flush job.
FullBufferIsFlushed ==
  should_flush(diff_array) => flush_job # "none"

\* A closed synchronisation holds nothing back.
CloseCopiesEverything ==
  closing = "closed" => diff_array = << >> /\ work = << >>

\* What the steps preserve: the above, and that nothing is buffered once the
\* close has handed over the rest.
Inductive ==
  /\ TypeOK /\ OneBatchAtATime /\ FullBufferIsFlushed
  /\ closing \in {"copying", "closed"} => diff_array = << >>
  /\ closing = "closed" => flush_job = "none"

\* The diffs reach the database once each and in their order.
Log == INSTANCE DiffLog WITH pending <- work \o diff_array
ImplementsDiffLog == Log!Spec

\* A close comes to its end, if the buffer did not overflow before.
CloseEnds == closing # "open" ~> closing = "closed"

\* Every diff that is buffered when there are enough of them is applied, if
\* the buffer does not overflow.
FullBufferIsEmptied ==
  should_flush(diff_array) ~> ~should_flush(diff_array) \/ raised # {}
=============================================================================
